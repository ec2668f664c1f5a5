---------------------------- MODULE SessionStore ----------------------------
(***************************************************************************)
(* What the sessions of an account would be if each request were one step: *)
(* a login opens a session on the password and the role there are, an      *)
(* exchange closes the session it replaces, a new password closes all, and *)
(* what is closed stays closed.  But a request that is overtaken, the      *)
(* account or a session having changed since it began, is late; one that   *)
(* is late opens at most one more session, on what it knew, and is over.   *)
(***************************************************************************)
EXTENDS Naturals

CONSTANTS Slots, Roles

VARIABLES
  now,        \* the clock
  account,    \* what a login or an exchange depends on
  opened,     \* sessions: 1 .. opened
  rows,       \* the sessions
  late        \* slots whose request was overtaken

vars == <<now, account, opened, rows, late>>

Account == [exists : BOOLEAN, active : BOOLEAN, deleted : BOOLEAN,
            role : Roles, password : Nat, locked : Nat]

Init ==
  /\ now = 0
  /\ account \in Account
  /\ opened = 0
  /\ rows = [i \in 1 .. opened |-> [live |-> FALSE]]
  /\ late = {}

InGoodStanding == account.exists /\ account.active /\ ~account.deleted

Closed(is) == [i \in 1 .. opened |->
                 IF i \in is THEN [rows[i] EXCEPT !.live = FALSE] ELSE rows[i]]

\* A live session more than those of rs.
Opens(rs, proof, role, parent) ==
  /\ opened' = opened + 1
  /\ rows' = [i \in 1 .. opened + 1 |->
                IF i <= opened THEN rs[i]
                ELSE [live |-> TRUE, proof |-> proof, role |-> role,
                      parent |-> parent]]

\* Slots become late only when the account changes or a session is closed.
Overtakes ==
  /\ late' \in SUBSET Slots
  /\ \/ late' \subseteq late
     \/ account' # account
     \/ \E i \in 1 .. opened : rows'[i].live # rows[i].live

Login(r) ==
  /\ r \notin late /\ InGoodStanding /\ account.locked <= now
  /\ Opens(rows, account.password, account.role, 0)
  /\ account' = [account EXCEPT !.locked = 0]
  /\ Overtakes /\ r \notin late'
  /\ UNCHANGED now

Exchange(r, i) ==
  /\ r \notin late /\ InGoodStanding /\ rows[i].live
  /\ Opens(Closed({i}), rows[i].proof, account.role, i)
  /\ Overtakes /\ r \notin late'
  /\ UNCHANGED <<now, account>>

\* By login (i = 0) or exchange, whatever became of account and session i.
LateOpens(r, i) ==
  /\ r \in late
  /\ \E proof \in 0 .. account.password, role \in Roles :
       Opens(Closed({i}), proof, role, i)
  /\ account' = IF i = 0 THEN [account EXCEPT !.locked = 0] ELSE account
  /\ Overtakes /\ r \notin late'
  /\ UNCHANGED now

Close(is) ==
  /\ rows' = Closed(is)
  /\ Overtakes
  /\ UNCHANGED <<now, account, opened>>

\* Whatever else becomes of the account; a new password closes all sessions.
Alter ==
  /\ account' \in Account
  /\ account.exists => account'.exists
  /\ \/ account'.password = account.password /\ UNCHANGED rows
     \/ account'.password = account.password + 1 /\ rows' = Closed(1 .. opened)
  /\ Overtakes
  /\ UNCHANGED <<now, opened>>

\* A late request ends, opening none.
Leave(r) ==
  /\ r \in late
  /\ late' = late \ {r}
  /\ UNCHANGED <<now, account, opened, rows>>

Tick == now' = now + 1 /\ UNCHANGED <<account, opened, rows, late>>

Next ==
  \/ \E r \in Slots : \/ Login(r)
                      \/ \E i \in 1 .. opened : Exchange(r, i)
                      \/ \E i \in 0 .. opened : LateOpens(r, i)
                      \/ Leave(r)
  \/ \E is \in SUBSET (1 .. opened) : Close(is)
  \/ Alter
  \/ Tick

Spec == Init /\ [][Next]_vars
=============================================================================
