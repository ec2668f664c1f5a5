--------------------------- MODULE DispatchLedger ---------------------------
(***************************************************************************)
(* What sending a campaign promises for each contact, with no requests, no *)
(* batches and no lifecycle status: a contact is enrolled once, a start of *)
(* the campaign is a ticket, a ticket buys at most one provider call for a *)
(* contact, and an entry is settled only after a call and for good.        *)
(***************************************************************************)
EXTENDS Naturals

CONSTANTS Contacts, Tickets

VARIABLES
  phase,    \* "ABSENT", "OPEN" or "DELETED"
  issued,   \* tickets handed out
  book,     \* entry of each contact
  calls     \* provider calls bought with each ticket for each contact

vars == <<phase, issued, book, calls>>

Settled == {"SENT", "FAILED"}
Blank   == [c \in Contacts |-> "NONE"]

Init ==
  /\ phase = "ABSENT"
  /\ issued = {}
  /\ book = Blank
  /\ calls = [t \in Tickets |-> [c \in Contacts |-> 0]]

Open ==
  /\ phase = "ABSENT" /\ phase' = "OPEN"
  /\ UNCHANGED <<issued, book, calls>>

Enroll(c) ==
  /\ phase = "OPEN" /\ book[c] = "NONE"
  /\ book' = [book EXCEPT ![c] = "PENDING"]
  /\ UNCHANGED <<phase, issued, calls>>

Issue(t) ==
  /\ phase = "OPEN" /\ t \notin issued
  /\ issued' = issued \cup {t}
  /\ UNCHANGED <<phase, book, calls>>

\* The only way to reach a contact: once for each ticket, and never for a
\* contact that is not in the book (a deleted book is not read any more, but
\* calls decided before may still go out).
Call(t, c) ==
  /\ t \in issued /\ calls[t][c] = 0
  /\ phase = "OPEN" => book[c] # "NONE"
  /\ calls' = [calls EXCEPT ![t][c] = 1]
  /\ UNCHANGED <<phase, issued, book>>

Settle(c, outcome) ==
  /\ book[c] # "NONE"
  /\ \E t \in issued : calls[t][c] = 1
  /\ book' = [book EXCEPT ![c] = outcome]
  /\ UNCHANGED <<phase, issued, calls>>

Close ==
  /\ phase = "OPEN" /\ phase' = "DELETED"
  /\ book' = Blank
  /\ UNCHANGED <<issued, calls>>

Next ==
  \/ Open
  \/ \E c \in Contacts : Enroll(c)
  \/ \E t \in Tickets : Issue(t)
  \/ \E t \in Tickets, c \in Contacts : Call(t, c)
  \/ \E c \in Contacts, outcome \in Settled : Settle(c, outcome)
  \/ Close

Spec == Init /\ [][Next]_vars
=============================================================================
