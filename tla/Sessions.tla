------------------------------ MODULE Sessions ------------------------------
(***************************************************************************)
(* One account of AuthService and UsersService: its password, lock, role   *)
(* and standing, and the sessions opened on it, with requests served at    *)
(* the same time.  An action is one await: what a request read it keeps in *)
(* req until it writes.  A password is the number of times it was changed; *)
(* a token is what goes into the JWT, the role and the time of signing, so *)
(* that two tokens of one role and one second are the same token.  What    *)
(* the guard reads of the account and a handler's first query are one.     *)
(*                                                                         *)
(* Part of the state is there to be reasoned about only: late marks a      *)
(* request one of whose facts changed after it read them, and a session    *)
(* that such a request opened; tainted, that one too whose line of         *)
(* refreshes goes back to it; guesses, used and roleSince.                 *)
(***************************************************************************)
EXTENDS Naturals, FiniteSets, Routes

CONSTANTS
  Reqs,           \* slots for requests served at the same time
  MaxAttempts,    \* AUTH.MAX_LOGIN_ATTEMPTS
  LockTime,       \* AUTH.LOCK_DURATION_MINUTES
  SessionLife,    \* AUTH.SESSION_EXPIRY_MS
  AccessLife,     \* auth.jwtExpiresIn
  ResetLife,      \* auth.passwordResetTokenExpiresIn
  Mixes,          \* bounds of one behaviour: the operations in use (a fault is
                  \* one), sessions opened, passwords, and its length
  GivenRoles,     \* bound: the roles the account is given
  MaxSessions, MaxResets, MaxFaults   \* bounds

ASSUME SessionsAssumption ==
  /\ IsFiniteSet(Reqs)
  /\ {MaxAttempts, LockTime, SessionLife, AccessLife, ResetLife}
       \subseteq Nat \ {0}
  /\ GivenRoles \subseteq Roles
  /\ Mixes \subseteq [ops : SUBSET STRING, sessions : 0 .. MaxSessions,
                      passwords : Nat, until : Nat]
  /\ {MaxSessions, MaxResets, MaxFaults} \subseteq Nat

VARIABLES
  mix,            \* fixed
  now,            \* the clock
  user,           \* the row of users
  opened,         \* rows of sessions: 1 .. opened
  sess,           \* the rows
  adminIn,        \* the cookie session of the admin pages names the account
  req,            \* the requests
  issued,         \* reset tokens issued: 1 .. issued
  guesses,        \* wrong passwords tried since a login or a lock
  used,           \* times each reset token changed the password
  roleSince,      \* when the role last changed
  faults

vars == <<mix, now, user, opened, sess, adminIn, req, issued, guesses, used,
          roleSince, faults>>

Ids == 1 .. MaxSessions
Edits == {"update", "remove", "restore"}
Ops == {"none", "login", "page", "guess", "refresh", "change", "forgot",
        "reset", "verify", "register", "create"} \cup Edits

User == [exists : BOOLEAN, password : Nat, role : Roles, active : BOOLEAN,
         deleted : BOOLEAN, attempts : Nat, locked : Nat, verified : BOOLEAN,
         reset : 0 .. MaxResets, resetBy : Nat]
Session == [live : BOOLEAN, role : Roles, iat : Nat, expires : Nat,
            parent : 0 .. MaxSessions, by : Reqs, proof : Nat,
            late : BOOLEAN, tainted : BOOLEAN]
Request == [op : Ops, at : {"idle", "fail", "sign", "write"}, role : Roles,
            attempts : Nat, proof : Nat, iat : Nat,
            id : 0 .. MaxSessions, token : 0 .. MaxResets, late : BOOLEAN]

NoSession == [live |-> FALSE, parent |-> 0]
Idle == [op |-> "none", at |-> "idle", role |-> "USER", attempts |-> 0,
         proof |-> 0, iat |-> 0, id |-> 0, token |-> 0,
         late |-> FALSE]

SessionsTypeOK ==
  /\ mix \in Mixes
  /\ now \in Nat
  /\ user \in User
  /\ opened \in 0 .. MaxSessions
  /\ sess \in [Ids -> Session \cup {NoSession}]
  /\ \A i \in 1 .. opened : sess[i] \in Session
  /\ adminIn \in BOOLEAN
  /\ req \in [Reqs -> Request]
  /\ issued \in 0 .. MaxResets
  /\ guesses \in Nat
  /\ used \in [1 .. MaxResets -> Nat]
  /\ roleSince \in Nat
  /\ faults \in 0 .. MaxFaults

NewUser(role, verified) ==
  [exists |-> TRUE, password |-> 1, role |-> role, active |-> TRUE,
   deleted |-> FALSE, attempts |-> 0, locked |-> 0, verified |-> verified,
   reset |-> 0, resetBy |-> 0]

Init ==
  /\ mix \in Mixes
  /\ now = 0
  /\ user = [NewUser("USER", FALSE) EXCEPT
                !.exists = "register" \notin mix.ops]
  /\ opened = 0
  /\ sess = [i \in Ids |-> NoSession]
  /\ adminIn = FALSE
  /\ req = [r \in Reqs |-> Idle]
  /\ issued = 0
  /\ guesses = 0
  /\ used = [t \in 1 .. MaxResets |-> 0]
  /\ roleSince = 0
  /\ faults = 0

-----------------------------------------------------------------------------
(* Tokens and guards *)

\* What generateTokens() signs; the refresh token of a session is found by it.
Token(i) == <<sess[i].role, sess[i].iat>>
SameToken(i) == {j \in 1 .. opened : Token(j) = Token(i)}

\* Mutant: the access token is not checked for its age.
IgnoreExpiration(i) == user.active /\ ~user.deleted

\* JwtAuthGuard and JwtStrategy.validate: the access token signed with
\* session i has not expired and the account is there and active.
Authenticated(i) ==
  /\ now < sess[i].iat + AccessLife
  /\ user.active /\ ~user.deleted

\* RolesGuard asks the token for the role, not the row.
Serves(i, audience) == Authenticated(i) /\ sess[i].role \in audience

-----------------------------------------------------------------------------
(* How a request reads and writes *)

\* A free slot serves a request of operation op, which reads and goes on.
Reads(r, op, at) ==
  /\ op \in mix.ops /\ req[r].at = "idle"
  /\ req' = [req EXCEPT ![r] = [Idle EXCEPT !.op = op, !.at = at,
                                            !.role = user.role,
                                            !.attempts = user.attempts,
                                            !.proof = user.password]]
  /\ UNCHANGED <<mix, now, user, opened, sess, adminIn, issued, used,
                 roleSince, faults>>

Standing(u) == <<u.password, u.role, u.active, u.deleted, u.locked>>

\* Request x, should the row become u and the sessions s: it is late if they
\* touch what it read.
Overtaken(x, u, s) ==
  [req[x] EXCEPT !.late =
     @ \/ /\ req[x].at # "idle"
          /\ \/ Standing(u) # Standing(user)
             \/ /\ req[x].id # 0
                /\ s[req[x].id].live # sess[req[x].id].live]

\* The database takes user row u and sessions s, from a request of one step ...
WritesAtOnce(u, s) ==
  /\ user' = u
  /\ sess' = s
  /\ req' = [x \in Reqs |-> Overtaken(x, u, s)]

\* ... or from request r, which ends.
Writes(r, u, s) ==
  /\ user' = u
  /\ sess' = s
  /\ req' = [x \in Reqs |-> IF x = r THEN Idle ELSE Overtaken(x, u, s)]

AtWrite(r, op) == req[r].op = op /\ req[r].at = "write"

\* sess after updateMany sets isRevoked on the rows of set is.
Revoked(is) ==
  [i \in Ids |-> IF i \in is THEN [sess[i] EXCEPT !.live = FALSE] ELSE sess[i]]

-----------------------------------------------------------------------------
(* AuthService.login, by the API and by the admin pages *)

\* findUnique and the checks before the password is compared.
MayLogIn == /\ user.exists /\ ~user.deleted
            /\ user.active
            /\ user.locked <= now

LoginReads(r, op) ==
  /\ MayLogIn
  /\ Reads(r, op, "sign")
  /\ UNCHANGED guesses

\* The password is wrong.
GuessReads(r) ==
  /\ MayLogIn
  /\ Reads(r, "guess", "fail")
  /\ guesses' = guesses + 1

\* Mutant: one attempt more.
LocksLate(a) == a > MaxAttempts

Locks(a) == a >= MaxAttempts

\* The count that was read is written back, one higher.
LoginFails(r) ==
  LET a == req[r].attempts + 1
  IN  /\ req[r].at = "fail"
      /\ Writes(r, [user EXCEPT !.attempts = a,
                                !.locked = IF Locks(a) THEN now + LockTime
                                                       ELSE @], sess)
      /\ guesses' = IF Locks(a) THEN 0 ELSE guesses
      /\ UNCHANGED <<mix, now, opened, adminIn, issued, used, roleSince,
                     faults>>

\* Mutant: the payload has no role.
SignedNoRole(r) == "NONE"

\* generateTokens: the role is the one that was read.
SignedRole(r) == req[r].role

Sign(r) ==
  /\ req[r].at = "sign"
  /\ req' = [req EXCEPT ![r].at = "write", ![r].iat = now,
                        ![r].role = SignedRole(r)]
  /\ UNCHANGED <<mix, now, user, opened, sess, adminIn, issued, guesses, used,
                 roleSince, faults>>

\* The row session.create adds; late and tainted as the request is.
NewSession(r) ==
  [live |-> TRUE, role |-> req[r].role, iat |-> req[r].iat,
   expires |-> now + SessionLife, parent |-> req[r].id, by |-> r,
   proof |-> req[r].proof, late |-> req[r].late,
   tainted |-> req[r].late \/ (req[r].id # 0 /\ sess[req[r].id].tainted)]

\* The transaction of login: both statements, whatever happened since.
LoginOpens(r) ==
  /\ req[r].op \in {"login", "page"} /\ req[r].at = "write"
  /\ opened < mix.sessions
  /\ opened' = opened + 1
  /\ Writes(r, [user EXCEPT !.attempts = 0, !.locked = 0],
            [sess EXCEPT ![opened + 1] = NewSession(r)])
  /\ adminIn' = (adminIn \/ req[r].op = "page")
  /\ guesses' = 0
  /\ UNCHANGED <<mix, now, issued, used, roleSince, faults>>

-----------------------------------------------------------------------------
(* Refresh, logout, sessions *)

\* The rows findFirst may return for the refresh token of session i.
Refreshable(i) == {j \in SameToken(i) : sess[j].live /\ now < sess[j].expires}

\* Mutant: the account is not looked at.
RefreshAnyway == TRUE

MayRefresh == user.active /\ ~user.deleted

RefreshReads(r, i) ==
  /\ "refresh" \in mix.ops /\ req[r].at = "idle"
  /\ MayRefresh
  /\ \E j \in Refreshable(i) :
       req' = [req EXCEPT ![r] = [Idle EXCEPT !.op = "refresh", !.at = "sign",
                                              !.role = user.role, !.id = j,
                                              !.proof = sess[j].proof]]
  /\ UNCHANGED <<mix, now, user, opened, sess, adminIn, issued, guesses, used,
                 roleSince, faults>>

\* Mutant: the old row is not revoked.
KeepOld(id) == sess

RevokeOld(id) == [sess EXCEPT ![id].live = FALSE]

\* The transaction of refreshTokens: revoke the row, create its heir.
RefreshSwaps(r) ==
  /\ AtWrite(r, "refresh")
  /\ opened < mix.sessions
  /\ opened' = opened + 1
  /\ Writes(r, user,
            [RevokeOld(req[r].id) EXCEPT ![opened + 1] = NewSession(r)])
  /\ UNCHANGED <<mix, now, adminIn, issued, guesses, used, roleSince, faults>>

\* logout with the refresh token of session j revokes what has that token,
\* without one it revokes all; by the token of session i.
Logout(i, j) ==
  /\ "logout" \in mix.ops
  /\ Serves(i, SessionRoutes.logout)
  /\ \/ WritesAtOnce(user, Revoked(SameToken(j)))
     \/ WritesAtOnce(user, Revoked(1 .. opened))
  /\ UNCHANGED <<mix, now, opened, adminIn, issued, guesses, used, roleSince,
                 faults>>

RevokeSession(i, j) ==
  /\ "logout" \in mix.ops
  /\ Serves(i, SessionRoutes.revokeSession)
  /\ WritesAtOnce(user, Revoked({j}))
  /\ UNCHANGED <<mix, now, opened, adminIn, issued, guesses, used, roleSince,
                 faults>>

\* The admin pages: all sessions are revoked and the cookie forgets it.
AdminLogout ==
  /\ adminIn
  /\ adminIn' = FALSE
  /\ WritesAtOnce(user, Revoked(1 .. opened))
  /\ UNCHANGED <<mix, now, opened, issued, guesses, used, roleSince, faults>>

-----------------------------------------------------------------------------
(* Passwords *)

\* Mutant: the sessions stay.
RevokeNone == sess

RevokeAll == Revoked(1 .. opened)

\* The account's own token and its current password.
ChangeReads(r, i) ==
  /\ Serves(i, SessionRoutes.changePassword)
  /\ Reads(r, "change", "write")
  /\ UNCHANGED guesses

\* The transaction of changePassword.
ChangeWrites(r) ==
  /\ AtWrite(r, "change")
  /\ user.password < mix.passwords
  /\ Writes(r, [user EXCEPT !.password = @ + 1], RevokeAll)
  /\ UNCHANGED <<mix, now, opened, adminIn, issued, guesses, used, roleSince,
                 faults>>

\* forgotPassword: any account that exists; a new token replaces the old one.
ForgotReads(r) ==
  /\ user.exists
  /\ Reads(r, "forgot", "write")
  /\ UNCHANGED guesses

ForgotWrites(r) ==
  /\ AtWrite(r, "forgot")
  /\ issued < MaxResets
  /\ issued' = issued + 1
  /\ Writes(r, [user EXCEPT !.reset = issued + 1,
                            !.resetBy = now + ResetLife], sess)
  /\ UNCHANGED <<mix, now, opened, adminIn, guesses, used, roleSince, faults>>

\* resetPassword: the token is the one in the row, and in time.
ResetReads(r) ==
  /\ "forgot" \in mix.ops /\ req[r].at = "idle"
  /\ user.reset # 0 /\ now < user.resetBy
  /\ req' = [req EXCEPT ![r] = [Idle EXCEPT !.op = "reset", !.at = "write",
                                            !.token = user.reset]]
  /\ UNCHANGED <<mix, now, user, opened, sess, adminIn, issued, guesses, used,
                 roleSince, faults>>

\* Mutant: the token stays in the row.
KeepToken(u) == u

\* A new password, and no token: not one issued since the read either.
ClearToken(u) == [u EXCEPT !.reset = 0, !.resetBy = 0]

ResetWrites(r) ==
  /\ AtWrite(r, "reset")
  /\ user.password < mix.passwords
  /\ Writes(r, ClearToken([user EXCEPT !.password = @ + 1]), RevokeAll)
  /\ used' = [used EXCEPT ![req[r].token] = @ + 1]
  /\ UNCHANGED <<mix, now, opened, adminIn, issued, guesses, roleSince,
                 faults>>

\* verifyEmail, by a token that is null once it was used.
VerifyReads(r) ==
  /\ user.exists /\ ~user.verified
  /\ Reads(r, "verify", "write")
  /\ UNCHANGED guesses

VerifyWrites(r) ==
  /\ AtWrite(r, "verify")
  /\ Writes(r, [user EXCEPT !.verified = TRUE], sess)
  /\ UNCHANGED <<mix, now, opened, adminIn, issued, guesses, used, roleSince,
                 faults>>

-----------------------------------------------------------------------------
(* Accounts: register, and UsersService *)

\* Both look for the email first; user.email is unique, and the loser of a
\* race gets the database's error.
RegisterReads(r) ==
  /\ ~user.exists
  /\ Reads(r, "register", "write")
  /\ UNCHANGED guesses

RegisterWrites(r) ==
  /\ AtWrite(r, "register")
  /\ Writes(r, IF user.exists THEN user ELSE NewUser("USER", FALSE), sess)
  /\ UNCHANGED <<mix, now, opened, adminIn, issued, guesses, used, roleSince,
                 faults>>

CreateReads(r) ==
  /\ ~user.exists
  /\ Reads(r, "create", "write")
  /\ UNCHANGED guesses

\* Created by an administrator: with a role, and verified.
CreateWrites(r) ==
  /\ AtWrite(r, "create")
  /\ \E role \in GivenRoles :
       Writes(r, IF user.exists THEN user ELSE NewUser(role, TRUE), sess)
  /\ roleSince' = IF user.exists THEN roleSince ELSE now
  /\ UNCHANGED <<mix, now, opened, adminIn, issued, guesses, used, faults>>

\* findOne, by another account's administrator: the account is not deleted.
FoundByAdmin(r, op) ==
  /\ user.exists /\ ~user.deleted
  /\ Reads(r, op, "write")
  /\ UNCHANGED guesses

Edit(r, op, u) ==
  /\ AtWrite(r, op)
  /\ Writes(r, u, sess)
  /\ roleSince' = IF u.role # user.role THEN now ELSE roleSince
  /\ UNCHANGED <<mix, now, opened, adminIn, issued, guesses, used, faults>>

\* UsersService.update; sessions and tokens are left alone.
Update(r) ==
  \/ \E role \in GivenRoles : Edit(r, "update", [user EXCEPT !.role = role])
  \/ \E b \in BOOLEAN : Edit(r, "update", [user EXCEPT !.active = b])

Remove(r) == Edit(r, "remove", [user EXCEPT !.deleted = TRUE])

RestoreReads(r) ==
  /\ user.exists /\ user.deleted
  /\ Reads(r, "restore", "write")
  /\ UNCHANGED guesses

Restore(r) == Edit(r, "restore", [user EXCEPT !.deleted = FALSE])

-----------------------------------------------------------------------------

Tick ==
  /\ now < mix.until
  /\ now' = now + 1
  /\ UNCHANGED <<mix, user, opened, sess, adminIn, req, issued, guesses, used,
                 roleSince, faults>>

\* A statement fails, or the process exits: the request is over.
RequestDies(r) ==
  /\ "fault" \in mix.ops /\ faults < MaxFaults /\ faults' = faults + 1
  /\ req[r].at # "idle"
  /\ req' = [req EXCEPT ![r] = Idle]
  /\ UNCHANGED <<mix, now, user, opened, sess, adminIn, issued, guesses, used,
                 roleSince>>

LoginStep(r) ==
  \/ \E op \in {"login", "page"} : LoginReads(r, op)
  \/ GuessReads(r)
  \/ LoginFails(r)
  \/ Sign(r)
  \/ LoginOpens(r)

SessionStep(r) ==
  \/ \E i \in 1 .. opened : RefreshReads(r, i)
  \/ RefreshSwaps(r)

PasswordStep(r) ==
  \/ \E i \in 1 .. opened : ChangeReads(r, i)
  \/ ChangeWrites(r)
  \/ ForgotReads(r)
  \/ ForgotWrites(r)
  \/ ResetReads(r)
  \/ ResetWrites(r)
  \/ VerifyReads(r)
  \/ VerifyWrites(r)

AccountStep(r) ==
  \/ RegisterReads(r)
  \/ RegisterWrites(r)
  \/ CreateReads(r)
  \/ CreateWrites(r)
  \/ FoundByAdmin(r, "update")
  \/ Update(r)
  \/ FoundByAdmin(r, "remove")
  \/ Remove(r)
  \/ RestoreReads(r)
  \/ Restore(r)

Next ==
  \/ Tick
  \/ AdminLogout
  \/ \E i, j \in 1 .. opened : Logout(i, j) \/ RevokeSession(i, j)
  \/ \E r \in Reqs : \/ LoginStep(r)
                     \/ SessionStep(r)
                     \/ PasswordStep(r)
                     \/ AccountStep(r)
                     \/ RequestDies(r)

Spec == Init /\ [][Next]_vars

-----------------------------------------------------------------------------
(* Properties *)

\* Changing or resetting the password closes the account (auth.service 247,
\* 313): a session that still lives on an older password goes back to a
\* request that was under way when the password changed.
OldPasswordsSlipIn ==
  \A i \in 1 .. opened :
    sess[i].live /\ sess[i].proof # user.password => sess[i].tainted

\* What the docs say of refreshTokens: the session is revoked on use, so it is
\* exchanged once (docs/SECURITY.md 62, docs/AUTH.md 22).  It is not: the row
\* is read at 176 and revoked at 206, whatever became of it in between.
Heirs(i) == {j \in 1 .. opened : sess[j].parent = i}

RefreshedOnce == \A i \in 1 .. opened : Cardinality(Heirs(i)) <= 1

\* What the code does keep (auth.service 176-225): a second heir of a session
\* comes from a request that had found the row before it was revoked, and
\* there is room for one of these in each slot.
HeirsBounded ==
  \A i \in 1 .. opened :
    /\ Cardinality(Heirs(i)) <= Cardinality(Reqs)
    /\ Cardinality({j \in Heirs(i) : ~sess[j].late}) <= 1

\* A session is opened for an account that is there and active, with the role
\* it has now; by login, with its password and unlocked; by refresh, from a row
\* that is live.  All of it was checked when the request read, and holds when
\* it writes unless something changed in between.
OpenedInGoodStanding ==
  [][opened' > opened =>
       LET s == sess'[opened']
       IN  ~s.late =>
             /\ user.exists /\ user.active /\ ~user.deleted
             /\ s.role = user.role
             /\ s.parent = 0 => /\ s.proof = user.password
                                /\ user.locked <= now
             /\ s.parent # 0 => sess[s.parent].live]_vars

\* The awaits between what a request reads and what it writes do not show, but
\* for the requests overtaken: without them the sessions are those of a store
\* where each request is one step, where what is closed stays closed and a new
\* password closes all (auth.service 72-215, 247, 313).
AccountNow == [exists |-> user.exists, active |-> user.active,
               deleted |-> user.deleted, role |-> user.role,
               password |-> user.password, locked |-> user.locked]
RowsNow == [i \in 1 .. opened |->
              [live |-> sess[i].live, proof |-> sess[i].proof,
               role |-> sess[i].role, parent |-> sess[i].parent]]
LateNow == {r \in Reqs : req[r].late}

Store == INSTANCE SessionStore WITH
  Slots <- Reqs, account <- AccountNow, rows <- RowsNow, late <- LateNow
KeepsStore == Store!Spec

\* The role in an access token is believed until the token expires: whoever is
\* served a handler that the account's role is no longer good for holds a
\* token that is older than the change, or that was signed by a late request,
\* and loses it within AccessLife of signing.
RolesCatchUp ==
  \A i \in 1 .. opened, audience \in Audiences :
    Serves(i, audience) /\ user.role \notin audience =>
      now < roleSince + AccessLife \/ sess[i].late

\* A reset token changes the password once for each request that finds it.
ResetOnce == \A t \in 1 .. MaxResets : used[t] <= Cardinality(Reqs)

\* What the docs say of login: the account locks after so many failed attempts
\* (docs/AUTH.md 15, docs/SECURITY.md 72).  It does not, when they overlap:
\* the count is written back from what was read (auth.service 94).
Failing == {r \in Reqs : req[r].at = "fail"}

LocksAfterMaxAttempts == guesses < MaxAttempts + Cardinality(Failing)

\* Wrong passwords race each other's count (auth.service 94): each request
\* under way can take the count back to the one it read.  Of each count below
\* the limit a profile says how many requests stand at less; no failed login
\* that is counted leaves the profile as it was or returns to an earlier one.
Levels == 1 .. MaxAttempts - 1
Profiles ==
  {p \in [Levels -> 0 .. Cardinality(Reqs)] :
     \A i, j \in Levels : i <= j => p[i] <= p[j]}

\* So between two locks or logins an account takes more wrong passwords than
\* MaxAttempts, though no more than it has profiles, and those whose count is
\* lost or still to be written.
GuessesBounded ==
  guesses <= Cardinality(Profiles) - 1 + Cardinality(Reqs) + faults
=============================================================================
