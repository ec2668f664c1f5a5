--------------------------- MODULE SessionsProofs ---------------------------
(***************************************************************************)
(* Theorems of Sessions, for any number of requests and sessions, any      *)
(* lifetimes and any mix of operations.                                    *)
(*                                                                         *)
(* The invariant says what a request under way may rely on: what it read   *)
(* is still so unless it is late (Relies); and how a row got to be what it *)
(* is (Rows, Lines).                                                       *)
(***************************************************************************)
EXTENDS Sessions, FiniteSetTheorems, TLAPS

\* What request q relies on when the row is u, the sessions s, n of them, and
\* the time t.
Relies(q, u, s, n, t) ==
  /\ q.at = "idle" <=> q.op = "none"
  /\ q.at = "sign" => q.op \in {"login", "page", "refresh"}
  /\ q.iat <= t
  /\ q.op \in {"login", "page"} => u.exists /\ q.id = 0
  /\ q.op = "refresh" => q.id \in 1 .. n /\ q.proof = s[q.id].proof
  /\ ~q.late /\ q.op \in {"login", "page", "refresh"} =>
       u.active /\ ~u.deleted /\ q.role = u.role
  /\ ~q.late /\ q.op \in {"login", "page"} =>
       q.proof = u.password /\ u.locked <= t
  /\ ~q.late /\ q.op = "refresh" => s[q.id].live

\* A row that is live on an old password, or has a role the account has no
\* more, was opened late, or goes back to one that was, or is old.
Row(s, u, t, since) ==
  /\ s.iat <= t
  /\ s.live /\ s.proof # u.password => s.tainted
  /\ s.role # u.role => s.iat <= since \/ s.late

Rows ==
  /\ opened > 0 => user.exists
  /\ roleSince <= now
  /\ \A i \in 1 .. opened : Row(sess[i], user, now, roleSince)

\* A live row has no heirs; one request makes no two heirs of one row, and two
\* that are not late make none together.
Lines ==
  /\ \A j \in 1 .. opened : sess[j].parent < j
  /\ \A j \in 1 .. opened : sess[j].parent # 0 => ~sess[sess[j].parent].live
  /\ \A r \in Reqs, j \in 1 .. opened :
       req[r].op = "refresh" /\ sess[j].parent = req[r].id => sess[j].by # r
  /\ \A j, k \in 1 .. opened :
       sess[j].parent # 0 /\ sess[j].parent = sess[k].parent /\ j # k =>
         sess[j].by # sess[k].by /\ (sess[j].late \/ sess[k].late)

Requests == \A r \in Reqs : Relies(req[r], user, sess, opened, now)

SessionsInv == SessionsTypeOK /\ Requests /\ Rows /\ Lines

-----------------------------------------------------------------------------
(* The operators a step is made of *)

LEMMA BoundsAre ==
  /\ MaxSessions \in Nat /\ MaxResets \in Nat /\ MaxFaults \in Nat
  /\ LockTime \in Nat /\ ResetLife \in Nat /\ SessionLife \in Nat
  /\ GivenRoles \subseteq Roles
BY SessionsAssumption DEF SessionsAssumption

LEMMA IdleType == Idle \in Request
BY SessionsAssumption DEF Idle, Request, Ops, Edits, SessionsAssumption, Roles

LEMMA OvertakenIs ==
  ASSUME SessionsTypeOK, NEW x \in Reqs, NEW u, NEW s
  PROVE  LET q == Overtaken(x, u, s)
         IN  /\ q \in Request
             /\ q.op = req[x].op /\ q.at = req[x].at /\ q.role = req[x].role
             /\ q.proof = req[x].proof /\ q.iat = req[x].iat
             /\ q.id = req[x].id
             /\ ~q.late => /\ ~req[x].late
                           /\ req[x].at # "idle" =>
                                /\ Standing(u) = Standing(user)
                                /\ req[x].id # 0 =>
                                     s[req[x].id].live = sess[req[x].id].live
<1>1. req[x] \in Request
  BY DEF SessionsTypeOK
<1> DEFINE b == \/ req[x].late
                \/ /\ req[x].at # "idle"
                   /\ \/ Standing(u) # Standing(user)
                      \/ /\ req[x].id # 0
                         /\ s[req[x].id].live # sess[req[x].id].live
<1>2. Overtaken(x, u, s) = [req[x] EXCEPT !.late = b]
  BY DEF Overtaken
<1>3. b \in BOOLEAN
  BY <1>1 DEF Request
<1> HIDE DEF b
<1>4. LET q == Overtaken(x, u, s)
      IN  /\ q \in Request
          /\ q.op = req[x].op /\ q.at = req[x].at /\ q.role = req[x].role
          /\ q.proof = req[x].proof /\ q.iat = req[x].iat
          /\ q.id = req[x].id
          /\ q.late = b
  BY <1>1, <1>2, <1>3 DEF Request
<1>5. QED
  BY <1>4 DEF b

LEMMA StandingIs ==
  ASSUME NEW u, NEW v, Standing(u) = Standing(v)
  PROVE  /\ u.password = v.password /\ u.role = v.role
         /\ u.active = v.active /\ u.deleted = v.deleted
         /\ u.locked = v.locked
BY DEF Standing

\* The requests that a write leaves under way still have what they rely on.
LEMMA OvertakenRelies ==
  ASSUME SessionsTypeOK, Requests, NEW x \in Reqs, NEW u \in User,
         NEW s, NEW n \in Nat, opened <= n,
         user.exists => u.exists,
         \A i \in 1 .. opened : s[i].proof = sess[i].proof
  PROVE  Relies(Overtaken(x, u, s), u, s, n, now)
<1>1. Relies(req[x], user, sess, opened, now) /\ req[x] \in Request
  BY DEF Requests, SessionsTypeOK
<1>2. CASE Overtaken(x, u, s).late
  BY <1>1, <1>2, OvertakenIs DEF Relies, SessionsTypeOK
<1>3. CASE ~Overtaken(x, u, s).late
  <2>1. CASE req[x].at = "idle"
    BY <1>1, <1>3, <2>1, OvertakenIs DEF Relies, SessionsTypeOK
  <2>2. CASE req[x].at # "idle"
    <3>1. Standing(u) = Standing(user)
      BY <1>3, <2>2, OvertakenIs
    <3>2. QED
      BY <1>1, <1>3, <2>2, <3>1, OvertakenIs, StandingIs
      DEF Relies, SessionsTypeOK, Request
  <2>3. QED
    BY <2>1, <2>2
<1>4. QED
  BY <1>2, <1>3

LEMMA RevokedIs ==
  ASSUME SessionsTypeOK, NEW is \in SUBSET (1 .. opened)
  PROVE  /\ Revoked(is) \in [Ids -> Session \cup {NoSession}]
         /\ \A i \in 1 .. opened :
              LET s == Revoked(is)[i]
              IN  /\ s \in Session
                  /\ s.role = sess[i].role /\ s.iat = sess[i].iat
                  /\ s.parent = sess[i].parent /\ s.by = sess[i].by
                  /\ s.proof = sess[i].proof /\ s.late = sess[i].late
                  /\ s.tainted = sess[i].tainted
                  /\ s.live = (sess[i].live /\ i \notin is)
<1>1. 1 .. opened \subseteq Ids
  BY SessionsAssumption DEF SessionsAssumption, SessionsTypeOK, Ids
<1>2. ASSUME NEW i \in 1 .. opened
      PROVE  LET s == Revoked(is)[i]
             IN  /\ s \in Session
                 /\ s.role = sess[i].role /\ s.iat = sess[i].iat
                 /\ s.parent = sess[i].parent /\ s.by = sess[i].by
                 /\ s.proof = sess[i].proof /\ s.late = sess[i].late
                 /\ s.tainted = sess[i].tainted
                 /\ s.live = (sess[i].live /\ i \notin is)
  <2>1. sess[i] \in Session
    BY DEF SessionsTypeOK
  <2>2. CASE i \in is
    <3>1. Revoked(is)[i] = [sess[i] EXCEPT !.live = FALSE]
      BY <1>1, <2>2 DEF Revoked
    <3>2. QED
      BY <2>1, <2>2, <3>1 DEF Session
  <2>3. CASE i \notin is
    <3>1. Revoked(is)[i] = sess[i]
      BY <1>1, <2>3 DEF Revoked
    <3>2. QED
      BY <2>1, <2>3, <3>1 DEF Session
  <2>4. QED
    BY <2>2, <2>3
<1>3. ASSUME NEW i \in Ids
      PROVE  Revoked(is)[i] \in Session \cup {NoSession}
  BY <1>2 DEF Revoked, SessionsTypeOK
<1>4. QED
  BY <1>2, <1>3 DEF Revoked

\* A request that reads, anything but a refresh.
LEMMA ReadsStep ==
  ASSUME SessionsInv, NEW r \in Reqs, NEW op \in Ops \ {"none", "refresh"},
         NEW at \in {"fail", "sign", "write"}, Reads(r, op, at),
         guesses' \in Nat,
         op \in {"login", "page"} => MayLogIn,
         at = "sign" => op \in {"login", "page"}
  PROVE  SessionsInv'
<1> DEFINE q == [Idle EXCEPT !.op = op, !.at = at, !.role = user.role,
                             !.attempts = user.attempts,
                             !.proof = user.password]
<1>1. user \in User
  BY DEF SessionsInv, SessionsTypeOK
<1>2. /\ q \in Request
      /\ q.op = op /\ q.at = at /\ q.role = user.role /\ q.iat = 0
      /\ q.proof = user.password /\ q.id = 0 /\ q.late = FALSE
  BY <1>1, IdleType DEF Idle, Request, User
<1>3. req' = [req EXCEPT ![r] = q]
  BY DEF Reads
<1> HIDE DEF q
<1>4. SessionsTypeOK'
  BY <1>2, <1>3 DEF SessionsInv, SessionsTypeOK, Reads
<1>5. Relies(q, user, sess, opened, now)
  BY <1>2 DEF Relies, MayLogIn, SessionsInv, SessionsTypeOK
<1>6. Requests'
  BY <1>3, <1>5 DEF Requests, SessionsInv, Reads, SessionsTypeOK
<1>7. Rows'
  BY DEF Rows, SessionsInv, Reads
<1>8. Lines'
  BY <1>2, <1>3 DEF Lines, SessionsInv, Reads, SessionsTypeOK
<1>9. QED
  BY <1>4, <1>6, <1>7, <1>8 DEF SessionsInv

\* A write that opens no session.  It may change the password of an account
\* if it revokes all sessions, and the role if it notes the time.
LEMMA WritesStep ==
  ASSUME SessionsInv, NEW r, NEW u \in User, NEW is \in SUBSET (1 .. opened),
         Writes(r, u, Revoked(is)) \/ WritesAtOnce(u, Revoked(is)),
         user.exists => u.exists,
         user.exists /\ u.password # user.password => is = 1 .. opened,
         user.exists /\ u.role # user.role => roleSince' = now,
         roleSince' \in {roleSince, now},
         UNCHANGED <<mix, now, opened>>,
         adminIn' \in BOOLEAN, issued' \in 0 .. MaxResets, guesses' \in Nat,
         used' \in [1 .. MaxResets -> Nat], faults' \in 0 .. MaxFaults
  PROVE  SessionsInv'
<1> DEFINE s == Revoked(is)
<1>1. /\ s \in [Ids -> Session \cup {NoSession}]
      /\ \A i \in 1 .. opened :
           /\ s[i] \in Session
           /\ s[i].role = sess[i].role /\ s[i].iat = sess[i].iat
           /\ s[i].parent = sess[i].parent /\ s[i].by = sess[i].by
           /\ s[i].proof = sess[i].proof /\ s[i].late = sess[i].late
           /\ s[i].tainted = sess[i].tainted
           /\ s[i].live = (sess[i].live /\ i \notin is)
  BY RevokedIs DEF SessionsInv
<1> HIDE DEF s
<1>2. user' = u /\ sess' = s
  BY DEF Writes, WritesAtOnce, s
<1>3. ASSUME NEW x \in Reqs
      PROVE  req'[x] = Idle \/ req'[x] = Overtaken(x, u, s)
  BY DEF Writes, WritesAtOnce, s
<1>4. opened \in Nat /\ now \in Nat /\ roleSince \in Nat
  BY DEF SessionsInv, SessionsTypeOK
<1>5. ASSUME NEW x \in Reqs
      PROVE  /\ req'[x] \in Request
             /\ Relies(req'[x], u, s, opened, now)
             /\ req'[x].op = "refresh" =>
                  req[x].op = "refresh" /\ req'[x].id = req[x].id
  <2>1. CASE req'[x] = Idle
    BY <2>1, <1>4, IdleType DEF Relies, Idle
  <2>2. CASE req'[x] = Overtaken(x, u, s)
    BY <2>2, <1>1, <1>4, OvertakenIs, OvertakenRelies DEF SessionsInv
  <2>3. QED
    BY <1>3, <2>1, <2>2
<1>6. req' \in [Reqs -> Request]
  <2>1. req' = [x \in Reqs |-> req'[x]]
    BY DEF Writes, WritesAtOnce
  <2>2. QED
    BY <2>1, <1>5
<1>7. SessionsTypeOK'
  BY <1>1, <1>2, <1>4, <1>6 DEF SessionsInv, SessionsTypeOK
<1>8. Requests'
  BY <1>2, <1>5 DEF Requests
<1>9. Rows'
  <2>1. CASE user.exists
    <3>1. ASSUME NEW i \in 1 .. opened
          PROVE  Row(s[i], u, now, roleSince')
      <4>1. Row(sess[i], user, now, roleSince) /\ roleSince <= now
        BY DEF SessionsInv, Rows
      <4>2. sess[i] \in Session
        BY DEF SessionsInv, SessionsTypeOK
      <4>3. QED
        BY <4>1, <4>2, <1>1, <1>4, <2>1 DEF Row, Session
    <3>2. QED
      BY <3>1, <1>2, <1>4, <2>1 DEF Rows, SessionsInv
  <2>2. CASE ~user.exists
    BY <2>2, <1>2, <1>4 DEF Rows, SessionsInv
  <2>3. QED
    BY <2>1, <2>2
<1>10. Lines'
  <2>1. ASSUME NEW i \in 1 .. opened
        PROVE  sess[i] \in Session /\ sess[i].parent < i
    BY DEF SessionsInv, SessionsTypeOK, Lines
  <2>2. ASSUME NEW i \in 1 .. opened, sess[i].parent # 0
        PROVE  ~s[sess[i].parent].live
    <3>1. sess[i].parent \in 1 .. opened
      BY <1>4, <2>1, <2>2 DEF Session
    <3>2. QED
      BY <3>1, <1>1, <2>2 DEF SessionsInv, Lines
  <2>3. QED
    BY <1>1, <1>2, <1>4, <1>5, <2>1, <2>2 DEF SessionsInv, Lines
<1>11. QED
  BY <1>7, <1>8, <1>9, <1>10 DEF SessionsInv

LEMMA RevokedNone ==
  ASSUME SessionsTypeOK PROVE sess = Revoked({})
BY DEF SessionsTypeOK, Revoked

LEMMA RevokedOld ==
  ASSUME SessionsTypeOK, NEW id \in 1 .. opened
  PROVE  RevokeOld(id) = Revoked({id})
<1>1. id \in Ids
  BY SessionsAssumption DEF SessionsAssumption, SessionsTypeOK, Ids
<1>2. QED
  BY <1>1 DEF SessionsTypeOK, Revoked, RevokeOld

LEMMA NewSessionIs ==
  ASSUME SessionsInv, NEW r \in Reqs
  PROVE  LET n == NewSession(r)
         IN  /\ n \in Session
             /\ n.live = TRUE /\ n.role = req[r].role /\ n.iat = req[r].iat
             /\ n.parent = req[r].id /\ n.by = r
             /\ n.proof = req[r].proof /\ n.late = req[r].late
             /\ n.tainted = (req[r].late \/
                              (req[r].id # 0 /\ sess[req[r].id].tainted))
<1>1. req[r] \in Request
  BY DEF SessionsInv, SessionsTypeOK
<1>2. now + SessionLife \in Nat
  BY SessionsAssumption DEF SessionsAssumption, SessionsInv, SessionsTypeOK
<1> DEFINE b == req[r].late \/ (req[r].id # 0 /\ sess[req[r].id].tainted)
<1>3. b \in BOOLEAN
  OBVIOUS
<1> HIDE DEF b
<1>4. NewSession(r) = [live |-> TRUE, role |-> req[r].role,
                       iat |-> req[r].iat, expires |-> now + SessionLife,
                       parent |-> req[r].id, by |-> r, proof |-> req[r].proof,
                       late |-> req[r].late, tainted |-> b]
  BY DEF NewSession, b
<1>5. LET n == NewSession(r)
      IN  /\ n \in Session
          /\ n.live = TRUE /\ n.role = req[r].role /\ n.iat = req[r].iat
          /\ n.parent = req[r].id /\ n.by = r
          /\ n.proof = req[r].proof /\ n.late = req[r].late
          /\ n.tainted = b
  BY <1>1, <1>2, <1>3, <1>4 DEF Request, Session
<1>6. QED
  BY <1>5 DEF b

\* A login or a refresh writes: it revokes the row it goes back to, if there
\* is one, and opens a session.
LEMMA OpensStep ==
  ASSUME SessionsInv, NEW r \in Reqs, req[r].at = "write",
         req[r].op \in {"login", "page", "refresh"},
         NEW u \in User, u.exists = user.exists,
         u.password = user.password, u.role = user.role,
         NEW is \in SUBSET (1 .. opened),
         req[r].op = "refresh" => is = {req[r].id},
         opened < mix.sessions, opened' = opened + 1,
         Writes(r, u, [Revoked(is) EXCEPT ![opened + 1] = NewSession(r)]),
         UNCHANGED <<mix, now, issued, used, roleSince, faults>>,
         adminIn' \in BOOLEAN, guesses' \in Nat
  PROVE  SessionsInv'
<1> DEFINE n == opened + 1
           new == NewSession(r)
           s == [Revoked(is) EXCEPT ![n] = new]
<1>1. /\ opened \in Nat /\ n \in Ids /\ n \in 1 .. MaxSessions
      /\ n \notin 1 .. opened
      /\ now \in Nat /\ roleSince \in Nat
      /\ 1 .. n = 1 .. opened \cup {n}
  <2>1. mix.sessions \in 0 .. MaxSessions /\ MaxSessions \in Nat
    BY SessionsAssumption DEF SessionsAssumption, SessionsInv, SessionsTypeOK
  <2>2. QED
    BY <2>1 DEF SessionsInv, SessionsTypeOK, Ids
<1>2. /\ new \in Session
      /\ new.live = TRUE /\ new.role = req[r].role /\ new.iat = req[r].iat
      /\ new.parent = req[r].id /\ new.by = r
      /\ new.proof = req[r].proof /\ new.late = req[r].late
      /\ new.tainted = (req[r].late \/
                         (req[r].id # 0 /\ sess[req[r].id].tainted))
  BY NewSessionIs
<1>3. /\ Revoked(is) \in [Ids -> Session \cup {NoSession}]
      /\ \A i \in 1 .. opened :
           LET t == Revoked(is)[i]
           IN  /\ t \in Session
               /\ t.role = sess[i].role /\ t.iat = sess[i].iat
               /\ t.parent = sess[i].parent /\ t.by = sess[i].by
               /\ t.proof = sess[i].proof /\ t.late = sess[i].late
               /\ t.tainted = sess[i].tainted
               /\ t.live = (sess[i].live /\ i \notin is)
  BY RevokedIs DEF SessionsInv
<1> HIDE DEF new
<1>4. s[n] = new /\ s \in [Ids -> Session \cup {NoSession}]
  BY <1>1, <1>2, <1>3
<1>5. \A i \in 1 .. opened :
        /\ s[i] \in Session
        /\ s[i].role = sess[i].role /\ s[i].iat = sess[i].iat
        /\ s[i].parent = sess[i].parent /\ s[i].by = sess[i].by
        /\ s[i].proof = sess[i].proof /\ s[i].late = sess[i].late
        /\ s[i].tainted = sess[i].tainted
        /\ s[i].live = (sess[i].live /\ i \notin is)
  <2>1. ASSUME NEW i \in 1 .. opened PROVE s[i] = Revoked(is)[i]
    BY <1>1, <1>3
  <2>2. QED
    BY <2>1, <1>3
<1>6. user' = u /\ sess' = s
  BY DEF Writes, new
<1> HIDE DEF s
<1>7. req' = [x \in Reqs |-> IF x = r THEN Idle ELSE Overtaken(x, u, s)]
  BY DEF Writes, s, new
<1>8. ASSUME NEW x \in Reqs
      PROVE  /\ req'[x] \in Request
             /\ Relies(req'[x], u, s, n, now)
             /\ req'[x].op = "refresh" =>
                  x # r /\ req[x].op = "refresh" /\ req'[x].id = req[x].id
  <2>1. CASE x = r
    BY <2>1, <1>1, <1>7, IdleType DEF Relies, Idle
  <2>2. CASE x # r
    BY <2>2, <1>1, <1>5, <1>7, OvertakenIs, OvertakenRelies DEF SessionsInv
  <2>3. QED
    BY <2>1, <2>2
<1>9. SessionsTypeOK'
  <2>1. req' \in [Reqs -> Request]
    BY <1>7, <1>8
  <2>2. \A i \in 1 .. n : sess'[i] \in Session
    BY <1>1, <1>2, <1>4, <1>5, <1>6
  <2>3. opened' \in 0 .. MaxSessions
    BY <1>1
  <2>4. QED
    BY <2>1, <2>2, <2>3, <1>1, <1>4, <1>6 DEF SessionsInv, SessionsTypeOK
<1>10. Requests'
  BY <1>6, <1>8 DEF Requests
<1>11. req[r] \in Request /\ Relies(req[r], user, sess, opened, now)
  BY DEF SessionsInv, SessionsTypeOK, Requests
<1>12. Rows'
  <2>1. user.exists
    BY <1>11, <1>1 DEF Relies, SessionsInv, Rows
  <2>2. ASSUME NEW i \in 1 .. opened PROVE Row(s[i], u, now, roleSince)
    BY <1>5 DEF SessionsInv, Rows, Row
  <2>3. Row(new, u, now, roleSince)
    <3>1. new.proof # u.password => new.tainted
      <4>1. CASE req[r].op = "refresh"
        <5>1. Row(sess[req[r].id], user, now, roleSince)
          BY <4>1, <1>11 DEF Relies, SessionsInv, Rows
        <5>2. CASE req[r].late
          BY <5>2, <1>2
        <5>3. CASE ~req[r].late
          <6>1. /\ sess[req[r].id].live /\ new.proof = sess[req[r].id].proof
                /\ req[r].id # 0
            BY <4>1, <5>3, <1>1, <1>2, <1>11 DEF Relies
          <6>2. QED
            BY <5>1, <6>1, <1>2 DEF Row
        <5>4. QED
          BY <5>2, <5>3
      <4>2. CASE req[r].op # "refresh"
        BY <4>2, <1>2, <1>11 DEF Relies
      <4>3. QED
        BY <4>1, <4>2
    <3>2. QED
      BY <3>1, <1>2, <1>11 DEF Relies, Row
  <2>4. QED
    BY <2>1, <2>2, <2>3, <1>1, <1>4, <1>6 DEF Rows, SessionsInv
<1>13. Lines'
  <2>1. ASSUME NEW i \in 1 .. opened
        PROVE  /\ sess[i] \in Session /\ sess[i].parent < i
               /\ sess[i].parent # 0 => /\ sess[i].parent \in 1 .. opened
                                        /\ ~sess[sess[i].parent].live
               /\ s[i].parent = sess[i].parent
    BY <1>1, <1>5 DEF SessionsInv, SessionsTypeOK, Lines, Session
  <2>2. CASE req[r].op = "refresh"
    <3>1. req[r].id \in 1 .. opened
      BY <2>2, <1>11 DEF Relies
    <3>2. ASSUME NEW j \in 1 .. opened, sess[j].parent = req[r].id
          PROVE  sess[j].by # r /\ req[r].late
      BY <2>1, <2>2, <1>11, <3>1, <3>2 DEF Relies, SessionsInv, Lines
    <3>3. ~s[req[r].id].live
      BY <2>2, <3>1, <1>5
    <3>4. \A j \in 1 .. n : s[j].parent < j
      BY <1>1, <1>2, <1>4, <2>1, <3>1
    <3>5. \A j \in 1 .. n : s[j].parent # 0 => ~s[s[j].parent].live
      <4>1. ASSUME NEW j \in 1 .. opened, s[j].parent # 0
            PROVE  ~s[s[j].parent].live
        BY <4>1, <1>5, <2>1
      <4>2. s[n].parent = req[r].id
        BY <1>2, <1>4
      <4>3. QED
        BY <4>1, <4>2, <1>1, <3>3
    <3>6. \A x \in Reqs, j \in 1 .. n :
            req'[x].op = "refresh" /\ s[j].parent = req'[x].id => s[j].by # x
      BY <1>1, <1>2, <1>4, <1>5, <1>8 DEF SessionsInv, Lines
    <3>7. \A j, k \in 1 .. n :
            s[j].parent # 0 /\ s[j].parent = s[k].parent /\ j # k =>
              s[j].by # s[k].by /\ (s[j].late \/ s[k].late)
      BY <1>1, <1>2, <1>4, <1>5, <3>2 DEF SessionsInv, Lines
    <3>8. QED
      BY <3>4, <3>5, <3>6, <3>7, <1>6 DEF Lines
  <2>3. CASE req[r].op # "refresh"
    <3>1. new.parent = 0
      BY <2>3, <1>2, <1>11 DEF Relies
    <3>2. \A j \in 1 .. n : s[j].parent < j
      BY <1>1, <1>4, <2>1, <3>1
    <3>3. \A j \in 1 .. n : s[j].parent # 0 => ~s[s[j].parent].live
      BY <1>1, <1>4, <1>5, <2>1, <3>1
    <3>4. \A x \in Reqs, j \in 1 .. n :
            req'[x].op = "refresh" /\ s[j].parent = req'[x].id => s[j].by # x
      BY <1>1, <1>2, <1>4, <1>5, <1>8 DEF SessionsInv, Lines
    <3>5. \A j, k \in 1 .. n :
            s[j].parent # 0 /\ s[j].parent = s[k].parent /\ j # k =>
              s[j].by # s[k].by /\ (s[j].late \/ s[k].late)
      BY <1>1, <1>4, <1>5, <3>1 DEF SessionsInv, Lines
    <3>6. QED
      BY <3>2, <3>3, <3>4, <3>5, <1>6 DEF Lines
  <2>4. QED
    BY <2>2, <2>3
<1>14. QED
  BY <1>9, <1>10, <1>12, <1>13 DEF SessionsInv

-----------------------------------------------------------------------------
(* The invariant *)

LEMMA SessionsInit == Init => SessionsInv
<1> SUFFICES ASSUME Init PROVE SessionsInv
  OBVIOUS
<1> DEFINE b == "register" \notin mix.ops
<1>1. user \in User
  <2>1. NewUser("USER", FALSE) \in User
    BY BoundsAre DEF User, NewUser, Roles
  <2>2. user = [NewUser("USER", FALSE) EXCEPT !.exists = b] /\ b \in BOOLEAN
    BY DEF Init
  <2> HIDE DEF b
  <2>3. QED
    BY <2>1, <2>2 DEF User
<1>2. SessionsTypeOK
  <2>1. sess \in [Ids -> Session \cup {NoSession}]
    BY DEF Init
  <2>2. req \in [Reqs -> Request]
    BY IdleType DEF Init
  <2>3. /\ mix \in Mixes /\ now = 0 /\ opened = 0 /\ adminIn = FALSE
        /\ issued = 0 /\ guesses = 0 /\ roleSince = 0 /\ faults = 0
        /\ used \in [1 .. MaxResets -> Nat]
    BY DEF Init
  <2>4. 1 .. opened = {} /\ 0 \in 0 .. MaxSessions /\ 0 \in 0 .. MaxResets
        /\ 0 \in 0 .. MaxFaults
    BY <2>3, BoundsAre
  <2>5. QED
    BY <1>1, <2>1, <2>2, <2>3, <2>4 DEF SessionsTypeOK
<1>3. Requests
  <2>1. ASSUME NEW r \in Reqs PROVE req[r] = Idle /\ now = 0
    BY DEF Init
  <2>2. Relies(Idle, user, sess, opened, 0)
    BY DEF Relies, Idle
  <2>3. QED
    BY <2>1, <2>2 DEF Requests
<1>4. Rows /\ Lines
  BY DEF Init, Rows, Lines
<1>5. QED
  BY <1>2, <1>3, <1>4 DEF SessionsInv

LEMMA SessionsStep == SessionsInv /\ [Next]_vars => SessionsInv'
<1> SUFFICES ASSUME SessionsInv, [Next]_vars PROVE SessionsInv'
  OBVIOUS
<1>0. /\ SessionsTypeOK /\ user \in User /\ sess = Revoked({})
      /\ now \in Nat /\ opened \in Nat /\ guesses \in Nat
      /\ issued \in 0 .. MaxResets /\ faults \in 0 .. MaxFaults
      /\ adminIn \in BOOLEAN /\ roleSince \in Nat
      /\ used \in [1 .. MaxResets -> Nat]
      /\ \A r \in Reqs : /\ req[r] \in Request
                         /\ Relies(req[r], user, sess, opened, now)
  BY RevokedNone DEF SessionsInv, SessionsTypeOK, Requests
<1>1. ASSUME NEW r \in Reqs, NEW op \in {"login", "page"}, LoginReads(r, op)
      PROVE  SessionsInv'
  <2>1. Reads(r, op, "sign") /\ guesses' \in Nat
    BY <1>1, <1>0 DEF LoginReads
  <2>2. QED
    BY <2>1, <1>1, ReadsStep DEF LoginReads, Ops, Edits
<1>2. ASSUME NEW r \in Reqs, GuessReads(r)
      PROVE  SessionsInv'
  <2>1. Reads(r, "guess", "fail") /\ guesses' \in Nat
    BY <1>2, <1>0 DEF GuessReads
  <2>2. QED
    BY <2>1, <1>2, ReadsStep DEF GuessReads, Ops, Edits
<1>3. ASSUME NEW r \in Reqs, NEW i \in 1 .. opened, ChangeReads(r, i)
      PROVE  SessionsInv'
  <2>1. Reads(r, "change", "write") /\ guesses' \in Nat
    BY <1>3, <1>0 DEF ChangeReads
  <2>2. QED
    BY <2>1, <1>3, ReadsStep DEF ChangeReads, Ops, Edits
<1>4. ASSUME NEW r \in Reqs, ForgotReads(r)
      PROVE  SessionsInv'
  <2>1. Reads(r, "forgot", "write") /\ guesses' \in Nat
    BY <1>4, <1>0 DEF ForgotReads
  <2>2. QED
    BY <2>1, <1>4, ReadsStep DEF ForgotReads, Ops, Edits
<1>5. ASSUME NEW r \in Reqs, VerifyReads(r)
      PROVE  SessionsInv'
  <2>1. Reads(r, "verify", "write") /\ guesses' \in Nat
    BY <1>5, <1>0 DEF VerifyReads
  <2>2. QED
    BY <2>1, <1>5, ReadsStep DEF VerifyReads, Ops, Edits
<1>6. ASSUME NEW r \in Reqs, RegisterReads(r)
      PROVE  SessionsInv'
  <2>1. Reads(r, "register", "write") /\ guesses' \in Nat
    BY <1>6, <1>0 DEF RegisterReads
  <2>2. QED
    BY <2>1, <1>6, ReadsStep DEF RegisterReads, Ops, Edits
<1>7. ASSUME NEW r \in Reqs, CreateReads(r)
      PROVE  SessionsInv'
  <2>1. Reads(r, "create", "write") /\ guesses' \in Nat
    BY <1>7, <1>0 DEF CreateReads
  <2>2. QED
    BY <2>1, <1>7, ReadsStep DEF CreateReads, Ops, Edits
<1>8. ASSUME NEW r \in Reqs, NEW op \in {"update", "remove"},
             FoundByAdmin(r, op)
      PROVE  SessionsInv'
  <2>1. Reads(r, op, "write") /\ guesses' \in Nat
    BY <1>8, <1>0 DEF FoundByAdmin
  <2>2. QED
    BY <2>1, <1>8, ReadsStep DEF FoundByAdmin, Ops, Edits
<1>9. ASSUME NEW r \in Reqs, RestoreReads(r)
      PROVE  SessionsInv'
  <2>1. Reads(r, "restore", "write") /\ guesses' \in Nat
    BY <1>9, <1>0 DEF RestoreReads
  <2>2. QED
    BY <2>1, <1>9, ReadsStep DEF RestoreReads, Ops, Edits
<1>10. ASSUME NEW r \in Reqs, LoginFails(r)
      PROVE  SessionsInv'
  <2> DEFINE a == req[r].attempts + 1
             until == IF Locks(a) THEN now + LockTime ELSE user.locked
             u == [user EXCEPT !.attempts = a, !.locked = until]
  <2>1. Writes(r, u, Revoked({}))
    BY <1>10, <1>0 DEF LoginFails
  <2>2. a \in Nat /\ until \in Nat
    <3>1. req[r].attempts \in Nat /\ user.locked \in Nat
      BY <1>0 DEF Request, User
    <3>2. now + LockTime \in Nat
      BY <1>0, BoundsAre
    <3> HIDE DEF Locks
    <3>3. until = now + LockTime \/ until = user.locked
      BY Zenon
    <3>4. QED
      BY <3>1, <3>2, <3>3
  <2> HIDE DEF a, until
  <2>3. /\ u \in User
        /\ user.exists => /\ u.exists
                          /\ u.role = user.role
                          /\ u.password = user.password
    BY <1>0, <2>2 DEF User
  <2> HIDE DEF u
  <2>4. guesses' \in Nat
    <3>1. guesses' = 0 \/ guesses' = guesses
      BY <1>10 DEF LoginFails
    <3>2. QED
      BY <3>1, <1>0
  <2>5. QED
    BY <2>1, <2>3, <2>4, <1>10, <1>0, WritesStep DEF LoginFails
<1>11. ASSUME NEW r \in Reqs, ForgotWrites(r)
      PROVE  SessionsInv'
  <2> DEFINE t == issued + 1
             until == now + ResetLife
             u == [user EXCEPT !.reset = t, !.resetBy = until]
  <2>1. Writes(r, u, Revoked({}))
    BY <1>11, <1>0 DEF ForgotWrites
  <2>2. t \in 0 .. MaxResets /\ until \in Nat
    BY <1>0, <1>11, BoundsAre DEF ForgotWrites
  <2> HIDE DEF t, until
  <2>3. /\ u \in User
        /\ user.exists => /\ u.exists
                          /\ u.role = user.role
                          /\ u.password = user.password
    BY <1>0, <2>2 DEF User
  <2> HIDE DEF u
  <2>4. issued' \in 0 .. MaxResets
    BY <1>0, <1>11, BoundsAre DEF ForgotWrites
  <2>5. QED
    BY <2>1, <2>3, <2>4, <1>11, <1>0, WritesStep DEF ForgotWrites
<1>12. ASSUME NEW r \in Reqs, VerifyWrites(r)
      PROVE  SessionsInv'
  <2> DEFINE u == [user EXCEPT !.verified = TRUE]
  <2>1. Writes(r, u, Revoked({}))
    BY <1>12, <1>0 DEF VerifyWrites
  <2>2. /\ u \in User
        /\ user.exists => /\ u.exists
                          /\ u.role = user.role
                          /\ u.password = user.password
    BY <1>0 DEF User
  <2> HIDE DEF u
  <2>3. QED
    BY <2>1, <2>2, <1>12, <1>0, WritesStep DEF VerifyWrites
<1>13. ASSUME NEW r \in Reqs, RegisterWrites(r)
      PROVE  SessionsInv'
  <2> DEFINE u == IF user.exists THEN user ELSE NewUser("USER", FALSE)
  <2>1. Writes(r, u, Revoked({}))
    BY <1>13, <1>0 DEF RegisterWrites
  <2>2. /\ u \in User
        /\ user.exists => /\ u.exists
                          /\ u.role = user.role
                          /\ u.password = user.password
    BY <1>0, BoundsAre DEF User, NewUser, Roles
  <2> HIDE DEF u
  <2>3. QED
    BY <2>1, <2>2, <1>13, <1>0, WritesStep DEF RegisterWrites
<1>14. ASSUME NEW r \in Reqs, ChangeWrites(r)
      PROVE  SessionsInv'
  <2> DEFINE u == [user EXCEPT !.password = @ + 1]
  <2>1. Writes(r, u, Revoked(1 .. opened))
    BY <1>14, <1>0 DEF ChangeWrites, RevokeAll
  <2>2. /\ u \in User
        /\ user.exists => /\ u.exists
                          /\ u.role = user.role
    BY <1>0 DEF User
  <2> HIDE DEF u
  <2>3. QED
    BY <2>1, <2>2, <1>14, <1>0, WritesStep DEF ChangeWrites
<1>15. ASSUME NEW r \in Reqs, ResetWrites(r)
      PROVE  SessionsInv'
  <2> DEFINE p == user.password + 1
             u == ClearToken([user EXCEPT !.password = p])
  <2>1. Writes(r, u, Revoked(1 .. opened))
    BY <1>15, <1>0 DEF ResetWrites, RevokeAll
  <2>2. p \in Nat /\ 0 \in 0 .. MaxResets
    BY <1>0, BoundsAre DEF User
  <2> HIDE DEF p
  <2>3. /\ u \in User
        /\ user.exists => /\ u.exists
                          /\ u.role = user.role
    BY <1>0, <2>2 DEF User, ClearToken
  <2> HIDE DEF u
  <2>4. used' \in [1 .. MaxResets -> Nat]
    <3>1. used' = [used EXCEPT ![req[r].token] = used[req[r].token] + 1]
      BY <1>15 DEF ResetWrites
    <3>2. CASE req[r].token \in 1 .. MaxResets
      BY <3>1, <3>2, <1>0
    <3>3. CASE req[r].token \notin 1 .. MaxResets
      <4>1. used' = used
        BY <3>1, <3>3, <1>0
      <4>2. QED
        BY <4>1, <1>0
    <3>4. QED
      BY <3>2, <3>3
  <2>5. QED
    BY <2>1, <2>3, <2>4, <1>15, <1>0, WritesStep DEF ResetWrites
<1>16. ASSUME NEW r \in Reqs, Remove(r)
      PROVE  SessionsInv'
  <2> DEFINE u == [user EXCEPT !.deleted = TRUE]
  <2>1. Writes(r, u, Revoked({}))
    BY <1>16, <1>0 DEF Remove, Edit
  <2>2. /\ u \in User
        /\ user.exists => /\ u.exists
                          /\ u.role = user.role
                          /\ u.password = user.password
    BY <1>0 DEF User
  <2> HIDE DEF u
  <2>3. QED
    BY <2>1, <2>2, <1>16, <1>0, WritesStep DEF Remove, Edit
<1>17. ASSUME NEW r \in Reqs, Restore(r)
      PROVE  SessionsInv'
  <2> DEFINE u == [user EXCEPT !.deleted = FALSE]
  <2>1. Writes(r, u, Revoked({}))
    BY <1>17, <1>0 DEF Restore, Edit
  <2>2. /\ u \in User
        /\ user.exists => /\ u.exists
                          /\ u.role = user.role
                          /\ u.password = user.password
    BY <1>0 DEF User
  <2> HIDE DEF u
  <2>3. QED
    BY <2>1, <2>2, <1>17, <1>0, WritesStep DEF Restore, Edit
<1>18. ASSUME AdminLogout
      PROVE  SessionsInv'
  <2>1. WritesAtOnce(user, Revoked(1 .. opened))
    BY <1>18, <1>0 DEF AdminLogout
  <2>2. QED
    BY <2>1, <1>18, <1>0, WritesStep DEF AdminLogout
<1>19. ASSUME NEW i \in 1 .. opened, NEW j \in 1 .. opened, RevokeSession(i, j)
      PROVE  SessionsInv'
  <2>1. WritesAtOnce(user, Revoked({j}))
    BY <1>19, <1>0 DEF RevokeSession
  <2>2. QED
    BY <2>1, <1>19, <1>0, WritesStep DEF RevokeSession
<1>20. ASSUME NEW r \in Reqs, CreateWrites(r)
      PROVE  SessionsInv'
  <2>1. PICK role \in GivenRoles :
          Writes(r, IF user.exists THEN user ELSE NewUser(role, TRUE), sess)
    BY <1>20 DEF CreateWrites
  <2> DEFINE u == IF user.exists THEN user ELSE NewUser(role, TRUE)
  <2>2. u \in User
    BY <1>0, SessionsAssumption DEF SessionsAssumption, NewUser, User
  <2>3. /\ Writes(r, u, Revoked({}))
        /\ user.exists => u = user
        /\ ~user.exists => u.exists
    BY <2>1, <1>0 DEF NewUser
  <2> HIDE DEF u
  <2>4. QED
    BY <2>2, <2>3, <1>20, <1>0, WritesStep DEF CreateWrites
<1>21. ASSUME NEW r \in Reqs, Update(r)
      PROVE  SessionsInv'
  <2>1. ASSUME NEW u \in User, Edit(r, "update", u),
               u.exists = user.exists, u.password = user.password
        PROVE  SessionsInv'
    BY <2>1, <1>0, WritesStep DEF Edit
  <2>2. \A role \in GivenRoles :
          LET u == [user EXCEPT !.role = role]
          IN  /\ u \in User /\ u.exists = user.exists
              /\ u.password = user.password
    BY <1>0, BoundsAre DEF User
  <2>3. \A b \in BOOLEAN :
          LET u == [user EXCEPT !.active = b]
          IN  /\ u \in User /\ u.exists = user.exists
              /\ u.password = user.password
    BY <1>0 DEF User
  <2>4. QED
    BY <2>1, <2>2, <2>3, <1>21 DEF Update
<1>22. ASSUME NEW i \in 1 .. opened, NEW j \in 1 .. opened, Logout(i, j)
      PROVE  SessionsInv'
  <2>1. ASSUME NEW is \in SUBSET (1 .. opened),
               WritesAtOnce(user, Revoked(is))
        PROVE  SessionsInv'
    BY <2>1, <1>22, <1>0, WritesStep DEF Logout
  <2>2. SameToken(j) \subseteq 1 .. opened
    BY DEF SameToken
  <2>3. QED
    BY <2>1, <2>2, <1>22 DEF Logout
<1>23. ASSUME NEW r \in Reqs, LoginOpens(r)
      PROVE  SessionsInv'
  <2> DEFINE u == [user EXCEPT !.attempts = 0, !.locked = 0]
  <2>1. /\ u \in User /\ u.exists = user.exists
        /\ u.password = user.password /\ u.role = user.role
    BY <1>0 DEF User
  <2>2. Writes(r, u, [Revoked({}) EXCEPT ![opened + 1] = NewSession(r)])
    BY <1>23, <1>0 DEF LoginOpens
  <2> HIDE DEF u
  <2>3. QED
    BY <2>1, <2>2, <1>23, <1>0, OpensStep DEF LoginOpens
<1>24. ASSUME NEW r \in Reqs, RefreshSwaps(r)
      PROVE  SessionsInv'
  <2>1. req[r].id \in 1 .. opened
    BY <1>24, <1>0 DEF RefreshSwaps, AtWrite, Relies
  <2>2. Writes(r, user, [Revoked({req[r].id}) EXCEPT
                           ![opened + 1] = NewSession(r)])
    BY <1>24, <1>0, <2>1, RevokedOld DEF RefreshSwaps
  <2>3. QED
    BY <2>1, <2>2, <1>24, <1>0, OpensStep DEF RefreshSwaps, AtWrite
<1>25. ASSUME NEW r \in Reqs, NEW i \in 1 .. opened, RefreshReads(r, i)
      PROVE  SessionsInv'
  <2>1. PICK j \in Refreshable(i) :
          req' = [req EXCEPT ![r] = [Idle EXCEPT !.op = "refresh",
                                                 !.at = "sign",
                                                 !.role = user.role, !.id = j,
                                                 !.proof = sess[j].proof]]
    BY <1>25 DEF RefreshReads
  <2>2. j \in 1 .. opened /\ sess[j].live /\ sess[j] \in Session
    BY <1>0 DEF Refreshable, SameToken, SessionsTypeOK
  <2> DEFINE q == [Idle EXCEPT !.op = "refresh", !.at = "sign",
                               !.role = user.role, !.id = j,
                               !.proof = sess[j].proof]
  <2>3. /\ q \in Request
        /\ q.op = "refresh" /\ q.at = "sign" /\ q.role = user.role
        /\ q.id = j /\ q.proof = sess[j].proof /\ q.iat = 0
        /\ q.late = FALSE
    <3>1. j \in 0 .. MaxSessions
      BY <2>2, SessionsAssumption DEF SessionsAssumption, SessionsInv,
         SessionsTypeOK
    <3>2. QED
      BY <3>1, <2>2, <1>0, IdleType DEF Idle, Request, User, Session, Ops
  <2>4. req' = [req EXCEPT ![r] = q]
    BY <2>1
  <2> HIDE DEF q
  <2>5. SessionsTypeOK'
    BY <2>3, <2>4, <1>25 DEF SessionsInv, SessionsTypeOK, RefreshReads
  <2>6. Relies(q, user, sess, opened, now)
    BY <2>2, <2>3, <1>0, <1>25 DEF Relies, RefreshReads, MayRefresh
  <2>7. Requests'
    BY <2>4, <2>6, <1>0, <1>25 DEF Requests, RefreshReads, SessionsTypeOK
  <2>8. Rows'
    BY <1>25 DEF SessionsInv, Rows, RefreshReads
  <2>9. ASSUME NEW k \in 1 .. opened PROVE sess[k].parent # j
    BY <2>2 DEF SessionsInv, Lines
  <2>10. Lines'
    BY <2>3, <2>4, <2>9, <1>0, <1>25
    DEF SessionsInv, Lines, RefreshReads, SessionsTypeOK
  <2>11. QED
    BY <2>5, <2>7, <2>8, <2>10 DEF SessionsInv
<1>26. ASSUME NEW r \in Reqs, Sign(r)
      PROVE  SessionsInv'
  <2> DEFINE q == [req[r] EXCEPT !.at = "write", !.iat = now,
                               !.role = req[r].role]
  <2>1. req' = [req EXCEPT ![r] = q]
    BY <1>26, <1>0 DEF Sign, SignedRole, SessionsTypeOK, Request
  <2>2. /\ q \in Request
        /\ q.op = req[r].op /\ q.at = "write" /\ q.role = req[r].role
        /\ q.id = req[r].id /\ q.proof = req[r].proof /\ q.iat = now
        /\ q.late = req[r].late
    BY <1>0 DEF Request
  <2> HIDE DEF q
  <2>3. Relies(q, user, sess, opened, now)
    BY <2>2, <1>0, <1>26 DEF Relies, Sign
  <2>4. SessionsTypeOK'
    BY <2>1, <2>2, <1>26 DEF SessionsInv, SessionsTypeOK, Sign
  <2>5. Requests'
    BY <2>1, <2>3, <1>0, <1>26 DEF Requests, Sign, SessionsTypeOK
  <2>6. Rows'
    BY <1>26 DEF SessionsInv, Rows, Sign
  <2>7. Lines'
    BY <2>1, <2>2, <1>0, <1>26 DEF SessionsInv, Lines, Sign, SessionsTypeOK
  <2>8. QED
    BY <2>4, <2>5, <2>6, <2>7 DEF SessionsInv
<1>27. ASSUME NEW r \in Reqs, RequestDies(r)
      PROVE  SessionsInv'
  <2>1. req' = [req EXCEPT ![r] = Idle] /\ Idle.op = "none"
    BY <1>27 DEF RequestDies, Idle
  <2>2. Relies(Idle, user, sess, opened, now)
    BY <1>0 DEF Relies, Idle
  <2>3. SessionsTypeOK'
    BY <2>1, <1>27, <1>0, IdleType, SessionsAssumption
    DEF SessionsAssumption, SessionsTypeOK, RequestDies
  <2>4. Requests'
    BY <2>1, <2>2, <1>0, <1>27 DEF Requests, RequestDies, SessionsTypeOK
  <2>5. Rows'
    BY <1>27 DEF SessionsInv, Rows, RequestDies
  <2>6. Lines'
    BY <2>1, <1>0, <1>27 DEF SessionsInv, Lines, RequestDies, SessionsTypeOK
  <2>7. QED
    BY <2>3, <2>4, <2>5, <2>6 DEF SessionsInv
<1>28. ASSUME Tick
      PROVE  SessionsInv'
  <2>1. SessionsTypeOK' /\ Lines'
    BY <1>28, <1>0 DEF SessionsInv, SessionsTypeOK, Lines, Tick
  <2>2. ASSUME NEW r \in Reqs PROVE Relies(req[r], user, sess, opened, now + 1)
    BY <1>0 DEF Relies, Request, User
  <2>3. Requests'
    BY <2>2, <1>28 DEF Requests, Tick
  <2>4. ASSUME NEW i \in 1 .. opened
        PROVE  Row(sess[i], user, now + 1, roleSince)
    BY <1>0 DEF SessionsInv, Rows, Row, SessionsTypeOK, Session
  <2>5. Rows'
    BY <2>4, <1>28, <1>0 DEF SessionsInv, Rows, Tick
  <2>6. QED
    BY <2>1, <2>3, <2>5 DEF SessionsInv
<1>29. CASE UNCHANGED vars
  BY <1>29 DEF vars, SessionsInv, SessionsTypeOK, Requests, Rows, Lines
<1>30. ASSUME NEW r \in Reqs, ResetReads(r)
       PROVE  SessionsInv'
  <2> DEFINE q == [Idle EXCEPT !.op = "reset", !.at = "write",
                               !.token = user.reset]
  <2>1. /\ q \in Request
        /\ q.op = "reset" /\ q.at = "write" /\ q.iat = 0
    BY <1>0, IdleType DEF Idle, Request, User, Ops
  <2>2. req' = [req EXCEPT ![r] = q]
    BY <1>30 DEF ResetReads
  <2> HIDE DEF q
  <2>3. SessionsTypeOK'
    BY <2>1, <2>2, <1>30 DEF SessionsInv, SessionsTypeOK, ResetReads
  <2>4. Relies(q, user, sess, opened, now)
    BY <2>1, <1>0 DEF Relies
  <2>5. Requests'
    BY <2>2, <2>4, <1>0, <1>30 DEF Requests, ResetReads, SessionsTypeOK
  <2>6. Rows'
    BY <1>30 DEF SessionsInv, Rows, ResetReads
  <2>7. Lines'
    BY <2>1, <2>2, <1>0, <1>30
    DEF SessionsInv, Lines, ResetReads, SessionsTypeOK
  <2>8. QED
    BY <2>3, <2>5, <2>6, <2>7 DEF SessionsInv
<1>31. ASSUME NEW r \in Reqs, LoginStep(r) PROVE SessionsInv'
  BY <1>31, <1>1, <1>2, <1>10, <1>23, <1>26 DEF LoginStep
<1>32. ASSUME NEW r \in Reqs, SessionStep(r) PROVE SessionsInv'
  BY <1>32, <1>24, <1>25 DEF SessionStep
<1>33. ASSUME NEW r \in Reqs, PasswordStep(r) PROVE SessionsInv'
  BY <1>33, <1>3, <1>4, <1>5, <1>11, <1>12, <1>14, <1>15, <1>30
  DEF PasswordStep
<1>34. ASSUME NEW r \in Reqs, AccountStep(r) PROVE SessionsInv'
  BY <1>34, <1>6, <1>7, <1>8, <1>9, <1>13, <1>16, <1>17, <1>20, <1>21
  DEF AccountStep
<1>35. QED
  BY <1>18, <1>19, <1>22, <1>27, <1>28, <1>29, <1>31, <1>32, <1>33, <1>34
  DEF Next

LEMMA SessionsInvariant == Spec => []SessionsInv
BY SessionsInit, SessionsStep, PTL DEF Spec

-----------------------------------------------------------------------------
(* The theorems *)

\* The state keeps its types, for any number of requests and sessions.
THEOREM SessionsTypeCorrect == Spec => []SessionsTypeOK
<1>1. SessionsInv => SessionsTypeOK
  BY DEF SessionsInv
<1>2. QED
  BY <1>1, SessionsInvariant, PTL

\* After the password is changed or reset (auth.service 247, 313) no session
\* lives on an older one, unless it goes back to a request that was under way
\* when it changed.
THEOREM OldPasswordsOnlySlipIn == Spec => []OldPasswordsSlipIn
<1>1. SessionsInv => OldPasswordsSlipIn
  BY DEF SessionsInv, Rows, Row, OldPasswordsSlipIn
<1>2. QED
  BY <1>1, SessionsInvariant, PTL

\* A role that the account lost (users.service 104) is good for no longer than
\* an access token lives, but for tokens signed by a late request.
THEOREM RolesDoCatchUp == Spec => []RolesCatchUp
<1>1. SessionsInv => RolesCatchUp
  <2> SUFFICES ASSUME SessionsInv,
                      NEW i \in 1 .. opened, NEW audience \in Audiences,
                      Serves(i, audience), user.role \notin audience
               PROVE  now < roleSince + AccessLife \/ sess[i].late
    BY DEF RolesCatchUp
  <2>1. /\ now \in Nat /\ roleSince \in Nat
        /\ sess[i].iat \in Nat
    BY DEF SessionsInv, SessionsTypeOK, Session
  <2>2. AccessLife \in Nat
    BY SessionsAssumption DEF SessionsAssumption
  <2>3. now < sess[i].iat + AccessLife /\ sess[i].role # user.role
    BY DEF Serves, Authenticated
  <2>4. sess[i].iat <= roleSince \/ sess[i].late
    BY <2>3 DEF SessionsInv, Rows, Row
  <2>5. QED
    BY <2>1, <2>2, <2>3, <2>4
<1>2. QED
  BY <1>1, SessionsInvariant, PTL

\* A session is exchanged once, and again only by requests that had found its
\* row before it was revoked (auth.service 176-225): no more than there are slots.
THEOREM HeirsAreBounded == Spec => []HeirsBounded
<1>1. SessionsInv => HeirsBounded
  <2> SUFFICES ASSUME SessionsInv, NEW i \in 1 .. opened
               PROVE  /\ Cardinality(Heirs(i)) <= Cardinality(Reqs)
                      /\ Cardinality({j \in Heirs(i) : ~sess[j].late}) <= 1
    BY DEF HeirsBounded
  <2>1. IsFiniteSet(Reqs)
    BY SessionsAssumption DEF SessionsAssumption
  <2>2. ASSUME NEW j \in Heirs(i), NEW k \in Heirs(i), j # k
        PROVE  sess[j].by # sess[k].by /\ (sess[j].late \/ sess[k].late)
    BY <2>2 DEF Heirs, SessionsInv, Lines
  <2>3. Cardinality(Heirs(i)) <= Cardinality(Reqs)
    <3> DEFINE f == [j \in Heirs(i) |-> sess[j].by]
    <3>1. \A j \in Heirs(i) : sess[j].by \in Reqs
      BY DEF Heirs, SessionsInv, SessionsTypeOK, Session
    <3>2. f \in Injection(Heirs(i), Reqs)
      BY <3>1, <2>2 DEF Injection, IsInjective
    <3>3. QED
      BY <3>2, <2>1, FS_Injection DEF ExistsInjection
  <2>4. Cardinality({j \in Heirs(i) : ~sess[j].late}) <= 1
    <3> DEFINE T == {j \in Heirs(i) : ~sess[j].late}
    <3>1. CASE T = {}
      <4>1. Cardinality(T) = 0
        BY <3>1, FS_EmptySet
      <4>2. QED
        BY <4>1
    <3>2. CASE \E j : j \in T
      <4>1. PICK j : j \in T
        BY <3>2
      <4>2. T = {j}
        BY <4>1, <2>2
      <4>3. Cardinality(T) = 1
        BY <4>2, FS_Singleton
      <4>4. QED
        BY <4>3
    <3>3. QED
      BY <3>1, <3>2
  <2>5. QED
    BY <2>3, <2>4
<1>2. QED
  BY <1>1, SessionsInvariant, PTL

\* What login and refresh checked of the account (auth.service 73, 176, 195)
\* holds when they open the session, unless it changed after they read it.
THEOREM OpensInGoodStanding == Spec => OpenedInGoodStanding
<1> DEFINE Good ==
      opened' > opened =>
        LET s == sess'[opened']
        IN  ~s.late =>
              /\ user.exists /\ user.active /\ ~user.deleted
              /\ s.role = user.role
              /\ s.parent = 0 => /\ s.proof = user.password
                                 /\ user.locked <= now
              /\ s.parent # 0 => sess[s.parent].live
<1>1. SessionsInv /\ [Next]_vars => [Good]_vars
  <2> SUFFICES ASSUME SessionsInv, Next, opened' > opened PROVE Good
    BY Zenon
  <2>1. opened \in Nat /\ sess \in [Ids -> Session \cup {NoSession}]
    BY DEF SessionsInv, SessionsTypeOK
  <2>2. PICK r \in Reqs : LoginOpens(r) \/ RefreshSwaps(r)
    <3>1. opened' # opened
      BY <2>1
    <3>2. ~Tick /\ ~AdminLogout
      BY <3>1 DEF Tick, AdminLogout
    <3>3. \A a, b : ~Logout(a, b) /\ ~RevokeSession(a, b)
      BY <3>1 DEF Logout, RevokeSession
    <3>4. ASSUME NEW x PROVE ~RequestDies(x)
      BY <3>1 DEF RequestDies
    <3>5. ASSUME NEW x, LoginStep(x) PROVE LoginOpens(x)
      BY <3>1, <3>5 DEF LoginStep, LoginReads, GuessReads, LoginFails, Sign,
         Reads
    <3>6. ASSUME NEW x, SessionStep(x) PROVE RefreshSwaps(x)
      BY <3>1, <3>6 DEF SessionStep, RefreshReads
    <3>7. ASSUME NEW x PROVE ~PasswordStep(x)
      BY <3>1 DEF PasswordStep, ChangeReads, ChangeWrites, ForgotReads,
         ForgotWrites, ResetReads, ResetWrites, VerifyReads, VerifyWrites,
         Reads
    <3>8. ASSUME NEW x PROVE ~AccountStep(x)
      BY <3>1 DEF AccountStep, RegisterReads, RegisterWrites, CreateReads,
         CreateWrites, FoundByAdmin, Update, Remove, RestoreReads, Restore,
         Edit, Reads
    <3>9. QED
      BY <3>2, <3>3, <3>4, <3>5, <3>6, <3>7, <3>8 DEF Next
  <2>3. /\ Relies(req[r], user, sess, opened, now)
        /\ req[r].at = "write" /\ req[r].op \in {"login", "page", "refresh"}
    BY <2>2 DEF SessionsInv, Requests, LoginOpens, RefreshSwaps, AtWrite
  <2>4. opened' = opened + 1 /\ opened + 1 \in Ids
    <3>1. opened < mix.sessions /\ mix \in Mixes /\ opened' = opened + 1
      BY <2>2 DEF SessionsInv, SessionsTypeOK, LoginOpens, RefreshSwaps
    <3>2. mix.sessions \in 0 .. MaxSessions
      BY <3>1, SessionsAssumption DEF SessionsAssumption
    <3>3. QED
      BY <2>1, <3>1, <3>2, BoundsAre DEF Ids
  <2>5. sess'[opened'] = NewSession(r)
    BY <2>1, <2>2, <2>4 DEF LoginOpens, RefreshSwaps, Writes, RevokeOld
  <2>6. LET s == NewSession(r)
        IN  /\ s.late = req[r].late /\ s.role = req[r].role
            /\ s.parent = req[r].id /\ s.proof = req[r].proof
    BY NewSessionIs
  <2>7. opened > 0 => user.exists
    BY DEF SessionsInv, Rows
  <2>8. CASE req[r].op \in {"login", "page"}
    BY <2>3, <2>5, <2>6, <2>8 DEF Relies
  <2>9. CASE req[r].op = "refresh"
    BY <2>1, <2>3, <2>5, <2>6, <2>7, <2>9 DEF Relies
  <2>10. QED
    BY <2>3, <2>8, <2>9
<1>2. [][Good]_vars <=> OpenedInGoodStanding
  BY DEF OpenedInGoodStanding
<1>3. QED
  BY <1>1, <1>2, SessionsInvariant, PTL DEF Spec

-----------------------------------------------------------------------------
(* Reset tokens: how often one was used, and how many requests hold it, is  *)
(* no more than there are slots; one that was used is in nobody's row, so   *)
(* no further request finds it.                                             *)

Holders(t) == {r \in Reqs : req[r].token = t}

ResetInv ==
  /\ user.reset <= issued
  /\ \A r \in Reqs : req[r].op = "reset" => req[r].token \in 1 .. issued
  /\ \A t \in 1 .. MaxResets :
       /\ used[t] > 0 => t <= issued /\ user.reset # t
       /\ used[t] + Cardinality(Holders(t)) <= Cardinality(Reqs)

LEMMA HoldersAreFinite ==
  ASSUME NEW t
  PROVE  /\ IsFiniteSet(Holders(t)) /\ Cardinality(Holders(t)) \in Nat
         /\ Cardinality(Holders(t)) <= Cardinality(Reqs)
         /\ Cardinality(Reqs) \in Nat
BY SessionsAssumption, FS_Subset, FS_CardinalityType
DEF SessionsAssumption, Holders

\* A step by which no request gets a token, and no account a new one.
LEMMA ResetFrame ==
  ASSUME SessionsTypeOK, ResetInv, UNCHANGED <<issued, used>>,
         user'.reset = user.reset \/ user'.reset = 0,
         \A r \in Reqs :
           /\ req'[r].token = req[r].token \/ req'[r].token = 0
           /\ req'[r].op = "reset" => /\ req[r].op = "reset"
                                      /\ req'[r].token = req[r].token
  PROVE  ResetInv'
<1>1. user'.reset <= issued'
  BY DEF ResetInv, SessionsTypeOK
<1>2. ASSUME NEW t \in 1 .. MaxResets
      PROVE  /\ used'[t] > 0 => t <= issued' /\ user'.reset # t
             /\ used'[t] + Cardinality(Holders(t)') <= Cardinality(Reqs)
  <2>1. t # 0 /\ t \in Nat /\ used[t] \in Nat
    BY DEF SessionsTypeOK
  <2>2. Holders(t)' \subseteq Holders(t)
    BY <2>1 DEF Holders
  <2>3. /\ Cardinality(Holders(t)') <= Cardinality(Holders(t))
        /\ Cardinality(Holders(t)') \in Nat
    BY <2>2, HoldersAreFinite, FS_Subset, FS_CardinalityType
  <2>4. /\ used[t] > 0 => t <= issued /\ user.reset # t
        /\ used[t] + Cardinality(Holders(t)) <= Cardinality(Reqs)
    BY DEF ResetInv
  <2>5. QED
    BY <2>1, <2>3, <2>4, HoldersAreFinite
<1>3. QED
  BY <1>1, <1>2 DEF ResetInv

LEMMA ResetReadsFrame ==
  ASSUME SessionsTypeOK, ResetInv, NEW r \in Reqs, NEW op, op # "reset",
         NEW at, Reads(r, op, at)
  PROVE  ResetInv'
<1> DEFINE q == [Idle EXCEPT !.op = op, !.at = at, !.role = user.role,
                             !.attempts = user.attempts,
                             !.proof = user.password]
<1>1. q.op = op /\ q.token = 0
  BY DEF Idle
<1>2. req' = [req EXCEPT ![r] = q]
  BY DEF Reads
<1> HIDE DEF q
<1>3. UNCHANGED <<issued, used, user>>
  BY DEF Reads
<1>4. QED
  BY <1>1, <1>2, <1>3, ResetFrame DEF SessionsTypeOK

LEMMA OvertakenToken ==
  ASSUME SessionsTypeOK, NEW x \in Reqs, NEW u, NEW s
  PROVE  /\ Overtaken(x, u, s).op = req[x].op
         /\ Overtaken(x, u, s).token = req[x].token
BY DEF Overtaken, SessionsTypeOK, Request

LEMMA ResetWritesFrame ==
  ASSUME SessionsTypeOK, ResetInv, NEW u, NEW s,
         WritesAtOnce(u, s) \/ \E r \in Reqs : Writes(r, u, s),
         u.reset = user.reset \/ u.reset = 0,
         UNCHANGED <<issued, used>>
  PROVE  ResetInv'
<1>1. user' = u
  BY DEF Writes, WritesAtOnce
<1>2. Idle.op = "none" /\ Idle.token = 0
  BY DEF Idle
<1>3. \A x \in Reqs : req'[x] = Overtaken(x, u, s) \/ req'[x] = Idle
  BY DEF Writes, WritesAtOnce
<1>4. QED
  BY <1>1, <1>2, <1>3, OvertakenToken, ResetFrame

\* The request finds the token of the row: it was not used before.
LEMMA ResetReadsStep ==
  ASSUME SessionsTypeOK, ResetInv, NEW r \in Reqs, ResetReads(r)
  PROVE  ResetInv'
<1> DEFINE q == [Idle EXCEPT !.op = "reset", !.at = "write",
                             !.token = user.reset]
<1>1. q.op = "reset" /\ q.token = user.reset
  BY DEF Idle
<1>2. req' = [req EXCEPT ![r] = q] /\ UNCHANGED <<user, issued, used>>
  BY DEF ResetReads
<1> HIDE DEF q
<1>3. /\ user.reset \in 1 .. issued /\ issued \in 0 .. MaxResets
      /\ MaxResets \in Nat
  BY BoundsAre DEF ResetReads, ResetInv, SessionsTypeOK, User
<1>4. \A x \in Reqs : req'[x] = IF x = r THEN q ELSE req[x]
  BY <1>2 DEF SessionsTypeOK
<1>5. \A x \in Reqs : req'[x].op = "reset" => req'[x].token \in 1 .. issued
  BY <1>1, <1>3, <1>4 DEF ResetInv
<1>6. ASSUME NEW t \in 1 .. MaxResets
      PROVE  used[t] + Cardinality(Holders(t)') <= Cardinality(Reqs)
  <2>1. /\ used[t] \in Nat
        /\ used[t] + Cardinality(Holders(t)) <= Cardinality(Reqs)
    BY DEF ResetInv, SessionsTypeOK
  <2>2. CASE t = user.reset
    <3>1. used[t] = 0
      BY <2>1, <2>2 DEF ResetInv
    <3>2. Cardinality(Holders(t)') <= Cardinality(Reqs)
          /\ Cardinality(Holders(t)') \in Nat
      BY SessionsAssumption, FS_Subset, FS_CardinalityType
      DEF SessionsAssumption, Holders
    <3>3. QED
      BY <3>1, <3>2
  <2>3. CASE t # user.reset
    <3>1. Holders(t)' \subseteq Holders(t)
      BY <1>1, <1>4, <2>3 DEF Holders
    <3>2. /\ Cardinality(Holders(t)') <= Cardinality(Holders(t))
          /\ Cardinality(Holders(t)') \in Nat
      BY <3>1, HoldersAreFinite, FS_Subset, FS_CardinalityType
    <3>3. QED
      BY <2>1, <3>2, HoldersAreFinite
  <2>4. QED
    BY <2>2, <2>3
<1>7. QED
  BY <1>2, <1>5, <1>6 DEF ResetInv

\* The request spends its token, and the row has none any more.
LEMMA ResetWritesStep ==
  ASSUME SessionsTypeOK, ResetInv, NEW r \in Reqs, ResetWrites(r)
  PROVE  ResetInv'
<1> DEFINE u == ClearToken([user EXCEPT !.password = @ + 1])
           k == req[r].token
<1>1. /\ u.reset = 0
      /\ Writes(r, u, RevokeAll)
      /\ used' = [used EXCEPT ![k] = @ + 1]
      /\ UNCHANGED issued
  BY DEF ResetWrites, ClearToken, SessionsTypeOK, User
<1> HIDE DEF u
<1>2. /\ k \in 1 .. issued /\ k \in 1 .. MaxResets
      /\ issued \in 0 .. MaxResets /\ MaxResets \in Nat
  BY BoundsAre DEF ResetWrites, AtWrite, ResetInv, SessionsTypeOK
<1>3. user'.reset = 0
  BY <1>1 DEF Writes
<1>4. /\ req'[r] = Idle
      /\ \A x \in Reqs : x # r => /\ req'[x].op = req[x].op
                                  /\ req'[x].token = req[x].token
  BY <1>1, OvertakenToken DEF Writes
<1>5. Idle.op = "none" /\ Idle.token = 0
  BY DEF Idle
<1>6. \A x \in Reqs : req'[x].op = "reset" => req'[x].token \in 1 .. issued'
  BY <1>1, <1>4, <1>5 DEF ResetInv
<1>7. ASSUME NEW t \in 1 .. MaxResets
      PROVE  /\ used'[t] > 0 => t <= issued' /\ user'.reset # t
             /\ used'[t] + Cardinality(Holders(t)') <= Cardinality(Reqs)
  <2>1. /\ used[t] \in Nat /\ t \in Nat /\ t # 0
        /\ used[t] + Cardinality(Holders(t)) <= Cardinality(Reqs)
        /\ used[t] > 0 => t <= issued
    BY DEF ResetInv, SessionsTypeOK
  <2>2. CASE t = k
    <3>1. used'[t] = used[t] + 1
      BY <1>1, <2>2 DEF SessionsTypeOK
    <3>2. Holders(t)' = Holders(t) \ {r} /\ r \in Holders(t)
      BY <1>4, <1>5, <2>1, <2>2 DEF Holders
    <3>3. Cardinality(Holders(t)') = Cardinality(Holders(t)) - 1
      BY <3>2, HoldersAreFinite, FS_RemoveElement
    <3>4. used'[t] + Cardinality(Holders(t)') <= Cardinality(Reqs)
      BY <2>1, <3>1, <3>3, HoldersAreFinite
    <3>5. t <= issued'
      BY <1>1, <1>2, <2>2
    <3>6. QED
      BY <1>3, <2>1, <3>4, <3>5
  <2>3. CASE t # k
    <3>1. used'[t] = used[t]
      BY <1>1, <2>3 DEF SessionsTypeOK
    <3>2. Holders(t)' = Holders(t)
      BY <1>4, <1>5, <2>1, <2>3 DEF Holders
    <3>3. QED
      BY <1>1, <1>3, <2>1, <3>1, <3>2
  <2>4. QED
    BY <2>2, <2>3
<1>8. user'.reset <= issued'
  BY <1>1, <1>2, <1>3
<1>9. QED
  BY <1>6, <1>7, <1>8 DEF ResetInv

\* A new token: nobody has it yet.
LEMMA ForgotWritesStep ==
  ASSUME SessionsTypeOK, ResetInv, NEW r \in Reqs, ForgotWrites(r)
  PROVE  ResetInv'
<1> DEFINE u == [user EXCEPT !.reset = issued + 1,
                             !.resetBy = now + ResetLife]
<1>1. /\ u.reset = issued + 1 /\ Writes(r, u, sess)
      /\ issued' = issued + 1 /\ UNCHANGED used
      /\ issued \in Nat /\ issued < MaxResets
  BY BoundsAre DEF ForgotWrites, SessionsTypeOK, User
<1> HIDE DEF u
<1>2. user'.reset = issued + 1
  BY <1>1 DEF Writes
<1>3. \A x \in Reqs : \/ req'[x] = Idle
                      \/ /\ req'[x].op = req[x].op
                         /\ req'[x].token = req[x].token
  BY <1>1, OvertakenToken DEF Writes
<1>4. Idle.op = "none" /\ Idle.token = 0
  BY DEF Idle
<1>5. \A x \in Reqs : req'[x].op = "reset" => req'[x].token \in 1 .. issued'
  BY <1>1, <1>3, <1>4 DEF ResetInv
<1>6. ASSUME NEW t \in 1 .. MaxResets
      PROVE  /\ used'[t] > 0 => t <= issued' /\ user'.reset # t
             /\ used'[t] + Cardinality(Holders(t)') <= Cardinality(Reqs)
  <2>1. /\ used[t] \in Nat /\ t \in Nat /\ t # 0
        /\ used[t] + Cardinality(Holders(t)) <= Cardinality(Reqs)
        /\ used[t] > 0 => t <= issued
    BY DEF ResetInv, SessionsTypeOK
  <2>2. Holders(t)' \subseteq Holders(t)
    BY <1>3, <1>4, <2>1 DEF Holders
  <2>3. /\ Cardinality(Holders(t)') <= Cardinality(Holders(t))
        /\ Cardinality(Holders(t)') \in Nat
    BY <2>2, HoldersAreFinite, FS_Subset, FS_CardinalityType
  <2>4. QED
    BY <1>1, <1>2, <2>1, <2>3, HoldersAreFinite
<1>7. user'.reset <= issued'
  BY <1>1, <1>2
<1>8. QED
  BY <1>5, <1>6, <1>7 DEF ResetInv

LEMMA ResetStep == SessionsTypeOK /\ ResetInv /\ [Next]_vars => ResetInv'
<1> SUFFICES ASSUME SessionsTypeOK, ResetInv, [Next]_vars PROVE ResetInv'
  OBVIOUS
<1>0. user \in User /\ \A r \in Reqs : req[r] \in Request
  BY DEF SessionsTypeOK
(* reads *)
<1>1. ASSUME NEW r \in Reqs,
             \/ \E op \in {"login", "page"} : LoginReads(r, op)
             \/ GuessReads(r)
             \/ \E i \in 1 .. opened : ChangeReads(r, i)
             \/ ForgotReads(r) \/ VerifyReads(r) \/ RegisterReads(r)
             \/ CreateReads(r)
             \/ FoundByAdmin(r, "update") \/ FoundByAdmin(r, "remove")
             \/ RestoreReads(r)
      PROVE  ResetInv'
  BY <1>1, ResetReadsFrame
  DEF LoginReads, GuessReads, ChangeReads, ForgotReads, VerifyReads,
      RegisterReads, CreateReads, FoundByAdmin, RestoreReads
<1>2. ASSUME NEW r \in Reqs, NEW i \in 1 .. opened, RefreshReads(r, i)
      PROVE  ResetInv'
  <2>1. PICK j :
          req' = [req EXCEPT ![r] = [Idle EXCEPT !.op = "refresh",
                                                 !.at = "sign",
                                                 !.role = user.role, !.id = j,
                                                 !.proof = sess[j].proof]]
    BY <1>2 DEF RefreshReads
  <2> DEFINE q == [Idle EXCEPT !.op = "refresh", !.at = "sign",
                               !.role = user.role, !.id = j,
                               !.proof = sess[j].proof]
  <2>2. q.op = "refresh" /\ q.token = 0 /\ req' = [req EXCEPT ![r] = q]
    BY <2>1 DEF Idle
  <2> HIDE DEF q
  <2>3. QED
    BY <2>2, <1>2, ResetFrame DEF RefreshReads, SessionsTypeOK
<1>3. ASSUME NEW r \in Reqs, ResetReads(r) PROVE ResetInv'
  BY <1>3, ResetReadsStep
<1>4. ASSUME NEW r \in Reqs, Sign(r) PROVE ResetInv'
  <2>1. \A x \in Reqs : req'[x].op = req[x].op /\ req'[x].token = req[x].token
    BY <1>4, <1>0 DEF Sign, SignedRole, SessionsTypeOK, Request
  <2>2. QED
    BY <2>1, <1>4, ResetFrame DEF Sign
(* writes *)
<1>5. ASSUME NEW r \in Reqs, LoginFails(r) \/ LoginOpens(r) PROVE ResetInv'
  <2>1. \E u, s : /\ Writes(r, u, s) /\ u.reset = user.reset
                  /\ UNCHANGED <<issued, used>>
    <3>1. CASE LoginFails(r)
      <4> DEFINE a == req[r].attempts + 1
                 u == [user EXCEPT !.attempts = a,
                                   !.locked = IF Locks(a) THEN now + LockTime
                                                          ELSE @]
      <4>1. Writes(r, u, sess) /\ u.reset = user.reset
            /\ UNCHANGED <<issued, used>>
        BY <3>1, <1>0 DEF LoginFails, User
      <4>2. QED
        BY <4>1
    <3>2. CASE LoginOpens(r)
      <4> DEFINE u == [user EXCEPT !.attempts = 0, !.locked = 0]
      <4>1. Writes(r, u, [sess EXCEPT ![opened + 1] = NewSession(r)])
            /\ u.reset = user.reset /\ UNCHANGED <<issued, used>>
        BY <3>2, <1>0 DEF LoginOpens, User
      <4>2. QED
        BY <4>1
    <3>3. QED
      BY <1>5, <3>1, <3>2
  <2>2. QED
    BY <2>1, ResetWritesFrame
<1>6. ASSUME NEW r \in Reqs, RefreshSwaps(r) PROVE ResetInv'
  BY <1>6, ResetWritesFrame DEF RefreshSwaps
<1>7. ASSUME NEW r \in Reqs, ChangeWrites(r) PROVE ResetInv'
  <2> DEFINE u == [user EXCEPT !.password = @ + 1]
  <2>1. Writes(r, u, RevokeAll) /\ u.reset = user.reset
        /\ UNCHANGED <<issued, used>>
    BY <1>7, <1>0 DEF ChangeWrites, User
  <2> HIDE DEF u
  <2>2. QED
    BY <2>1, ResetWritesFrame
<1>8. ASSUME NEW r \in Reqs, VerifyWrites(r) PROVE ResetInv'
  <2> DEFINE u == [user EXCEPT !.verified = TRUE]
  <2>1. Writes(r, u, sess) /\ u.reset = user.reset
        /\ UNCHANGED <<issued, used>>
    BY <1>8, <1>0 DEF VerifyWrites, User
  <2> HIDE DEF u
  <2>2. QED
    BY <2>1, ResetWritesFrame
<1>9. ASSUME NEW r \in Reqs, ForgotWrites(r) PROVE ResetInv'
  BY <1>9, ForgotWritesStep
<1>10. ASSUME NEW r \in Reqs, ResetWrites(r) PROVE ResetInv'
  BY <1>10, ResetWritesStep
<1>11. ASSUME NEW r \in Reqs, RegisterWrites(r) \/ CreateWrites(r)
       PROVE  ResetInv'
  <2>1. \A role, b : NewUser(role, b).reset = 0
    BY DEF NewUser
  <2>2. \E u : /\ Writes(r, u, sess) /\ UNCHANGED <<issued, used>>
               /\ u.reset = user.reset \/ u.reset = 0
    BY <1>11, <2>1 DEF RegisterWrites, CreateWrites
  <2>3. QED
    BY <2>2, ResetWritesFrame
<1>12. ASSUME NEW r \in Reqs, Update(r) \/ Remove(r) \/ Restore(r)
       PROVE  ResetInv'
  <2>1. ASSUME NEW op, NEW u, Edit(r, op, u), u.reset = user.reset
        PROVE  ResetInv'
    BY <2>1, ResetWritesFrame DEF Edit
  <2>2. /\ \A role : [user EXCEPT !.role = role].reset = user.reset
        /\ \A b : [user EXCEPT !.active = b].reset = user.reset
        /\ \A b : [user EXCEPT !.deleted = b].reset = user.reset
    BY <1>0 DEF User
  <2>3. QED
    BY <1>12, <2>1, <2>2 DEF Update, Remove, Restore
<1>13. ASSUME NEW i \in 1 .. opened, NEW j \in 1 .. opened,
              Logout(i, j) \/ RevokeSession(i, j)
       PROVE  ResetInv'
  BY <1>13, ResetWritesFrame DEF Logout, RevokeSession
<1>14. CASE AdminLogout
  BY <1>14, ResetWritesFrame DEF AdminLogout
(* the rest *)
<1>15. CASE Tick
  BY <1>15, ResetFrame DEF Tick
<1>16. ASSUME NEW r \in Reqs, RequestDies(r) PROVE ResetInv'
  <2>1. Idle.op = "none" /\ Idle.token = 0
    BY DEF Idle
  <2>2. \A x \in Reqs : req'[x] = req[x] \/ req'[x] = Idle
    BY <1>16 DEF RequestDies, SessionsTypeOK
  <2>3. QED
    BY <1>16, <2>1, <2>2, ResetFrame DEF RequestDies
<1>17. CASE UNCHANGED vars
  BY <1>17, ResetFrame DEF vars
<1>18. QED
  BY <1>1, <1>2, <1>3, <1>4, <1>5, <1>6, <1>7, <1>8, <1>9, <1>10, <1>11,
     <1>12, <1>13, <1>14, <1>15, <1>16, <1>17
  DEF Next, LoginStep, SessionStep, PasswordStep, AccountStep

\* A reset token (auth.service 313) is good once for each request that found
\* it, and for no request that comes after it was used.
THEOREM ResetsAreBounded == Spec => []ResetOnce
<1>1. Init => ResetInv
  <2> SUFFICES ASSUME Init PROVE ResetInv
    OBVIOUS
  <2>1. /\ user.reset = 0 /\ issued = 0
        /\ \A r \in Reqs : req[r].op = "none"
        /\ \A t \in 1 .. MaxResets : used[t] = 0
    BY DEF Init, NewUser, Idle
  <2>2. QED
    BY <2>1, HoldersAreFinite DEF ResetInv
<1>2. SessionsTypeOK /\ ResetInv => ResetOnce
  <2> SUFFICES ASSUME SessionsTypeOK, ResetInv, NEW t \in 1 .. MaxResets
               PROVE  used[t] <= Cardinality(Reqs)
    BY DEF ResetOnce
  <2>1. /\ used[t] \in Nat
        /\ used[t] + Cardinality(Holders(t)) <= Cardinality(Reqs)
    BY DEF SessionsTypeOK, ResetInv
  <2>2. QED
    BY <2>1, HoldersAreFinite
<1>3. QED
  BY <1>1, <1>2, ResetStep, SessionsTypeCorrect, PTL DEF Spec

-----------------------------------------------------------------------------
(* Wrong passwords: a request stands at the count it read, one that has none *)
(* to write at the count of the row.  A failed login that is counted lowers  *)
(* the profile of where they stand; and since a request that dies might as   *)
(* well not have tried, the bound is kept for whichever of them are left     *)
(* out (D).                                                                  *)

Guessing == {r \in Reqs : req[r].at = "fail"}

StandsAt(D) == [r \in Reqs |-> IF r \in Guessing \ D THEN req[r].attempts
                                                    ELSE user.attempts]

Short(f, l) == {r \in Reqs : f[r] < l}
Profile(f) == [l \in Levels |-> Cardinality(Short(f, l))]

Lower(p, q) == \E k \in Levels : /\ p[k] < q[k]
                                 /\ \A i \in Levels : i < k => p[i] <= q[i]

Below(q) == {p \in Profiles : Lower(p, q)}

GuessInv ==
  /\ ~user.exists => user.attempts = 0 /\ Guessing = {}
  /\ \A D \in SUBSET Guessing :
       guesses + Cardinality(Below(Profile(StandsAt(D))))
         <= Cardinality(Profiles) - 1 + Cardinality(Guessing) + faults

LEMMA LevelsAre ==
  /\ IsFiniteSet(Reqs) /\ Cardinality(Reqs) \in Nat
  /\ MaxAttempts \in Nat \ {0}
  /\ \A l \in Levels : l \in Nat /\ l # 0 /\ l < MaxAttempts
  /\ \A l \in Nat \ {0} : l < MaxAttempts => l \in Levels
BY SessionsAssumption, FS_CardinalityType DEF SessionsAssumption, Levels

\* A profile is told by its graph, and there are finitely many of these.
LEMMA ProfilesAreFinite ==
  /\ IsFiniteSet(Profiles) /\ Cardinality(Profiles) \in Nat
  /\ \A q : /\ IsFiniteSet(Below(q)) /\ Cardinality(Below(q)) \in Nat
            /\ Cardinality(Below(q)) <= Cardinality(Profiles)
<1> DEFINE n == Cardinality(Reqs)
           Graph(p) == {e \in Levels \X (0 .. n) : p[e[1]] = e[2]}
           g == [p \in Profiles |-> Graph(p)]
<1>1. IsFiniteSet(Levels \X (0 .. n))
  <2>1. IsFiniteSet(Levels)
    <3>1. 1 \in Int /\ MaxAttempts - 1 \in Int
      BY LevelsAre
    <3>2. QED
      BY <3>1, FS_Interval DEF Levels
  <2>2. IsFiniteSet(0 .. n)
    <3>1. 0 \in Int /\ n \in Int
      BY LevelsAre
    <3>2. QED
      BY <3>1, FS_Interval
  <2>3. QED
    BY <2>1, <2>2, FS_Product
<1>2. IsFiniteSet(SUBSET (Levels \X (0 .. n)))
  BY <1>1, FS_SUBSET
<1>3. g \in [Profiles -> SUBSET (Levels \X (0 .. n))]
  OBVIOUS
<1>4. ASSUME NEW p \in Profiles, NEW q \in Profiles, g[p] = g[q]
      PROVE  p = q
  <2>1. p \in [Levels -> 0 .. n] /\ q \in [Levels -> 0 .. n]
    BY DEF Profiles
  <2>2. ASSUME NEW l \in Levels PROVE p[l] = q[l]
    <3>1. <<l, p[l]>> \in Graph(p)
      BY <2>1
    <3>2. <<l, p[l]>> \in Graph(q)
      BY <1>4, <3>1
    <3>3. QED
      BY <3>2
  <2>3. QED
    BY <2>1, <2>2
<1>5. g \in Injection(Profiles, SUBSET (Levels \X (0 .. n)))
  BY <1>3, <1>4 DEF Injection, IsInjective
<1>6. IsFiniteSet(Profiles)
  BY <1>2, <1>5, FS_Injection
<1>7. ASSUME NEW q
      PROVE  /\ IsFiniteSet(Below(q)) /\ Cardinality(Below(q)) \in Nat
             /\ Cardinality(Below(q)) <= Cardinality(Profiles)
  <2>1. Below(q) \subseteq Profiles
    BY DEF Below
  <2>2. QED
    BY <1>6, <2>1, FS_Subset, FS_CardinalityType
<1>8. QED
  BY <1>6, <1>7, FS_CardinalityType

LEMMA LowerIsTransitive ==
  ASSUME NEW p \in Profiles, NEW q \in Profiles, NEW s \in Profiles,
         Lower(p, q), Lower(q, s)
  PROVE  Lower(p, s)
<1>1. \A l \in Levels : p[l] \in Nat /\ q[l] \in Nat /\ s[l] \in Nat
  BY LevelsAre DEF Profiles
<1>2. PICK k \in Levels : p[k] < q[k] /\ \A i \in Levels : i < k => p[i] <= q[i]
  BY DEF Lower
<1>3. PICK j \in Levels : q[j] < s[j] /\ \A i \in Levels : i < j => q[i] <= s[i]
  BY DEF Lower
<1>4. k \in Nat /\ j \in Nat /\ \A i \in Levels : i \in Nat
  BY LevelsAre
<1>5. CASE k <= j
  <2>1. q[k] <= s[k]
    BY <1>1, <1>3, <1>4, <1>5
  <2>2. p[k] < s[k]
    BY <1>1, <1>2, <2>1
  <2>3. ASSUME NEW i \in Levels, i < k PROVE p[i] <= s[i]
    <3>1. p[i] <= q[i] /\ q[i] <= s[i]
      BY <1>2, <1>3, <1>4, <1>5, <2>3
    <3>2. QED
      BY <1>1, <3>1
  <2>4. QED
    BY <2>2, <2>3 DEF Lower
<1>6. CASE j < k
  <2>1. p[j] <= q[j]
    BY <1>2, <1>6
  <2>2. p[j] < s[j]
    BY <1>1, <1>3, <2>1
  <2>3. ASSUME NEW i \in Levels, i < j PROVE p[i] <= s[i]
    <3>1. p[i] <= q[i] /\ q[i] <= s[i]
      BY <1>2, <1>3, <1>4, <1>6, <2>3
    <3>2. QED
      BY <1>1, <3>1
  <2>4. QED
    BY <2>2, <2>3 DEF Lower
<1>7. QED
  BY <1>4, <1>5, <1>6

\* Fewer profiles are below a lower one.
LEMMA LowerHasLess ==
  ASSUME NEW p \in Profiles, NEW q \in Profiles, Lower(p, q)
  PROVE  Cardinality(Below(p)) + 1 <= Cardinality(Below(q))
<1>1. p \notin Below(p)
  <2>1. ~Lower(p, p)
    BY LevelsAre DEF Lower, Profiles
  <2>2. QED
    BY <2>1 DEF Below
<1>2. Below(p) \cup {p} \subseteq Below(q)
  BY LowerIsTransitive DEF Below
<1>3. Cardinality(Below(p) \cup {p}) = Cardinality(Below(p)) + 1
  BY <1>1, ProfilesAreFinite, FS_AddElement
<1>4. Cardinality(Below(p) \cup {p}) <= Cardinality(Below(q))
  BY <1>2, ProfilesAreFinite, FS_Subset
<1>5. QED
  BY <1>3, <1>4

LEMMA AllButItself ==
  ASSUME NEW p \in Profiles
  PROVE  Cardinality(Below(p)) <= Cardinality(Profiles) - 1
<1>1. ~Lower(p, p)
  BY LevelsAre DEF Lower, Profiles
<1>2. Below(p) \subseteq Profiles \ {p}
  BY <1>1 DEF Below
<1>3. /\ IsFiniteSet(Profiles \ {p})
      /\ Cardinality(Profiles \ {p}) = Cardinality(Profiles) - 1
  BY ProfilesAreFinite, FS_RemoveElement
<1>4. QED
  BY <1>2, <1>3, FS_Subset

LEMMA ShortIs ==
  ASSUME NEW f, NEW l
  PROVE  /\ IsFiniteSet(Short(f, l)) /\ Cardinality(Short(f, l)) \in Nat
         /\ Cardinality(Short(f, l)) \in 0 .. Cardinality(Reqs)
<1>1. Short(f, l) \subseteq Reqs
  BY DEF Short
<1>2. QED
  BY <1>1, LevelsAre, FS_Subset, FS_CardinalityType

LEMMA ProfileIs ==
  ASSUME NEW f \in [Reqs -> Nat]
  PROVE  Profile(f) \in Profiles
<1>1. ASSUME NEW i \in Levels, NEW j \in Levels, i <= j
      PROVE  Cardinality(Short(f, i)) <= Cardinality(Short(f, j))
  <2>1. Short(f, i) \subseteq Short(f, j)
    BY <1>1, LevelsAre DEF Short
  <2>2. QED
    BY <2>1, ShortIs, FS_Subset
<1>2. QED
  BY <1>1, ShortIs DEF Profile, Profiles

\* Request r writes the count it read, one higher; whoever has none to write
\* stands there then.
LEMMA WritingLowers ==
  ASSUME NEW f \in [Reqs -> Nat], NEW g \in [Reqs -> Nat], NEW r \in Reqs,
         f[r] + 1 < MaxAttempts, g[r] = f[r] + 1,
         \A x \in Reqs : g[x] = f[x] \/ g[x] = f[r] + 1
  PROVE  Lower(Profile(g), Profile(f))
<1> DEFINE k == f[r] + 1
<1>1. k \in Levels /\ k \in Nat
  BY LevelsAre
<1>2. ASSUME NEW i \in Levels, i <= k
      PROVE  Short(g, i) \subseteq Short(f, i)
  BY <1>1, <1>2, LevelsAre DEF Short
<1>3. ASSUME NEW i \in Levels, i < k PROVE Profile(g)[i] <= Profile(f)[i]
  <2>1. Short(g, i) \subseteq Short(f, i)
    BY <1>1, <1>2, <1>3, LevelsAre
  <2>2. QED
    BY <2>1, ShortIs, FS_Subset DEF Profile
<1>4. Profile(g)[k] < Profile(f)[k]
  <2>1. r \in Short(f, k) /\ r \notin Short(g, k)
    BY <1>1 DEF Short
  <2>2. Short(g, k) \subseteq Short(f, k) \ {r}
    BY <1>1, <1>2, <2>1
  <2>3. Cardinality(Short(f, k) \ {r}) = Cardinality(Short(f, k)) - 1
        /\ IsFiniteSet(Short(f, k) \ {r})
    BY <2>1, ShortIs, FS_RemoveElement
  <2>4. Cardinality(Short(g, k)) <= Cardinality(Short(f, k)) - 1
    BY <2>2, <2>3, FS_Subset
  <2>5. QED
    BY <1>1, <2>4, ShortIs DEF Profile
<1>5. QED
  BY <1>1, <1>3, <1>4 DEF Lower

LEMMA StandsAtIs ==
  SessionsTypeOK => /\ guesses \in Nat /\ faults \in Nat
                    /\ IsFiniteSet(Guessing) /\ Cardinality(Guessing) \in Nat
                    /\ \A D : StandsAt(D) \in [Reqs -> Nat]
<1> SUFFICES ASSUME SessionsTypeOK
             PROVE  /\ guesses \in Nat /\ faults \in Nat
                    /\ IsFiniteSet(Guessing) /\ Cardinality(Guessing) \in Nat
                    /\ \A D : StandsAt(D) \in [Reqs -> Nat]
  OBVIOUS
<1>1. guesses \in Nat /\ faults \in Nat
  BY BoundsAre DEF SessionsTypeOK
<1>2. IsFiniteSet(Guessing) /\ Cardinality(Guessing) \in Nat
  BY LevelsAre, FS_Subset, FS_CardinalityType DEF Guessing
<1>3. \A D : StandsAt(D) \in [Reqs -> Nat]
  BY DEF SessionsTypeOK, StandsAt, User, Request
<1>4. QED
  BY <1>1, <1>2, <1>3

\* The count starts anew.
LEMMA GuessReset ==
  ASSUME SessionsTypeOK', guesses' = 0,
         ~user'.exists => user'.attempts = 0 /\ Guessing' = {}
  PROVE  GuessInv'
<1>1. faults' \in Nat /\ Cardinality(Guessing') \in Nat
  BY BoundsAre, LevelsAre, FS_Subset, FS_CardinalityType
  DEF SessionsTypeOK, Guessing
<1>2. ASSUME NEW D \in SUBSET Guessing'
      PROVE  guesses' + Cardinality(Below(Profile(StandsAt(D)')))
               <= Cardinality(Profiles) - 1 + Cardinality(Guessing') + faults'
  <2>1. StandsAt(D)' \in [Reqs -> Nat]
    BY DEF SessionsTypeOK, StandsAt, User, Request
  <2>2. Profile(StandsAt(D)') \in Profiles
    BY <2>1, ProfileIs
  <2>3. Cardinality(Below(Profile(StandsAt(D)'))) <= Cardinality(Profiles) - 1
    BY <2>2, AllButItself
  <2>4. QED
    BY <1>1, <2>3, ProfilesAreFinite
<1>3. QED
  BY <1>2 DEF GuessInv

\* A step that nobody with a failed login to write notices.
LEMMA GuessFrame ==
  ASSUME SessionsTypeOK, GuessInv, UNCHANGED guesses,
         faults' = faults \/ faults' = faults + 1,
         user'.attempts = user.attempts, user.exists => user'.exists,
         \A r \in Reqs :
           /\ req'[r].at = "fail" <=> req[r].at = "fail"
           /\ req[r].at = "fail" => req'[r].attempts = req[r].attempts
  PROVE  GuessInv'
<1>1. Guessing' = Guessing
  BY DEF Guessing
<1>2. ASSUME NEW D PROVE StandsAt(D)' = StandsAt(D)
  BY <1>1 DEF StandsAt, Guessing
<1>3. ASSUME NEW D \in SUBSET Guessing'
      PROVE  guesses' + Cardinality(Below(Profile(StandsAt(D)')))
               <= Cardinality(Profiles) - 1 + Cardinality(Guessing') + faults'
  <2>1. guesses + Cardinality(Below(Profile(StandsAt(D))))
          <= Cardinality(Profiles) - 1 + Cardinality(Guessing) + faults
    BY <1>1 DEF GuessInv
  <2>2. QED
    BY <1>1, <1>2, <2>1, StandsAtIs, ProfilesAreFinite
<1>4. ~user'.exists => user'.attempts = 0 /\ Guessing' = {}
  BY <1>1 DEF GuessInv
<1>5. QED
  BY <1>3, <1>4 DEF GuessInv

LEMMA GuessReadsFrame ==
  ASSUME SessionsTypeOK, GuessInv, NEW r \in Reqs, NEW op,
         NEW at, at # "fail", Reads(r, op, at), UNCHANGED guesses
  PROVE  GuessInv'
<1> DEFINE q == [Idle EXCEPT !.op = op, !.at = at, !.role = user.role,
                             !.attempts = user.attempts,
                             !.proof = user.password]
<1>1. q.at = at
  BY DEF Idle
<1>2. req' = [req EXCEPT ![r] = q] /\ req[r].at = "idle"
  BY DEF Reads
<1> HIDE DEF q
<1>3. UNCHANGED <<user, faults>>
  BY DEF Reads
<1>4. QED
  BY <1>1, <1>2, <1>3, GuessFrame DEF SessionsTypeOK

LEMMA OvertakenCount ==
  ASSUME SessionsTypeOK, NEW x \in Reqs, NEW u, NEW s
  PROVE  /\ Overtaken(x, u, s).at = req[x].at
         /\ Overtaken(x, u, s).attempts = req[x].attempts
BY DEF Overtaken, SessionsTypeOK, Request

LEMMA GuessWritesFrame ==
  ASSUME SessionsTypeOK, GuessInv, NEW u, NEW s,
         \/ WritesAtOnce(u, s)
         \/ \E r \in Reqs : Writes(r, u, s) /\ req[r].at # "fail",
         u.attempts = user.attempts, user.exists => u.exists,
         UNCHANGED <<guesses, faults>>
  PROVE  GuessInv'
<1>1. user' = u
  BY DEF Writes, WritesAtOnce
<1>2. Idle.at = "idle"
  BY DEF Idle
<1>3. \A x \in Reqs : \/ req'[x] = Overtaken(x, u, s)
                      \/ req'[x] = Idle /\ req[x].at # "fail"
  BY DEF Writes, WritesAtOnce
<1>4. QED
  BY <1>1, <1>2, <1>3, OvertakenCount, GuessFrame

\* One more wrong password, by a request that stands where it stood; should it
\* be left out, it is as if it had not come.
LEMMA GuessReadsStep ==
  ASSUME SessionsTypeOK, GuessInv, NEW r \in Reqs, GuessReads(r)
  PROVE  GuessInv'
<1> DEFINE q == [Idle EXCEPT !.op = "guess", !.at = "fail", !.role = user.role,
                             !.attempts = user.attempts,
                             !.proof = user.password]
<1>1. q.at = "fail" /\ q.attempts = user.attempts
  BY DEF Idle
<1>2. /\ req' = [req EXCEPT ![r] = q] /\ req[r].at = "idle"
      /\ UNCHANGED <<user, faults>> /\ guesses' = guesses + 1
      /\ user.exists
  BY DEF GuessReads, Reads, MayLogIn
<1> HIDE DEF q
<1>3. \A x \in Reqs : req'[x] = IF x = r THEN q ELSE req[x]
  BY <1>2 DEF SessionsTypeOK
<1>4. Guessing' = Guessing \cup {r} /\ r \notin Guessing
  BY <1>1, <1>2, <1>3 DEF Guessing
<1>5. Cardinality(Guessing') = Cardinality(Guessing) + 1
  BY <1>4, StandsAtIs, FS_AddElement
<1>6. ASSUME NEW D \in SUBSET Guessing'
      PROVE  guesses' + Cardinality(Below(Profile(StandsAt(D)')))
               <= Cardinality(Profiles) - 1 + Cardinality(Guessing') + faults'
  <2> DEFINE E == D \ {r}
  <2>1. E \in SUBSET Guessing
    BY <1>4
  <2>2. StandsAt(D)' = StandsAt(E)
    <3>1. ASSUME NEW x \in Reqs PROVE StandsAt(D)'[x] = StandsAt(E)[x]
      BY <1>1, <1>2, <1>3, <1>4 DEF StandsAt
    <3>2. QED
      BY <3>1 DEF StandsAt
  <2>3. guesses + Cardinality(Below(Profile(StandsAt(E))))
          <= Cardinality(Profiles) - 1 + Cardinality(Guessing) + faults
    BY <2>1 DEF GuessInv
  <2> HIDE DEF E
  <2>4. QED
    BY <1>2, <1>5, <2>2, <2>3, StandsAtIs, ProfilesAreFinite
<1>7. QED
  BY <1>2, <1>6 DEF GuessInv

\* One wrong password less to write, and a lower profile.
LEMMA GuessWritesStep ==
  ASSUME SessionsTypeOK, SessionsTypeOK', GuessInv, NEW r \in Reqs,
         LoginFails(r)
  PROVE  GuessInv'
<1> DEFINE a == req[r].attempts + 1
           u == [user EXCEPT !.attempts = a,
                             !.locked = IF Locks(a) THEN now + LockTime ELSE @]
<1>1. /\ u.attempts = a /\ u.exists = user.exists
      /\ Writes(r, u, sess) /\ req[r].at = "fail" /\ UNCHANGED faults
      /\ guesses' = IF Locks(a) THEN 0 ELSE guesses
  BY DEF LoginFails, SessionsTypeOK, User
<1> HIDE DEF u
<1>2. r \in Guessing /\ user.exists
  BY <1>1 DEF Guessing, GuessInv
<1>3. user'.attempts = a /\ user'.exists
  BY <1>1, <1>2 DEF Writes
<1>4. CASE Locks(a)
  BY <1>1, <1>3, <1>4, GuessReset
<1>5. CASE ~Locks(a)
  <2>1. req[r].attempts \in Nat /\ a \in Nat /\ a < MaxAttempts
    <3>1. req[r].attempts \in Nat
      BY DEF SessionsTypeOK, Request
    <3>2. ~(a >= MaxAttempts)
      BY <1>5 DEF Locks
    <3>3. QED
      BY <3>1, <3>2, LevelsAre
  <2>2. /\ req'[r].at = "idle"
        /\ \A x \in Reqs : x # r => /\ req'[x].at = req[x].at
                                    /\ req'[x].attempts = req[x].attempts
    BY <1>1, OvertakenCount DEF Writes, Idle
  <2>3. Guessing' = Guessing \ {r}
    BY <2>2 DEF Guessing
  <2>4. Cardinality(Guessing') = Cardinality(Guessing) - 1
    BY <1>2, <2>3, StandsAtIs, FS_RemoveElement
  <2>5. ASSUME NEW D \in SUBSET Guessing'
        PROVE  guesses' + Cardinality(Below(Profile(StandsAt(D)')))
                 <= Cardinality(Profiles) - 1 + Cardinality(Guessing') + faults'
    <3> DEFINE f == StandsAt(D)
               g == StandsAt(D)'
    <3>1. f \in [Reqs -> Nat] /\ g \in [Reqs -> Nat]
      <4>1. g \in [Reqs -> Nat]
        BY DEF SessionsTypeOK, StandsAt, User, Request
      <4>2. QED
        BY <4>1, StandsAtIs
    <3>2. f[r] = req[r].attempts
      BY <1>2, <2>3 DEF StandsAt
    <3>3. g[r] = a
      BY <1>3, <2>3 DEF StandsAt
    <3>4. ASSUME NEW x \in Reqs PROVE g[x] = f[x] \/ g[x] = a
      BY <1>3, <2>2, <2>3 DEF StandsAt
    <3>5. D \in SUBSET Guessing
      BY <2>3
    <3>6. guesses + Cardinality(Below(Profile(f)))
            <= Cardinality(Profiles) - 1 + Cardinality(Guessing) + faults
      BY <3>5 DEF GuessInv
    <3> HIDE DEF f, g
    <3>7. Lower(Profile(g), Profile(f))
      BY <2>1, <3>1, <3>2, <3>3, <3>4, WritingLowers
    <3>8. Cardinality(Below(Profile(g))) + 1 <= Cardinality(Below(Profile(f)))
      BY <3>1, <3>7, ProfileIs, LowerHasLess
    <3>9. guesses' + Cardinality(Below(Profile(g)))
            <= Cardinality(Profiles) - 1 + Cardinality(Guessing') + faults'
      BY <1>1, <1>5, <2>4, <3>6, <3>8, StandsAtIs, ProfilesAreFinite
    <3>10. QED
      BY <3>9 DEF g
  <2>6. QED
    BY <1>3, <2>5 DEF GuessInv
<1>6. QED
  BY <1>4, <1>5

\* The request is left out from now on.
LEMMA GuessDies ==
  ASSUME SessionsTypeOK, GuessInv, NEW r \in Reqs, RequestDies(r)
  PROVE  GuessInv'
<1>1. /\ req' = [req EXCEPT ![r] = Idle] /\ UNCHANGED <<user, guesses>>
      /\ faults' = faults + 1
  BY DEF RequestDies
<1>2. \A x \in Reqs : req'[x] = IF x = r THEN Idle ELSE req[x]
  BY <1>1 DEF SessionsTypeOK
<1>3. Idle.at = "idle"
  BY DEF Idle
<1>4. CASE req[r].at # "fail"
  BY <1>1, <1>2, <1>3, <1>4, GuessFrame
<1>5. CASE req[r].at = "fail"
  <2>1. Guessing' = Guessing \ {r} /\ r \in Guessing
    BY <1>2, <1>3, <1>5 DEF Guessing
  <2>2. Cardinality(Guessing') = Cardinality(Guessing) - 1
    BY <2>1, StandsAtIs, FS_RemoveElement
  <2>3. ASSUME NEW D \in SUBSET Guessing'
        PROVE  guesses' + Cardinality(Below(Profile(StandsAt(D)')))
                 <= Cardinality(Profiles) - 1 + Cardinality(Guessing') + faults'
    <3> DEFINE E == D \cup {r}
    <3>1. E \in SUBSET Guessing
      BY <2>1
    <3>2. StandsAt(D)' = StandsAt(E)
      <4>1. ASSUME NEW x \in Reqs PROVE StandsAt(D)'[x] = StandsAt(E)[x]
        BY <1>1, <1>2, <2>1 DEF StandsAt
      <4>2. QED
        BY <4>1 DEF StandsAt
    <3>3. guesses + Cardinality(Below(Profile(StandsAt(E))))
            <= Cardinality(Profiles) - 1 + Cardinality(Guessing) + faults
      BY <3>1 DEF GuessInv
    <3> HIDE DEF E
    <3>4. QED
      BY <1>1, <2>2, <3>2, <3>3, StandsAtIs, ProfilesAreFinite
  <2>4. QED
    BY <1>1, <2>1, <2>3 DEF GuessInv
<1>6. QED
  BY <1>4, <1>5

LEMMA GuessStep ==
  ASSUME SessionsTypeOK, SessionsTypeOK', GuessInv, [Next]_vars
  PROVE  GuessInv'
<1>0. user \in User /\ \A r \in Reqs : req[r] \in Request
  BY DEF SessionsTypeOK
<1>i. Idle.at = "idle"
  BY DEF Idle
(* reads *)
<1>1. ASSUME NEW r \in Reqs,
             \/ \E op \in {"login", "page"} : LoginReads(r, op)
             \/ \E i \in 1 .. opened : ChangeReads(r, i)
             \/ ForgotReads(r) \/ VerifyReads(r) \/ RegisterReads(r)
             \/ CreateReads(r)
             \/ FoundByAdmin(r, "update") \/ FoundByAdmin(r, "remove")
             \/ RestoreReads(r)
      PROVE  GuessInv'
  BY <1>1, GuessReadsFrame
  DEF LoginReads, ChangeReads, ForgotReads, VerifyReads,
      RegisterReads, CreateReads, FoundByAdmin, RestoreReads
<1>2. ASSUME NEW r \in Reqs, GuessReads(r) PROVE GuessInv'
  BY <1>2, GuessReadsStep
<1>3. ASSUME NEW r \in Reqs,
             ResetReads(r) \/ \E i \in 1 .. opened : RefreshReads(r, i)
      PROVE  GuessInv'
  <2>1. ASSUME ResetReads(r)
        PROVE  \E q : req' = [req EXCEPT ![r] = q] /\ q.at \in {"sign", "write"}
    <3> DEFINE q == [Idle EXCEPT !.op = "reset", !.at = "write",
                                 !.token = user.reset]
    <3>1. q.at = "write"
      BY DEF Idle
    <3>2. req' = [req EXCEPT ![r] = q]
      BY <2>1 DEF ResetReads
    <3> HIDE DEF q
    <3>3. QED
      BY <3>1, <3>2
  <2>2. \E q : req' = [req EXCEPT ![r] = q] /\ q.at \in {"sign", "write"}
    <3>1. SUFFICES ASSUME \E i \in 1 .. opened : RefreshReads(r, i)
                   PROVE  \E q : /\ req' = [req EXCEPT ![r] = q]
                                 /\ q.at \in {"sign", "write"}
      BY <1>3, <2>1
    <3>2. PICK j : req' = [req EXCEPT ![r] =
                     [Idle EXCEPT !.op = "refresh", !.at = "sign",
                                  !.role = user.role, !.id = j,
                                  !.proof = sess[j].proof]]
      BY <3>1 DEF RefreshReads
    <3> DEFINE q == [Idle EXCEPT !.op = "refresh", !.at = "sign",
                                 !.role = user.role, !.id = j,
                                 !.proof = sess[j].proof]
    <3>3. q.at = "sign"
      BY DEF Idle
    <3>4. req' = [req EXCEPT ![r] = q]
      BY <3>2
    <3> HIDE DEF q
    <3>5. QED
      BY <3>3, <3>4
  <2>3. req[r].at = "idle" /\ UNCHANGED <<user, guesses, faults>>
    BY <1>3 DEF ResetReads, RefreshReads
  <2>4. \A x \in Reqs : x # r => req'[x] = req[x]
    BY <2>2 DEF SessionsTypeOK
  <2>5. req'[r].at \in {"sign", "write"}
    BY <2>2 DEF SessionsTypeOK
  <2>6. QED
    BY <2>3, <2>4, <2>5, GuessFrame
<1>4. ASSUME NEW r \in Reqs, Sign(r) PROVE GuessInv'
  <2>1. \A x \in Reqs : /\ req'[x].at = "fail" <=> req[x].at = "fail"
                        /\ req'[x].attempts = req[x].attempts
    BY <1>4, <1>0 DEF Sign, SignedRole, SessionsTypeOK, Request
  <2>2. QED
    BY <2>1, <1>4, GuessFrame DEF Sign
(* writes *)
<1>5. ASSUME NEW r \in Reqs, LoginFails(r) PROVE GuessInv'
  BY <1>5, GuessWritesStep
<1>6. ASSUME NEW r \in Reqs, LoginOpens(r) PROVE GuessInv'
  <2> DEFINE u == [user EXCEPT !.attempts = 0, !.locked = 0]
             s == [sess EXCEPT ![opened + 1] = NewSession(r)]
  <2>1. /\ Writes(r, u, s) /\ u.attempts = 0 /\ u.exists = user.exists
        /\ guesses' = 0
    BY <1>6, <1>0 DEF LoginOpens, User
  <2> HIDE DEF u, s
  <2>2. user'.attempts = 0 /\ user'.exists = user.exists
    BY <2>1 DEF Writes
  <2>3. \A x \in Reqs : req'[x].at = req[x].at \/ req'[x].at = "idle"
    BY <2>1, <1>i, OvertakenCount DEF Writes
  <2>4. Guessing = {} => Guessing' = {}
    BY <2>3 DEF Guessing
  <2>5. QED
    BY <2>1, <2>2, <2>4, GuessReset DEF GuessInv
<1>7. ASSUME NEW r \in Reqs, NEW op, AtWrite(r, op) PROVE req[r].at # "fail"
  BY <1>7 DEF AtWrite
<1>8. ASSUME NEW r \in Reqs, RefreshSwaps(r) PROVE GuessInv'
  BY <1>8, <1>7, GuessWritesFrame DEF RefreshSwaps
<1>9. ASSUME NEW r \in Reqs, ChangeWrites(r) PROVE GuessInv'
  <2> DEFINE u == [user EXCEPT !.password = @ + 1]
  <2>1. /\ Writes(r, u, RevokeAll) /\ u.attempts = user.attempts
        /\ u.exists = user.exists /\ AtWrite(r, "change")
        /\ UNCHANGED <<guesses, faults>>
    BY <1>9, <1>0 DEF ChangeWrites, User
  <2> HIDE DEF u
  <2>2. QED
    BY <2>1, <1>7, GuessWritesFrame
<1>10. ASSUME NEW r \in Reqs, VerifyWrites(r) PROVE GuessInv'
  <2> DEFINE u == [user EXCEPT !.verified = TRUE]
  <2>1. /\ Writes(r, u, sess) /\ u.attempts = user.attempts
        /\ u.exists = user.exists /\ AtWrite(r, "verify")
        /\ UNCHANGED <<guesses, faults>>
    BY <1>10, <1>0 DEF VerifyWrites, User
  <2> HIDE DEF u
  <2>2. QED
    BY <2>1, <1>7, GuessWritesFrame
<1>11. ASSUME NEW r \in Reqs, ForgotWrites(r) PROVE GuessInv'
  <2> DEFINE u == [user EXCEPT !.reset = issued + 1,
                               !.resetBy = now + ResetLife]
  <2>1. /\ Writes(r, u, sess) /\ u.attempts = user.attempts
        /\ u.exists = user.exists /\ AtWrite(r, "forgot")
        /\ UNCHANGED <<guesses, faults>>
    BY <1>11, <1>0 DEF ForgotWrites, User
  <2> HIDE DEF u
  <2>2. QED
    BY <2>1, <1>7, GuessWritesFrame
<1>12. ASSUME NEW r \in Reqs, ResetWrites(r) PROVE GuessInv'
  <2> DEFINE u == ClearToken([user EXCEPT !.password = @ + 1])
  <2>1. /\ Writes(r, u, RevokeAll) /\ u.attempts = user.attempts
        /\ u.exists = user.exists /\ AtWrite(r, "reset")
        /\ UNCHANGED <<guesses, faults>>
    BY <1>12, <1>0 DEF ResetWrites, ClearToken, User
  <2> HIDE DEF u
  <2>2. QED
    BY <2>1, <1>7, GuessWritesFrame
<1>13. ASSUME NEW r \in Reqs, RegisterWrites(r) \/ CreateWrites(r)
       PROVE  GuessInv'
  <2>1. \A role, b : /\ NewUser(role, b).attempts = 0
                     /\ NewUser(role, b).exists
    BY DEF NewUser
  <2>2. ~user.exists => user.attempts = 0
    BY DEF GuessInv
  <2>3. \E u : /\ Writes(r, u, sess) /\ UNCHANGED <<guesses, faults>>
               /\ u.attempts = user.attempts /\ u.exists
    BY <1>13, <2>1, <2>2 DEF RegisterWrites, CreateWrites
  <2>4. req[r].at # "fail"
    BY <1>13, <1>7 DEF RegisterWrites, CreateWrites
  <2>5. QED
    BY <2>3, <2>4, GuessWritesFrame
<1>14. ASSUME NEW r \in Reqs, Update(r) \/ Remove(r) \/ Restore(r)
       PROVE  GuessInv'
  <2>1. ASSUME NEW op, NEW u, Edit(r, op, u), u.attempts = user.attempts,
               u.exists = user.exists
        PROVE  GuessInv'
    BY <2>1, <1>7, GuessWritesFrame DEF Edit
  <2>2. /\ \A role : /\ [user EXCEPT !.role = role].attempts = user.attempts
                     /\ [user EXCEPT !.role = role].exists = user.exists
        /\ \A b : /\ [user EXCEPT !.active = b].attempts = user.attempts
                  /\ [user EXCEPT !.active = b].exists = user.exists
        /\ \A b : /\ [user EXCEPT !.deleted = b].attempts = user.attempts
                  /\ [user EXCEPT !.deleted = b].exists = user.exists
    BY <1>0 DEF User
  <2>3. QED
    BY <1>14, <2>1, <2>2 DEF Update, Remove, Restore
<1>15. ASSUME NEW i \in 1 .. opened, NEW j \in 1 .. opened,
              Logout(i, j) \/ RevokeSession(i, j)
       PROVE  GuessInv'
  BY <1>15, GuessWritesFrame DEF Logout, RevokeSession
<1>16. CASE AdminLogout
  BY <1>16, GuessWritesFrame DEF AdminLogout
(* the rest *)
<1>17. CASE Tick
  BY <1>17, GuessFrame DEF Tick
<1>18. ASSUME NEW r \in Reqs, RequestDies(r) PROVE GuessInv'
  BY <1>18, GuessDies
<1>19. CASE UNCHANGED vars
  BY <1>19, GuessFrame DEF vars
<1>20. QED
  BY <1>1, <1>2, <1>3, <1>4, <1>5, <1>6, <1>8, <1>9, <1>10, <1>11,
     <1>12, <1>13, <1>14, <1>15, <1>16, <1>17, <1>18, <1>19
  DEF Next, LoginStep, SessionStep, PasswordStep, AccountStep

\* However many requests guess at once, and whatever else is done to the
\* account, the lock (auth.service 94) comes within as many wrong passwords as
\* there are profiles, and those lost or still to be counted.
THEOREM LockIsReached == Spec => []GuessesBounded
<1>1. Init => GuessInv
  <2> SUFFICES ASSUME Init PROVE GuessInv
    OBVIOUS
  <2>1. /\ guesses = 0 /\ faults = 0 /\ user.attempts = 0
        /\ \A r \in Reqs : req[r] = Idle
    BY DEF Init, NewUser
  <2>2. Guessing = {}
    BY <2>1 DEF Guessing, Idle
  <2>3. \A D : StandsAt(D) \in [Reqs -> Nat]
    BY <2>1, <2>2 DEF StandsAt
  <2>4. \A D : Cardinality(Below(Profile(StandsAt(D))))
                 <= Cardinality(Profiles) - 1
    BY <2>3, ProfileIs, AllButItself
  <2>5. Cardinality(Guessing) = 0
    BY <2>2, FS_EmptySet
  <2>6. QED
    BY <2>1, <2>2, <2>4, <2>5, ProfilesAreFinite DEF GuessInv
<1>2. SessionsTypeOK /\ GuessInv => GuessesBounded
  <2> SUFFICES ASSUME SessionsTypeOK, GuessInv PROVE GuessesBounded
    OBVIOUS
  <2>1. guesses + Cardinality(Below(Profile(StandsAt({}))))
          <= Cardinality(Profiles) - 1 + Cardinality(Guessing) + faults
    BY DEF GuessInv
  <2>2. Cardinality(Guessing) <= Cardinality(Reqs)
    BY LevelsAre, FS_Subset DEF Guessing
  <2>3. QED
    BY <2>1, <2>2, StandsAtIs, LevelsAre, ProfilesAreFinite
    DEF GuessesBounded
<1>3. QED
  BY <1>1, <1>2, GuessStep, SessionsTypeCorrect, PTL DEF Spec

-----------------------------------------------------------------------------
(* Sessions implements SessionStore.  A step that is not a login, exchange   *)
(* or tick lets one request read (Learns) or writes an account and closes    *)
(* sessions (Alters).                                                        *)

\* Nobody knows a later password than the account has, or of a session that is
\* not there; and an account must be there to have its password changed.
NobodyKnowsMore ==
  /\ \A r \in Reqs : req[r].proof <= user.password /\ req[r].id <= opened
  /\ \A i \in 1 .. opened : sess[i].proof <= user.password
NothingToChange ==
  ~user.exists => /\ user.password = 1 /\ user.reset = 0
                  /\ \A r \in Reqs :
                       req[r].op \notin {"change", "forgot", "reset"}

StoreInv == NobodyKnowsMore /\ NothingToChange

\* Request r knows q now, or is over.
Learns(r, q) ==
  /\ req' = [req EXCEPT ![r] = q]
  /\ q.late => req[r].late
  /\ q.proof <= user.password /\ q.id <= opened
  /\ q.op \in {"change", "forgot", "reset"} => user.exists
  /\ UNCHANGED <<now, user, opened, sess>>

Alters(u, is) ==
  /\ WritesAtOnce(u, Revoked(is)) \/ \E r \in Reqs : Writes(r, u, Revoked(is))
  /\ user.exists => u.exists
  /\ ~u.exists => u.reset = 0
  /\ \/ u.password = user.password /\ (u = user \/ is = {})
     \/ u.password = user.password + 1 /\ is = 1 .. opened /\ u.exists
  /\ UNCHANGED <<now, opened>>

\* The row u differs from the account's in nothing that Alters asks for.
LEMMA AltersRow ==
  ASSUME SessionsTypeOK, NothingToChange, NEW r \in Reqs, NEW u \in User,
         Writes(r, u, sess), UNCHANGED <<now, opened>>,
         u.exists = user.exists, u.password = user.password,
         u.reset = user.reset \/ u.exists
  PROVE  Alters(u, {})
BY RevokedNone DEF Alters, NothingToChange

LEMMA LearnsRead ==
  ASSUME SessionsTypeOK, NEW r \in Reqs, NEW op, NEW at, Reads(r, op, at),
         op \in {"change", "forgot", "reset"} => user.exists
  PROVE  \E q : Learns(r, q)
<1> DEFINE q == [Idle EXCEPT !.op = op, !.at = at, !.role = user.role,
                             !.attempts = user.attempts,
                             !.proof = user.password]
<1>1. /\ q.op = op /\ q.proof = user.password /\ q.id = 0 /\ ~q.late
      /\ req' = [req EXCEPT ![r] = q]
  BY DEF Idle, Reads
<1> HIDE DEF q
<1>2. user.password \in Nat /\ opened \in Nat
  BY DEF SessionsTypeOK, User
<1>3. UNCHANGED <<now, user, opened, sess>>
  BY DEF Reads
<1>4. Learns(r, q)
  BY <1>1, <1>2, <1>3 DEF Learns
<1>5. QED
  BY <1>4

\* Every step, told by what it does to the store.
LEMMA StoreShape ==
  ASSUME SessionsInv, StoreInv, Next
  PROVE  \/ Tick
         \/ \E r \in Reqs : LoginOpens(r) \/ RefreshSwaps(r)
         \/ \E r \in Reqs : \E q : Learns(r, q)
         \/ \E u \in User, is \in SUBSET (1 .. opened) : Alters(u, is)
<1> DEFINE Learned == \E r \in Reqs : \E q : Learns(r, q)
           Altered == \E u \in User, is \in SUBSET (1 .. opened) : Alters(u, is)
<1>0. /\ SessionsTypeOK /\ user \in User /\ now \in Nat /\ opened \in Nat
      /\ issued \in 0 .. MaxResets
      /\ \A r \in Reqs : /\ req[r] \in Request
                         /\ Relies(req[r], user, sess, opened, now)
      /\ NobodyKnowsMore /\ NothingToChange
  BY DEF SessionsInv, SessionsTypeOK, Requests, StoreInv
<1>a. ASSUME NEW r \in Reqs, NEW u \in User, Writes(r, u, sess),
             UNCHANGED <<now, opened>>, u.exists = user.exists,
             u.password = user.password, u.reset = user.reset \/ u.exists
      PROVE  Altered
  BY <1>a, <1>0, AltersRow
(* reads *)
<1>1. ASSUME NEW r \in Reqs,
             \/ \E op \in {"login", "page"} : LoginReads(r, op)
             \/ GuessReads(r)
             \/ VerifyReads(r) \/ RegisterReads(r) \/ CreateReads(r)
             \/ FoundByAdmin(r, "update") \/ FoundByAdmin(r, "remove")
             \/ RestoreReads(r)
      PROVE  Learned
  BY <1>1, <1>0, LearnsRead
  DEF LoginReads, GuessReads, VerifyReads, RegisterReads, CreateReads,
      FoundByAdmin, RestoreReads
<1>2. ASSUME NEW r \in Reqs, ForgotReads(r) \/ \E i \in 1 .. opened :
                                                 ChangeReads(r, i)
      PROVE  Learned
  <2>1. user.exists
    BY <1>2, <1>0 DEF ForgotReads, SessionsInv, Rows
  <2>2. QED
    BY <1>2, <2>1, <1>0, LearnsRead DEF ForgotReads, ChangeReads
<1>3. ASSUME NEW r \in Reqs, NEW i \in 1 .. opened, RefreshReads(r, i)
      PROVE  Learned
  <2>1. PICK j \in Refreshable(i) :
          req' = [req EXCEPT ![r] = [Idle EXCEPT !.op = "refresh",
                                                 !.at = "sign",
                                                 !.role = user.role, !.id = j,
                                                 !.proof = sess[j].proof]]
    BY <1>3 DEF RefreshReads
  <2>2. j \in 1 .. opened
    BY DEF Refreshable, SameToken
  <2> DEFINE q == [Idle EXCEPT !.op = "refresh", !.at = "sign",
                               !.role = user.role, !.id = j,
                               !.proof = sess[j].proof]
  <2>3. /\ q.op = "refresh" /\ q.proof = sess[j].proof /\ q.id = j
        /\ ~q.late /\ req' = [req EXCEPT ![r] = q]
    BY <2>1 DEF Idle
  <2> HIDE DEF q
  <2>4. UNCHANGED <<now, user, opened, sess>>
    BY <1>3 DEF RefreshReads
  <2>5. Learns(r, q)
    BY <1>0, <2>2, <2>3, <2>4 DEF Learns, NobodyKnowsMore
  <2>6. QED
    BY <2>5
<1>4. ASSUME NEW r \in Reqs, ResetReads(r) PROVE Learned
  <2> DEFINE q == [Idle EXCEPT !.op = "reset", !.at = "write",
                               !.token = user.reset]
  <2>1. /\ q.op = "reset" /\ q.proof = 0 /\ q.id = 0 /\ ~q.late
        /\ req' = [req EXCEPT ![r] = q]
    BY <1>4 DEF Idle, ResetReads
  <2> HIDE DEF q
  <2>2. user.password \in Nat /\ user.exists
    BY <1>4, <1>0 DEF ResetReads, NothingToChange, User
  <2>3. UNCHANGED <<now, user, opened, sess>>
    BY <1>4 DEF ResetReads
  <2>4. Learns(r, q)
    BY <1>0, <2>1, <2>2, <2>3 DEF Learns
  <2>5. QED
    BY <2>4
<1>5. ASSUME NEW r \in Reqs, Sign(r) PROVE Learned
  <2> DEFINE q == [req[r] EXCEPT !.at = "write", !.iat = now,
                                 !.role = req[r].role]
  <2>1. req' = [req EXCEPT ![r] = q]
    BY <1>5, <1>0 DEF Sign, SignedRole, SessionsTypeOK, Request
  <2>2. /\ q.op = req[r].op /\ q.proof = req[r].proof /\ q.id = req[r].id
        /\ q.late = req[r].late
    BY <1>0 DEF Request
  <2> HIDE DEF q
  <2>3. req[r].op \in {"login", "page", "refresh"}
    BY <1>5, <1>0 DEF Relies, Sign
  <2>4. Learns(r, q)
    BY <1>5, <1>0, <2>1, <2>2, <2>3 DEF Learns, Sign, NobodyKnowsMore
  <2>5. QED
    BY <2>4
<1>6. ASSUME NEW r \in Reqs, RequestDies(r) PROVE Learned
  <2>1. /\ Idle.op = "none" /\ Idle.proof = 0 /\ Idle.id = 0
        /\ ~Idle.late
    BY DEF Idle
  <2>2. user.password \in Nat
    BY <1>0 DEF User
  <2>3. Learns(r, Idle)
    BY <1>6, <1>0, <2>1, <2>2 DEF Learns, RequestDies
  <2>4. QED
    BY <2>3
(* writes *)
<1>7. ASSUME NEW r \in Reqs, LoginFails(r) PROVE Altered
  <2> DEFINE a == req[r].attempts + 1
             until == IF Locks(a) THEN now + LockTime ELSE user.locked
             u == [user EXCEPT !.attempts = a, !.locked = until]
  <2>1. Writes(r, u, sess) /\ UNCHANGED <<now, opened>>
    BY <1>7 DEF LoginFails
  <2>2. a \in Nat /\ until \in Nat
    <3>1. req[r].attempts \in Nat /\ user.locked \in Nat
      BY <1>0 DEF Request, User
    <3>2. now + LockTime \in Nat
      BY <1>0, BoundsAre
    <3> HIDE DEF Locks
    <3>3. until = now + LockTime \/ until = user.locked
      BY Zenon
    <3>4. QED
      BY <3>1, <3>2, <3>3
  <2> HIDE DEF a, until
  <2>3. /\ u \in User /\ u.exists = user.exists
        /\ u.password = user.password /\ u.reset = user.reset
    BY <1>0, <2>2 DEF User
  <2> HIDE DEF u
  <2>4. QED
    BY <2>1, <2>3, <1>a
<1>8. ASSUME NEW r \in Reqs, ForgotWrites(r) PROVE Altered
  <2> DEFINE t == issued + 1
             until == now + ResetLife
             u == [user EXCEPT !.reset = t, !.resetBy = until]
  <2>1. Writes(r, u, sess) /\ UNCHANGED <<now, opened>>
    BY <1>8 DEF ForgotWrites
  <2>2. t \in 0 .. MaxResets /\ until \in Nat
    BY <1>0, <1>8, BoundsAre DEF ForgotWrites
  <2>3. user.exists
    BY <1>8, <1>0 DEF ForgotWrites, AtWrite, NothingToChange
  <2> HIDE DEF t, until
  <2>4. u \in User /\ u.exists /\ u.password = user.password
    BY <1>0, <2>2, <2>3 DEF User
  <2> HIDE DEF u
  <2>5. QED
    BY <2>1, <2>3, <2>4, <1>a
<1>9. ASSUME NEW r \in Reqs, VerifyWrites(r) PROVE Altered
  <2> DEFINE u == [user EXCEPT !.verified = TRUE]
  <2>1. Writes(r, u, sess) /\ UNCHANGED <<now, opened>>
    BY <1>9 DEF VerifyWrites
  <2>2. /\ u \in User /\ u.exists = user.exists
        /\ u.password = user.password /\ u.reset = user.reset
    BY <1>0 DEF User
  <2> HIDE DEF u
  <2>3. QED
    BY <2>1, <2>2, <1>a
<1>10. ASSUME NEW r \in Reqs, RegisterWrites(r) \/ CreateWrites(r)
       PROVE  Altered
  <2>1. PICK role \in Roles, b \in BOOLEAN :
          Writes(r, IF user.exists THEN user ELSE NewUser(role, b), sess)
    BY <1>10, BoundsAre DEF RegisterWrites, CreateWrites, Roles
  <2> DEFINE u == IF user.exists THEN user ELSE NewUser(role, b)
  <2>2. /\ NewUser(role, b) \in User /\ NewUser(role, b).exists
        /\ NewUser(role, b).password = 1
    BY BoundsAre DEF NewUser, User
  <2>3. u \in User /\ u.exists /\ u.password = user.password
    BY <1>0, <2>2 DEF NothingToChange
  <2>4. Writes(r, u, sess) /\ UNCHANGED <<now, opened>>
    BY <1>10, <2>1 DEF RegisterWrites, CreateWrites
  <2> HIDE DEF u
  <2>5. Alters(u, {})
    BY <1>0, <2>3, <2>4, RevokedNone DEF Alters
  <2>6. QED
    BY <2>3, <2>5
<1>11. ASSUME NEW r \in Reqs, ChangeWrites(r) \/ ResetWrites(r)
       PROVE  Altered
  <2>1. user.exists
    BY <1>11, <1>0 DEF ChangeWrites, ResetWrites, AtWrite, NothingToChange
  <2> DEFINE p == user.password + 1
  <2>2. p \in Nat /\ 0 \in 0 .. MaxResets
    BY <1>0, BoundsAre DEF User
  <2>3. \E u \in User : /\ Writes(r, u, Revoked(1 .. opened))
                        /\ u.exists /\ u.password = p
    <3> DEFINE v == [user EXCEPT !.password = p]
    <3>1. v \in User /\ v.exists /\ v.password = p
      <4> HIDE DEF p
      <4>1. QED
        BY <1>0, <2>1, <2>2 DEF User
    <3>2. ClearToken(v) \in User /\ ClearToken(v).exists
          /\ ClearToken(v).password = p
      <4> HIDE DEF p, v
      <4>1. QED
        BY <3>1, <2>2 DEF User, ClearToken
    <3>3. \/ Writes(r, v, Revoked(1 .. opened))
          \/ Writes(r, ClearToken(v), Revoked(1 .. opened))
      BY <1>11 DEF ChangeWrites, ResetWrites, RevokeAll
    <3> HIDE DEF v, p
    <3>4. QED
      BY <3>1, <3>2, <3>3
  <2>4. PICK u \in User : /\ Writes(r, u, Revoked(1 .. opened))
                          /\ u.exists /\ u.password = p
    BY <2>3
  <2>5. Alters(u, 1 .. opened)
    BY <1>11, <2>4 DEF Alters, ChangeWrites, ResetWrites
  <2>6. QED
    BY <2>5
<1>12. ASSUME NEW r \in Reqs, Update(r) \/ Remove(r) \/ Restore(r)
       PROVE  Altered
  <2>1. \A role \in GivenRoles :
          LET u == [user EXCEPT !.role = role]
          IN  /\ u \in User /\ u.exists = user.exists
              /\ u.password = user.password /\ u.reset = user.reset
    BY <1>0, BoundsAre DEF User
  <2>2. \A b \in BOOLEAN :
          LET u == [user EXCEPT !.active = b]
          IN  /\ u \in User /\ u.exists = user.exists
              /\ u.password = user.password /\ u.reset = user.reset
    BY <1>0 DEF User
  <2>3. \A b \in BOOLEAN :
          LET u == [user EXCEPT !.deleted = b]
          IN  /\ u \in User /\ u.exists = user.exists
              /\ u.password = user.password /\ u.reset = user.reset
    BY <1>0 DEF User
  <2>4. \E u \in User : /\ Writes(r, u, sess) /\ UNCHANGED <<now, opened>>
                        /\ u.exists = user.exists
                        /\ u.password = user.password /\ u.reset = user.reset
    BY <1>12, <2>1, <2>2, <2>3 DEF Update, Remove, Restore, Edit
  <2>5. QED
    BY <2>4, <1>a
<1>13. ASSUME AdminLogout \/ \E i, j \in 1 .. opened :
                               Logout(i, j) \/ RevokeSession(i, j)
       PROVE  Altered
  <2>1. \A j : SameToken(j) \subseteq 1 .. opened
    BY DEF SameToken
  <2>2. PICK is \in SUBSET (1 .. opened) :
          WritesAtOnce(user, Revoked(is)) /\ UNCHANGED <<now, opened>>
    BY <1>13, <2>1 DEF AdminLogout, Logout, RevokeSession
  <2>3. Alters(user, is)
    BY <2>2, <1>0 DEF Alters, NothingToChange
  <2>4. QED
    BY <2>3, <1>0
<1>14. QED
  BY <1>1, <1>2, <1>3, <1>4, <1>5, <1>6, <1>7, <1>8, <1>9, <1>10, <1>11,
     <1>12, <1>13
  DEF Next, LoginStep, SessionStep, PasswordStep, AccountStep

\* What a write leaves of the requests, and what it makes late.
LEMMA WritesKeep ==
  ASSUME SessionsTypeOK, NEW r, NEW u, NEW s,
         Writes(r, u, s) \/ WritesAtOnce(u, s), NEW x \in Reqs
  PROVE  /\ \/ /\ req'[x].op = "none" /\ req'[x].proof = 0
               /\ req'[x].id = 0 /\ ~req'[x].late
            \/ /\ req'[x].op = req[x].op /\ req'[x].proof = req[x].proof
               /\ req'[x].id = req[x].id
         /\ req'[x].late => \/ req[x].late
                            \/ Standing(u) # Standing(user)
                            \/ /\ req[x].id # 0
                               /\ s[req[x].id].live # sess[req[x].id].live
<1>1. CASE req'[x] = Idle
  BY <1>1 DEF Idle
<1>2. CASE req'[x] = Overtaken(x, u, s)
  <2>1. req[x] \in Request
    BY DEF SessionsTypeOK
  <2>2. Overtaken(x, u, s).late =>
          \/ req[x].late
          \/ Standing(u) # Standing(user)
          \/ /\ req[x].id # 0
             /\ s[req[x].id].live # sess[req[x].id].live
    BY <2>1 DEF Overtaken, Request
  <2>3. QED
    BY <1>2, <2>2, OvertakenIs
<1>3. req'[x] = Idle \/ req'[x] = Overtaken(x, u, s)
  BY DEF Writes, WritesAtOnce
<1>4. QED
  BY <1>1, <1>2, <1>3

\* The row that a login or an exchange adds, to what it leaves of the others.
LEMMA OpensRow ==
  ASSUME SessionsInv, NEW r \in Reqs, LoginOpens(r) \/ RefreshSwaps(r)
  PROVE  /\ Relies(req[r], user, sess, opened, now)
         /\ opened \in Nat /\ opened' = opened + 1 /\ now' = now
         /\ Writes(r, user', sess')
         /\ sess'[opened + 1] = NewSession(r)
         /\ \/ /\ LoginOpens(r)
               /\ req[r].op \in {"login", "page"}
               /\ user' = [user EXCEPT !.attempts = 0, !.locked = 0]
               /\ \A i \in 1 .. opened : sess'[i] = sess[i]
            \/ /\ RefreshSwaps(r)
               /\ req[r].op = "refresh" /\ req[r].id \in 1 .. opened
               /\ user' = user
               /\ \A i \in 1 .. opened : sess'[i] = Revoked({req[r].id})[i]
<1>1. /\ Relies(req[r], user, sess, opened, now)
      /\ opened \in Nat /\ sess \in [Ids -> Session \cup {NoSession}]
  BY DEF SessionsInv, SessionsTypeOK, Requests
<1>2. opened' = opened + 1 /\ now' = now /\ opened < mix.sessions
  BY DEF LoginOpens, RefreshSwaps
<1>3. mix.sessions \in 0 .. MaxSessions
  BY SessionsAssumption DEF SessionsAssumption, SessionsInv, SessionsTypeOK
<1>4. opened + 1 \in Ids /\ opened + 1 \notin 1 .. opened
      /\ 1 .. opened \subseteq Ids
  BY <1>1, <1>2, <1>3, BoundsAre DEF Ids
<1>5. ASSUME LoginOpens(r)
      PROVE  /\ Writes(r, user', sess')
             /\ sess'[opened + 1] = NewSession(r)
             /\ req[r].op \in {"login", "page"}
             /\ user' = [user EXCEPT !.attempts = 0, !.locked = 0]
             /\ \A i \in 1 .. opened : sess'[i] = sess[i]
  <2> DEFINE u == [user EXCEPT !.attempts = 0, !.locked = 0]
             s == [sess EXCEPT ![opened + 1] = NewSession(r)]
  <2>1. Writes(r, u, s) /\ req[r].op \in {"login", "page"}
    BY <1>5 DEF LoginOpens
  <2>2. user' = u /\ sess' = s
    BY <2>1 DEF Writes
  <2>3. s[opened + 1] = NewSession(r) /\ \A i \in 1 .. opened : s[i] = sess[i]
    BY <1>1, <1>4
  <2> HIDE DEF s
  <2>4. QED
    BY <2>1, <2>2, <2>3
<1>6. ASSUME RefreshSwaps(r)
      PROVE  /\ Writes(r, user', sess')
             /\ sess'[opened + 1] = NewSession(r)
             /\ req[r].op = "refresh" /\ req[r].id \in 1 .. opened
             /\ user' = user
             /\ \A i \in 1 .. opened : sess'[i] = Revoked({req[r].id})[i]
  <2>1. req[r].op = "refresh" /\ req[r].id \in 1 .. opened
    BY <1>1, <1>6 DEF RefreshSwaps, AtWrite, Relies
  <2> DEFINE t == Revoked({req[r].id})
             s == [t EXCEPT ![opened + 1] = NewSession(r)]
  <2>2. RevokeOld(req[r].id) = t /\ t \in [Ids -> Session \cup {NoSession}]
    BY <2>1, RevokedOld, RevokedIs DEF SessionsInv
  <2>3. Writes(r, user, s)
    BY <1>6, <2>2 DEF RefreshSwaps
  <2>4. user' = user /\ sess' = s
    BY <2>3 DEF Writes
  <2> HIDE DEF t
  <2>5. s[opened + 1] = NewSession(r) /\ \A i \in 1 .. opened : s[i] = t[i]
    BY <1>4, <2>2
  <2> HIDE DEF s
  <2>6. QED
    BY <2>1, <2>3, <2>4, <2>5 DEF t
<1>7. QED
  BY <1>1, <1>2, <1>5, <1>6

LEMMA StoreInvInit == Init => StoreInv
<1> SUFFICES ASSUME Init PROVE StoreInv
  OBVIOUS
<1>1. user.password = 1 /\ user.reset = 0
  BY DEF Init, NewUser
<1>2. ASSUME NEW r \in Reqs
      PROVE  req[r].proof = 0 /\ req[r].id = 0 /\ req[r].op = "none"
  BY DEF Init, Idle
<1>3. opened = 0
  BY DEF Init
<1>4. QED
  BY <1>1, <1>2, <1>3 DEF StoreInv, NobodyKnowsMore, NothingToChange

LEMMA StoreInvStep == SessionsInv /\ StoreInv /\ [Next]_vars => StoreInv'
<1> SUFFICES ASSUME SessionsInv, StoreInv, [Next]_vars PROVE StoreInv'
  OBVIOUS
<1>0. /\ SessionsTypeOK /\ user.password \in Nat /\ opened \in Nat
      /\ user.exists \in BOOLEAN
  BY DEF SessionsInv, SessionsTypeOK, User
<1>1. ASSUME UNCHANGED vars \/ Tick PROVE StoreInv'
  BY <1>1 DEF vars, Tick, StoreInv, NobodyKnowsMore, NothingToChange
<1>2. ASSUME NEW r \in Reqs, NEW q, Learns(r, q) PROVE StoreInv'
  <2>1. ASSUME NEW x \in Reqs
        PROVE  /\ req'[x].proof <= user.password /\ req'[x].id <= opened
               /\ ~user.exists => req'[x].op \notin {"change", "forgot", "reset"}
    <3>1. req'[x] = IF x = r THEN q ELSE req[x]
      BY <1>0, <1>2 DEF Learns, SessionsTypeOK
    <3>2. QED
      BY <1>2, <3>1 DEF Learns, StoreInv, NobodyKnowsMore, NothingToChange
  <2>2. UNCHANGED <<user, opened, sess>>
    BY <1>2 DEF Learns
  <2>3. QED
    BY <2>1, <2>2 DEF StoreInv, NobodyKnowsMore, NothingToChange
<1>3. ASSUME NEW u \in User, NEW is \in SUBSET (1 .. opened), Alters(u, is)
      PROVE  StoreInv'
  <2>1. PICK r : Writes(r, u, Revoked(is)) \/ WritesAtOnce(u, Revoked(is))
    BY <1>3 DEF Alters
  <2>2. user' = u /\ sess' = Revoked(is) /\ opened' = opened
    BY <1>3, <2>1 DEF Writes, WritesAtOnce, Alters
  <2>3. /\ user.password <= u.password /\ u.password \in Nat
        /\ ~u.exists => /\ ~user.exists /\ u.password = user.password
                        /\ u.reset = 0
    BY <1>0, <1>3 DEF Alters, User
  <2>4. ASSUME NEW x \in Reqs
        PROVE  /\ req'[x].proof <= u.password /\ req'[x].id <= opened
               /\ ~u.exists => req'[x].op \notin {"change", "forgot", "reset"}
    <3>1. \/ req'[x].op = "none" /\ req'[x].proof = 0 /\ req'[x].id = 0
          \/ /\ req'[x].op = req[x].op /\ req'[x].proof = req[x].proof
             /\ req'[x].id = req[x].id
      BY <1>0, <2>1, WritesKeep
    <3>2. req[x].proof \in Nat
      BY <1>0 DEF SessionsTypeOK, Request
    <3>3. QED
      BY <1>0, <2>3, <3>1, <3>2
      DEF StoreInv, NobodyKnowsMore, NothingToChange
  <2>5. ASSUME NEW i \in 1 .. opened
        PROVE  sess'[i].proof <= u.password
    <3>1. sess'[i].proof = sess[i].proof /\ sess[i].proof \in Nat
      BY <1>0, <2>2, RevokedIs DEF SessionsTypeOK, Session
    <3>2. QED
      BY <1>0, <2>3, <3>1 DEF StoreInv, NobodyKnowsMore
  <2>6. QED
    BY <2>2, <2>3, <2>4, <2>5 DEF StoreInv, NobodyKnowsMore, NothingToChange
<1>4. ASSUME NEW r \in Reqs, LoginOpens(r) \/ RefreshSwaps(r)
      PROVE  StoreInv'
  <2>1. /\ opened' = opened + 1 /\ Writes(r, user', sess')
        /\ sess'[opened + 1] = NewSession(r)
        /\ \/ user' = [user EXCEPT !.attempts = 0, !.locked = 0]
           \/ user' = user
    BY <1>4, OpensRow
  <2>2. /\ user'.exists = user.exists /\ user'.password = user.password
        /\ user'.reset = user.reset
    BY <1>0, <2>1 DEF SessionsTypeOK, User
  <2>3. ASSUME NEW i \in 1 .. opened PROVE sess'[i].proof = sess[i].proof
    <3>1. CASE sess'[i] = sess[i]
      BY <3>1
    <3>2. CASE /\ req[r].id \in 1 .. opened
               /\ sess'[i] = Revoked({req[r].id})[i]
      <4> DEFINE is == {req[r].id}
      <4>1. is \in SUBSET (1 .. opened) /\ sess'[i] = Revoked(is)[i]
        BY <3>2
      <4> HIDE DEF is
      <4>2. QED
        BY <1>0, <4>1, RevokedIs
    <3>3. QED
      BY <1>4, <3>1, <3>2, OpensRow
  <2>4. sess'[opened + 1].proof = req[r].proof
    BY <2>1, NewSessionIs
  <2>5. ASSUME NEW i \in 1 .. opened'
        PROVE  sess'[i].proof <= user'.password
    <3>1. i \in 1 .. opened \/ i = opened + 1
      BY <1>0, <2>1
    <3>2. QED
      BY <2>2, <2>3, <2>4, <3>1 DEF StoreInv, NobodyKnowsMore
  <2>6. ASSUME NEW x \in Reqs
        PROVE  /\ req'[x].proof <= user.password /\ req'[x].id <= opened'
               /\ ~user.exists => req'[x].op \notin {"change", "forgot", "reset"}
    <3>1. \/ req'[x].op = "none" /\ req'[x].proof = 0 /\ req'[x].id = 0
          \/ /\ req'[x].op = req[x].op /\ req'[x].proof = req[x].proof
             /\ req'[x].id = req[x].id
      BY <1>0, <2>1, WritesKeep
    <3>2. req[x].id \in Nat
      BY <1>0, BoundsAre DEF SessionsTypeOK, Request
    <3>3. QED
      BY <1>0, <2>1, <3>1, <3>2
      DEF StoreInv, NobodyKnowsMore, NothingToChange
  <2>7. QED
    BY <2>2, <2>5, <2>6 DEF StoreInv, NobodyKnowsMore, NothingToChange
<1>5. QED
  BY <1>1, <1>2, <1>3, <1>4, StoreShape

LEMMA StoreSees ==
  ASSUME SessionsTypeOK
  PROVE  /\ AccountNow \in Store!Account
         /\ AccountNow.exists = user.exists /\ AccountNow.active = user.active
         /\ AccountNow.deleted = user.deleted /\ AccountNow.role = user.role
         /\ AccountNow.password = user.password
         /\ AccountNow.locked = user.locked
BY DEF AccountNow, Store!Account, SessionsTypeOK, User

\* A write makes late who knew what it changes.
LEMMA StoreOvertakes ==
  ASSUME SessionsInv, StoreInv, NEW r, Writes(r, user', sess')
                                       \/ WritesAtOnce(user', sess'),
         opened \in Nat, opened' \in {opened, opened + 1}
  PROVE  Store!Overtakes
<1>1. LateNow' \in SUBSET Reqs
  BY DEF LateNow
<1>2. ASSUME NEW x \in LateNow', x \notin LateNow
      PROVE  \/ AccountNow' # AccountNow
             \/ \E i \in 1 .. opened : RowsNow'[i].live # RowsNow[i].live
  <2>1. x \in Reqs /\ req'[x].late /\ ~req[x].late
    BY <1>2 DEF LateNow
  <2>2. \/ Standing(user') # Standing(user)
        \/ /\ req[x].id # 0
           /\ sess'[req[x].id].live # sess[req[x].id].live
    BY <2>1, WritesKeep DEF SessionsInv
  <2>3. CASE Standing(user') # Standing(user)
    BY <2>3 DEF Standing, AccountNow
  <2>4. CASE /\ req[x].id # 0
             /\ sess'[req[x].id].live # sess[req[x].id].live
    <3>1. req[x].id \in 1 .. opened
      <4>1. req[x].id \in Nat
        BY <2>1, BoundsAre DEF SessionsInv, SessionsTypeOK, Request
      <4>2. QED
        BY <4>1, <2>1, <2>4 DEF StoreInv, NobodyKnowsMore
    <3>2. /\ RowsNow[req[x].id].live = sess[req[x].id].live
          /\ RowsNow'[req[x].id].live = sess'[req[x].id].live
      BY <3>1 DEF RowsNow
    <3>3. QED
      BY <2>4, <3>1, <3>2
  <2>5. QED
    BY <2>2, <2>3, <2>4
<1>3. QED
  BY <1>1, <1>2 DEF Store!Overtakes

\* (The provers find this with the Boolean field typed only.)
LEMMA ClosedRow ==
  ASSUME NEW S, NEW T, NEW U,
         NEW x \in [live : BOOLEAN, proof : S, role : T, parent : U]
  PROVE  [x EXCEPT !.live = FALSE]
           = [live |-> FALSE, proof |-> x.proof, role |-> x.role,
              parent |-> x.parent]
<1> DEFINE R == [live : BOOLEAN, proof : S, role : T, parent : U]
           e == [x EXCEPT !.live = FALSE]
           f == [live |-> FALSE, proof |-> x.proof, role |-> x.role,
                 parent |-> x.parent]
<1>1. /\ e \in R /\ e.live = FALSE /\ e.proof = x.proof
      /\ e.role = x.role /\ e.parent = x.parent
  OBVIOUS
<1>2. /\ f \in R /\ f.live = FALSE /\ f.proof = x.proof
      /\ f.role = x.role /\ f.parent = x.parent
  OBVIOUS
<1> HIDE DEF e, f
<1>3. e = f
  BY <1>1, <1>2
<1>4. QED
  BY <1>3 DEF e, f

\* What becomes of the rows.
LEMMA StoreCloses ==
  ASSUME SessionsTypeOK, NEW is \in SUBSET (1 .. opened), NEW n,
         \A i \in 1 .. opened : sess'[i] = Revoked(is)[i],
         n = [i \in 1 .. opened |->
                [live |-> sess'[i].live, proof |-> sess'[i].proof,
                 role |-> sess'[i].role, parent |-> sess'[i].parent]]
  PROVE  n = Store!Closed(is)
<1>1. ASSUME NEW i \in 1 .. opened
      PROVE  n[i] = IF i \in is THEN [RowsNow[i] EXCEPT !.live = FALSE]
                    ELSE RowsNow[i]
  <2> DEFINE s == Revoked(is)[i]
  <2>1. /\ s.role = sess[i].role /\ s.parent = sess[i].parent
        /\ s.proof = sess[i].proof /\ s.live = (sess[i].live /\ i \notin is)
    BY RevokedIs
  <2>2. sess[i].live \in BOOLEAN
    BY DEF SessionsTypeOK, Session
  <2>3. RowsNow[i] = [live |-> sess[i].live, proof |-> sess[i].proof,
                      role |-> sess[i].role, parent |-> sess[i].parent]
    BY DEF RowsNow
  <2> HIDE DEF s
  <2>4. n[i] = [live |-> s.live, proof |-> s.proof, role |-> s.role,
                parent |-> s.parent]
    BY DEF s
  <2>5. CASE i \in is
    <3>1. s.live = FALSE
      BY <2>1, <2>5
    <3>2. [RowsNow[i] EXCEPT !.live = FALSE]
            = [live |-> FALSE, proof |-> sess[i].proof,
               role |-> sess[i].role, parent |-> sess[i].parent]
      <4>1. sess[i] \in Session
        BY DEF SessionsTypeOK
      <4>2. RowsNow[i] \in [live : BOOLEAN, proof : Nat, role : Roles,
                            parent : 0 .. MaxSessions]
        BY <2>3, <4>1 DEF Session
      <4>3. /\ RowsNow[i].proof = sess[i].proof
            /\ RowsNow[i].role = sess[i].role
            /\ RowsNow[i].parent = sess[i].parent
        BY <2>3
      <4>4. QED
        BY <4>2, <4>3, ClosedRow
    <3>3. n[i] = [live |-> FALSE, proof |-> sess[i].proof,
                  role |-> sess[i].role, parent |-> sess[i].parent]
      BY <2>1, <2>4, <3>1
    <3>4. QED
      BY <2>5, <3>2, <3>3
  <2>6. CASE i \notin is
    <3>1. s.live = sess[i].live
      BY <2>1, <2>2, <2>6
    <3>2. QED
      BY ONLY <2>1, <2>3, <2>4, <2>6, <3>1
  <2>7. QED
    BY <2>5, <2>6
<1>2. QED
  BY <1>1 DEF Store!Closed

LEMMA StoreInit == Init => Store!Init
<1> SUFFICES ASSUME Init PROVE Store!Init
  OBVIOUS
<1>1. AccountNow \in Store!Account
  BY StoreSees, SessionsInit DEF SessionsInv
<1>2. LateNow = {}
  BY DEF LateNow, Init, Idle
<1>3. opened = 0 /\ now = 0
  BY DEF Init
<1>4. RowsNow = [i \in 1 .. opened |-> [live |-> FALSE]]
  BY <1>3 DEF RowsNow
<1>5. QED
  BY <1>1, <1>2, <1>3, <1>4 DEF Store!Init

LEMMA StoreLearns ==
  ASSUME SessionsTypeOK, NEW r \in Reqs, NEW q, Learns(r, q)
  PROVE  Store!Next \/ UNCHANGED Store!vars
<1>1. UNCHANGED <<now, AccountNow, opened, RowsNow>>
  BY DEF Learns, AccountNow, RowsNow
<1>3. ASSUME NEW x \in Reqs
      PROVE  req'[x].late <=> IF x = r THEN q.late ELSE req[x].late
  BY DEF Learns, SessionsTypeOK
<1>4. q.late => req[r].late
  BY DEF Learns
<1>5. CASE req[r].late /\ ~q.late
  <2>1. r \in LateNow /\ LateNow' = LateNow \ {r}
    BY <1>3, <1>5 DEF LateNow
  <2>2. Store!Leave(r)
    BY <1>1, <2>1 DEF Store!Leave
  <2>3. QED
    BY <2>2 DEF Store!Next
<1>6. CASE ~(req[r].late /\ ~q.late)
  <2>1. LateNow' = LateNow
    BY <1>3, <1>4, <1>6 DEF LateNow
  <2>2. QED
    BY <1>1, <2>1 DEF Store!vars
<1>7. QED
  BY <1>5, <1>6

LEMMA StoreAlters ==
  ASSUME SessionsInv, StoreInv, NEW u \in User,
         NEW is \in SUBSET (1 .. opened), Alters(u, is)
  PROVE  Store!Next
<1>0. SessionsTypeOK /\ opened \in Nat
  BY DEF SessionsInv, SessionsTypeOK
<1>1. PICK r : Writes(r, u, Revoked(is)) \/ WritesAtOnce(u, Revoked(is))
  BY DEF Alters
<1>2. user' = u /\ sess' = Revoked(is) /\ UNCHANGED <<now, opened>>
  BY <1>1 DEF Writes, WritesAtOnce, Alters
<1>3. Store!Overtakes
  BY <1>0, <1>1, <1>2, StoreOvertakes
<1>4. RowsNow' = Store!Closed(is)
  <2> DEFINE n == [i \in 1 .. opened |->
                     [live |-> sess'[i].live, proof |-> sess'[i].proof,
                      role |-> sess'[i].role, parent |-> sess'[i].parent]]
  <2>1. RowsNow' = n
    BY <1>2 DEF RowsNow
  <2>2. \A i \in 1 .. opened : sess'[i] = Revoked(is)[i]
    BY <1>2
  <2> HIDE DEF n
  <2>3. n = Store!Closed(is)
    BY <1>0, <2>2, StoreCloses DEF n
  <2>4. QED
    BY <2>1, <2>3
<1>5. CASE u = user
  <2>1. AccountNow' = AccountNow
    BY <1>2, <1>5 DEF AccountNow
  <2>2. Store!Close(is)
    BY <1>2, <1>3, <1>4, <2>1 DEF Store!Close
  <2>3. QED
    BY <2>2 DEF Store!Next
<1>6. CASE u # user
  <2>1. AccountNow' \in Store!Account
    BY <1>2 DEF AccountNow, Store!Account, User
  <2>2. /\ AccountNow.exists => AccountNow'.exists
        /\ AccountNow.password = user.password
        /\ AccountNow'.password = u.password
    BY <1>2 DEF AccountNow, Alters
  <2>3. is = {} => RowsNow' = RowsNow
    <3>1. is = {} => sess' = sess
      BY <1>0, <1>2, RevokedNone
    <3>2. QED
      BY <1>2, <3>1 DEF RowsNow
  <2>4. Store!Alter
    BY <1>2, <1>3, <1>4, <1>6, <2>1, <2>2, <2>3 DEF Store!Alter, Alters
  <2>5. QED
    BY <2>4 DEF Store!Next
<1>7. QED
  BY <1>5, <1>6

\* What Opens asks for, of the rows rs that stay.
LEMMA StoreOpens ==
  ASSUME SessionsInv, NEW r \in Reqs, LoginOpens(r) \/ RefreshSwaps(r),
         NEW is \in SUBSET (1 .. opened),
         \A i \in 1 .. opened : sess'[i] = Revoked(is)[i],
         NEW rs, \A i \in 1 .. opened : rs[i] = Store!Closed(is)[i]
  PROVE  Store!Opens(rs, req[r].proof, req[r].role, req[r].id)
<1>1. /\ opened \in Nat /\ opened' = opened + 1
      /\ sess'[opened + 1] = NewSession(r)
  BY OpensRow
<1> DEFINE row(i) == [live |-> sess'[i].live, proof |-> sess'[i].proof,
                      role |-> sess'[i].role, parent |-> sess'[i].parent]
<1>2. ASSUME NEW i \in 1 .. opened PROVE row(i) = rs[i]
  <2> DEFINE n == [j \in 1 .. opened |-> row(j)]
  <2>1. n[i] = row(i)
    OBVIOUS
  <2>2. n = Store!Closed(is)
    BY StoreCloses DEF SessionsInv
  <2> HIDE DEF n
  <2>3. QED
    BY <2>1, <2>2
<1>3. row(opened + 1) = [live |-> TRUE, proof |-> req[r].proof,
                         role |-> req[r].role, parent |-> req[r].id]
  <2> DEFINE s == sess'[opened + 1]
  <2>1. /\ s.live = TRUE /\ s.proof = req[r].proof /\ s.role = req[r].role
        /\ s.parent = req[r].id
    BY <1>1, NewSessionIs
  <2> HIDE DEF s
  <2>2. row(opened + 1) = [live |-> s.live, proof |-> s.proof,
                           role |-> s.role, parent |-> s.parent]
    BY DEF s
  <2>3. QED
    BY <2>1, <2>2
<1>4. RowsNow' = [i \in 1 .. opened + 1 |-> row(i)]
  BY <1>1 DEF RowsNow
<1>5. \A i \in 1 .. opened + 1 :
        /\ i <= opened => i \in 1 .. opened
        /\ ~(i <= opened) => i = opened + 1
  BY <1>1
<1> HIDE DEF row
<1>6. RowsNow' = [i \in 1 .. opened + 1 |->
                    IF i <= opened THEN rs[i]
                    ELSE [live |-> TRUE, proof |-> req[r].proof,
                          role |-> req[r].role, parent |-> req[r].id]]
  BY <1>2, <1>3, <1>4, <1>5
<1>7. QED
  BY <1>1, <1>6 DEF Store!Opens

\* By login or exchange, by a request that is late or is not.
LEMMA StoreOpensOne ==
  ASSUME SessionsInv, StoreInv, NEW r \in Reqs,
         LoginOpens(r) \/ RefreshSwaps(r)
  PROVE  Store!Next
<1>0. /\ SessionsTypeOK /\ opened \in Nat
      /\ req[r] \in Request /\ Relies(req[r], user, sess, opened, now)
      /\ opened' = opened + 1 /\ now' = now
  BY OpensRow DEF SessionsInv, SessionsTypeOK
<1>1. Store!Overtakes
  BY <1>0, OpensRow, StoreOvertakes
<1>2. r \notin LateNow' /\ (r \in LateNow <=> req[r].late)
  <2>1. req'[r] = Idle
    BY OpensRow DEF Writes
  <2>2. QED
    BY <2>1 DEF LateNow, Idle
<1>3. req[r].proof \in 0 .. AccountNow.password /\ req[r].role \in Roles
  <2>1. req[r].proof \in Nat /\ req[r].role \in Roles /\ user.password \in Nat
    BY <1>0 DEF Request, SessionsTypeOK, User
  <2>2. QED
    BY <1>0, <2>1, StoreSees DEF StoreInv, NobodyKnowsMore
<1>4. CASE LoginOpens(r) /\ req[r].op \in {"login", "page"}
  <2>1. req[r].id = 0 /\ user.exists
    BY <1>0, <1>4 DEF Relies
  <2>2. user' = [user EXCEPT !.attempts = 0, !.locked = 0]
    BY <1>4 DEF LoginOpens, Writes
  <2>3. AccountNow' = [AccountNow EXCEPT !.locked = 0]
    <3>1. /\ user'.exists = user.exists /\ user'.active = user.active
          /\ user'.deleted = user.deleted /\ user'.role = user.role
          /\ user'.password = user.password /\ user'.locked = 0
      BY <1>0, <2>2 DEF SessionsTypeOK, User
    <3>2. AccountNow' = [exists |-> user.exists, active |-> user.active,
                         deleted |-> user.deleted, role |-> user.role,
                         password |-> user.password, locked |-> 0]
      BY <3>1 DEF AccountNow
    <3>3. QED
      BY <3>2 DEF AccountNow
  <2>4. \A i \in 1 .. opened : sess'[i] = Revoked({})[i]
    <3>1. \A i \in 1 .. opened : sess'[i] = sess[i]
      BY <1>4, OpensRow DEF LoginOpens, RefreshSwaps, AtWrite
    <3>2. QED
      BY <1>0, <3>1, RevokedNone
  <2>5. \A i \in 1 .. opened :
          /\ Store!Closed({})[i] = RowsNow[i]
          /\ Store!Closed({0})[i] = RowsNow[i]
    BY DEF Store!Closed
  <2>6. CASE ~req[r].late
    <3>1. /\ user.active /\ ~user.deleted /\ user.locked <= now
          /\ req[r].proof = user.password /\ req[r].role = user.role
      BY <1>0, <1>4, <2>6 DEF Relies
    <3>2. Store!InGoodStanding /\ AccountNow.locked <= now
      BY <1>0, <2>1, <3>1, StoreSees DEF Store!InGoodStanding
    <3>3. Store!Opens(RowsNow, req[r].proof, req[r].role, req[r].id)
      BY <2>4, <2>5, StoreOpens
    <3>4. Store!Opens(RowsNow, AccountNow.password, AccountNow.role, 0)
      BY <1>0, <2>1, <3>1, <3>3, StoreSees
    <3>5. Store!Login(r)
      BY <1>0, <1>1, <1>2, <2>3, <2>6, <3>2, <3>4 DEF Store!Login
    <3>6. QED
      BY <3>5 DEF Store!Next
  <2>7. CASE req[r].late
    <3> DEFINE rs == Store!Closed({0})
    <3>1. \A i \in 1 .. opened : rs[i] = Store!Closed({})[i]
      BY <2>5
    <3> HIDE DEF rs
    <3>2. Store!Opens(rs, req[r].proof, req[r].role, req[r].id)
      BY <2>4, <3>1, StoreOpens
    <3>3. Store!LateOpens(r, 0)
      BY <1>0, <1>1, <1>2, <1>3, <2>1, <2>3, <2>7, <3>2
      DEF Store!LateOpens, rs
    <3>4. 0 \in 0 .. opened
      BY <1>0
    <3>5. QED
      BY <3>3, <3>4 DEF Store!Next
  <2>8. QED
    BY <2>6, <2>7
<1>5. CASE RefreshSwaps(r) /\ req[r].op = "refresh"
  <2> DEFINE id == req[r].id
  <2>1. id \in 1 .. opened /\ id # 0 /\ req[r].proof = sess[id].proof
    BY <1>0, <1>5 DEF Relies
  <2>2. user' = user /\ AccountNow' = AccountNow
    BY <1>5 DEF RefreshSwaps, Writes, AccountNow
  <2>3. \A i \in 1 .. opened : sess'[i] = Revoked({id})[i]
    BY <1>5, OpensRow DEF LoginOpens, RefreshSwaps, AtWrite
  <2> DEFINE is == {id}
             rs == Store!Closed(is)
  <2>4. Store!Opens(rs, req[r].proof, req[r].role, id)
    <3>1. is \in SUBSET (1 .. opened)
      BY <2>1
    <3>2. \A i \in 1 .. opened : sess'[i] = Revoked(is)[i]
      BY <2>3
    <3> HIDE DEF is
    <3>3. QED
      BY <3>1, <3>2, StoreOpens
  <2>5. CASE ~req[r].late
    <3>1. /\ user.active /\ ~user.deleted /\ req[r].role = user.role
          /\ sess[id].live
      BY <1>0, <1>5, <2>5 DEF Relies
    <3>2. user.exists
      BY <1>0, <2>1 DEF SessionsInv, Rows
    <3>3. Store!InGoodStanding
      BY <1>0, <3>1, <3>2, StoreSees DEF Store!InGoodStanding
    <3>4. RowsNow[id].live /\ RowsNow[id].proof = req[r].proof
      <4> HIDE DEF id
      <4>1. QED
        BY <2>1, <3>1 DEF RowsNow
    <3>5. Store!Opens(rs, RowsNow[id].proof, AccountNow.role, id)
      BY <1>0, <2>4, <3>1, <3>4, StoreSees
    <3>6. Store!Exchange(r, id)
      BY <1>0, <1>1, <1>2, <2>2, <2>5, <3>3, <3>4, <3>5 DEF Store!Exchange
    <3>7. QED
      BY <2>1, <3>6 DEF Store!Next
  <2>6. CASE req[r].late
    <3>1. Store!LateOpens(r, id)
      BY <1>0, <1>1, <1>2, <1>3, <2>1, <2>2, <2>4, <2>6 DEF Store!LateOpens
    <3>2. id \in 0 .. opened
      BY <1>0, <2>1
    <3>3. QED
      BY <3>1, <3>2 DEF Store!Next
  <2>7. QED
    BY <2>5, <2>6
<1>6. QED
  BY <1>4, <1>5, OpensRow

LEMMA StoreStep ==
  SessionsInv /\ StoreInv /\ [Next]_vars => [Store!Next]_(Store!vars)
<1> SUFFICES ASSUME SessionsInv, StoreInv, [Next]_vars
             PROVE  Store!Next \/ UNCHANGED Store!vars
  OBVIOUS
<1>1. ASSUME UNCHANGED vars PROVE UNCHANGED Store!vars
  BY <1>1 DEF vars, Store!vars, AccountNow, RowsNow, LateNow
<1>2. ASSUME Tick PROVE Store!Next
  <2>1. Store!Tick
    BY <1>2 DEF Tick, Store!Tick, AccountNow, RowsNow, LateNow
  <2>2. QED
    BY <2>1 DEF Store!Next
<1>3. QED
  BY <1>1, <1>2, StoreShape, StoreLearns, StoreAlters, StoreOpensOne
  DEF SessionsInv

\* The awaits of login, refresh, changePassword and the rest (auth.service
\* 72-215, 247, 313) show only in the requests that were overtaken: the
\* sessions are those of a store where each request is one step.
THEOREM ImplementsStore == Spec => KeepsStore
<1>1. Spec => []StoreInv
  BY SessionsInvariant, StoreInvInit, StoreInvStep, PTL DEF Spec
<1>2. QED
  BY <1>1, SessionsInvariant, StoreInit, StoreStep, PTL
  DEF Spec, KeepsStore, Store!Spec
=============================================================================
