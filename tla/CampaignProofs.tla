--------------------------- MODULE CampaignProofs ---------------------------
(***************************************************************************)
(* Theorems of Campaign, for any number of contacts, requests, starts and  *)
(* faults and any batch size.                                              *)
(***************************************************************************)
EXTENDS Campaign, FiniteSetTheorems, TLAPS

(***************************************************************************)
(* Type correctness.                                                       *)
(***************************************************************************)

LEMMA AddedIsFinite ==
  ASSUME TypeOK, NEW r \in Requests
  PROVE  Cardinality(added[r]) \in Nat
<1>1. added[r] \subseteq Contacts
  BY DEF TypeOK
<1>2. IsFiniteSet(added[r])
  BY <1>1, FS_Subset, ConstantsAssumption DEF ConstantsAssumption
<1>3. QED
  BY <1>2, FS_CardinalityType

LEMMA TypeInit == Init => TypeOK
BY ConstantsAssumption DEF ConstantsAssumption, Init, TypeOK, Stored

LEMMA TypeStep == TypeOK /\ [Next]_vars => TypeOK'
<1> SUFFICES ASSUME TypeOK, [Next]_vars PROVE TypeOK'
  OBVIOUS
<1> USE ConstantsAssumption DEF ConstantsAssumption, TypeOK, Stored, Stopping,
        Exists, db, plan, tally, req, exe, obs, Answer, Goto, Fault
<1>1. ASSUME NEW r \in Requests, NEW cs \in SUBSET Contacts,
             NEW at \in Schedules, Create(r, cs, at)
      PROVE  TypeOK'
  BY <1>1 DEF Create
<1>2. ASSUME NEW r \in Requests, NEW o \in Ops, Begin(r, o) PROVE TypeOK'
  BY <1>2 DEF Begin
<1>3. ASSUME NEW r \in Requests, NEW cs \in SUBSET Contacts, BeginAdd(r, cs)
      PROVE  TypeOK'
  BY <1>3 DEF BeginAdd
<1>4. ASSUME NEW r \in Requests, SchedulerTick(r) PROVE TypeOK'
  BY <1>4 DEF SchedulerTick, Ops, Accepts
<1>5. ASSUME NEW r \in Requests, WriteGone(r) PROVE TypeOK'
  BY <1>5 DEF WriteGone
<1>6. ASSUME NEW r \in Requests, WriteUpdate(r) PROVE TypeOK'
  BY <1>6 DEF WriteUpdate
<1>7. ASSUME NEW r \in Requests, NEW e \in Executors, WriteStart(r, e)
      PROVE  TypeOK'
  BY <1>7 DEF WriteStart
<1>8. ASSUME NEW r \in Requests, WriteStop(r) PROVE TypeOK'
  BY <1>8 DEF WriteStop
<1>9. ASSUME NEW r \in Requests, WriteRemove(r) PROVE TypeOK'
  BY <1>9 DEF WriteRemove, RowGone
<1>10. ASSUME NEW r \in Requests, NEW c \in Contacts, AddRow(r, c)
       PROVE  TypeOK'
  <2>1. CASE NewRow(c)
    <3>1. /\ rcp' = [rcp EXCEPT ![c] = "PENDING"]
          /\ added' = [added EXCEPT ![r] = @ \cup {c}]
          /\ todo' = [todo EXCEPT ![r] = @ \ {c}]
      BY <1>10, <2>1 DEF AddRow
    <3>2. added[r] \cup {c} \in SUBSET Contacts
      OBVIOUS
    <3>3. rcp' \in [Contacts -> {"NONE", "PENDING", "SENT", "FAILED"}]
      BY <3>1
    <3>4. added' \in [Requests -> SUBSET Contacts]
      BY <3>1, <3>2
    <3>5. todo' \in [Requests -> SUBSET Contacts]
      BY <3>1
    <3>6. QED
      BY <1>10, <3>3, <3>4, <3>5 DEF AddRow
  <2>2. CASE ~NewRow(c)
    BY <1>10, <2>2 DEF AddRow
  <2>3. QED
    BY <2>1, <2>2
<1>11. ASSUME NEW r \in Requests, AddCount(r) PROVE TypeOK'
  BY <1>11, AddedIsFinite DEF AddCount
<1>12. ASSUME NEW e \in Executors, ExecThrows(e) PROVE TypeOK'
  BY <1>12 DEF ExecThrows, ProcessExits
<1>13. ASSUME NEW e \in Executors, ExecLoad(e) \/ ExecCheck(e) PROVE TypeOK'
  BY <1>13 DEF ExecLoad, ExecCheck
<1>14. ASSUME NEW e \in Executors, ExecFetch(e) PROVE TypeOK'
  BY <1>14 DEF ExecFetch, BreakIfEmpty, Pending
<1>15. ASSUME NEW e \in Executors, NEW c \in Contacts, ExecSend(e, c)
       PROVE  TypeOK'
  BY <1>15 DEF ExecSend
<1>16. ASSUME NEW e \in Executors, ExecRecord(e) PROVE TypeOK'
  BY <1>16 DEF ExecRecord, Outcome
<1>17. ASSUME NEW e \in Executors, ExecCount(e) PROVE TypeOK'
  <2>1. CASE Exists
    <3>1. sentCount' \in Nat /\ failedCount' \in Nat
      BY <1>17, <2>1 DEF ExecCount, CountOutcome
    <3>2. xpc' \in [Executors -> {"unused", "load", "check", "fetch", "send",
                                 "record", "count", "catch", "catchCount",
                                 "halted", "drained", "done", "dead"}]
      BY <1>17, <2>1 DEF ExecCount, NextRecipient
    <3>3. cur' \in [Executors -> Contacts \cup {None}]
          /\ ok' \in [Executors -> BOOLEAN]
      BY <1>17, <2>1 DEF ExecCount, NextRecipient
    <3>4. QED
      BY <1>17, <3>1, <3>2, <3>3 DEF ExecCount
  <2>2. CASE ~Exists
    BY <1>17, <2>2 DEF ExecCount
  <2>3. QED
    BY <2>1, <2>2
<1>18. ASSUME NEW e \in Executors, ExecCatch(e) \/ ExecCatchCount(e)
       PROVE  TypeOK'
  <2>1. CASE ExecCatch(e)
    BY <2>1 DEF ExecCatch
  <2>2. CASE ExecCatchCount(e)
    BY <2>2 DEF ExecCatchCount, NextRecipient
  <2>3. QED
    BY <1>18, <2>1, <2>2
<1>19. ASSUME NEW e \in Executors, ExecComplete(e) PROVE TypeOK'
  BY <1>19 DEF ExecComplete
<1>20. CASE BecomeDue
  BY <1>20 DEF BecomeDue
<1>21. CASE RemoveProvider
  BY <1>21 DEF RemoveProvider, RowGone
<1>22. CASE Crash
  BY <1>22 DEF Crash, ProcessExits
<1>23. ASSUME NEW r \in Requests, RequestFails(r) \/ StartReplyLost(r)
       PROVE  TypeOK'
  <2>1. CASE RequestFails(r)
    BY <2>1 DEF RequestFails
  <2>2. CASE StartReplyLost(r)
    BY <2>2 DEF StartReplyLost
  <2>3. QED
    BY <1>23, <2>1, <2>2
<1>24. ASSUME NEW r \in Requests, NEW c \in Contacts, AddRowFails(r, c)
       PROVE  TypeOK'
  BY <1>24 DEF AddRowFails, NewRow
<1>25. ASSUME NEW e \in Executors, ExecRecordFails(e) PROVE TypeOK'
  BY <1>25 DEF ExecRecordFails, Outcome
<1>26. ASSUME NEW e \in Executors, ExecCountFails(e) PROVE TypeOK'
  BY <1>26 DEF ExecCountFails, CountOutcome
<1>27. CASE UNCHANGED vars
  BY <1>27 DEF vars
<1>28. QED
  BY <1>1, <1>2, <1>3, <1>4, <1>5, <1>6, <1>7, <1>8, <1>9, <1>10, <1>11,
     <1>12, <1>13, <1>14, <1>15, <1>16, <1>17, <1>18, <1>19, <1>20, <1>21,
     <1>22, <1>23, <1>24, <1>25, <1>26, <1>27
     DEF Next, Ask, RequestStep, ExecStep, FaultStep

\* Every variable keeps its type, whatever the constants.
THEOREM TypeCorrect == Spec => []TypeOK
BY TypeInit, TypeStep, PTL DEF Spec

(***************************************************************************)
(* At most one provider call for each contact and start().  OncePerStart   *)
(* is not inductive: that an executor never fetches a contact it has tried *)
(* depends on where its local batch and cur stand against the shared rows, *)
(* which is what the other conjuncts of DispatchInv say.                   *)
(***************************************************************************)

LEMMA DispatchInit == Init => DispatchInv
BY DEF Init, DispatchInv, OncePerStart, FreshStart, NothingBefore, Tried,
       BatchUntried, CurrentTried, TriedEnrolled, TriedSettled, Busy, Exists,
       Stored, Stopping

\* A step that touches no recipient row and no executor.
LEMMA DispatchFrame ==
  ASSUME DispatchInv, UNCHANGED <<rcp, exe, attempts>>,
         Exists' => Exists, status' = "ABSENT" => status = "ABSENT"
  PROVE  DispatchInv'
BY DEF exe, DispatchInv, OncePerStart, FreshStart, NothingBefore, Tried,
       BatchUntried, CurrentTried, TriedEnrolled, TriedSettled, Busy

\* A step by which executors move on, but none becomes busy or fresh, and
\* batches only shrink.
LEMMA DispatchMove ==
  ASSUME DispatchInv, UNCHANGED <<rcp, attempts>>, UNCHANGED Exists,
         status' = "ABSENT" => status = "ABSENT",
         \A e \in Executors :
           /\ batch'[e] \subseteq batch[e]
           /\ xpc'[e] = "unused" => xpc[e] = "unused"
           /\ status = "ABSENT" /\ xpc[e] = "unused" => xpc'[e] = "unused"
           /\ \/ xpc'[e] = xpc[e] /\ cur'[e] = cur[e]
              \/ /\ xpc[e] \in {"record", "count"} /\ xpc'[e] = "catch"
                 /\ cur'[e] = cur[e]
              \/ xpc[e] \notin {"record", "catch", "dead"} /\ ~Busy(e)'
              \/ xpc'[e] = "dead"
  PROVE  DispatchInv'
<1> USE DEF DispatchInv, Tried
<1>1. OncePerStart' /\ FreshStart' /\ NothingBefore'
  BY DEF OncePerStart, FreshStart, NothingBefore
<1>2. BatchUntried' /\ CurrentTried'
  BY DEF BatchUntried, CurrentTried, Busy
<1>3. TriedEnrolled' /\ TriedSettled'
  BY DEF TriedEnrolled, TriedSettled, Busy
<1>4. QED
  BY <1>1, <1>2, <1>3

\* The campaign and its rows go.
LEMMA DispatchRowGone ==
  ASSUME DispatchInv, RowGone, UNCHANGED <<exe, attempts>>
  PROVE  DispatchInv'
BY DEF RowGone, exe, DispatchInv, OncePerStart, FreshStart, NothingBefore,
       Tried, BatchUntried, CurrentTried, TriedEnrolled, TriedSettled, Busy,
       Exists, Stored, Stopping

\* A row is created, so no executor has tried its contact.
LEMMA DispatchNewRow ==
  ASSUME TypeOK, DispatchInv, NEW c \in Contacts, NewRow(c),
         rcp' = [rcp EXCEPT ![c] = "PENDING"],
         UNCHANGED <<status, exe, attempts>>
  PROVE  DispatchInv'
<1> USE DEF DispatchInv, Tried, exe, Exists, NewRow
<1>1. \A e \in Executors : ~Tried(e, c)
  BY DEF TriedEnrolled
<1>2. OncePerStart' /\ FreshStart' /\ NothingBefore' /\ CurrentTried'
  BY DEF OncePerStart, FreshStart, NothingBefore, CurrentTried, Busy
<1>3. BatchUntried' /\ TriedEnrolled'
  BY DEF BatchUntried, TriedEnrolled, TypeOK
<1>4. TriedSettled'
  BY <1>1 DEF TriedSettled, TypeOK
<1>5. QED
  BY <1>2, <1>3, <1>4

\* A busy executor settles the row of its current recipient.
LEMMA DispatchSettle ==
  ASSUME TypeOK, DispatchInv, NEW e \in Executors, Busy(e),
         NEW o \in {"SENT", "FAILED"}, rcp' = [rcp EXCEPT ![cur[e]] = o],
         NEW p \in {"count", "catch", "catchCount"}, Goto(e, p),
         UNCHANGED <<status, batch, cur, attempts>>
  PROVE  DispatchInv'
<1> USE DEF DispatchInv, Tried, Goto, TypeOK
<1>1. Busy(e)' /\ cur[e] \in Contacts
  BY DEF CurrentTried, Busy
<1>2. OncePerStart' /\ FreshStart'
  BY DEF OncePerStart, FreshStart, Busy
<1>3. NothingBefore' /\ CurrentTried'
  BY <1>1 DEF NothingBefore, CurrentTried, Busy
<1>4. BatchUntried' /\ TriedEnrolled'
  BY <1>1 DEF BatchUntried, TriedEnrolled, Exists
<1>5. TriedSettled'
  <2>1. \A c \in Contacts :
          rcp'[c] = "PENDING" => rcp[c] = "PENDING" /\ c # cur[e]
    BY <1>1
  <2>2. \A x \in Executors : x # e => xpc'[x] = xpc[x]
    BY DEF Busy
  <2>3. QED
    BY <1>1, <2>1, <2>2 DEF TriedSettled, Busy
<1>6. QED
  BY <1>2, <1>3, <1>4, <1>5

\* The executor fetches a batch: no contact in it was tried before.
LEMMA DispatchFetch ==
  ASSUME TypeOK, DispatchInv, NEW e \in Executors, ExecFetch(e)
  PROVE  DispatchInv'
<1> USE DEF DispatchInv, Tried, Goto, TypeOK, db, obs
<1>1. PICK b \in SUBSET Pending :
        /\ batch' = [batch EXCEPT ![e] = b]
        /\ xpc' = [xpc EXCEPT ![e] = BreakIfEmpty(b)]
  BY DEF ExecFetch
<1>2. /\ xpc[e] = "fetch" /\ ~Busy(e) /\ xpc'[e] \in {"drained", "send"}
      /\ ~Busy(e)'
      /\ UNCHANGED <<status, rcp, attempts, cur>>
  BY <1>1 DEF ExecFetch, BreakIfEmpty, Busy
<1>3. \A c \in b : ~Tried(e, c) /\ rcp[c] = "PENDING"
  BY <1>2 DEF TriedSettled, Pending
<1>4. OncePerStart' /\ FreshStart' /\ NothingBefore'
  BY <1>1, <1>2 DEF OncePerStart, FreshStart, NothingBefore
<1>5. BatchUntried'
  BY <1>1, <1>2, <1>3 DEF BatchUntried, Exists
<1>6. CurrentTried' /\ TriedEnrolled'
  BY <1>1, <1>2 DEF CurrentTried, TriedEnrolled, Busy, Exists
<1>7. TriedSettled'
  BY <1>1, <1>2 DEF TriedSettled
<1>8. QED
  BY <1>4, <1>5, <1>6, <1>7

\* The provider call: the contact leaves the batch and becomes the current.
LEMMA DispatchSend ==
  ASSUME TypeOK, DispatchInv, NEW e \in Executors, NEW c \in Contacts,
         ExecSend(e, c)
  PROVE  DispatchInv'
<1> USE DEF DispatchInv, Tried, Goto, TypeOK, db
<1>1. /\ xpc[e] = "send" /\ c \in batch[e]
      /\ batch' = [batch EXCEPT ![e] = @ \ {c}]
      /\ cur' = [cur EXCEPT ![e] = c]
      /\ attempts' = [attempts EXCEPT ![e][c] = @ + 1]
      /\ xpc' = [xpc EXCEPT ![e] = "record"]
      /\ UNCHANGED <<status, rcp>>
  BY DEF ExecSend
<1>2. ~Tried(e, c) /\ (Exists => rcp[c] # "NONE")
  BY <1>1 DEF BatchUntried
<1>3. /\ attempts'[e][c] = 1
      /\ \A x \in Executors, d \in Contacts :
           <<x, d>> # <<e, c>> => attempts'[x][d] = attempts[x][d]
  BY <1>1, <1>2
<1>4. OncePerStart' /\ FreshStart' /\ NothingBefore'
  BY <1>1, <1>3 DEF OncePerStart, FreshStart, NothingBefore
<1>5. BatchUntried'
  BY <1>1, <1>3 DEF BatchUntried, Exists
<1>6. CurrentTried'
  BY <1>1, <1>3 DEF CurrentTried, Busy
<1>7. TriedEnrolled'
  BY <1>1, <1>2, <1>3 DEF TriedEnrolled, Exists
<1>8. TriedSettled'
  BY <1>1, <1>3 DEF TriedSettled
<1>9. QED
  BY <1>4, <1>5, <1>6, <1>7, <1>8

LEMMA DispatchStep == TypeOK /\ DispatchInv /\ [Next]_vars => DispatchInv'
<1> SUFFICES ASSUME TypeOK, DispatchInv, [Next]_vars PROVE DispatchInv'
  OBVIOUS
<1> USE DEF Exists, Stored, Stopping, db, req, exe, obs
(* requests *)
<1>1. ASSUME NEW r \in Requests, NEW cs \in SUBSET Contacts,
             NEW at \in Schedules, Create(r, cs, at)
      PROVE  DispatchInv'
  BY <1>1 DEF Create, TypeOK, DispatchInv, OncePerStart, FreshStart,
     NothingBefore, Tried, BatchUntried, CurrentTried, TriedEnrolled,
     TriedSettled, Busy
<1>2. ASSUME NEW r \in Requests, NEW o \in Ops, Begin(r, o)
      PROVE  DispatchInv'
  BY <1>2, DispatchFrame DEF Begin
<1>3. ASSUME NEW r \in Requests, NEW cs \in SUBSET Contacts, BeginAdd(r, cs)
      PROVE  DispatchInv'
  BY <1>3, DispatchFrame DEF BeginAdd
<1>4. ASSUME NEW r \in Requests,
             \/ SchedulerTick(r) \/ WriteGone(r) \/ WriteUpdate(r)
             \/ AddCount(r) \/ RequestFails(r)
      PROVE  DispatchInv'
  BY <1>4, DispatchFrame
     DEF SchedulerTick, WriteGone, WriteUpdate, AddCount, RequestFails, Answer
<1>5. ASSUME NEW r \in Requests, NEW e \in Executors, WriteStart(r, e)
      PROVE  DispatchInv'
  BY <1>5, DispatchMove DEF WriteStart, Busy, TypeOK
<1>6. ASSUME NEW r \in Requests, WriteStop(r) \/ StartReplyLost(r)
      PROVE  DispatchInv'
  BY <1>6, DispatchFrame DEF WriteStop, StartReplyLost
<1>7. ASSUME NEW r \in Requests, WriteRemove(r) PROVE DispatchInv'
  BY <1>7, DispatchRowGone DEF WriteRemove
<1>8. ASSUME NEW r \in Requests, NEW c \in Contacts,
             AddRow(r, c) \/ AddRowFails(r, c)
      PROVE  DispatchInv'
  <2>1. \/ UNCHANGED rcp
        \/ NewRow(c) /\ rcp' = [rcp EXCEPT ![c] = "PENDING"]
    BY <1>8 DEF AddRow, AddRowFails, TypeOK
  <2>2. UNCHANGED <<status, exe, attempts>>
    BY <1>8 DEF AddRow, AddRowFails
  <2>3. QED
    BY <2>1, <2>2, DispatchFrame, DispatchNewRow
(* executors *)
<1>9. ASSUME NEW e \in Executors, ExecThrows(e) PROVE DispatchInv'
  BY <1>9, DispatchMove DEF ExecThrows, ProcessExits, Busy
<1>10. ASSUME NEW e \in Executors, ExecLoad(e) \/ ExecCheck(e)
       PROVE  DispatchInv'
  BY <1>10, DispatchMove DEF ExecLoad, ExecCheck, Goto, Busy, TypeOK
<1>11. ASSUME NEW e \in Executors, ExecFetch(e) PROVE DispatchInv'
  BY <1>11, DispatchFetch
<1>12. ASSUME NEW e \in Executors, NEW c \in Contacts, ExecSend(e, c)
       PROVE  DispatchInv'
  BY <1>12, DispatchSend
<1>13. ASSUME NEW e \in Executors, ExecRecord(e) \/ ExecRecordFails(e)
       PROVE  DispatchInv'
  <2>1. Outcome(e) \in {"SENT", "FAILED"} /\ Busy(e)
    BY <1>13 DEF Outcome, ExecRecord, ExecRecordFails, Busy
  <2>2. CASE UNCHANGED rcp
    <3>1. xpc[e] = "record" /\ UNCHANGED <<status, batch, cur, attempts>>
      BY <1>13 DEF ExecRecord, ExecRecordFails
    <3>2. CASE xpc' = [xpc EXCEPT ![e] = "catch"]
      BY <2>2, <3>1, <3>2, DispatchMove DEF TypeOK
    <3>3. CASE xpc' = [xpc EXCEPT ![e] = "count"]
      <4>1. rcp' = [rcp EXCEPT ![cur[e]] = Outcome(e)]
        BY <1>13, <3>1, <3>3 DEF ExecRecord, ExecRecordFails, Goto, TypeOK
      <4>2. QED
        BY <2>1, <3>1, <3>3, <4>1, DispatchSettle DEF Goto
    <3>4. QED
      BY <1>13, <3>2, <3>3 DEF ExecRecord, ExecRecordFails, Goto
  <2>3. CASE rcp' = [rcp EXCEPT ![cur[e]] = Outcome(e)]
    <3>1. UNCHANGED <<status, batch, cur, attempts>>
      BY <1>13 DEF ExecRecord, ExecRecordFails
    <3>2. CASE Goto(e, "catch")
      BY <2>1, <2>3, <3>1, <3>2, DispatchSettle
    <3>3. CASE Goto(e, "count")
      BY <2>1, <2>3, <3>1, <3>3, DispatchSettle
    <3>4. QED
      BY <1>13, <3>2, <3>3 DEF ExecRecord, ExecRecordFails
  <2>4. QED
    BY <1>13, <2>2, <2>3 DEF ExecRecord, ExecRecordFails
<1>14. ASSUME NEW e \in Executors, ExecCount(e) \/ ExecCatchCount(e)
       PROVE  DispatchInv'
  BY <1>14, DispatchMove
     DEF ExecCount, ExecCatchCount, NextRecipient, Goto, Busy, TypeOK
<1>15. ASSUME NEW e \in Executors, ExecCountFails(e) PROVE DispatchInv'
  BY <1>15, DispatchMove DEF ExecCountFails, Goto, TypeOK
<1>16. ASSUME NEW e \in Executors, ExecCatch(e) PROVE DispatchInv'
  BY <1>16, DispatchSettle DEF ExecCatch, Busy
<1>17. ASSUME NEW e \in Executors, ExecComplete(e) PROVE DispatchInv'
  BY <1>17, DispatchMove DEF ExecComplete, Goto, Busy, TypeOK
(* the rest *)
<1>18. CASE BecomeDue
  BY <1>18, DispatchFrame DEF BecomeDue
<1>19. CASE RemoveProvider
  BY <1>19, DispatchRowGone DEF RemoveProvider
<1>20. CASE Crash
  BY <1>20, DispatchMove DEF Crash, ProcessExits, Busy
<1>21. CASE UNCHANGED vars
  BY <1>21, DispatchFrame DEF vars
<1>22. QED
  BY <1>1, <1>2, <1>3, <1>4, <1>5, <1>6, <1>7, <1>8, <1>9, <1>10, <1>11,
     <1>12, <1>13, <1>14, <1>15, <1>16, <1>17, <1>18, <1>19, <1>20, <1>21
     DEF Next, Ask, RequestStep, ExecStep, FaultStep

THEOREM DispatchInvariant == Spec => []DispatchInv
BY DispatchInit, DispatchStep, TypeCorrect, PTL DEF Spec

\* One start() of a campaign never sends to a contact twice.
THEOREM AtMostOncePerStart == Spec => []OncePerStart
<1>1. DispatchInv => OncePerStart
  BY DEF DispatchInv
<1>2. QED
  BY <1>1, DispatchInvariant, PTL

(***************************************************************************)
(* An ended campaign is not revived.                                       *)
(***************************************************************************)

LEMMA SettledStep == TypeOK /\ Settled /\ [Next]_vars => Settled'
<1> SUFFICES ASSUME TypeOK, Settled, [Next]_vars PROVE Settled'
  OBVIOUS
<1> USE DEF TypeOK, Settled, Exists, Stored, Stopping, Answer, db, req
<1>1. ASSUME NEW r \in Requests, NEW o \in Ops, Begin(r, o) PROVE Settled'
  <2>1. o \notin {"start", "pause"}
    BY <1>1 DEF Begin, Ops, Accepts
  <2>2. QED
    BY <1>1, <2>1 DEF Begin
<1>2. ASSUME NEW r \in Requests, SchedulerTick(r) PROVE Settled'
  BY <1>2 DEF SchedulerTick
<1>3. ASSUME NEW r \in Requests, NEW cs \in SUBSET Contacts,
             \/ BeginAdd(r, cs)
             \/ \E at \in Schedules : Create(r, cs, at)
      PROVE  Settled'
  BY <1>3 DEF BeginAdd, Create
<1>4. ASSUME NEW r \in Requests,
             \/ WriteGone(r) \/ WriteUpdate(r) \/ WriteStop(r)
             \/ WriteRemove(r) \/ AddCount(r)
      PROVE  Settled'
  BY <1>4 DEF WriteGone, WriteUpdate, WriteStop, WriteRemove, AddCount, RowGone
<1>5. ASSUME NEW r \in Requests, \E e \in Executors : WriteStart(r, e)
      PROVE  Settled'
  BY <1>5 DEF WriteStart
<1>6. ASSUME NEW r \in Requests, NEW c \in Contacts,
             AddRow(r, c) \/ AddRowFails(r, c)
      PROVE  Settled'
  BY <1>6 DEF AddRow, AddRowFails
<1>7. ASSUME NEW e \in Executors, ExecStep(e) PROVE Settled'
  <2>1. CASE ExecThrows(e)
    BY <2>1 DEF ExecThrows, ProcessExits
  <2>2. CASE ExecComplete(e)
    BY <2>2 DEF ExecComplete
  <2>3. CASE UNCHANGED <<status, pc>>
    BY <2>3
  <2>4. QED
    BY <1>7, <2>1, <2>2, <2>3
       DEF ExecStep, ExecLoad, ExecCheck, ExecFetch, ExecSend, ExecRecord,
           ExecCount, ExecCatch, ExecCatchCount
<1>8. CASE BecomeDue \/ RemoveProvider
  BY <1>8 DEF BecomeDue, RemoveProvider, RowGone
<1>9. CASE Crash
  BY <1>9 DEF Crash, ProcessExits
<1>10. ASSUME NEW r \in Requests, RequestFails(r) \/ StartReplyLost(r)
       PROVE  Settled'
  BY <1>10 DEF RequestFails, StartReplyLost
<1>11. ASSUME NEW e \in Executors, ExecRecordFails(e) \/ ExecCountFails(e)
       PROVE  Settled'
  BY <1>11 DEF ExecRecordFails, ExecCountFails
<1>12. CASE UNCHANGED vars
  BY <1>12 DEF vars
<1>13. QED
  BY <1>1, <1>2, <1>3, <1>4, <1>5, <1>6, <1>7, <1>8, <1>9, <1>10, <1>11,
     <1>12
     DEF Next, Ask, RequestStep, FaultStep

\* Once completed, cancelled or deleted, with no start or pause half done, a
\* campaign never runs or pauses again.
THEOREM EndedStaysEnded == Spec => NeverRevived
<1>1. TypeOK /\ [Next]_vars => [Settled => Settled']_vars
  BY SettledStep
<1>2. QED
  BY <1>1, TypeCorrect, PTL DEF Spec, NeverRevived

(***************************************************************************)
(* The campaign implements the ledger.                                     *)
(***************************************************************************)

LEMMA LedgerInit == Init => Ledger!Init
BY DEF Init, Ledger!Init, Ledger!Blank, Exists, Stored, Stopping

\* What the ledger does not see.
LEMMA LedgerFrame ==
  ASSUME UNCHANGED <<rcp, attempts>>, UNCHANGED Exists,
         ~Exists => UNCHANGED status,
         \A e \in Executors : xpc'[e] = "unused" <=> xpc[e] = "unused"
  PROVE  UNCHANGED Ledger!vars
BY DEF Ledger!vars

\* A busy executor settles an entry only after it called, in its own start.
LEMMA LedgerSettle ==
  ASSUME TypeOK, DispatchInv, Exists, NEW e \in Executors, Busy(e),
         NEW o \in {"SENT", "FAILED"}, rcp' = [rcp EXCEPT ![cur[e]] = o],
         UNCHANGED <<status, attempts>>,
         \A x \in Executors : xpc'[x] = "unused" <=> xpc[x] = "unused"
  PROVE  Ledger!Next
<1>1. cur[e] \in Contacts /\ Tried(e, cur[e])
  BY DEF DispatchInv, CurrentTried
<1>2. rcp[cur[e]] # "NONE"
  BY <1>1 DEF DispatchInv, TriedEnrolled
<1>3. attempts[e][cur[e]] = 1
  BY <1>1 DEF DispatchInv, OncePerStart, Tried, TypeOK
<1>4. xpc[e] # "unused"
  BY DEF Busy
<1>5. Ledger!Settle(cur[e], o)
  BY <1>2, <1>3, <1>4 DEF Ledger!Settle, Exists
<1>6. QED
  BY <1>1, <1>5 DEF Ledger!Next, Ledger!Settled

LEMMA LedgerClose ==
  ASSUME RowGone, Exists, UNCHANGED <<exe, attempts>>
  PROVE  Ledger!Next
<1>1. Ledger!Close
  BY DEF Ledger!Close, Ledger!Blank, RowGone, Exists, Stored, Stopping, exe
<1>2. QED
  BY <1>1 DEF Ledger!Next

LEMMA LedgerStep ==
  TypeOK /\ DispatchInv /\ [Next]_vars => [Ledger!Next]_(Ledger!vars)
<1> SUFFICES ASSUME TypeOK, DispatchInv, [Next]_vars
             PROVE  Ledger!Next \/ UNCHANGED Ledger!vars
  OBVIOUS
<1> USE DEF Exists, Stored, Stopping, db, req, exe, obs
(* requests *)
<1>1. ASSUME NEW r \in Requests, NEW cs \in SUBSET Contacts,
             NEW at \in Schedules, Create(r, cs, at)
      PROVE  Ledger!Next
  <2>1. Ledger!Open
    BY <1>1 DEF Create, Ledger!Open
  <2>2. QED
    BY <2>1 DEF Ledger!Next
<1>2. ASSUME NEW r \in Requests,
             \/ \E o \in Ops : Begin(r, o)
             \/ \E cs \in SUBSET Contacts : BeginAdd(r, cs)
             \/ SchedulerTick(r) \/ WriteGone(r) \/ WriteUpdate(r)
             \/ WriteStop(r) \/ AddCount(r) \/ RequestFails(r)
             \/ StartReplyLost(r)
      PROVE  UNCHANGED Ledger!vars
  BY <1>2, LedgerFrame
     DEF Begin, BeginAdd, SchedulerTick, WriteGone, WriteUpdate, WriteStop,
         AddCount, RequestFails, StartReplyLost, Answer
<1>3. ASSUME NEW r \in Requests, NEW e \in Executors, WriteStart(r, e)
      PROVE  Ledger!Next
  <2>1. Ledger!Issue(e)
    BY <1>3 DEF WriteStart, Ledger!Issue, TypeOK
  <2>2. QED
    BY <2>1 DEF Ledger!Next
<1>4. ASSUME NEW r \in Requests, WriteRemove(r) PROVE Ledger!Next
  BY <1>4, LedgerClose DEF WriteRemove
<1>5. ASSUME NEW r \in Requests, NEW c \in Contacts,
             AddRow(r, c) \/ AddRowFails(r, c)
      PROVE  Ledger!Next \/ UNCHANGED Ledger!vars
  <2>1. UNCHANGED <<status, exe, attempts>>
    BY <1>5 DEF AddRow, AddRowFails
  <2>2. CASE UNCHANGED rcp
    BY <2>1, <2>2, LedgerFrame
  <2>3. CASE NewRow(c) /\ rcp' = [rcp EXCEPT ![c] = "PENDING"]
    <3>1. Ledger!Enroll(c)
      BY <2>1, <2>3 DEF Ledger!Enroll, NewRow
    <3>2. QED
      BY <3>1 DEF Ledger!Next
  <2>4. QED
    BY <1>5, <2>2, <2>3 DEF AddRow, AddRowFails, TypeOK
(* executors *)
<1>6. ASSUME NEW e \in Executors, NEW c \in Contacts, ExecSend(e, c)
      PROVE  Ledger!Next
  <2>1. /\ xpc[e] = "send" /\ c \in batch[e]
        /\ attempts' = [attempts EXCEPT ![e][c] = @ + 1]
        /\ xpc' = [xpc EXCEPT ![e] = "record"]
        /\ UNCHANGED <<status, rcp>>
    BY <1>6 DEF ExecSend, Goto
  <2>2. attempts[e][c] = 0 /\ (Exists => rcp[c] # "NONE")
    BY <2>1 DEF DispatchInv, BatchUntried, Tried, TypeOK
  <2>3. attempts' = [attempts EXCEPT ![e][c] = 1]
    BY <2>1, <2>2
  <2>4. \A x \in Executors : xpc'[x] = "unused" <=> xpc[x] = "unused"
    BY <2>1 DEF TypeOK
  <2>5. status # "OPEN"
    BY DEF TypeOK
  <2>6. Ledger!Call(e, c)
    BY <2>1, <2>2, <2>3, <2>4, <2>5 DEF Ledger!Call
  <2>7. QED
    BY <2>6 DEF Ledger!Next
<1>7. ASSUME NEW e \in Executors, ExecRecord(e) \/ ExecRecordFails(e)
      PROVE  Ledger!Next \/ UNCHANGED Ledger!vars
  <2>1. /\ Outcome(e) \in {"SENT", "FAILED"} /\ Busy(e)
        /\ UNCHANGED <<status, attempts>>
        /\ \A x \in Executors : xpc'[x] = "unused" <=> xpc[x] = "unused"
    BY <1>7 DEF Outcome, ExecRecord, ExecRecordFails, Busy, Goto, TypeOK
  <2>2. CASE UNCHANGED rcp
    BY <2>1, <2>2, LedgerFrame
  <2>3. CASE Exists /\ rcp' = [rcp EXCEPT ![cur[e]] = Outcome(e)]
    BY <2>1, <2>3, LedgerSettle
  <2>4. QED
    BY <1>7, <2>2, <2>3 DEF ExecRecord, ExecRecordFails
<1>8. ASSUME NEW e \in Executors, ExecCatch(e) PROVE Ledger!Next
  <2>1. /\ Exists /\ Busy(e) /\ UNCHANGED <<status, attempts>>
        /\ rcp' = [rcp EXCEPT ![cur[e]] = "FAILED"]
        /\ \A x \in Executors : xpc'[x] = "unused" <=> xpc[x] = "unused"
    BY <1>8 DEF ExecCatch, Busy, Goto, TypeOK
  <2>2. QED
    BY <2>1, LedgerSettle
<1>9. ASSUME NEW e \in Executors,
             \/ ExecLoad(e) \/ ExecCheck(e) \/ ExecFetch(e) \/ ExecCount(e)
             \/ ExecCatchCount(e) \/ ExecComplete(e) \/ ExecCountFails(e)
      PROVE  UNCHANGED Ledger!vars
  <2>1. /\ UNCHANGED <<rcp, attempts>>
        /\ \A x \in Executors : xpc'[x] = "unused" <=> xpc[x] = "unused"
    BY <1>9
       DEF ExecLoad, ExecCheck, ExecFetch, ExecCount, ExecCatchCount,
           ExecComplete, ExecCountFails, NextRecipient, BreakIfEmpty, Goto,
           TypeOK
  <2>2. UNCHANGED status \/ (Exists /\ Exists')
    BY <1>9
       DEF ExecLoad, ExecCheck, ExecFetch, ExecCount, ExecCatchCount,
           ExecComplete, ExecCountFails
  <2>3. QED
    BY <2>1, <2>2, LedgerFrame
(* the rest *)
<1>10. ASSUME NEW e \in Executors, ExecThrows(e) PROVE UNCHANGED Ledger!vars
  BY <1>10, LedgerFrame DEF ExecThrows, ProcessExits
<1>11. CASE Crash
  BY <1>11, LedgerFrame DEF Crash, ProcessExits
<1>12. CASE BecomeDue
  BY <1>12, LedgerFrame DEF BecomeDue
<1>13. CASE RemoveProvider
  BY <1>13, LedgerClose DEF RemoveProvider
<1>14. CASE UNCHANGED vars
  BY <1>14, LedgerFrame DEF vars
<1>15. QED
  BY <1>1, <1>2, <1>3, <1>4, <1>5, <1>6, <1>7, <1>8, <1>9, <1>10, <1>11,
     <1>12, <1>13, <1>14
     DEF Next, Ask, RequestStep, ExecStep, FaultStep

\* Whatever requests, executors and faults do, the campaign shows its contacts
\* only what the ledger allows.
THEOREM ImplementsLedger == Spec => KeepsLedger
<1>1. QED
  BY LedgerInit, LedgerStep, TypeCorrect, DispatchInvariant, PTL
     DEF Spec, KeepsLedger, Ledger!Spec

(***************************************************************************)
(* A running campaign has an executor.                                     *)
(***************************************************************************)

LEMMA RunningStep ==
  TypeOK /\ RunningHasExecutor /\ [Next]_vars => RunningHasExecutor'
<1> SUFFICES ASSUME TypeOK, RunningHasExecutor, [Next]_vars,
                    status' = "RUNNING", faults' = 0
             PROVE  \E e \in Executors : Live(e)'
  BY DEF RunningHasExecutor
<1> USE DEF RunningHasExecutor, Live, Exists, Stored, Stopping, db, exe
<1>1. ASSUME NEW r \in Requests,
             \/ Ask(r) \/ SchedulerTick(r) \/ WriteGone(r) \/ WriteUpdate(r)
             \/ WriteStop(r) \/ WriteRemove(r) \/ AddCount(r)
             \/ \E c \in Contacts : AddRow(r, c)
      PROVE  \E e \in Executors : Live(e)'
  <2>1. UNCHANGED <<status, xpc, faults>>
    BY <1>1
       DEF Ask, Create, Begin, BeginAdd, SchedulerTick, WriteGone,
           WriteUpdate, WriteStop, WriteRemove, RowGone, AddCount, AddRow
  <2>2. QED
    BY <2>1
<1>2. ASSUME NEW r \in Requests, NEW e \in Executors, WriteStart(r, e)
      PROVE  \E x \in Executors : Live(x)'
  <2>1. xpc'[e] = "load"
    BY <1>2 DEF WriteStart, TypeOK
  <2>2. QED
    BY <2>1
<1>3. ASSUME NEW e \in Executors, ExecStep(e)
      PROVE  \E x \in Executors : Live(x)'
  <2>1. /\ UNCHANGED <<status, faults>>
        /\ Exists /\ ~ExecThrows(e) /\ ~ExecComplete(e)
    BY <1>3
       DEF ExecStep, ExecThrows, ExecLoad, ExecCheck, ExecFetch, ExecSend,
           ExecRecord, ExecCount, ExecCatch, ExecCatchCount, ExecComplete, obs
  <2>2. Live(e)'
    BY <1>3, <2>1
       DEF ExecStep, ExecLoad, ExecCheck, ExecFetch, ExecSend, ExecRecord,
           ExecCount, ExecCatch, ExecCatchCount, NextRecipient, BreakIfEmpty,
           Goto, TypeOK
  <2>3. QED
    BY <2>2
<1>4. CASE BecomeDue
  BY <1>4 DEF BecomeDue
<1>5. CASE RemoveProvider
  BY <1>5 DEF RemoveProvider, RowGone
<1>6. CASE FaultStep
  <2>1. faults' = faults + 1
    BY <1>6
       DEF FaultStep, Fault, Crash, RequestFails, StartReplyLost, AddRowFails,
           ExecRecordFails, ExecCountFails
  <2>2. QED
    BY <2>1 DEF TypeOK
<1>7. CASE UNCHANGED vars
  BY <1>7 DEF vars
<1>8. QED
  BY <1>1, <1>2, <1>3, <1>4, <1>5, <1>6, <1>7 DEF Next, RequestStep

\* A running campaign is in the hands of an executor until a fault.
THEOREM RunningIsExecuted == Spec => []RunningHasExecutor
<1>1. Init => RunningHasExecutor
  BY DEF Init, RunningHasExecutor
<1>2. QED
  BY <1>1, RunningStep, TypeCorrect, PTL DEF Spec

(***************************************************************************)
(* A stop takes effect within a batch: what is left of the batch in hand   *)
(* and the calls made since the stop are together at most BatchSize.       *)
(***************************************************************************)

StopInv ==
  \A e \in Executors :
    /\ late[e] <= BatchSize
    /\ Cardinality(batch[e]) <= BatchSize
    /\ status \in Stopping =>
         /\ late[e] + Cardinality(batch[e]) <= BatchSize
         /\ xpc[e] = "fetch" => late[e] = 0

LEMMA BatchIsFinite ==
  ASSUME TypeOK, NEW e \in Executors
  PROVE  IsFiniteSet(batch[e]) /\ Cardinality(batch[e]) \in Nat
<1>1. batch[e] \in SUBSET Contacts /\ IsFiniteSet(Contacts)
  BY ConstantsAssumption DEF TypeOK, ConstantsAssumption
<1>2. IsFiniteSet(batch[e])
  BY <1>1, FS_Subset
<1>3. QED
  BY <1>2, FS_CardinalityType

\* A step that sends nothing and fetches nothing.
LEMMA StopFrame ==
  ASSUME TypeOK, StopInv, UNCHANGED late,
         status' \in Stopping => status \in Stopping,
         \A e \in Executors :
           /\ batch'[e] = batch[e] \/ batch'[e] = {}
           /\ xpc'[e] = "fetch" => xpc[e] = "fetch" \/ status \notin Stopping
  PROVE  StopInv'
<1> SUFFICES ASSUME NEW e \in Executors
             PROVE  /\ late'[e] <= BatchSize
                    /\ Cardinality(batch'[e]) <= BatchSize
                    /\ status' \in Stopping =>
                         /\ late'[e] + Cardinality(batch'[e]) <= BatchSize
                         /\ xpc'[e] = "fetch" => late'[e] = 0
  BY DEF StopInv, Stopping
<1>1. /\ Cardinality(batch'[e]) <= Cardinality(batch[e])
      /\ Cardinality(batch'[e]) \in Nat
  <2>1. Cardinality(batch[e]) \in Nat
    BY BatchIsFinite
  <2>2. CASE batch'[e] = batch[e]
    BY <2>1, <2>2
  <2>3. CASE batch'[e] = {}
    BY <2>1, <2>3, FS_EmptySet
  <2>4. QED
    BY <2>2, <2>3
<1>2. Cardinality(batch[e]) \in Nat /\ late[e] \in Nat /\ BatchSize \in Nat
  BY BatchIsFinite, ConstantsAssumption DEF TypeOK, ConstantsAssumption
<1>3. /\ late[e] <= BatchSize /\ Cardinality(batch[e]) <= BatchSize
      /\ status \in Stopping =>
           /\ late[e] + Cardinality(batch[e]) <= BatchSize
           /\ xpc[e] = "fetch" => late[e] = 0
  BY DEF StopInv
<1>4. late'[e] = late[e]
  OBVIOUS
<1>5. QED
  BY <1>1, <1>2, <1>3, <1>4

LEMMA StopStep == TypeOK /\ StopInv /\ [Next]_vars => StopInv'
<1> SUFFICES ASSUME TypeOK, StopInv, [Next]_vars PROVE StopInv'
  OBVIOUS
<1> USE DEF db, exe, obs, Stopping
<1>1. ASSUME NEW r \in Requests,
             \/ Ask(r) \/ SchedulerTick(r) \/ WriteGone(r) \/ WriteUpdate(r)
             \/ WriteRemove(r) \/ AddCount(r) \/ RequestFails(r)
             \/ StartReplyLost(r)
             \/ \E c \in Contacts : AddRow(r, c) \/ AddRowFails(r, c)
      PROVE  StopInv'
  <2>1. UNCHANGED <<late, batch, xpc>>
    BY <1>1
       DEF Ask, Create, Begin, BeginAdd, SchedulerTick, WriteGone,
           WriteUpdate, WriteRemove, AddCount, RequestFails, StartReplyLost,
           AddRow, AddRowFails
  <2>2. UNCHANGED status \/ status' \in {"DRAFT", "DELETED", "RUNNING"}
    BY <1>1
       DEF Ask, Create, Begin, BeginAdd, SchedulerTick, WriteGone,
           WriteUpdate, WriteRemove, RowGone, AddCount, RequestFails,
           StartReplyLost, AddRow, AddRowFails
  <2>3. QED
    BY <2>1, <2>2, StopFrame
<1>2. ASSUME NEW r \in Requests, NEW e \in Executors, WriteStart(r, e)
      PROVE  StopInv'
  BY <1>2, StopFrame DEF WriteStart, TypeOK
<1>3. ASSUME NEW r \in Requests, WriteStop(r) PROVE StopInv'
  <2>1. UNCHANGED <<batch, xpc>>
    BY <1>3 DEF WriteStop
  <2>2. CASE status \in Stopping
    BY <1>3, <2>1, <2>2, StopFrame DEF WriteStop
  <2>3. CASE status \notin Stopping
    <3>1. \A e \in Executors : late'[e] = 0
      BY <1>3, <2>3 DEF WriteStop
    <3>2. \A e \in Executors : Cardinality(batch[e]) \in Nat
      BY BatchIsFinite
    <3>3. QED
      BY <2>1, <3>1, <3>2, ConstantsAssumption
         DEF StopInv, ConstantsAssumption
  <2>4. QED
    BY <2>2, <2>3
<1>4. ASSUME NEW e \in Executors, ExecFetch(e) PROVE StopInv'
  <2>1. PICK b \in SUBSET Pending :
          /\ Cardinality(b) = IF Cardinality(Pending) < BatchSize
                                THEN Cardinality(Pending) ELSE BatchSize
          /\ batch' = [batch EXCEPT ![e] = b]
          /\ xpc' = [xpc EXCEPT ![e] = BreakIfEmpty(b)]
    BY <1>4 DEF ExecFetch, Goto
  <2>2. Cardinality(b) \in Nat /\ Cardinality(b) <= BatchSize
    <3>1. IsFiniteSet(Pending)
      BY ConstantsAssumption, FS_Subset DEF Pending, ConstantsAssumption
    <3>2. Cardinality(Pending) \in Nat
      BY <3>1, FS_CardinalityType
    <3>3. QED
      BY <2>1, <3>2, ConstantsAssumption DEF ConstantsAssumption
  <2>3. /\ xpc[e] = "fetch" /\ UNCHANGED <<status, late>>
        /\ batch'[e] = b /\ xpc'[e] # "fetch"
        /\ \A x \in Executors : x # e => /\ batch'[x] = batch[x]
                                         /\ xpc'[x] = xpc[x]
    BY <1>4, <2>1 DEF ExecFetch, BreakIfEmpty, TypeOK
  <2>4. status \in Stopping => late[e] = 0
    BY <2>3 DEF StopInv
  <2>5. QED
    BY <2>2, <2>3, <2>4 DEF StopInv
<1>5. ASSUME NEW e \in Executors, NEW c \in Contacts, ExecSend(e, c)
      PROVE  StopInv'
  <2>1. /\ c \in batch[e] /\ UNCHANGED status
        /\ batch'[e] = batch[e] \ {c} /\ xpc'[e] # "fetch"
        /\ late'[e] = IF status \in Stopping THEN late[e] + 1 ELSE late[e]
        /\ \A x \in Executors : x # e => /\ batch'[x] = batch[x]
                                         /\ xpc'[x] = xpc[x]
                                         /\ late'[x] = late[x]
    BY <1>5 DEF ExecSend, Goto, TypeOK
  <2>2. /\ Cardinality(batch[e]) \in Nat /\ late[e] \in Nat
        /\ Cardinality(batch'[e]) = Cardinality(batch[e]) - 1
        /\ Cardinality(batch'[e]) \in Nat
    <3>1. IsFiniteSet(batch[e]) /\ Cardinality(batch[e]) \in Nat
      BY BatchIsFinite
    <3>2. Cardinality(batch[e] \ {c}) = Cardinality(batch[e]) - 1
      BY <2>1, <3>1, FS_RemoveElement
    <3>3. Cardinality(batch[e] \ {c}) \in Nat
      BY <3>1, FS_RemoveElement, FS_CardinalityType
    <3>4. QED
      BY <2>1, <3>1, <3>2, <3>3 DEF TypeOK
  <2>3. BatchSize \in Nat
    BY ConstantsAssumption DEF ConstantsAssumption
  <2>4. /\ late'[e] <= BatchSize
        /\ Cardinality(batch'[e]) <= BatchSize
        /\ status \in Stopping => late'[e] + Cardinality(batch'[e]) <= BatchSize
    <3>1. /\ late[e] <= BatchSize /\ Cardinality(batch[e]) <= BatchSize
          /\ status \in Stopping => late[e] + Cardinality(batch[e]) <= BatchSize
      BY DEF StopInv
    <3>2. CASE status \in Stopping
      BY <2>1, <2>2, <2>3, <3>1, <3>2
    <3>3. CASE status \notin Stopping
      BY <2>1, <2>2, <2>3, <3>1, <3>3
    <3>4. QED
      BY <3>2, <3>3
  <2>5. QED
    BY <2>1, <2>4 DEF StopInv
<1>6. ASSUME NEW e \in Executors,
             \/ ExecLoad(e) \/ ExecCheck(e) \/ ExecRecord(e) \/ ExecCount(e)
             \/ ExecCatch(e) \/ ExecCatchCount(e) \/ ExecComplete(e)
             \/ ExecRecordFails(e) \/ ExecCountFails(e)
      PROVE  StopInv'
  <2>1. /\ UNCHANGED <<late, batch>>
        /\ UNCHANGED status \/ status' = "COMPLETED"
    BY <1>6
       DEF ExecLoad, ExecCheck, ExecRecord, ExecCount, ExecCatch,
           ExecCatchCount, ExecComplete, ExecRecordFails, ExecCountFails
  <2>2. \A x \in Executors :
          xpc'[x] = "fetch" => xpc[x] = "fetch" \/ status \notin Stopping
    BY <1>6
       DEF ExecLoad, ExecCheck, ExecRecord, ExecCount, ExecCatch,
           ExecCatchCount, ExecComplete, ExecRecordFails, ExecCountFails,
           NextRecipient, Goto, StopSeen, TypeOK
  <2>3. QED
    BY <2>1, <2>2, StopFrame
<1>7. ASSUME NEW e \in Executors, ExecThrows(e) PROVE StopInv'
  BY <1>7, StopFrame DEF ExecThrows, ProcessExits
<1>8. CASE Crash
  BY <1>8, StopFrame DEF Crash, ProcessExits
<1>9. CASE BecomeDue \/ RemoveProvider
  BY <1>9, StopFrame DEF BecomeDue, RemoveProvider, RowGone
<1>10. CASE UNCHANGED vars
  BY <1>10, StopFrame DEF vars
<1>11. QED
  BY <1>1, <1>2, <1>3, <1>4, <1>5, <1>6, <1>7, <1>8, <1>9, <1>10
     DEF Next, RequestStep, ExecStep, FaultStep

\* However large the campaign, a pause or a cancel leaves an executor at most
\* the rest of one batch to send.
THEOREM StopsInTime == Spec => []StopsWithinOneBatch
<1>1. Init => StopInv
  BY FS_EmptySet, ConstantsAssumption
     DEF Init, StopInv, Stopping, ConstantsAssumption
<1>2. StopInv => StopsWithinOneBatch
  BY DEF StopInv, StopsWithinOneBatch
<1>3. QED
  BY <1>1, <1>2, StopStep, TypeCorrect, PTL DEF Spec

(***************************************************************************)
(* What a recipient's row says of the provider.  To write FAILED truly, an *)
(* executor must know that nobody else reached the contact: the calls made *)
(* so far are all those of the one start(), and it has not tried it.       *)
(***************************************************************************)

TruthInv ==
  /\ \A c \in Contacts : rcp[c] = "SENT" => c \in accepted
  /\ \A c \in Contacts :
       c \in accepted \/ rcp[c] = "FAILED" => \E e \in Executors : Tried(e, c)
  /\ \A e \in Executors : Busy(e) /\ ok[e] => cur[e] \in accepted
  /\ faults = 0 => \A e \in Executors :
       xpc[e] \in {"catch", "catchCount"} => status = "DELETED"
  /\ faults = 0 /\ StartedOnce =>
       /\ \A c \in Contacts : rcp[c] = "FAILED" => c \notin accepted
       /\ \A e \in Executors : Busy(e) /\ ~ok[e] => cur[e] \notin accepted

\* A step that neither calls the provider nor settles a row.
LEMMA TruthFrame ==
  ASSUME TypeOK, TruthInv, UNCHANGED <<accepted, attempts>>,
         faults' \in {faults, faults + 1},
         \A c \in Contacts : rcp'[c] \in {rcp[c], "NONE", "PENDING"},
         status = "DELETED" => status' = "DELETED",
         \A e \in Executors :
           /\ xpc'[e] = "unused" => xpc[e] = "unused"
           /\ Busy(e)' => Busy(e) /\ cur'[e] = cur[e] /\ ok'[e] = ok[e]
           /\ faults' = 0 /\ xpc'[e] \in {"catch", "catchCount"} =>
                xpc[e] \in {"catch", "catchCount"} \/ status = "DELETED"
  PROVE  TruthInv'
<1>1. StartedOnce' => StartedOnce
  BY DEF StartedOnce
<1>2. faults' = 0 => faults = 0
  BY DEF TypeOK
<1>3. /\ \A c \in Contacts : rcp'[c] = "SENT" => c \in accepted'
      /\ \A c \in Contacts :
           c \in accepted' \/ rcp'[c] = "FAILED" =>
             \E e \in Executors : Tried(e, c)'
      /\ \A e \in Executors : Busy(e)' /\ ok'[e] => cur'[e] \in accepted'
  BY DEF TruthInv, Tried
<1>4. faults' = 0 => \A e \in Executors :
        xpc'[e] \in {"catch", "catchCount"} => status' = "DELETED"
  BY <1>2 DEF TruthInv
<1>5. faults' = 0 /\ StartedOnce' =>
        /\ \A c \in Contacts : rcp'[c] = "FAILED" => c \notin accepted'
        /\ \A e \in Executors : Busy(e)' /\ ~ok'[e] => cur'[e] \notin accepted'
  BY <1>1, <1>2 DEF TruthInv
<1>6. QED
  BY <1>3, <1>4, <1>5 DEF TruthInv

\* The executor writes what it knows of its current recipient.
LEMMA TruthSettle ==
  ASSUME TypeOK, DispatchInv, TruthInv, NEW e \in Executors, Busy(e),
         NEW o \in {"SENT", "FAILED"}, rcp' = [rcp EXCEPT ![cur[e]] = o],
         o = "SENT" => ok[e], faults' = 0 /\ o = "FAILED" => ~ok[e],
         NEW p \in {"count", "catch", "catchCount"}, Goto(e, p),
         faults' = 0 => p = "count",
         faults' \in {faults, faults + 1},
         UNCHANGED <<status, cur, ok, attempts, accepted>>
  PROVE  TruthInv'
<1> USE DEF TruthInv
<1>1. cur[e] \in Contacts /\ Tried(e, cur[e]) /\ Busy(e)'
  BY DEF DispatchInv, CurrentTried, Busy, Goto, TypeOK
<1>2. \A x \in Executors : /\ Busy(x)' => Busy(x)
                           /\ x # e => xpc'[x] = xpc[x]
                           /\ xpc'[x] = "unused" => xpc[x] = "unused"
  BY DEF Busy, Goto, TypeOK
<1>3. StartedOnce' => StartedOnce
  BY <1>2 DEF StartedOnce
<1>4. faults' = 0 => faults = 0
  BY DEF TypeOK
<1>5. \A c \in Contacts : rcp'[c] = IF c = cur[e] THEN o ELSE rcp[c]
  BY DEF TypeOK
<1>6. /\ \A c \in Contacts : rcp'[c] = "SENT" => c \in accepted'
      /\ \A c \in Contacts :
           c \in accepted' \/ rcp'[c] = "FAILED" =>
             \E x \in Executors : Tried(x, c)'
      /\ \A x \in Executors : Busy(x)' /\ ok'[x] => cur'[x] \in accepted'
  BY <1>1, <1>2, <1>5 DEF Tried
<1>7. faults' = 0 => \A x \in Executors :
        xpc'[x] \in {"catch", "catchCount"} => status' = "DELETED"
  BY <1>2, <1>4 DEF Goto, TypeOK
<1>8. faults' = 0 /\ StartedOnce' =>
        /\ \A c \in Contacts : rcp'[c] = "FAILED" => c \notin accepted'
        /\ \A x \in Executors : Busy(x)' /\ ~ok'[x] => cur'[x] \notin accepted'
  BY <1>1, <1>2, <1>3, <1>4, <1>5
<1>9. QED
  BY <1>6, <1>7, <1>8

\* The provider call: when the campaign was started once, nobody had called
\* for this contact before.
LEMMA TruthSend ==
  ASSUME TypeOK, DispatchInv, TruthInv, NEW e \in Executors,
         NEW c \in Contacts, ExecSend(e, c)
  PROVE  TruthInv'
<1> USE DEF TruthInv
<1>1. PICK success \in BOOLEAN :
        /\ ok' = [ok EXCEPT ![e] = success]
        /\ accepted' = IF success THEN accepted \cup {c} ELSE accepted
  BY DEF ExecSend
<1>2. /\ xpc[e] = "send" /\ ~Tried(e, c) /\ FreshStart
      /\ UNCHANGED <<rcp, status, faults>>
      /\ xpc'[e] = "record" /\ cur'[e] = c /\ ok'[e] = success
      /\ \A x \in Executors : x # e =>
           xpc'[x] = xpc[x] /\ cur'[x] = cur[x] /\ ok'[x] = ok[x]
  BY <1>1 DEF ExecSend, Goto, db, TypeOK, DispatchInv, BatchUntried
<1>3. /\ Tried(e, c)'
      /\ \A x \in Executors, d \in Contacts : Tried(x, d) => Tried(x, d)'
  BY DEF ExecSend, Tried, TypeOK
<1>4. /\ \A d \in Contacts : rcp'[d] = "SENT" => d \in accepted'
      /\ \A d \in Contacts :
           d \in accepted' \/ rcp'[d] = "FAILED" =>
             \E x \in Executors : Tried(x, d)'
      /\ \A x \in Executors : Busy(x)' /\ ok'[x] => cur'[x] \in accepted'
  BY <1>1, <1>2, <1>3 DEF Busy
<1>5. faults' = 0 => \A x \in Executors :
        xpc'[x] \in {"catch", "catchCount"} => status' = "DELETED"
  BY <1>2
<1>6. ASSUME faults' = 0, StartedOnce'
      PROVE  /\ \A d \in Contacts : rcp'[d] = "FAILED" => d \notin accepted'
             /\ \A x \in Executors :
                  Busy(x)' /\ ~ok'[x] => cur'[x] \notin accepted'
  <2>1. faults = 0 /\ StartedOnce
    BY <1>2, <1>6 DEF StartedOnce
  <2>2. \A x \in Executors : xpc[x] # "unused" => x = e
    BY <1>2, <2>1 DEF StartedOnce
  <2>3. \A x \in Executors : ~Tried(x, c)
    BY <1>2, <2>2 DEF FreshStart
  <2>4. c \notin accepted /\ rcp[c] # "FAILED"
    BY <2>3
  <2>5. \A x \in Executors : Busy(x)' => x = e
    BY <1>2, <2>2 DEF Busy
  <2>6. QED
    BY <1>1, <1>2, <2>1, <2>4, <2>5
<1>7. QED
  BY <1>4, <1>5, <1>6

LEMMA TruthStep == TypeOK /\ DispatchInv /\ TruthInv /\ [Next]_vars => TruthInv'
<1> SUFFICES ASSUME TypeOK, DispatchInv, TruthInv, [Next]_vars PROVE TruthInv'
  OBVIOUS
<1> USE DEF db, exe, obs, Fault
<1>1. ASSUME NEW r \in Requests,
             \/ Ask(r) \/ SchedulerTick(r) \/ WriteGone(r) \/ WriteUpdate(r)
             \/ WriteStop(r) \/ WriteRemove(r) \/ AddCount(r)
             \/ RequestFails(r) \/ StartReplyLost(r)
             \/ \E c \in Contacts : AddRow(r, c) \/ AddRowFails(r, c)
      PROVE  TruthInv'
  <2>1. /\ UNCHANGED <<xpc, cur, ok, accepted, attempts>>
        /\ faults' \in {faults, faults + 1}
    BY <1>1
       DEF Ask, Create, Begin, BeginAdd, SchedulerTick, WriteGone,
           WriteUpdate, WriteStop, WriteRemove, AddCount, RequestFails,
           StartReplyLost, AddRow, AddRowFails
  <2>2. \A c \in Contacts : rcp'[c] \in {rcp[c], "NONE", "PENDING"}
    BY <1>1
       DEF Ask, Create, Begin, BeginAdd, SchedulerTick, WriteGone,
           WriteUpdate, WriteStop, WriteRemove, RowGone, AddCount,
           RequestFails, StartReplyLost, AddRow, AddRowFails, NewRow, TypeOK
  <2>3. status = "DELETED" => status' = "DELETED"
    BY <1>1
       DEF Ask, Create, Begin, BeginAdd, SchedulerTick, WriteGone,
           WriteUpdate, WriteStop, WriteRemove, AddCount,
           RequestFails, StartReplyLost, AddRow, AddRowFails, Exists, Stored,
           Stopping
  <2>4. QED
    BY <2>1, <2>2, <2>3, TruthFrame DEF Busy
<1>2. ASSUME NEW r \in Requests, NEW e \in Executors, WriteStart(r, e)
      PROVE  TruthInv'
  BY <1>2, TruthFrame DEF WriteStart, Busy, TypeOK, Exists, Stored, Stopping
<1>3. ASSUME NEW e \in Executors, NEW c \in Contacts, ExecSend(e, c)
      PROVE  TruthInv'
  BY <1>3, TruthSend
<1>4. ASSUME NEW e \in Executors, ExecRecord(e) \/ ExecRecordFails(e)
      PROVE  TruthInv'
  <2>1. Busy(e) /\ UNCHANGED <<status, cur, ok, attempts, accepted>>
        /\ faults' \in {faults, faults + 1}
        /\ (ExecRecord(e) \/ faults' = faults + 1)
    BY <1>4 DEF ExecRecord, ExecRecordFails, Busy
  <2>2. CASE Exists /\ rcp' = [rcp EXCEPT ![cur[e]] = Outcome(e)]
    <3>1. \E p \in {"count", "catch"} :
            Goto(e, p) /\ (faults' = 0 => p = "count")
      BY <1>4, <2>1, <2>2 DEF ExecRecord, ExecRecordFails, TypeOK
    <3>2. /\ Outcome(e) \in {"SENT", "FAILED"}
          /\ Outcome(e) = "SENT" <=> ok[e]
      BY DEF Outcome
    <3>3. QED
      BY <2>1, <2>2, <3>1, <3>2, TruthSettle
  <2>3. CASE UNCHANGED rcp /\ Goto(e, "catch")
    <3>1. faults' = 0 => status = "DELETED"
      <4>1. status # "ABSENT"
        BY <1>4
           DEF ExecRecord, ExecRecordFails, DispatchInv, NothingBefore
      <4>2. faults' = 0 => ~Exists
        BY <1>4, <2>1, <2>3 DEF ExecRecord, Goto, TypeOK
      <4>3. QED
        BY <4>1, <4>2 DEF TypeOK, Exists
    <3>2. QED
      BY <2>1, <2>3, <3>1, TruthFrame DEF Busy, Goto, TypeOK
  <2>4. QED
    BY <1>4, <2>2, <2>3 DEF ExecRecord, ExecRecordFails
<1>5. ASSUME NEW e \in Executors, ExecCatch(e) PROVE TruthInv'
  <2>1. /\ Busy(e) /\ Exists /\ faults' = faults
        /\ UNCHANGED <<status, cur, ok, attempts, accepted>>
        /\ rcp' = [rcp EXCEPT ![cur[e]] = "FAILED"]
        /\ Goto(e, "catchCount")
    BY <1>5 DEF ExecCatch, Busy
  <2>2. faults' # 0
    BY <1>5, <2>1 DEF ExecCatch, TruthInv, Exists, Stored, Stopping
  <2>3. QED
    BY <2>1, <2>2, TruthSettle
<1>6. ASSUME NEW e \in Executors, ExecCount(e) \/ ExecCatchCount(e)
      PROVE  TruthInv'
  <2>1. CASE Exists
    BY <1>6, <2>1, TruthFrame
       DEF ExecCount, ExecCatchCount, NextRecipient, Goto, Busy, TypeOK
  <2>2. CASE ~Exists
    <3>1. /\ xpc[e] = "count" /\ Goto(e, "catch")
          /\ UNCHANGED <<status, rcp, cur, ok, attempts, accepted, faults>>
      BY <1>6, <2>2 DEF ExecCount, ExecCatchCount
    <3>2. status = "DELETED"
      BY <2>2, <3>1 DEF DispatchInv, NothingBefore, TypeOK, Exists
    <3>3. QED
      BY <3>1, <3>2, TruthFrame DEF Goto, Busy, TypeOK
  <2>3. QED
    BY <2>1, <2>2
<1>7. ASSUME NEW e \in Executors, ExecCountFails(e) PROVE TruthInv'
  <2>1. faults' # 0
    BY <1>7 DEF ExecCountFails, TypeOK
  <2>2. QED
    BY <1>7, <2>1, TruthFrame DEF ExecCountFails, Goto, Busy, TypeOK
<1>8. ASSUME NEW e \in Executors,
             ExecLoad(e) \/ ExecCheck(e) \/ ExecFetch(e) \/ ExecComplete(e)
      PROVE  TruthInv'
  BY <1>8, TruthFrame
     DEF ExecLoad, ExecCheck, ExecFetch, ExecComplete, BreakIfEmpty, Goto,
         Busy, TypeOK, Exists, Stored, Stopping
<1>9. ASSUME NEW e \in Executors, ExecThrows(e) PROVE TruthInv'
  BY <1>9, TruthFrame DEF ExecThrows, ProcessExits, Busy
<1>10. CASE Crash
  BY <1>10, TruthFrame DEF Crash, ProcessExits, Busy
<1>11. CASE BecomeDue \/ RemoveProvider
  BY <1>11, TruthFrame DEF BecomeDue, RemoveProvider, RowGone, Busy
<1>12. CASE UNCHANGED vars
  BY <1>12, TruthFrame DEF vars, Busy
<1>13. QED
  BY <1>1, <1>2, <1>3, <1>4, <1>5, <1>6, <1>7, <1>8, <1>9, <1>10, <1>11,
     <1>12
     DEF Next, RequestStep, ExecStep, FaultStep

LEMMA TruthInvariant == Spec => []TruthInv
<1>1. Init => TruthInv
  BY DEF Init, TruthInv, Busy
<1>2. QED
  BY <1>1, TruthStep, TypeCorrect, DispatchInvariant, PTL DEF Spec

\* A recipient shown SENT was acknowledged, and one shown FAILED was not, but
\* for faults and second starts.
THEOREM RowsAreTruthful == Spec => []RowsTellTheTruth
<1>1. TruthInv => RowsTellTheTruth
  BY DEF TruthInv, RowsTellTheTruth
<1>2. QED
  BY <1>1, TruthInvariant, PTL

(***************************************************************************)
(* The counters of the campaign.  What was sent and failed and what the    *)
(* executors at work still owe add up to the calls made; both sets are     *)
(* finite because a step adds at most one member.                          *)
(***************************************************************************)

BusyOnes == {e \in Executors : Busy(e)}

CountInv ==
  /\ IsFiniteSet(Calls) /\ IsFiniteSet(BusyOnes)
  /\ status = "ABSENT" => sentCount = 0 /\ failedCount = 0
  /\ CountsBalance

\* A step the counters and the executors at work do not notice.
LEMMA CountFrame ==
  ASSUME TypeOK, CountInv, UNCHANGED <<attempts, tally>>,
         \A e \in Executors : Busy(e)' <=> Busy(e),
         faults' = 0 => faults = 0, Exists' => Exists,
         status' = "ABSENT" => status = "ABSENT"
  PROVE  CountInv'
<1>1. Calls' = Calls /\ BusyOnes' = BusyOnes
  BY DEF Calls, BusyOnes
<1>2. UNCHANGED <<sentCount, failedCount>>
  BY DEF tally
<1>3. {e \in Executors : Busy(e)'} = {e \in Executors : Busy(e)}
  OBVIOUS
<1>4. QED
  BY <1>1, <1>2, <1>3 DEF CountInv, CountsBalance

\* A step after which the counters need not balance any more.
LEMMA CountDrop ==
  ASSUME TypeOK, CountInv, UNCHANGED attempts,
         \A e \in Executors : Busy(e)' => Busy(e),
         faults' # 0 \/ ~Exists', status' # "ABSENT"
  PROVE  CountInv'
<1>1. Calls' = Calls
  BY DEF Calls
<1>2. IsFiniteSet(BusyOnes')
  <2>1. BusyOnes' \in SUBSET BusyOnes
    BY DEF BusyOnes
  <2>2. QED
    BY <2>1, FS_Subset DEF CountInv
<1>3. QED
  BY <1>1, <1>2 DEF CountInv, CountsBalance

LEMMA CountSend ==
  ASSUME TypeOK, DispatchInv, CountInv, NEW e \in Executors,
         NEW c \in Contacts, ExecSend(e, c)
  PROVE  CountInv'
<1>1. /\ xpc[e] = "send" /\ xpc'[e] = "record"
      /\ \A x \in Executors : x # e => xpc'[x] = xpc[x]
      /\ attempts' = [attempts EXCEPT ![e][c] = @ + 1]
      /\ attempts[e][c] = 0
      /\ UNCHANGED <<status, sentCount, failedCount, faults>>
  BY DEF ExecSend, Goto, db, tally, TypeOK, DispatchInv, BatchUntried, Tried
<1>2. /\ BusyOnes' = BusyOnes \cup {e} /\ e \notin BusyOnes
  BY <1>1 DEF BusyOnes, Busy
<1>3. Calls' = Calls \cup {<<e, c>>} /\ <<e, c>> \notin Calls
  <2>1. \A x \in Executors, d \in Contacts :
          attempts'[x][d] = IF x = e /\ d = c THEN 1 ELSE attempts[x][d]
    BY <1>1 DEF TypeOK
  <2>2. \A p \in Executors \X Contacts : p = <<p[1], p[2]>>
    OBVIOUS
  <2>3. QED
    BY <1>1, <2>1, <2>2 DEF Calls
<1>4. /\ IsFiniteSet(BusyOnes') /\ IsFiniteSet(Calls')
      /\ Cardinality(BusyOnes') = Cardinality(BusyOnes) + 1
      /\ Cardinality(Calls') = Cardinality(Calls) + 1
  BY <1>2, <1>3, FS_AddElement DEF CountInv
<1>5. Cardinality(BusyOnes) \in Nat /\ Cardinality(Calls) \in Nat
  BY FS_CardinalityType DEF CountInv
<1>6. CountsBalance'
  <2>1. ASSUME faults = 0, Exists
        PROVE  sentCount + failedCount + Cardinality(BusyOnes)
                 = Cardinality(Calls)
    BY <2>1 DEF CountInv, CountsBalance, BusyOnes
  <2>2. ASSUME faults' = 0, Exists'
        PROVE  sentCount' + failedCount' + Cardinality(BusyOnes')
                 = Cardinality(Calls')
    BY <1>1, <1>4, <1>5, <2>1, <2>2 DEF Exists, TypeOK
  <2>3. QED
    BY <2>2 DEF CountsBalance, BusyOnes
<1>7. QED
  BY <1>1, <1>4, <1>6 DEF CountInv

LEMMA CountCount ==
  ASSUME TypeOK, CountInv, NEW e \in Executors, ExecCount(e), Exists
  PROVE  CountInv'
<1>1. /\ xpc[e] = "count" /\ xpc'[e] \in {"check", "send"}
      /\ \A x \in Executors : x # e => xpc'[x] = xpc[x]
      /\ UNCHANGED <<status, attempts, faults>>
      /\ sentCount' + failedCount' = sentCount + failedCount + 1
  <2>1. CountOutcome(e) /\ NextRecipient(e) /\ xpc[e] = "count"
        /\ UNCHANGED <<status, attempts, faults>>
    BY DEF ExecCount, obs
  <2>2. xpc'[e] \in {"check", "send"}
        /\ \A x \in Executors : x # e => xpc'[x] = xpc[x]
    BY <2>1 DEF NextRecipient, Goto, TypeOK
  <2>3. sentCount' + failedCount' = sentCount + failedCount + 1
    BY <2>1 DEF CountOutcome, TypeOK
  <2>4. QED
    BY <2>1, <2>2, <2>3
<1>2. /\ BusyOnes' = BusyOnes \ {e} /\ e \in BusyOnes
  BY <1>1 DEF BusyOnes, Busy
<1>3. Calls' = Calls
  BY <1>1 DEF Calls
<1>4. /\ IsFiniteSet(BusyOnes')
      /\ Cardinality(BusyOnes') = Cardinality(BusyOnes) - 1
  BY <1>2, FS_RemoveElement DEF CountInv
<1>5. Cardinality(BusyOnes) \in Nat /\ Cardinality(Calls) \in Nat
  BY FS_CardinalityType DEF CountInv
<1>6. CountsBalance'
  <2>1. ASSUME faults = 0
        PROVE  sentCount + failedCount + Cardinality(BusyOnes)
                 = Cardinality(Calls)
    BY <2>1 DEF CountInv, CountsBalance, BusyOnes
  <2>2. ASSUME faults' = 0
        PROVE  sentCount' + failedCount' + Cardinality(BusyOnes')
                 = Cardinality(Calls')
    BY <1>1, <1>3, <1>4, <1>5, <2>1, <2>2 DEF TypeOK
  <2>3. QED
    BY <2>2 DEF CountsBalance, BusyOnes
<1>7. QED
  BY <1>1, <1>3, <1>4, <1>6 DEF CountInv, Exists, Stored, Stopping

LEMMA CountCreate ==
  ASSUME TypeOK, DispatchInv, CountInv, status = "ABSENT",
         status' # "ABSENT", UNCHANGED <<xpc, attempts, tally>>
  PROVE  CountInv'
<1>1. BusyOnes = {}
  BY DEF BusyOnes, Busy, DispatchInv, NothingBefore
<1>2. Calls = {}
  BY DEF Calls, Tried, DispatchInv, NothingBefore, FreshStart
<1>3. Calls' = Calls /\ BusyOnes' = BusyOnes
  BY DEF Calls, BusyOnes, Busy
<1>4. sentCount' = 0 /\ failedCount' = 0
  BY DEF CountInv, tally
<1>5. CountsBalance'
  BY <1>1, <1>2, <1>3, <1>4, FS_EmptySet DEF CountsBalance, BusyOnes
<1>6. QED
  BY <1>3, <1>5 DEF CountInv

LEMMA CountStep ==
  TypeOK /\ DispatchInv /\ TruthInv /\ CountInv /\ [Next]_vars => CountInv'
<1> SUFFICES ASSUME TypeOK, DispatchInv, TruthInv, CountInv, [Next]_vars
             PROVE  CountInv'
  OBVIOUS
<1> USE DEF db, exe, obs, Fault, Exists, Stored, Stopping
<1>1. ASSUME NEW r \in Requests, NEW cs \in SUBSET Contacts,
             NEW at \in Schedules, Create(r, cs, at)
      PROVE  CountInv'
  BY <1>1, CountCreate DEF Create
<1>2. ASSUME NEW r \in Requests,
             \/ \E o \in Ops : Begin(r, o)
             \/ \E cs \in SUBSET Contacts : BeginAdd(r, cs)
             \/ SchedulerTick(r) \/ WriteGone(r) \/ WriteUpdate(r)
             \/ WriteStop(r) \/ AddCount(r)
             \/ \E c \in Contacts : AddRow(r, c)
      PROVE  CountInv'
  BY <1>2, CountFrame
     DEF Begin, BeginAdd, SchedulerTick, WriteGone, WriteUpdate, WriteStop,
         AddCount, AddRow, Busy
<1>3. ASSUME NEW r \in Requests, NEW e \in Executors, WriteStart(r, e)
      PROVE  CountInv'
  BY <1>3, CountFrame DEF WriteStart, Busy, TypeOK
<1>4. ASSUME NEW r \in Requests, WriteRemove(r) PROVE CountInv'
  BY <1>4, CountDrop DEF WriteRemove, RowGone, Busy
<1>5. ASSUME NEW e \in Executors, NEW c \in Contacts, ExecSend(e, c)
      PROVE  CountInv'
  BY <1>5, CountSend
<1>6. ASSUME NEW e \in Executors, ExecCount(e) PROVE CountInv'
  <2>1. CASE Exists
    BY <1>6, <2>1, CountCount
  <2>2. CASE ~Exists
    BY <1>6, <2>2, CountFrame DEF ExecCount, Goto, Busy, TypeOK
  <2>3. QED
    BY <2>1, <2>2
<1>7. ASSUME NEW e \in Executors, ExecCatchCount(e) PROVE CountInv'
  <2>1. faults' # 0
    BY <1>7 DEF ExecCatchCount, TruthInv
  <2>2. QED
    BY <1>7, <2>1, CountDrop
       DEF ExecCatchCount, NextRecipient, Goto, Busy, TypeOK
<1>8. ASSUME NEW e \in Executors,
             \/ ExecLoad(e) \/ ExecCheck(e) \/ ExecFetch(e) \/ ExecRecord(e)
             \/ ExecCatch(e) \/ ExecComplete(e)
      PROVE  CountInv'
  BY <1>8, CountFrame
     DEF ExecLoad, ExecCheck, ExecFetch, ExecRecord, ExecCatch,
         ExecComplete, BreakIfEmpty, Goto, Busy, TypeOK
<1>9. ASSUME NEW e \in Executors, ExecThrows(e) PROVE CountInv'
  <2>1. status # "ABSENT"
    BY <1>9 DEF ExecThrows, DispatchInv, NothingBefore
  <2>2. QED
    BY <1>9, <2>1, CountDrop DEF ExecThrows, ProcessExits, Busy
<1>10. CASE BecomeDue
  BY <1>10, CountFrame DEF BecomeDue, Busy
<1>11. CASE RemoveProvider
  BY <1>11, CountDrop DEF RemoveProvider, RowGone, Busy
<1>12. CASE FaultStep
  <2>1. faults' = faults + 1 /\ faults' # 0 /\ UNCHANGED attempts
    BY <1>12
       DEF FaultStep, Crash, RequestFails, StartReplyLost, AddRowFails,
           ExecRecordFails, ExecCountFails, TypeOK
  <2>2. \A e \in Executors : Busy(e)' => Busy(e)
    BY <1>12
       DEF FaultStep, Crash, ProcessExits, RequestFails, StartReplyLost,
           AddRowFails, ExecRecordFails, ExecCountFails, Goto, Busy, TypeOK
  <2>3. CASE status' # "ABSENT"
    BY <2>1, <2>2, <2>3, CountDrop
  <2>4. CASE status' = "ABSENT"
    <3>1. status = "ABSENT"
      BY <1>12, <2>4
         DEF FaultStep, Crash, RequestFails, StartReplyLost, AddRowFails,
             ExecRecordFails, ExecCountFails
    <3>2. \A e \in Executors : xpc[e] = "unused"
      BY <3>1 DEF DispatchInv, NothingBefore
    <3>3. UNCHANGED tally
      BY <1>12, <3>2
         DEF FaultStep, Crash, RequestFails, StartReplyLost, AddRowFails,
             ExecRecordFails, ExecCountFails
    <3>4. \A e \in Executors : ~Busy(e)
      BY <3>2 DEF Busy
    <3>5. QED
      BY <2>1, <2>2, <2>4, <3>1, <3>3, <3>4, CountFrame
  <2>5. QED
    BY <2>3, <2>4
<1>13. CASE UNCHANGED vars
  BY <1>13, CountFrame DEF vars, Busy
<1>14. QED
  BY <1>1, <1>2, <1>3, <1>4, <1>5, <1>6, <1>7, <1>8, <1>9, <1>10, <1>11,
     <1>12, <1>13
     DEF Next, Ask, RequestStep, ExecStep

\* Without faults each provider call is counted exactly once, as sent or as
\* failed, when its executor is done with it.
THEOREM CountersBalance == Spec => []CountsBalance
<1>1. Init => CountInv
  <2>1. Init => Calls = {} /\ BusyOnes = {}
    BY DEF Init, Calls, BusyOnes, Busy
  <2>2. QED
    BY <2>1, FS_EmptySet
       DEF Init, CountInv, CountsBalance, Exists, Stored, Stopping
<1>2. CountInv => CountsBalance
  BY DEF CountInv
<1>3. QED
  BY <1>1, <1>2, CountStep, TruthInvariant, TypeCorrect, DispatchInvariant,
     PTL DEF Spec

(***************************************************************************)
(* The size of the campaign: calls of addRecipients() that overlap create  *)
(* disjoint sets of rows, so counting each set once counts every row once. *)
(***************************************************************************)

Rows      == {c \in Contacts : rcp[c] # "NONE"}
Uncounted == UNION {added[r] : r \in Requests}
Known     == total + Cardinality(Uncounted)

TotalInv ==
  /\ status = "ABSENT" =>
       total = 0 /\ Rows = {} /\ \A r \in Requests : added[r] = {}
  /\ \A r, s \in Requests : r # s => added[r] \cap added[s] = {}
  /\ Exists => Uncounted \subseteq Rows
  /\ TotalMatchesRows

LEMMA RowsAreFinite ==
  ASSUME TypeOK
  PROVE  /\ IsFiniteSet(Rows) /\ Cardinality(Rows) \in Nat
         /\ IsFiniteSet(Uncounted) /\ Cardinality(Uncounted) \in Nat
         /\ total \in Nat /\ Known \in Nat
<1>1. Rows \in SUBSET Contacts /\ Uncounted \in SUBSET Contacts
  BY DEF Rows, Uncounted, TypeOK
<1>2. IsFiniteSet(Rows) /\ IsFiniteSet(Uncounted)
  BY <1>1, FS_Subset, ConstantsAssumption DEF ConstantsAssumption
<1>3. QED
  BY <1>2, FS_CardinalityType DEF TypeOK, Known

LEMMA KnownRows ==
  TotalMatchesRows <=>
    (Exists => /\ Known <= Cardinality(Rows)
               /\ faults = 0 => Known = Cardinality(Rows))
BY DEF TotalMatchesRows, Known, Rows, Uncounted

\* A step that creates no row and counts none.
LEMMA TotalFrame ==
  ASSUME TotalInv, UNCHANGED <<total, added>>,
         \A c \in Contacts : rcp'[c] = "NONE" <=> rcp[c] = "NONE",
         faults' = 0 => faults = 0, Exists' => Exists,
         status' = "ABSENT" => status = "ABSENT"
  PROVE  TotalInv'
<1>1. Rows' = Rows /\ Uncounted' = Uncounted /\ Known' = Known
  BY DEF Rows, Uncounted, Known
<1>2. TotalMatchesRows'
  BY <1>1, KnownRows DEF TotalInv, TotalMatchesRows, Known, Rows, Uncounted
<1>3. QED
  BY <1>1, <1>2 DEF TotalInv

\* A step after which there is no campaign.
LEMMA TotalGone ==
  ASSUME TotalInv, ~Exists', status' # "ABSENT",
         \A r \in Requests : added'[r] = added[r] \/ added'[r] = {}
  PROVE  TotalInv'
BY DEF TotalInv, TotalMatchesRows

\* A fault by which rows are created or forgotten, and not counted.
LEMMA TotalDrop ==
  ASSUME TypeOK, TypeOK', TotalInv, UNCHANGED total, faults' # 0,
         \A c \in Contacts : rcp'[c] = "NONE" => rcp[c] = "NONE",
         \A r \in Requests : added'[r] = added[r] \/ added'[r] = {},
         Exists' => Exists,
         status' = "ABSENT" => status = "ABSENT" /\ UNCHANGED rcp
  PROVE  TotalInv'
<1>1. Rows \subseteq Rows' /\ Uncounted' \subseteq Uncounted
  BY DEF Rows, Uncounted
<1>2. /\ Cardinality(Rows) <= Cardinality(Rows)'
      /\ Cardinality(Uncounted') <= Cardinality(Uncounted)
  <2>1. IsFiniteSet(Rows') /\ IsFiniteSet(Uncounted)
    BY RowsAreFinite, ConstantsAssumption, FS_Subset
       DEF Rows, ConstantsAssumption
  <2>2. QED
    BY <1>1, <2>1, FS_Subset
<1>3. ASSUME Exists'
      PROVE  Known' <= Cardinality(Rows)'
  <2>1. Known <= Cardinality(Rows)
    BY <1>3, KnownRows DEF TotalInv
  <2>2. /\ Cardinality(Rows) \in Nat /\ Cardinality(Uncounted) \in Nat
        /\ total \in Nat
    BY RowsAreFinite
  <2>3. Cardinality(Rows') \in Nat /\ Cardinality(Uncounted') \in Nat
    BY RowsAreFinite, ConstantsAssumption, FS_Subset, FS_CardinalityType, <1>1
       DEF Rows, ConstantsAssumption
  <2>4. QED
    BY <1>2, <2>1, <2>2, <2>3 DEF Known
<1>4. TotalMatchesRows'
  BY <1>3 DEF TotalMatchesRows, Known, Rows, Uncounted
<1>5. (Exists => Uncounted \subseteq Rows)'
  BY <1>1 DEF TotalInv
<1>6. QED
  BY <1>4, <1>5 DEF TotalInv, Rows

\* A row is created, and the call that created it will count it.
LEMMA TotalAddNew ==
  ASSUME TypeOK, TotalInv, NEW r \in Requests, NEW c \in Contacts,
         NewRow(c), rcp' = [rcp EXCEPT ![c] = "PENDING"],
         added' = [added EXCEPT ![r] = @ \cup {c}],
         UNCHANGED <<total, status, faults>>
  PROVE  TotalInv'
<1>1. Exists /\ c \notin Rows /\ c \notin Uncounted
  BY DEF NewRow, Rows, TotalInv
<1>2. Rows' = Rows \cup {c}
  BY DEF Rows, TypeOK
<1>3. \A s \in Requests :
        added'[s] = IF s = r THEN added[r] \cup {c} ELSE added[s]
  BY DEF TypeOK
<1>4. Uncounted' = Uncounted \cup {c}
  BY <1>3 DEF Uncounted
<1>5. /\ Cardinality(Rows') = Cardinality(Rows) + 1
      /\ Cardinality(Uncounted') = Cardinality(Uncounted) + 1
  BY <1>1, <1>2, <1>4, RowsAreFinite, FS_AddElement
<1>6. TotalMatchesRows'
  <2>1. /\ Known <= Cardinality(Rows)
        /\ faults = 0 => Known = Cardinality(Rows)
    BY <1>1, KnownRows DEF TotalInv
  <2>2. /\ Known' <= Cardinality(Rows')
        /\ faults' = 0 => Known' = Cardinality(Rows')
    BY <1>5, <2>1, RowsAreFinite DEF Known
  <2>3. QED
    BY <2>2 DEF TotalMatchesRows, Known, Rows, Uncounted
<1>7. \A s, t \in Requests : s # t => added'[s] \cap added'[t] = {}
  BY <1>1, <1>3 DEF TotalInv, Uncounted
<1>8. QED
  BY <1>1, <1>2, <1>4, <1>6, <1>7 DEF TotalInv, Exists, Stored, Stopping

\* An addRecipients() counts the rows it created.
LEMMA TotalCount ==
  ASSUME TypeOK, TotalInv, NEW r \in Requests, Exists,
         total' = total + Cardinality(added[r]),
         added' = [added EXCEPT ![r] = {}],
         UNCHANGED <<rcp, status, faults>>
  PROVE  TotalInv'
<1>1. \A s \in Requests : added'[s] = IF s = r THEN {} ELSE added[s]
  BY DEF TypeOK
<1>2. /\ Uncounted = Uncounted' \cup added[r]
      /\ Uncounted' \cap added[r] = {}
  BY <1>1 DEF Uncounted, TotalInv
<1>3. /\ IsFiniteSet(Uncounted') /\ IsFiniteSet(added[r])
      /\ Cardinality(Uncounted') \in Nat /\ Cardinality(added[r]) \in Nat
  BY <1>2, RowsAreFinite, AddedIsFinite, FS_Subset, FS_CardinalityType
<1>4. Cardinality(Uncounted) = Cardinality(Uncounted') + Cardinality(added[r])
  <2>1. Cardinality(Uncounted' \cup added[r])
          = Cardinality(Uncounted') + Cardinality(added[r])
              - Cardinality(Uncounted' \cap added[r])
    BY <1>3, FS_Union
  <2>2. QED
    BY <1>2, <1>3, <2>1, FS_EmptySet
<1>5. Known' = Known
  BY <1>3, <1>4, RowsAreFinite DEF Known
<1>6. Rows' = Rows
  BY DEF Rows
<1>7. TotalMatchesRows'
  BY <1>5, <1>6, KnownRows
     DEF TotalInv, TotalMatchesRows, Known, Rows, Uncounted, Exists
<1>8. QED
  BY <1>1, <1>2, <1>6, <1>7 DEF TotalInv, Exists, Stored, Stopping

LEMMA TotalCreate ==
  ASSUME TotalInv, status = "ABSENT", status' # "ABSENT",
         UNCHANGED <<total, rcp, added>>
  PROVE  TotalInv'
<1>1. total = 0 /\ Rows = {} /\ Uncounted = {}
  BY DEF TotalInv, Uncounted
<1>2. total' = 0 /\ Rows' = {} /\ Uncounted' = {}
  BY <1>1 DEF Rows, Uncounted
<1>3. TotalMatchesRows'
  BY <1>2, FS_EmptySet DEF TotalMatchesRows, Rows, Uncounted
<1>4. QED
  BY <1>2, <1>3 DEF TotalInv

LEMMA TotalStep ==
  TypeOK /\ DispatchInv /\ TotalInv /\ [Next]_vars => TotalInv'
<1> SUFFICES ASSUME TypeOK, DispatchInv, TotalInv, [Next]_vars
             PROVE  TotalInv'
  OBVIOUS
<1> USE DEF db, req, exe, obs, plan, Fault, Exists, Stored, Stopping
<1>1. ASSUME NEW r \in Requests, NEW cs \in SUBSET Contacts,
             NEW at \in Schedules, Create(r, cs, at)
      PROVE  TotalInv'
  BY <1>1, TotalCreate DEF Create
<1>2. ASSUME NEW r \in Requests,
             \/ \E o \in Ops : Begin(r, o)
             \/ \E cs \in SUBSET Contacts : BeginAdd(r, cs)
             \/ SchedulerTick(r) \/ WriteGone(r) \/ WriteUpdate(r)
             \/ WriteStop(r)
             \/ \E e \in Executors : WriteStart(r, e)
      PROVE  TotalInv'
  BY <1>2, TotalFrame
     DEF Begin, BeginAdd, SchedulerTick, WriteGone, WriteUpdate, WriteStop,
         WriteStart, Answer
<1>3. ASSUME NEW r \in Requests, WriteRemove(r) PROVE TotalInv'
  BY <1>3, TotalGone DEF WriteRemove, RowGone, Answer
<1>4. ASSUME NEW r \in Requests, NEW c \in Contacts, AddRow(r, c)
      PROVE  TotalInv'
  <2>1. UNCHANGED <<total, status, faults>>
    BY <1>4 DEF AddRow
  <2>2. CASE NewRow(c)
    BY <1>4, <2>1, <2>2, TotalAddNew DEF AddRow
  <2>3. CASE ~NewRow(c)
    BY <1>4, <2>1, <2>3, TotalFrame DEF AddRow
  <2>4. QED
    BY <2>2, <2>3
<1>5. ASSUME NEW r \in Requests, AddCount(r) PROVE TotalInv'
  <2>1. /\ added' = [added EXCEPT ![r] = {}]
        /\ UNCHANGED <<rcp, status, faults>>
    BY <1>5 DEF AddCount
  <2>2. CASE Exists
    <3>1. total' = total + Cardinality(added[r])
      BY <1>5, <2>2 DEF AddCount
    <3>2. QED
      BY <2>1, <2>2, <3>1, TotalCount
  <2>3. CASE status = "ABSENT"
    <3>1. UNCHANGED <<total, added>>
      BY <1>5, <2>1, <2>3 DEF AddCount, TotalInv, TypeOK
    <3>2. QED
      BY <2>1, <3>1, TotalFrame
  <2>4. CASE ~Exists /\ status # "ABSENT"
    BY <2>1, <2>4, TotalGone DEF TypeOK
  <2>5. QED
    BY <2>2, <2>3, <2>4
<1>6. ASSUME NEW e \in Executors, ExecThrows(e) PROVE TotalInv'
  <2>1. status # "ABSENT"
    BY <1>6 DEF ExecThrows, DispatchInv, NothingBefore
  <2>2. QED
    BY <1>6, <2>1, TotalGone DEF ExecThrows, ProcessExits
<1>7. ASSUME NEW e \in Executors,
             \/ ExecLoad(e) \/ ExecCheck(e) \/ ExecFetch(e) \/ ExecCount(e)
             \/ ExecCatchCount(e) \/ ExecComplete(e)
             \/ \E c \in Contacts : ExecSend(e, c)
      PROVE  TotalInv'
  BY <1>7, TotalFrame
     DEF ExecLoad, ExecCheck, ExecFetch, ExecCount, ExecCatchCount,
         ExecComplete, ExecSend
<1>8. ASSUME NEW e \in Executors, ExecRecord(e) \/ ExecCatch(e)
      PROVE  TotalInv'
  <2>1. UNCHANGED <<total, added, status, faults>>
    BY <1>8 DEF ExecRecord, ExecCatch
  <2>2. \A c \in Contacts : rcp'[c] = "NONE" <=> rcp[c] = "NONE"
    <3>1. Exists => rcp[cur[e]] # "NONE"
      BY <1>8
         DEF DispatchInv, CurrentTried, TriedEnrolled, ExecRecord, ExecCatch,
             Busy
    <3>2. QED
      BY <1>8, <3>1 DEF ExecRecord, ExecCatch, Outcome, TypeOK
  <2>3. QED
    BY <2>1, <2>2, TotalFrame
<1>9. CASE BecomeDue
  BY <1>9, TotalFrame DEF BecomeDue
<1>10. CASE RemoveProvider
  BY <1>10, TotalGone DEF RemoveProvider, RowGone
<1>11. CASE FaultStep
  <2>1. TypeOK'
    BY TypeStep
  <2>2. UNCHANGED total /\ faults' # 0
    BY <1>11
       DEF FaultStep, Crash, RequestFails, StartReplyLost, AddRowFails,
           ExecRecordFails, ExecCountFails, TypeOK
  <2>3. \A c \in Contacts : rcp'[c] = "NONE" => rcp[c] = "NONE"
    BY <1>11
       DEF FaultStep, Crash, RequestFails, StartReplyLost, AddRowFails,
           ExecRecordFails, ExecCountFails, Outcome, TypeOK
  <2>4. \A r \in Requests : added'[r] = added[r] \/ added'[r] = {}
    BY <1>11
       DEF FaultStep, Crash, ProcessExits, RequestFails, StartReplyLost,
           Answer, AddRowFails, ExecRecordFails, ExecCountFails, TypeOK
  <2>5. /\ Exists' => Exists
        /\ status' = "ABSENT" => status = "ABSENT" /\ UNCHANGED rcp
    BY <1>11
       DEF FaultStep, Crash, RequestFails, StartReplyLost, AddRowFails,
           NewRow, ExecRecordFails, ExecCountFails, TypeOK
  <2>6. QED
    BY <2>1, <2>2, <2>3, <2>4, <2>5, TotalDrop
<1>12. CASE UNCHANGED vars
  BY <1>12, TotalFrame DEF vars
<1>13. QED
  BY <1>1, <1>2, <1>3, <1>4, <1>5, <1>6, <1>7, <1>8, <1>9, <1>10, <1>11,
     <1>12
     DEF Next, Ask, RequestStep, ExecStep

\* However many addRecipients() calls overlap, and whichever of their creates
\* fail, the campaign never claims more recipients than it has rows, and
\* without faults it claims as many.
THEOREM TotalIsRight == Spec => []TotalMatchesRows
<1>1. Init => TotalInv
  BY FS_EmptySet
     DEF Init, TotalInv, TotalMatchesRows, Rows, Uncounted, Exists, Stored,
         Stopping
<1>2. TotalInv => TotalMatchesRows
  BY DEF TotalInv
<1>3. QED
  BY <1>1, <1>2, TotalStep, TypeCorrect, DispatchInvariant, PTL DEF Spec
=============================================================================
