--------------------------- MODULE MessageProofs ---------------------------
(***************************************************************************)
(* Theorems of Message, for any number of messages, handlers, attempts,    *)
(* stalls and faults.                                                      *)
(***************************************************************************)
EXTENDS Message, TLAPS

(***************************************************************************)
(* Types and the limits of jobs.  TypeOK is not inductive: that a job is   *)
(* not tried or found stalled once too often depends on OneAttempt and     *)
(* JobsAreLimited, and that a handler's report is one on HandlersHold.     *)
(***************************************************************************)

Basics == TypeOK /\ HandlersHold /\ OneAttempt /\ JobsAreLimited

LEMMA BasicsInit == Init => Basics
BY ConstantsAssumption DEF ConstantsAssumption, Init, Basics, TypeOK,
   HandlersHold, OneAttempt, JobsAreLimited, Trying

\* Where a handler stamps a row, it stamps one of its four columns.
LEMMA StampsType ==
  ASSUME Basics, NEW h \in Handlers, hpc[h] = "update", RowStamped(h)
  PROVE  stamps' \in [Messages ->
                       SUBSET {"sentAt", "deliveredAt", "readAt", "failedAt"}]
<1>1. hook[h] \in Report /\ hook[h].status # "sent"
  BY DEF Basics, HandlersHold
<1>2. /\ hook[h].msg \in Messages
      /\ hook[h].status \in {"delivered", "read", "failed"}
  BY <1>1, ConstantsAssumption DEF ConstantsAssumption, Report
<1>3. ColumnOf(hook[h].status) \in {"deliveredAt", "readAt", "failedAt"}
  BY <1>2 DEF ColumnOf
<1>4. QED
  BY <1>2, <1>3 DEF RowStamped, Basics, TypeOK

LEMMA BasicsStep == Basics /\ [Next]_vars => Basics'
<1> SUFFICES ASSUME Basics, [Next]_vars PROVE Basics'
  OBVIOUS
<1> USE ConstantsAssumption DEF ConstantsAssumption, Basics, TypeOK,
        HandlersHold, OneAttempt,
        JobsAreLimited, Trying, Report, table, queue, attempt, hooks, provider
<1>1. ASSUME NEW m \in Messages, Send(m) PROVE Basics'
  BY <1>1 DEF Send, Goto
<1>2. ASSUME NEW m \in Messages, SendScheduled(m) PROVE Basics'
  BY <1>2 DEF SendScheduled
<1>3. ASSUME NEW m \in Messages, Enqueue(m) PROVE Basics'
  BY <1>3 DEF Enqueue, Goto
<1>4. ASSUME NEW m \in Messages, Take(m) PROVE Basics'
  BY <1>4 DEF Take, Goto
<1>5. ASSUME NEW m \in Messages, Call(m) PROVE Basics'
  BY <1>5 DEF Call, Goto
<1>6. ASSUME NEW m \in Messages, Record(m) PROVE Basics'
  BY <1>6 DEF Record, Goto, RowUpdated
<1>7. ASSUME NEW m \in Messages, History(m) PROVE Basics'
  BY <1>7 DEF History, Goto, TryLogged
<1>8. ASSUME NEW m \in Messages, Touch(m) PROVE Basics'
  BY <1>8 DEF Touch, Goto, EmitProcessed, EndAttempt
<1>9. ASSUME NEW m \in Messages, Notify(m) PROVE Basics'
  BY <1>9 DEF Notify
<1>10. ASSUME NEW m \in Messages, JobDone(m) PROVE Basics'
  BY <1>10 DEF JobDone, Goto
<1>11. ASSUME NEW m \in Messages, JobThrew(m) PROVE Basics'
  BY <1>11 DEF JobThrew, Goto, RetryOrFail
<1>12. ASSUME NEW m \in Messages, JobStalled(m) PROVE Basics'
  BY <1>12 DEF JobStalled
<1>13. ASSUME NEW m \in Messages, EnqueueFails(m) PROVE Basics'
  BY <1>13 DEF EnqueueFails, Goto, Fault
<1>14. ASSUME NEW m \in Messages, AnswerLost(m) PROVE Basics'
  BY <1>14 DEF AnswerLost, Goto, Fault
<1>15. ASSUME NEW m \in Messages, AttemptFails(m) PROVE Basics'
  <2>1. /\ pc' = [pc EXCEPT ![m] = IF queueEnabled THEN "threw" ELSE "idle"]
        /\ pc[m] \in {"record", "history", "touch"}
        /\ faults' \in 0 .. MaxFaults
        /\ UNCHANGED <<queueEnabled, row, reported, notified, queue, res,
                       notices, hooks, provider, answered>>
    BY <1>15 DEF AttemptFails, Fault, Throws, Goto
  <2>2. /\ ext' \in [Messages -> Nat]
        /\ stamps' \in [Messages ->
                          SUBSET {"sentAt", "deliveredAt", "readAt", "failedAt"}]
    <3>1. CASE UNCHANGED <<ext, stamps>>
      BY <3>1
    <3>2. CASE RowUpdated(m)
      BY <3>2 DEF RowUpdated
    <3>3. QED
      BY <1>15, <3>1, <3>2 DEF AttemptFails
  <2>3. tries' \in [Messages -> [{"sent", "failed"} -> Nat]]
    <3>1. CASE UNCHANGED tries
      BY <3>1
    <3>2. CASE TryLogged(m)
      BY <3>2 DEF TryLogged
    <3>3. QED
      BY <1>15, <3>1, <3>2 DEF AttemptFails
  <2>4. TypeOK'
    BY <2>1, <2>2, <2>3
  <2>5. (HandlersHold /\ OneAttempt /\ JobsAreLimited)'
    BY <2>1
  <2>6. QED
    BY <2>4, <2>5
<1>16. ASSUME NEW m \in Messages, NotifyFails(m) PROVE Basics'
  BY <1>16 DEF NotifyFails, Fault
<1>17. ASSUME NEW h \in Handlers, NEW m \in Messages, NEW s \in Reports,
            NEW id \in 1 .. acc[m], HookPosted(h, m, id, s)
     PROVE  Basics'
  BY <1>17 DEF HookPosted, HGoto
<1>18. ASSUME NEW h \in Handlers, HookFind(h) PROVE Basics'
  <2>1. CASE Found(h)
    <3>1. hpc' = [hpc EXCEPT ![h] =
                    IF hook[h].status = "sent" THEN "history" ELSE "update"]
      BY <1>18, <2>1 DEF HookFind, HGoto
    <3>2. UNCHANGED <<queueEnabled, table, queue, attempt, provider, faults,
                      hook, answered>>
      BY <1>18, <2>1 DEF HookFind
    <3>3. hook[h] \in Report
      BY <1>18 DEF HookFind
    <3>4. TypeOK'
      BY <3>1, <3>2
    <3>5. HandlersHold'
      BY <3>1, <3>2, <3>3
    <3>6. QED
      BY <3>2, <3>4, <3>5
  <2>2. CASE ~Found(h)
    <3>1. hpc[h] = "find" /\ HookAnswers(h)
          /\ UNCHANGED <<queueEnabled, table, queue, attempt, provider, faults>>
      BY <1>18, <2>2 DEF HookFind
    <3>2. QED
      BY <3>1 DEF HGoto, HookAnswers
  <2>3. QED
    BY <2>1, <2>2
<1>19. ASSUME NEW h \in Handlers, HookUpdate(h) PROVE Basics'
  <2>1. stamps' \in [Messages ->
                      SUBSET {"sentAt", "deliveredAt", "readAt", "failedAt"}]
    BY <1>19, StampsType DEF HookUpdate
  <2>2. QED
    BY <1>19, <2>1 DEF HookUpdate, HGoto
<1>20. ASSUME NEW h \in Handlers, HookHistory(h) PROVE Basics'
  BY <1>20 DEF HookHistory, HGoto, HookAnswers
<1>21. ASSUME NEW h \in Handlers, HookFails(h) PROVE Basics'
  <2>1. stamps' \in [Messages ->
                      SUBSET {"sentAt", "deliveredAt", "readAt", "failedAt"}]
    BY <1>21, StampsType DEF HookFails
  <2>2. /\ faults' \in 0 .. MaxFaults /\ hpc[h] # "idle"
        /\ HookAnswers(h)
        /\ UNCHANGED <<queueEnabled, row, ext, tries, reported, notified, queue,
                       attempt, provider>>
    BY <1>21 DEF HookFails, Fault
  <2>3. QED
    BY <2>1, <2>2 DEF HookAnswers, HGoto
<1>22. CASE Crash
  BY <1>22 DEF Crash, Fault
<1>23. CASE UNCHANGED vars
  BY <1>23 DEF vars
<1>24. QED
  BY <1>1, <1>2, <1>3, <1>4, <1>5, <1>6, <1>7, <1>8, <1>9, <1>10, <1>11, <1>12,
     <1>13, <1>14, <1>15, <1>16, <1>17, <1>18, <1>19, <1>20, <1>21, <1>22,
     <1>23 DEF Next, AttemptStep, QueueStep, HookStep, FaultStep

(***************************************************************************)
(* How often a message is sent: SendingInv, given the basics.              *)
(***************************************************************************)

LEMMA SendingStep == Basics /\ SendingInv /\ [Next]_vars => SendingInv'
<1> SUFFICES ASSUME Basics, SendingInv, [Next]_vars PROVE SendingInv'
  OBVIOUS
<1> USE ConstantsAssumption DEF ConstantsAssumption, Basics, TypeOK,
        OneAttempt, JobsAreLimited,
        Trying, SendingInv, CallsCounted, MayCallAgain, AcceptancesPaid,
        DuplicatesNeedFaults, table, queue, attempt, hooks, provider
<1>1. ASSUME NEW m \in Messages, Send(m) PROVE SendingInv'
  BY <1>1 DEF Send, Goto
<1>2. ASSUME NEW m \in Messages, SendScheduled(m) PROVE SendingInv'
  BY <1>2 DEF SendScheduled
<1>3. ASSUME NEW m \in Messages, Enqueue(m) PROVE SendingInv'
  BY <1>3 DEF Enqueue, Goto
<1>4. ASSUME NEW m \in Messages, Take(m) PROVE SendingInv'
  BY <1>4 DEF Take, Goto
<1>5. ASSUME NEW m \in Messages, Call(m) PROVE SendingInv'
  BY <1>5 DEF Call, Goto
<1>6. ASSUME NEW m \in Messages, Record(m) PROVE SendingInv'
  BY <1>6 DEF Record, Goto, RowUpdated
<1>7. ASSUME NEW m \in Messages, History(m) PROVE SendingInv'
  BY <1>7 DEF History, Goto, TryLogged
<1>8. ASSUME NEW m \in Messages, Touch(m) PROVE SendingInv'
  BY <1>8 DEF Touch, Goto, EmitProcessed, EndAttempt
<1>9. ASSUME NEW m \in Messages, Notify(m) PROVE SendingInv'
  BY <1>9 DEF Notify
<1>10. ASSUME NEW m \in Messages, JobDone(m) PROVE SendingInv'
  BY <1>10 DEF JobDone, Goto
<1>11. ASSUME NEW m \in Messages, JobThrew(m) PROVE SendingInv'
  BY <1>11 DEF JobThrew, Goto, RetryOrFail
<1>12. ASSUME NEW m \in Messages, JobStalled(m) PROVE SendingInv'
  BY <1>12 DEF JobStalled
<1>13. ASSUME NEW m \in Messages, EnqueueFails(m) PROVE SendingInv'
  BY <1>13 DEF EnqueueFails, Goto, Fault
<1>14. ASSUME NEW m \in Messages, AnswerLost(m) PROVE SendingInv'
  BY <1>14 DEF AnswerLost, Goto, Fault
<1>15. ASSUME NEW m \in Messages, AttemptFails(m) PROVE SendingInv'
  BY <1>15 DEF AttemptFails, Fault, Throws, Goto, RowUpdated, TryLogged
<1>16. ASSUME NEW m \in Messages, NotifyFails(m) PROVE SendingInv'
  BY <1>16 DEF NotifyFails, Fault
<1>17. ASSUME NEW h \in Handlers, NEW m \in Messages, NEW s \in Reports,
            NEW id \in 1 .. acc[m], HookPosted(h, m, id, s)
     PROVE  SendingInv'
  BY <1>17 DEF HookPosted, HGoto
<1>18. ASSUME NEW h \in Handlers, HookFind(h) PROVE SendingInv'
  BY <1>18 DEF HookFind, HGoto, HookAnswers, Found
<1>19. ASSUME NEW h \in Handlers, HookUpdate(h) PROVE SendingInv'
  BY <1>19 DEF HookUpdate, HGoto, RowStamped, ColumnOf
<1>20. ASSUME NEW h \in Handlers, HookHistory(h) PROVE SendingInv'
  BY <1>20 DEF HookHistory, HGoto, HookAnswers
<1>21. ASSUME NEW h \in Handlers, HookFails(h) PROVE SendingInv'
  BY <1>21 DEF HookFails, Fault, HookAnswers, HGoto, RowStamped, ColumnOf
<1>22. CASE Crash
  BY <1>22 DEF Crash, Fault
<1>23. CASE UNCHANGED vars
  BY <1>23 DEF vars
<1>24. QED
  BY <1>1, <1>2, <1>3, <1>4, <1>5, <1>6, <1>7, <1>8, <1>9, <1>10, <1>11, <1>12,
     <1>13, <1>14, <1>15, <1>16, <1>17, <1>18, <1>19, <1>20, <1>21, <1>22,
     <1>23 DEF Next, AttemptStep, QueueStep, HookStep, FaultStep

(***************************************************************************)
(* What the rows say: RecordsInv, given the basics and SendingInv.         *)
(***************************************************************************)

\* A handler finds a row by its external id, which was stored with sentAt.
LEMMA FoundWasSent ==
  ASSUME Basics, SentHasId, NEW h \in Handlers, hpc[h] = "find",
         hook[h].id > 0, Found(h)
  PROVE  "sentAt" \in stamps[hook[h].msg]
<1>1. hook[h].msg \in Messages /\ hook[h].id \in Nat
  BY DEF Basics, HandlersHold, Report
<1>2. ext[hook[h].msg] > 0
  BY DEF Found
<1>3. QED
  BY <1>1, <1>2 DEF SentHasId

\* What a failed statement of an attempt can do to the row.
RowMayChange(m) ==
  /\ \A n \in Messages : stamps[n] \subseteq stamps'[n]
  /\ \A n \in Messages \ {m} : stamps'[n] = stamps[n] /\ ext'[n] = ext[n]
  /\ \/ stamps'[m] = stamps[m] /\ ext'[m] = ext[m]
     \/ /\ pc[m] = "record"
        /\ res[m] > 0
        /\ ext'[m] = res[m] /\ stamps'[m] = stamps[m] \cup {"sentAt"}
     \/ ext'[m] = ext[m] /\ stamps'[m] = stamps[m] \cup {"failedAt"}

\* Columns are only added, and to a row not yet sent nothing but failedAt.
LEMMA DeliveredStaysSent ==
  ASSUME DeliveredIsSent, NEW m \in Messages,
         RowMayChange(m)
  PROVE  DeliveredIsSent'
<1>1. SUFFICES ASSUME NEW n \in Messages,
                      stamps'[n] \cap {"deliveredAt", "readAt"} # {}
               PROVE  "sentAt" \in stamps'[n]
  BY DEF DeliveredIsSent
<1>2. CASE "sentAt" \in stamps'[n]
  BY <1>2
<1>3. CASE stamps'[n] = stamps[n] \/ stamps'[n] = stamps[n] \cup {"failedAt"}
  <2>1. stamps[n] \cap {"deliveredAt", "readAt"} # {}
    BY <1>1, <1>3
  <2>2. QED
    BY <1>3, <2>1 DEF DeliveredIsSent
<1>4. QED
  BY <1>2, <1>3 DEF RowMayChange

\* A handler stamps a row that has sentAt, and no other column is lost.
LEMMA SentStaysSent ==
  ASSUME SentHasId, DeliveredIsSent, UNCHANGED <<ext, acc>>,
         \A n \in Messages : /\ stamps[n] \subseteq stamps'[n]
                             /\ "sentAt" \in stamps'[n] <=> "sentAt" \in stamps[n]
                             /\ stamps'[n] = stamps[n] \/ "sentAt" \in stamps[n]
  PROVE  SentHasId' /\ DeliveredIsSent'
<1>1. SentHasId'
  BY DEF SentHasId
<1>2. DeliveredIsSent'
  BY DEF DeliveredIsSent
<1>3. QED
  BY <1>1, <1>2

LEMMA RecordsStep ==
  Basics /\ SendingInv /\ RecordsInv /\ [Next]_vars => RecordsInv'
<1> SUFFICES ASSUME Basics, SendingInv, RecordsInv, [Next]_vars
             PROVE  RecordsInv'
  OBVIOUS
<1> USE ConstantsAssumption DEF ConstantsAssumption, Basics, TypeOK,
        HandlersHold, OneAttempt, JobsAreLimited,
        Trying, SendingInv, CallsCounted, MayCallAgain, AcceptancesPaid,
        RecordsInv, SentHasId, FoundAreSent, Stored, AnswerKept, WithoutFaults,
        DeliveredIsSent, FailuresAreNotified, Report, table, queue, attempt,
        hooks, provider
<1>1. ASSUME NEW m \in Messages, Send(m) PROVE RecordsInv'
  BY <1>1 DEF Send, Goto
<1>2. ASSUME NEW m \in Messages, SendScheduled(m) PROVE RecordsInv'
  BY <1>2 DEF SendScheduled
<1>3. ASSUME NEW m \in Messages, Enqueue(m) PROVE RecordsInv'
  BY <1>3 DEF Enqueue, Goto
<1>4. ASSUME NEW m \in Messages, Take(m) PROVE RecordsInv'
  BY <1>4 DEF Take, Goto
<1>5. ASSUME NEW m \in Messages, Call(m) PROVE RecordsInv'
  BY <1>5 DEF Call, Goto
<1>6. ASSUME NEW m \in Messages, Record(m) PROVE RecordsInv'
  BY <1>6 DEF Record, Goto, RowUpdated
<1>7. ASSUME NEW m \in Messages, History(m) PROVE RecordsInv'
  BY <1>7 DEF History, Goto, TryLogged
<1>8. ASSUME NEW m \in Messages, Touch(m) PROVE RecordsInv'
  BY <1>8 DEF Touch, Goto, EmitProcessed, EndAttempt
<1>9. ASSUME NEW m \in Messages, Notify(m) PROVE RecordsInv'
  <2>1. (SentHasId /\ HandlersHold /\ FoundAreSent /\ AnswerKept)'
    BY <1>9 DEF Notify
  <2>2. (WithoutFaults /\ DeliveredIsSent)'
    BY <1>9 DEF Notify
  <2>3. FailuresAreNotified'
    <3>1. /\ notices' = [notices EXCEPT ![m] = notices[m] - 1]
          /\ notified' = [notified EXCEPT ![m] = notified[m] + 1]
          /\ UNCHANGED <<pc, res, tries, faults>>
      BY <1>9 DEF Notify
    <3>2. \A n \in Messages :
            notified'[n] + notices'[n] = notified[n] + notices[n]
      <4>1. \A n \in Messages : notified[n] \in Nat /\ notices[n] \in Nat
        OBVIOUS
      <4>2. QED
        BY <3>1, <4>1
    <3>3. QED
      BY <3>1, <3>2
  <2>4. QED
    BY <2>1, <2>2, <2>3
<1>10. ASSUME NEW m \in Messages, JobDone(m) PROVE RecordsInv'
  BY <1>10 DEF JobDone, Goto
<1>11. ASSUME NEW m \in Messages, JobThrew(m) PROVE RecordsInv'
  <2>1. (SentHasId /\ HandlersHold /\ FoundAreSent /\ DeliveredIsSent)'
    BY <1>11 DEF JobThrew
  <2>2. (AnswerKept /\ FailuresAreNotified)'
    BY <1>11 DEF JobThrew, Goto, RetryOrFail
  <2>3. WithoutFaults'
    <3>1. /\ made' = [made EXCEPT ![m] = made[m] + 1]
          /\ pc' = [pc EXCEPT ![m] = "idle"]
          /\ job' = [job EXCEPT ![m] =
                       IF made[m] + 1 < MaxAttempts THEN "waiting" ELSE "failed"]
          /\ pc[m] = "threw" /\ UNCHANGED <<queueEnabled, stalls, acc, calls, faults>>
      BY <1>11 DEF JobThrew, Goto, RetryOrFail
    <3>2. queueEnabled /\ job[m] = "active" /\ made[m] < MaxAttempts
      BY <3>1
    <3>3. faults = 0 => acc[m] = 0
      BY <3>1
    <3>4. QED
      BY <3>1, <3>2, <3>3
  <2>4. QED
    BY <2>1, <2>2, <2>3
<1>12. ASSUME NEW m \in Messages, JobStalled(m) PROVE RecordsInv'
  BY <1>12 DEF JobStalled
<1>13. ASSUME NEW m \in Messages, EnqueueFails(m) PROVE RecordsInv'
  BY <1>13 DEF EnqueueFails, Goto, Fault
<1>14. ASSUME NEW m \in Messages, AnswerLost(m) PROVE RecordsInv'
  BY <1>14 DEF AnswerLost, Goto, Fault
<1>15. ASSUME NEW m \in Messages, AttemptFails(m) PROVE RecordsInv'
  <2>1. /\ pc' = [pc EXCEPT ![m] = IF queueEnabled THEN "threw" ELSE "idle"]
        /\ pc[m] \in {"record", "history", "touch"}
        /\ faults' = faults + 1
        /\ UNCHANGED <<queueEnabled, row, reported, notified, queue, res,
                       notices, hooks, provider, answered>>
    BY <1>15 DEF AttemptFails, Fault, Throws, Goto
  <2>2. RowMayChange(m)
    <3>1. CASE UNCHANGED <<ext, stamps>>
      BY <3>1 DEF RowMayChange
    <3>2. CASE pc[m] = "record" /\ RowUpdated(m)
      BY <3>2 DEF RowUpdated, RowMayChange
    <3>3. QED
      BY <1>15, <3>1, <3>2 DEF AttemptFails
  <2>3. SentHasId'
    <3>1. res[m] > 0 /\ pc[m] = "record" => acc[m] > 0
      OBVIOUS
    <3>2. QED
      BY <2>1, <2>2, <3>1 DEF RowMayChange
  <2>4. DeliveredIsSent'
    BY <2>2, DeliveredStaysSent
  <2>5. (HandlersHold /\ FoundAreSent /\ AnswerKept)'
    <3>1. (HandlersHold /\ FoundAreSent)'
      BY <2>1, <2>2 DEF RowMayChange
    <3>2. AnswerKept'
      BY <2>1, <2>2 DEF RowMayChange
    <3>3. QED
      BY <3>1, <3>2
  <2>6. (WithoutFaults /\ FailuresAreNotified)'
    BY <2>1
  <2>7. QED
    BY <2>3, <2>4, <2>5, <2>6
<1>16. ASSUME NEW m \in Messages, NotifyFails(m) PROVE RecordsInv'
  BY <1>16 DEF NotifyFails, Fault
<1>17. ASSUME NEW h \in Handlers, NEW m \in Messages, NEW s \in Reports,
            NEW id \in 1 .. acc[m], HookPosted(h, m, id, s)
     PROVE  RecordsInv'
  BY <1>17 DEF HookPosted, HGoto
<1>18. ASSUME NEW h \in Handlers, HookFind(h) PROVE RecordsInv'
  <2>1. UNCHANGED <<queueEnabled, table, queue, attempt, provider, faults>>
    BY <1>18 DEF HookFind
  <2>2. (SentHasId /\ AnswerKept /\ WithoutFaults /\ DeliveredIsSent
          /\ FailuresAreNotified)'
    BY <2>1
  <2>3. (HandlersHold /\ FoundAreSent)'
    <3>1. CASE Found(h)
      <4>1. /\ hpc' = [hpc EXCEPT ![h] =
                        IF hook[h].status = "sent" THEN "history" ELSE "update"]
            /\ UNCHANGED hook
        BY <1>18, <3>1 DEF HookFind, HGoto
      <4>2. hook[h] \in Report /\ hook[h].id > 0
        BY <1>18 DEF HookFind
      <4>3. "sentAt" \in stamps[hook[h].msg]
        BY <1>18, <3>1, <4>2, FoundWasSent DEF HookFind
      <4>4. QED
        BY <2>1, <4>1, <4>2, <4>3
    <3>2. CASE ~Found(h)
      <4>1. /\ hpc' = [hpc EXCEPT ![h] = "idle"]
            /\ hook' = [hook EXCEPT ![h] = NoReport]
        BY <1>18, <3>2 DEF HookFind, HookAnswers, HGoto
      <4>2. QED
        BY <2>1, <4>1
    <3>3. QED
      BY <3>1, <3>2
  <2>4. QED
    BY <2>2, <2>3
<1>19. ASSUME NEW h \in Handlers, HookUpdate(h) PROVE RecordsInv'
  BY <1>19 DEF HookUpdate, HGoto, RowStamped, ColumnOf
<1>20. ASSUME NEW h \in Handlers, HookHistory(h) PROVE RecordsInv'
  BY <1>20 DEF HookHistory, HGoto, HookAnswers
<1>21. ASSUME NEW h \in Handlers, HookFails(h) PROVE RecordsInv'
  <2>1. /\ hpc[h] # "idle"
        /\ hpc' = [hpc EXCEPT ![h] = "idle"]
        /\ hook' = [hook EXCEPT ![h] = NoReport]
        /\ faults' = faults + 1
        /\ UNCHANGED <<queueEnabled, row, ext, tries, reported, notified, queue,
                       attempt, provider>>
    BY <1>21 DEF HookFails, Fault, HookAnswers, HGoto
  <2>2. CASE UNCHANGED stamps
    BY <2>1, <2>2
  <2>3. CASE hpc[h] = "update" /\ RowStamped(h)
    <3>1. /\ hook[h].msg \in Messages
          /\ "sentAt" \in stamps[hook[h].msg]
          /\ hook[h].status \in {"delivered", "read", "failed"}
      BY <2>3
    <3>2. /\ stamps' = [stamps EXCEPT ![hook[h].msg] =
                          @ \cup {ColumnOf(hook[h].status)}]
          /\ ColumnOf(hook[h].status) # "sentAt"
      BY <2>3, <3>1 DEF RowStamped, ColumnOf
    <3>3. \A n \in Messages : /\ stamps[n] \subseteq stamps'[n]
                              /\ "sentAt" \in stamps'[n] <=> "sentAt" \in stamps[n]
                              /\ stamps'[n] = stamps[n] \/ "sentAt" \in stamps[n]
      BY <3>1, <3>2
    <3>4. SentHasId' /\ AnswerKept' /\ DeliveredIsSent'
      <4>1. SentHasId /\ DeliveredIsSent /\ ext' = ext /\ acc' = acc
        BY <2>1
      <4>2. SentHasId' /\ DeliveredIsSent'
        BY <3>3, <4>1, SentStaysSent
      <4>3. AnswerKept'
        BY <2>1, <3>3
      <4>4. QED
        BY <4>2, <4>3
    <3>5. (HandlersHold /\ FoundAreSent)'
      BY <2>1, <3>3
    <3>6. (WithoutFaults /\ FailuresAreNotified)'
      BY <2>1
    <3>7. QED
      BY <3>4, <3>5, <3>6
  <2>4. QED
    BY <1>21, <2>2, <2>3 DEF HookFails
<1>22. CASE Crash
  BY <1>22 DEF Crash, Fault
<1>23. CASE UNCHANGED vars
  BY <1>23 DEF vars
<1>24. QED
  BY <1>1, <1>2, <1>3, <1>4, <1>5, <1>6, <1>7, <1>8, <1>9, <1>10, <1>11, <1>12,
     <1>13, <1>14, <1>15, <1>16, <1>17, <1>18, <1>19, <1>20, <1>21, <1>22,
     <1>23 DEF Next, AttemptStep, QueueStep, HookStep, FaultStep

(***************************************************************************)
(* The invariants, and what follows from them.                             *)
(***************************************************************************)

LEMMA SendingInit == Init => SendingInv
BY ConstantsAssumption DEF ConstantsAssumption, Init, SendingInv, OneAttempt,
   JobsAreLimited, CallsCounted, AcceptancesPaid, DuplicatesNeedFaults, Trying

LEMMA RecordsInit == Init => RecordsInv
BY DEF Init, RecordsInv, SentHasId, HandlersHold, FoundAreSent, AnswerKept,
   WithoutFaults, DeliveredIsSent, FailuresAreNotified

\* What SendingInv says of the number of calls is the bound.
LEMMA CallsAreBounded == Basics /\ SendingInv => CallsBounded
<1> SUFFICES ASSUME Basics, SendingInv, NEW m \in Messages
             PROVE  calls[m] <= IF queueEnabled THEN MaxAttempts + MaxStalls
                                                ELSE 1
  BY DEF CallsBounded
<1> USE ConstantsAssumption DEF ConstantsAssumption, Basics, TypeOK
<1>1. /\ made[m] \in Nat /\ stalls[m] \in Nat /\ calls[m] \in Nat
      /\ MaxAttempts \in Nat /\ MaxStalls \in Nat
  OBVIOUS
<1>2. CASE queueEnabled
  <2>1. job[m] \in {"active", "completed"} =>
          calls[m] <= made[m] + stalls[m] + 1 /\ made[m] < MaxAttempts
            /\ stalls[m] <= MaxStalls
    BY <1>1, <1>2 DEF SendingInv, CallsCounted, JobsAreLimited
  <2>2. job[m] \notin {"active", "completed"} =>
          calls[m] <= made[m] + stalls[m]
    BY <1>1, <1>2 DEF SendingInv, CallsCounted
  <2>3. made[m] + stalls[m] <= MaxAttempts + MaxStalls
    BY DEF JobsAreLimited
  <2>4. QED
    BY <1>1, <1>2, <2>1, <2>2, <2>3
<1>3. CASE ~queueEnabled
  BY <1>1, <1>3 DEF SendingInv, CallsCounted
<1>4. QED
  BY <1>2, <1>3

\* A job that has ended tells what the provider did.
LEMMA JobsAreTruthful ==
  Basics /\ SendingInv /\ RecordsInv => JobTellsTheTruth
<1> SUFFICES ASSUME Basics, RecordsInv, NEW m \in Messages
             PROVE  /\ job[m] = "completed" =>
                         /\ "sentAt" \in stamps[m]
                         /\ ext[m] = acc[m] /\ acc[m] > 0
                    /\ (job[m] = "failed" /\ faults = 0) =>
                         /\ acc[m] = 0 /\ calls[m] = MaxAttempts
                         /\ "sentAt" \notin stamps[m]
  BY DEF JobTellsTheTruth
<1>1. job[m] = "completed" => Stored(m)
  BY DEF RecordsInv, AnswerKept
<1>2. ASSUME job[m] = "failed", faults = 0
      PROVE  acc[m] = 0 /\ calls[m] = MaxAttempts /\ "sentAt" \notin stamps[m]
  <2>1. queueEnabled
    BY <1>2 DEF Basics, TypeOK, OneAttempt
  <2>2. acc[m] = 0 /\ made[m] = MaxAttempts /\ calls[m] = made[m] + 0
    BY <1>2, <2>1 DEF RecordsInv, WithoutFaults
  <2>3. "sentAt" \notin stamps[m]
    BY <2>2 DEF RecordsInv, SentHasId
  <2>4. QED
    BY <2>2, <2>3, ConstantsAssumption DEF ConstantsAssumption
<1>3. QED
  BY <1>1, <1>2 DEF Stored

\* All that was shown to be inductive, together.
Inductive == Basics /\ SendingInv /\ RecordsInv

LEMMA AlwaysInductive == Spec => []Inductive
<1>1. Init => Inductive
  BY BasicsInit, SendingInit, RecordsInit DEF Inductive
<1>2. Inductive /\ [Next]_vars => Inductive'
  BY BasicsStep, SendingStep, RecordsStep DEF Inductive
<1>3. QED
  BY <1>1, <1>2, PTL DEF Spec

\* Every variable keeps its type, whatever the constants.
THEOREM TypeCorrect == Spec => []TypeOK
<1>1. Inductive => TypeOK
  BY DEF Inductive, Basics
<1>2. QED
  BY <1>1, AlwaysInductive, PTL

\* What makes retries safe holds always: one attempt for a job, attempts left
\* until it has failed, and calls and acceptances accounted for.
THEOREM SendingInvariant == Spec => []SendingInv
<1>1. Inductive => SendingInv
  BY DEF Inductive
<1>2. QED
  BY <1>1, AlwaysInductive, PTL

\* A message is accepted twice only if that many faults happened.
THEOREM DuplicatesArePaid == Spec => []DuplicatesNeedFaults
<1>1. Inductive => DuplicatesNeedFaults
  BY DEF Inductive, SendingInv
<1>2. QED
  BY <1>1, AlwaysInductive, PTL

\* The provider is called no more often than attempts and stalls allow.
THEOREM CallsStayBounded == Spec => []CallsBounded
<1>1. Inductive => CallsBounded
  BY CallsAreBounded DEF Inductive
<1>2. QED
  BY <1>1, AlwaysInductive, PTL

\* The state of a job agrees with what the provider did.
THEOREM JobsTellTheTruth == Spec => []JobTellsTheTruth
<1>1. Inductive => JobTellsTheTruth
  BY JobsAreTruthful DEF Inductive
<1>2. QED
  BY <1>1, AlwaysInductive, PTL

\* Only messages shown as sent are shown as delivered or read, and failures
\* and notifications are equal in number, with what makes both inductive.
THEOREM RecordsInvariant == Spec => []RecordsInv
<1>1. Inductive => RecordsInv
  BY DEF Inductive
<1>2. QED
  BY <1>1, AlwaysInductive, PTL

\* What a report says is filed only under a message shown as sent.
THEOREM DeliveredOnlyIfSent == Spec => []DeliveredIsSent
<1>1. RecordsInv => DeliveredIsSent
  BY DEF RecordsInv
<1>2. QED
  BY <1>1, RecordsInvariant, PTL

\* Without faults each failed attempt is notified to the user once.
THEOREM FailuresReachTheUser == Spec => []FailuresAreNotified
<1>1. RecordsInv => FailuresAreNotified
  BY DEF RecordsInv
<1>2. QED
  BY <1>1, RecordsInvariant, PTL

(***************************************************************************)
(* Message implements Delivery.  Where a message stands depends on its row *)
(* and job, on whether an attempt is under way and on sentAt; a step moves *)
(* one message at most, but for a crash, and that is a loss.               *)
(***************************************************************************)

LEMMA AttemptInit == Init => AttemptInv
BY DEF Init, AttemptInv, StallsPaid, AttemptsCall

LEMMA AttemptsStep ==
  Basics /\ SendingInv /\ AttemptInv /\ [Next]_vars => AttemptInv'
<1> SUFFICES ASSUME Basics, SendingInv, AttemptInv, [Next]_vars
             PROVE  AttemptInv'
  OBVIOUS
<1> USE ConstantsAssumption DEF ConstantsAssumption, Basics, TypeOK,
        OneAttempt, Trying, AttemptInv, StallsPaid, AttemptsCall,
        table, queue, attempt, hooks, provider
<1>1. ASSUME NEW m \in Messages, Send(m) PROVE AttemptInv'
  BY <1>1 DEF Send, Goto
<1>2. ASSUME NEW m \in Messages, SendScheduled(m) PROVE AttemptInv'
  BY <1>2 DEF SendScheduled
<1>3. ASSUME NEW m \in Messages, Enqueue(m) PROVE AttemptInv'
  BY <1>3 DEF Enqueue, Goto
<1>4. ASSUME NEW m \in Messages, Take(m) PROVE AttemptInv'
  BY <1>4 DEF Take, Goto
<1>5. ASSUME NEW m \in Messages, Call(m) PROVE AttemptInv'
  BY <1>5 DEF Call, Goto
<1>6. ASSUME NEW m \in Messages, Record(m) PROVE AttemptInv'
  BY <1>6 DEF Record, Goto, RowUpdated
<1>7. ASSUME NEW m \in Messages, History(m) PROVE AttemptInv'
  BY <1>7 DEF History, Goto, TryLogged
<1>8. ASSUME NEW m \in Messages, Touch(m) PROVE AttemptInv'
  BY <1>8 DEF Touch, Goto, EmitProcessed, EndAttempt
<1>9. ASSUME NEW m \in Messages, Notify(m) PROVE AttemptInv'
  BY <1>9 DEF Notify
<1>10. ASSUME NEW m \in Messages, JobDone(m) PROVE AttemptInv'
  BY <1>10 DEF JobDone, Goto
<1>11. ASSUME NEW m \in Messages, JobThrew(m) PROVE AttemptInv'
  BY <1>11 DEF JobThrew, Goto, RetryOrFail
<1>12. ASSUME NEW m \in Messages, JobStalled(m) PROVE AttemptInv'
  BY <1>12 DEF JobStalled
<1>13. ASSUME NEW m \in Messages, EnqueueFails(m) PROVE AttemptInv'
  BY <1>13 DEF EnqueueFails, Goto, Fault
<1>14. ASSUME NEW m \in Messages, AnswerLost(m) PROVE AttemptInv'
  BY <1>14 DEF AnswerLost, Goto, Fault
<1>15. ASSUME NEW m \in Messages, AttemptFails(m) PROVE AttemptInv'
  BY <1>15 DEF AttemptFails, Fault, Throws, Goto
<1>16. ASSUME NEW m \in Messages, NotifyFails(m) PROVE AttemptInv'
  BY <1>16 DEF NotifyFails, Fault
<1>17. ASSUME NEW h \in Handlers, NEW m \in Messages, NEW s \in Reports,
            NEW id \in 1 .. acc[m], HookPosted(h, m, id, s)
     PROVE  AttemptInv'
  BY <1>17 DEF HookPosted
<1>18. ASSUME NEW h \in Handlers, HookStep(h) PROVE AttemptInv'
  BY <1>18 DEF HookStep, HookFind, HookUpdate, HookHistory
<1>19. ASSUME NEW h \in Handlers, HookFails(h) PROVE AttemptInv'
  BY <1>19 DEF HookFails, Fault
<1>20. CASE Crash
  BY <1>20 DEF Crash, Fault
<1>21. CASE UNCHANGED vars
  BY <1>21 DEF vars
<1>22. QED
  BY <1>1, <1>2, <1>3, <1>4, <1>5, <1>6, <1>7, <1>8, <1>9, <1>10, <1>11, <1>12,
     <1>13, <1>14, <1>15, <1>16, <1>17, <1>18, <1>19, <1>20, <1>21
  DEF Next, AttemptStep, QueueStep, FaultStep

\* A row is new, kept, or stored: then the job, or the row, says more.
LEMMA PhaseIs ==
  ASSUME Basics
  PROVE  \A m \in Messages :
           /\ row[m] = "none" => Phase(m) = "none"
           /\ row[m] = "scheduled" => Phase(m) = "kept"
           /\ row[m] = "stored" =>
                Phase(m) = IF IsOpen(m) THEN "open"
                           ELSE IF WasSent(m) THEN "sent" ELSE "failed"
           /\ IsOpen(m) => row[m] = "stored"
BY DEF Phase, Basics, TypeOK, OneAttempt, IsOpen

\* What a message's phase is read from does not change.
Stands(m) ==
  /\ row'[m] = row[m] /\ job'[m] = job[m]
  /\ pc'[m] = "idle" <=> pc[m] = "idle"
  /\ "sentAt" \in stamps'[m] <=> "sentAt" \in stamps[m]

LEMMA StandsStill ==
  ASSUME NEW m \in Messages, Stands(m)
  PROVE  Phase(m)' = Phase(m)
BY DEF Stands, Phase, IsOpen, WasSent

\* A step that moves no message and calls for none is a stutter.
LEMMA DeliveryFrame ==
  ASSUME \A m \in Messages : Phase(m)' = Phase(m),
         UNCHANGED <<queueEnabled, calls, acc, faults>>
  PROVE  UNCHANGED Promises!vars
BY DEF Promises!vars

\* One that moves one message moves it alone.
LEMMA OneMoves ==
  ASSUME NEW m \in Messages, \A n \in Messages \ {m} : Stands(n)
  PROVE  [n \in Messages |-> Phase(n)']
           = [[n \in Messages |-> Phase(n)] EXCEPT ![m] = Phase(m)']
BY StandsStill

\* A loss: each message stays, or was open and is settled.
LEMMA DeliveryLoss ==
  ASSUME Basics, SendingInv,
         \A m \in Messages :
           \/ Phase(m)' = Phase(m)
           \/ Phase(m) = "open" /\ Phase(m)' = "sent" /\ acc[m] > 0
           \/ Phase(m) = "open" /\ Phase(m)' = "failed",
         faults' = faults + 1, UNCHANGED <<queueEnabled, calls, acc>>
  PROVE  Promises!Next
<1> DEFINE end == [m \in Messages |-> IF Phase(m) = "open" THEN Phase(m)'
                                                           ELSE "open"]
<1>1. end \in [Messages -> {"open", "sent", "failed"}]
  OBVIOUS
<1>2. \A m \in Messages : /\ end[m] = "sent" => acc[m] > 0
                          /\ end[m] = "failed" => acc[m] <= faults + 1
  BY DEF SendingInv, DuplicatesNeedFaults, Basics, TypeOK
<1>3. [m \in Messages |-> Phase(m)']
        = [m \in Messages |-> IF [n \in Messages |-> Phase(n)][m] = "open"
                                THEN end[m]
                                ELSE [n \in Messages |-> Phase(n)][m]]
  OBVIOUS
<1> HIDE DEF end
<1>4. Promises!Lose
  BY <1>1, <1>2, <1>3 DEF Promises!Lose
<1>5. QED
  BY <1>4 DEF Promises!Next

LEMMA DeliveryInit == Init => Promises!Init
<1> SUFFICES ASSUME Init PROVE Promises!Init
  OBVIOUS
<1>1. \A m \in Messages : Phase(m) = "none"
  BY DEF Init, Phase
<1>2. (IF queueEnabled THEN MaxAttempts ELSE 1) \in Nat \ {0}
  BY ConstantsAssumption DEF ConstantsAssumption
<1>3. QED
  BY <1>1, <1>2 DEF Init, Promises!Init

\* An attempt is begun on an open message, and there is one left.
LEMMA DeliveryAttempt ==
  ASSUME Basics, SendingInv, AttemptInv, NEW m \in Messages, pc[m] = "call"
  PROVE  /\ Phase(m) = "open" /\ acc[m] <= faults
         /\ calls[m] < (IF queueEnabled THEN MaxAttempts ELSE 1) + faults
<1> USE ConstantsAssumption DEF ConstantsAssumption, Basics, TypeOK, OneAttempt
<1>1. Phase(m) = "open"
  BY PhaseIs DEF IsOpen, Trying
<1>2. acc[m] <= faults
  BY DEF SendingInv, AcceptancesPaid, MayCallAgain
<1>3. CASE queueEnabled
  <2>1. job[m] = "active"
    BY <1>3 DEF Trying
  <2>2. calls[m] <= made[m] + stalls[m] /\ made[m] < MaxAttempts
    BY <1>3, <2>1 DEF SendingInv, CallsCounted, JobsAreLimited
  <2>3. stalls[m] <= faults
    BY DEF AttemptInv, StallsPaid
  <2>4. QED
    BY <1>1, <1>2, <1>3, <2>2, <2>3
<1>4. CASE ~queueEnabled
  <2>1. calls[m] <= 0
    BY <1>4 DEF SendingInv, CallsCounted
  <2>2. QED
    BY <1>1, <1>2, <1>4, <2>1
<1>5. QED
  BY <1>3, <1>4

\* A message that is settled without a loss is settled by what was answered.
LEMMA DeliverySettled ==
  ASSUME Basics, SendingInv, NEW m \in Messages, Phase(m) = "open",
         \A n \in Messages \ {m} : Stands(n),
         UNCHANGED <<queueEnabled, calls, acc, faults>>,
         \/ Phase(m)' = "sent" /\ acc[m] > 0
         \/ /\ Phase(m)' = "failed" /\ acc[m] <= faults
            /\ faults = 0 =>
                 calls[m] = IF queueEnabled THEN MaxAttempts ELSE 1
  PROVE  Promises!Next
<1>1. [n \in Messages |-> Phase(n)']
        = [[n \in Messages |-> Phase(n)] EXCEPT ![m] = Phase(m)']
  BY OneMoves
<1>2. CASE Phase(m)' = "sent" /\ acc[m] > 0
  <2>1. Promises!Succeed(m)
    BY <1>1, <1>2 DEF Promises!Succeed
  <2>2. QED
    BY <2>1 DEF Promises!Next
<1>3. CASE Phase(m)' = "failed"
  <2>1. Promises!GiveUp(m)
    BY <1>1, <1>3 DEF Promises!GiveUp
  <2>2. QED
    BY <2>1 DEF Promises!Next
<1>4. QED
  BY <1>2, <1>3

\* One that is kept or sent.
LEMMA DeliveryAccept ==
  ASSUME Basics, NEW m \in Messages, row[m] = "none",
         \A n \in Messages \ {m} : Stands(n),
         UNCHANGED <<queueEnabled, calls, acc, faults>>,
         Phase(m)' \in {"open", "kept"}
  PROVE  Promises!Next
<1>1. [n \in Messages |-> Phase(n)']
        = [[n \in Messages |-> Phase(n)] EXCEPT ![m] = Phase(m)']
  BY OneMoves
<1>2. Phase(m) = "none"
  BY PhaseIs
<1>3. Promises!Accept(m, Phase(m)')
  BY <1>1, <1>2 DEF Promises!Accept
<1>4. QED
  BY <1>3 DEF Promises!Next

LEMMA DeliveryStep ==
  Inductive /\ AttemptInv /\ [Next]_vars => [Promises!Next]_(Promises!vars)
<1> SUFFICES ASSUME Inductive, AttemptInv, [Next]_vars
             PROVE  Promises!Next \/ UNCHANGED Promises!vars
  OBVIOUS
<1>a. Basics /\ SendingInv /\ RecordsInv
  BY DEF Inductive
<1>t. /\ row \in [Messages -> {"none", "scheduled", "stored"}]
      /\ job \in [Messages ->
                    {"none", "waiting", "active", "completed", "failed"}]
      /\ pc \in [Messages -> {"idle", "enqueue", "call", "record", "history",
                              "touch", "done", "threw"}]
      /\ stamps \in [Messages ->
                      SUBSET {"sentAt", "deliveredAt", "readAt", "failedAt"}]
      /\ acc \in [Messages -> Nat] /\ calls \in [Messages -> Nat]
      /\ queueEnabled \in BOOLEAN /\ faults \in Nat
  BY <1>a, ConstantsAssumption DEF Basics, TypeOK, ConstantsAssumption
<1>u. \A m \in Messages :
        /\ queueEnabled /\ Trying(m) => job[m] = "active"
        /\ ~queueEnabled => job[m] = "none"
        /\ ~queueEnabled => pc[m] \notin {"enqueue", "done", "threw"}
        /\ pc[m] = "enqueue" => job[m] = "none"
        /\ row[m] # "stored" => pc[m] = "idle" /\ job[m] = "none"
  BY <1>a DEF Basics, OneAttempt
(* accepted, and queued *)
<1>1. ASSUME NEW m \in Messages, Send(m) PROVE Promises!Next
  <2>1. Phase(m)' = "open"
    BY <1>1, <1>t, <1>u DEF Send, Goto, Phase, IsOpen, queue, table
  <2>2. \A n \in Messages \ {m} : Stands(n)
    BY <1>1, <1>t DEF Send, Goto, Stands, queue
  <2>3. QED
    BY <1>1, <1>a, <2>1, <2>2, DeliveryAccept DEF Send, provider
<1>2. ASSUME NEW m \in Messages, SendScheduled(m) PROVE Promises!Next
  <2>1. Phase(m)' = "kept"
    BY <1>2, <1>t DEF SendScheduled, Phase
  <2>2. \A n \in Messages \ {m} : Stands(n)
    BY <1>2, <1>t DEF SendScheduled, Stands, queue, attempt
  <2>3. QED
    BY <1>2, <1>a, <2>1, <2>2, DeliveryAccept DEF SendScheduled, provider
<1>3. ASSUME NEW m \in Messages, Enqueue(m) \/ Take(m)
      PROVE  UNCHANGED Promises!vars
  <2>1. /\ row[m] = "stored" /\ row' = row
        /\ IsOpen(m) /\ IsOpen(m)'
    BY <1>3, <1>t, <1>u DEF Enqueue, Take, Goto, IsOpen, table
  <2>2. Phase(m)' = Phase(m)
    BY <2>1 DEF Phase
  <2>3. \A n \in Messages \ {m} : Stands(n)
    BY <1>3, <1>t DEF Enqueue, Take, Goto, Stands, table
  <2>4. QED
    BY <1>3, <2>2, <2>3, StandsStill, DeliveryFrame DEF Enqueue, Take, provider
(* the attempt *)
<1>4. ASSUME NEW m \in Messages, Call(m) \/ AnswerLost(m)
      PROVE  Promises!Next
  <2>1. /\ pc[m] = "call" /\ pc' = [pc EXCEPT ![m] = "record"]
        /\ UNCHANGED <<row, job, stamps, queueEnabled>>
    BY <1>4 DEF Call, AnswerLost, Goto, table, queue
  <2>2. \A n \in Messages : Stands(n)
    BY <2>1, <1>t DEF Stands
  <2>3. [n \in Messages |-> Phase(n)'] = [n \in Messages |-> Phase(n)]
    BY <2>2, StandsStill
  <2>4. /\ calls' = [calls EXCEPT ![m] = @ + 1]
        /\ \/ UNCHANGED <<acc, faults>>
           \/ acc' = [acc EXCEPT ![m] = @ + 1] /\ faults' \in {faults, faults + 1}
    BY <1>4 DEF Call, AnswerLost, Fault
  <2>5. Promises!Attempt(m)
    BY <1>a, <2>1, <2>3, <2>4, DeliveryAttempt DEF Promises!Attempt
  <2>6. QED
    BY <2>5 DEF Promises!Next
<1>5. ASSUME NEW m \in Messages, Record(m) \/ History(m)
      PROVE  UNCHANGED Promises!vars
  <2>1. /\ row[m] = "stored" /\ row' = row
        /\ IsOpen(m) /\ IsOpen(m)'
    BY <1>5, <1>t, <1>u DEF Record, History, Goto, IsOpen, Trying, queue
  <2>2. Phase(m)' = Phase(m)
    BY <2>1 DEF Phase
  <2>3. \A n \in Messages \ {m} : Stands(n)
    <3>1. CASE Record(m)
      BY <3>1, <1>t DEF Record, RowUpdated, Goto, Stands, queue
    <3>2. CASE History(m)
      BY <3>2, <1>t DEF History, Goto, Stands, queue
    <3>3. QED
      BY <1>5, <3>1, <3>2
  <2>4. QED
    BY <1>5, <2>2, <2>3, StandsStill, DeliveryFrame
    DEF Record, History, provider
<1>6. ASSUME NEW m \in Messages, Touch(m)
      PROVE  Promises!Next \/ UNCHANGED Promises!vars
  <2>1. /\ pc[m] = "touch" /\ row[m] = "stored" /\ IsOpen(m)
        /\ UNCHANGED <<table, queue, provider, faults, queueEnabled>>
    BY <1>6, <1>t, <1>u DEF Touch, IsOpen, Trying
  <2>2. \A n \in Messages \ {m} : Stands(n)
    BY <1>6, <1>t DEF Touch, EndAttempt, Goto, Stands, queue, table
  <2>3. CASE queueEnabled
    <3>1. IsOpen(m)'
      BY <2>1, <2>3, <1>u DEF IsOpen, Trying, queue
    <3>2. Phase(m)' = Phase(m)
      BY <2>1, <3>1 DEF Phase, table
    <3>3. QED
      BY <2>1, <2>2, <3>2, StandsStill, DeliveryFrame DEF provider
  <2>4. CASE ~queueEnabled
    <3>1. pc'[m] = "idle"
      BY <1>6, <2>4, <1>t DEF Touch, EndAttempt, Goto
    <3>2. Phase(m)' = IF "sentAt" \in stamps[m] THEN "sent" ELSE "failed"
      BY <2>1, <2>4, <3>1, <1>u DEF Phase, IsOpen, WasSent, table, queue
    <3>3. Phase(m) = "open"
      BY <2>1, <1>a, PhaseIs
    <3>4. "sentAt" \in stamps[m] => acc[m] > 0
      BY <1>a DEF RecordsInv, SentHasId
    <3>5. "sentAt" \notin stamps[m] => acc[m] <= faults
      <4>1. res[m] > 0 => "sentAt" \in stamps[m]
        BY <1>a, <2>1 DEF RecordsInv, AnswerKept, Stored
      <4>2. res[m] = 0 => acc[m] <= faults
        BY <1>a, <2>1 DEF SendingInv, AcceptancesPaid, MayCallAgain
      <4>3. QED
        BY <4>1, <4>2, <1>a DEF Basics, TypeOK
    <3>6. calls[m] = 1
      <4>1. calls[m] <= 1
        BY <1>a, <2>1, <2>4 DEF SendingInv, CallsCounted
      <4>2. calls[m] > 0
        BY <2>1 DEF AttemptInv, AttemptsCall
      <4>3. QED
        BY <4>1, <4>2, <1>t
    <3>7. QED
      BY <1>a, <2>1, <2>2, <2>4, <3>2, <3>3, <3>4, <3>5, <3>6, DeliverySettled
      DEF provider
  <2>5. QED
    BY <2>3, <2>4, <1>t
<1>7. ASSUME NEW m \in Messages, Notify(m) PROVE UNCHANGED Promises!vars
  <2>1. \A n \in Messages : Stands(n)
    BY <1>7 DEF Notify, Stands, queue
  <2>2. QED
    BY <1>7, <2>1, StandsStill, DeliveryFrame DEF Notify, provider
(* the job *)
<1>8. ASSUME NEW m \in Messages, JobDone(m) PROVE Promises!Next
  <2>1. pc[m] = "done" /\ acc[m] > 0 /\ row[m] = "stored"
    BY <1>8, <1>a, <1>u DEF JobDone, RecordsInv, AnswerKept, Stored
  <2>2. Phase(m) = "open"
    BY <2>1, <1>a, <1>t, <1>u, PhaseIs DEF IsOpen, Trying
  <2>3. Phase(m)' = "sent"
    BY <1>8, <2>1, <1>t DEF JobDone, Goto, Phase, IsOpen, WasSent, table
  <2>4. \A n \in Messages \ {m} : Stands(n)
    BY <1>8, <1>t DEF JobDone, Goto, Stands, table
  <2>5. QED
    BY <1>8, <1>a, <2>1, <2>2, <2>3, <2>4, DeliverySettled
    DEF JobDone, provider
<1>9. ASSUME NEW m \in Messages, JobThrew(m)
      PROVE  Promises!Next \/ UNCHANGED Promises!vars
  <2>1. pc[m] = "threw" /\ queueEnabled /\ job[m] = "active" /\ row[m] = "stored"
    BY <1>9, <1>t, <1>u DEF JobThrew, Trying
  <2>2. Phase(m) = "open"
    BY <2>1, <1>a, PhaseIs DEF IsOpen
  <2>3. job' = [job EXCEPT ![m] = RetryOrFail(m)]
        /\ UNCHANGED <<row, stamps, calls, acc, faults, queueEnabled>>
    BY <1>9 DEF JobThrew, table, provider
  <2>4. \A n \in Messages \ {m} : Stands(n)
    BY <1>9, <2>3, <1>t DEF JobThrew, Goto, Stands
  <2>5. CASE made[m] + 1 < MaxAttempts
    <3>1. job'[m] = "waiting"
      BY <2>3, <2>5, <1>t DEF RetryOrFail
    <3>2. Phase(m)' = "open"
      BY <2>1, <2>3, <3>1 DEF Phase, IsOpen
    <3>3. QED
      BY <2>2, <2>3, <2>4, <3>2, StandsStill, DeliveryFrame
  <2>6. CASE ~(made[m] + 1 < MaxAttempts)
    <3>1. job'[m] = "failed"
      BY <2>3, <2>6, <1>t DEF RetryOrFail
    <3>2. Phase(m)' = "failed"
      BY <2>1, <2>3, <3>1 DEF Phase, IsOpen, WasSent
    <3>3. acc[m] <= faults
      BY <1>a, <2>1 DEF SendingInv, AcceptancesPaid, MayCallAgain
    <3>4. faults = 0 => calls[m] = MaxAttempts
      <4>1. made[m] < MaxAttempts /\ made[m] \in Nat /\ MaxAttempts \in Nat
        BY <1>a, <2>1, ConstantsAssumption
        DEF Basics, TypeOK, JobsAreLimited, ConstantsAssumption
      <4>2. faults = 0 => calls[m] = made[m] + 1
        BY <1>a, <2>1 DEF RecordsInv, WithoutFaults
      <4>3. QED
        BY <2>6, <4>1, <4>2
    <3>5. QED
      BY <1>a, <2>1, <2>2, <2>3, <2>4, <3>2, <3>3, <3>4, DeliverySettled
  <2>7. QED
    BY <2>5, <2>6
<1>10. ASSUME NEW m \in Messages, JobStalled(m)
       PROVE  Promises!Next \/ UNCHANGED Promises!vars
  <2>1. job[m] = "active" /\ pc[m] = "idle" /\ row[m] = "stored"
    BY <1>10, <1>u DEF JobStalled
  <2>2. Phase(m) = "open"
    BY <2>1, <1>a, PhaseIs DEF IsOpen
  <2>3. /\ job' = [job EXCEPT ![m] =
                     IF stalls[m] < MaxStalls THEN "waiting" ELSE "failed"]
        /\ UNCHANGED <<row, stamps, pc, calls, acc, faults, queueEnabled>>
    BY <1>10 DEF JobStalled, table, attempt, provider
  <2>4. \A n \in Messages \ {m} : Stands(n)
    BY <2>3, <1>t DEF Stands
  <2>5. CASE stalls[m] < MaxStalls
    <3>1. job'[m] = "waiting"
      BY <2>3, <2>5, <1>t
    <3>2. Phase(m)' = "open"
      BY <2>1, <2>3, <3>1 DEF Phase, IsOpen
    <3>3. QED
      BY <2>2, <2>3, <2>4, <3>2, StandsStill, DeliveryFrame
  <2>6. CASE ~(stalls[m] < MaxStalls)
    <3>1. job'[m] = "failed"
      BY <2>3, <2>6, <1>t
    <3>2. Phase(m)' = "failed"
      BY <2>1, <2>3, <3>1 DEF Phase, IsOpen, WasSent
    <3>3. acc[m] <= faults
      BY <1>a, <2>1 DEF SendingInv, AcceptancesPaid, MayCallAgain
    <3>4. faults # 0
      BY <1>a, <2>1 DEF RecordsInv, WithoutFaults
    <3>5. QED
      BY <1>a, <2>2, <2>3, <2>4, <3>2, <3>3, <3>4, DeliverySettled
  <2>7. QED
    BY <2>5, <2>6
(* reports *)
<1>11. ASSUME NEW h \in Handlers, NEW m \in Messages, NEW s \in Reports,
             NEW id \in 1 .. acc[m], HookPosted(h, m, id, s)
       PROVE  UNCHANGED Promises!vars
  <2>1. \A n \in Messages : Stands(n)
    BY <1>11 DEF HookPosted, Stands, table, queue, attempt
  <2>2. QED
    BY <1>11, <2>1, StandsStill, DeliveryFrame DEF HookPosted, provider
<1>b. ASSUME NEW h \in Handlers, hpc[h] = "update", RowStamped(h)
      PROVE  \A n \in Messages : "sentAt" \in stamps'[n] <=> "sentAt" \in stamps[n]
  <2>1. hook[h] \in Report /\ hook[h].status # "sent"
    BY <1>a, <1>b DEF Basics, HandlersHold
  <2>2. hook[h].msg \in Messages
        /\ hook[h].status \in {"delivered", "read", "failed"}
    BY <2>1, ConstantsAssumption DEF ConstantsAssumption, Report
  <2>3. ColumnOf(hook[h].status) # "sentAt"
    BY <2>2 DEF ColumnOf
  <2>4. QED
    BY <1>b, <2>2, <2>3, <1>t DEF RowStamped
<1>12. ASSUME NEW h \in Handlers, HookStep(h) PROVE UNCHANGED Promises!vars
  <2>1. UNCHANGED <<queueEnabled, row, queue, attempt, provider, faults>>
    BY <1>12 DEF HookStep, HookFind, HookUpdate, HookHistory, table
  <2>2. \A n \in Messages : "sentAt" \in stamps'[n] <=> "sentAt" \in stamps[n]
    BY <1>12, <1>b DEF HookStep, HookFind, HookUpdate, HookHistory, table
  <2>3. \A n \in Messages : Stands(n)
    BY <2>1, <2>2 DEF Stands, queue, attempt
  <2>4. QED
    BY <2>1, <2>3, StandsStill, DeliveryFrame DEF provider
(* losses *)
<1>13. ASSUME NEW h \in Handlers, HookFails(h) PROVE Promises!Next
  <2>1. /\ UNCHANGED <<queueEnabled, row, queue, attempt, provider>>
        /\ faults' = faults + 1
    BY <1>13 DEF HookFails, Fault
  <2>2. \A n \in Messages : "sentAt" \in stamps'[n] <=> "sentAt" \in stamps[n]
    BY <1>13, <1>b DEF HookFails
  <2>3. \A n \in Messages : Stands(n)
    BY <2>1, <2>2 DEF Stands, queue, attempt
  <2>4. QED
    BY <1>a, <2>1, <2>3, StandsStill, DeliveryLoss DEF provider
<1>14. ASSUME NEW m \in Messages, NotifyFails(m) PROVE Promises!Next
  <2>1. \A n \in Messages : Stands(n)
    BY <1>14 DEF NotifyFails, Stands, table, queue
  <2>2. QED
    BY <1>14, <1>a, <2>1, StandsStill, DeliveryLoss
    DEF NotifyFails, Fault, provider
<1>15. ASSUME NEW m \in Messages, EnqueueFails(m) PROVE Promises!Next
  <2>1. /\ pc[m] = "enqueue" /\ job[m] = "none" /\ row[m] = "stored"
        /\ pc' = [pc EXCEPT ![m] = "idle"]
        /\ job' \in {job, [job EXCEPT ![m] = "waiting"]}
        /\ UNCHANGED <<row, stamps, calls, acc, queueEnabled>>
        /\ faults' = faults + 1
    BY <1>15, <1>t, <1>u DEF EnqueueFails, Fault, Goto, table, provider
  <2>2. Phase(m) = "open"
    BY <2>1, <1>a, PhaseIs DEF IsOpen
  <2>3. \A n \in Messages \ {m} : Stands(n)
    BY <2>1, <1>t DEF Stands
  <2>4. "sentAt" \in stamps[m] => acc[m] > 0
    BY <1>a DEF RecordsInv, SentHasId
  <2>5. \/ Phase(m)' = "open"
        \/ Phase(m)' = "sent" /\ acc[m] > 0
        \/ Phase(m)' = "failed"
    BY <2>1, <2>4, <1>t DEF Phase, IsOpen, WasSent
  <2>6. QED
    BY <1>a, <2>1, <2>2, <2>3, <2>5, StandsStill, DeliveryLoss
<1>16. ASSUME NEW m \in Messages, AttemptFails(m) PROVE Promises!Next
  <2>1. /\ pc' = [pc EXCEPT ![m] = IF queueEnabled THEN "threw" ELSE "idle"]
        /\ pc[m] \in {"record", "history", "touch"}
        /\ faults' = faults + 1
        /\ UNCHANGED <<queueEnabled, row, queue, provider>>
    BY <1>16 DEF AttemptFails, Fault, Throws, Goto
  <2>2. /\ \A n \in Messages \ {m} : stamps'[n] = stamps[n]
        /\ "sentAt" \in stamps'[m] => "sentAt" \in stamps[m] \/ acc[m] > 0
    <3>1. CASE UNCHANGED stamps
      BY <3>1
    <3>2. CASE pc[m] = "record" /\ RowUpdated(m)
      <4>1. res[m] > 0 => acc[m] > 0
        BY <1>a, <3>2 DEF RecordsInv, AnswerKept
      <4>2. QED
        BY <3>2, <4>1, <1>t DEF RowUpdated
    <3>3. QED
      BY <1>16, <3>1, <3>2 DEF AttemptFails
  <2>3. \A n \in Messages \ {m} : Stands(n)
    BY <2>1, <2>2, <1>t DEF Stands, queue
  <2>4. row[m] = "stored" /\ IsOpen(m) /\ Phase(m) = "open"
    BY <2>1, <1>a, <1>t, <1>u, PhaseIs DEF IsOpen, Trying
  <2>5. \/ Phase(m)' = "open"
        \/ Phase(m)' = "sent" /\ acc[m] > 0
        \/ Phase(m)' = "failed"
    <3>1. "sentAt" \in stamps'[m] => acc[m] > 0
      BY <2>2, <1>a DEF RecordsInv, SentHasId
    <3>2. CASE queueEnabled
      BY <2>1, <2>4, <3>2, <1>u DEF Phase, IsOpen, Trying, queue
    <3>3. CASE ~queueEnabled
      BY <2>1, <2>4, <3>1, <3>3, <1>t, <1>u DEF Phase, IsOpen, WasSent, queue
    <3>4. QED
      BY <3>2, <3>3, <1>t
  <2>6. QED
    BY <1>a, <2>1, <2>3, <2>4, <2>5, StandsStill, DeliveryLoss DEF provider
<1>17. CASE Crash
  <2>1. /\ \A m \in Messages : pc'[m] = "idle"
        /\ UNCHANGED <<queueEnabled, row, job, stamps, calls, acc>>
        /\ faults' = faults + 1
    BY <1>17 DEF Crash, Fault, table, queue, provider
  <2>2. ASSUME NEW m \in Messages
        PROVE  \/ Phase(m)' = Phase(m)
               \/ Phase(m) = "open" /\ Phase(m)' = "sent" /\ acc[m] > 0
               \/ Phase(m) = "open" /\ Phase(m)' = "failed"
    <3>1. CASE pc[m] = "idle" \/ job[m] # "none"
      BY <2>1, <3>1 DEF Phase, IsOpen, WasSent
    <3>2. CASE pc[m] # "idle" /\ job[m] = "none"
      <4>1. row[m] = "stored" /\ Phase(m) = "open"
        BY <3>2, <1>a, <1>t, <1>u, PhaseIs DEF IsOpen
      <4>2. Phase(m)' = IF "sentAt" \in stamps[m] THEN "sent" ELSE "failed"
        BY <2>1, <3>2, <4>1 DEF Phase, IsOpen, WasSent
      <4>3. "sentAt" \in stamps[m] => acc[m] > 0
        BY <1>a DEF RecordsInv, SentHasId
      <4>4. QED
        BY <4>1, <4>2, <4>3
    <3>3. QED
      BY <3>1, <3>2
  <2>3. QED
    BY <1>a, <2>1, <2>2, DeliveryLoss
<1>18. CASE UNCHANGED vars
  <2>1. \A n \in Messages : Stands(n)
    BY <1>18 DEF vars, Stands, table, queue, attempt
  <2>2. QED
    BY <1>18, <2>1, StandsStill, DeliveryFrame DEF vars, provider
<1>19. QED
  BY <1>1, <1>2, <1>3, <1>4, <1>5, <1>6, <1>7, <1>8, <1>9, <1>10, <1>11, <1>12,
     <1>13, <1>14, <1>15, <1>16, <1>17, <1>18
  DEF Next, AttemptStep, QueueStep, FaultStep

\* Every behaviour of the messages is one of Delivery: settled once and for
\* good, called for only while open, and what goes wrong is paid for by faults.
THEOREM ImplementsDelivery == Spec => KeepsDelivery
<1>1. Init => AttemptInv
  BY AttemptInit
<1>2. Inductive /\ AttemptInv /\ [Next]_vars => AttemptInv'
  BY AttemptsStep DEF Inductive
<1>3. QED
  BY <1>1, <1>2, AlwaysInductive, DeliveryInit, DeliveryStep, PTL
  DEF Spec, KeepsDelivery, Promises!Spec
=============================================================================
