------------------------------ MODULE Message ------------------------------
(***************************************************************************)
(* Outgoing messages of MessagingService: the row that sendMessage() makes,*)
(* the attempt to send it (by the request itself, or by MessageProcessor   *)
(* from the BullMQ queue, which retries), and the provider's reports on it,*)
(* handled by handleStatusUpdate() in whatever order they arrive.          *)
(*                                                                         *)
(* An action is one await.  BullMQ and the provider are modelled from how  *)
(* the code uses them: the queue survives a crash of the process and gives *)
(* a job of a dead worker out again; the provider may accept a message     *)
(* whose answer is lost, and posts a report any number of times.           *)
(***************************************************************************)
EXTENDS Naturals

CONSTANTS
  Messages,       \* calls of sendMessage(), one message row each
  Handlers,       \* slots for webhook requests served at the same time
  Reports,        \* statuses the provider reports
  MaxAttempts,    \* messaging.retry.maxAttempts
  MaxStalls,      \* maxStalledCount of the BullMQ worker
  MaxFaults       \* bound: failed statements, lost answers, process exits

ASSUME ConstantsAssumption ==
  /\ Reports \subseteq {"sent", "delivered", "read", "failed"}
  /\ MaxAttempts \in Nat \ {0}
  /\ MaxStalls \in Nat
  /\ MaxFaults \in Nat

VARIABLES
  queueEnabled,   \* the configuration, fixed
  (* database *)
  row,            \* messages: no row, kept for later, or to be sent now
  ext,            \* externalId: which acceptance it names, 0 when null
  stamps,         \* the columns sentAt, deliveredAt, ... that are not null
  tries,          \* message_statuses rows written by attempts
  reported,       \* message_statuses rows written by reports
  notified,       \* MESSAGE_FAILED notifications
  (* BullMQ *)
  job,            \* state of the message's job
  made,           \* attemptsMade
  stalls,         \* times the job was found without a worker
  (* process *)
  pc,             \* await at which the attempt to send is
  res,            \* its result: which acceptance, 0 for a failure
  notices,        \* failure events emitted and not yet stored
  hpc,            \* await at which a webhook handler is
  hook,           \* the report it handles
  (* provider, observation *)
  acc,            \* times the provider accepted the message
  calls,          \* times it was called
  answered,       \* reports that were answered 200
  faults

table == <<row, ext, stamps, tries, reported, notified>>
queue == <<job, made, stalls>>
attempt == <<pc, res, notices>>
hooks == <<hpc, hook>>
provider == <<acc, calls>>
vars == <<queueEnabled, table, queue, attempt, hooks, provider, answered,
          faults>>

Report == [msg : Messages, id : Nat, status : Reports]
NoReport == [status |-> "none"]

TypeOK ==
  /\ queueEnabled \in BOOLEAN
  /\ row \in [Messages -> {"none", "scheduled", "stored"}]
  /\ ext \in [Messages -> Nat]
  /\ stamps \in [Messages ->
                   SUBSET {"sentAt", "deliveredAt", "readAt", "failedAt"}]
  /\ tries \in [Messages -> [{"sent", "failed"} -> Nat]]
  /\ reported \in [Messages -> SUBSET Reports]
  /\ notified \in [Messages -> Nat]
  /\ job \in [Messages ->
                {"none", "waiting", "active", "completed", "failed"}]
  /\ made \in [Messages -> 0 .. MaxAttempts]
  /\ stalls \in [Messages -> 0 .. MaxStalls + 1]
  /\ pc \in [Messages -> {"idle", "enqueue", "call", "record", "history",
                          "touch", "done", "threw"}]
  /\ res \in [Messages -> Nat]
  /\ notices \in [Messages -> Nat]
  /\ hpc \in [Handlers -> {"idle", "find", "update", "history"}]
  /\ hook \in [Handlers -> Report \cup {NoReport}]
  /\ acc \in [Messages -> Nat]
  /\ calls \in [Messages -> Nat]
  /\ answered \in SUBSET (Messages \X Reports)
  /\ faults \in 0 .. MaxFaults

Init ==
  LET all(v) == [m \in Messages |-> v]
  IN  /\ queueEnabled \in BOOLEAN
      /\ row = all("none") /\ ext = all(0) /\ stamps = all({})
      /\ tries = all([s \in {"sent", "failed"} |-> 0])
      /\ reported = all({}) /\ notified = all(0)
      /\ job = all("none") /\ made = all(0) /\ stalls = all(0)
      /\ pc = all("idle") /\ res = all(0) /\ notices = all(0)
      /\ hpc = [h \in Handlers |-> "idle"]
      /\ hook = [h \in Handlers |-> NoReport]
      /\ acc = all(0) /\ calls = all(0)
      /\ answered = {}
      /\ faults = 0

Goto(m, p) == pc' = [pc EXCEPT ![m] = p]

-----------------------------------------------------------------------------
(* sendMessage *)

\* message.create, once contact and conversation are there.
Send(m) ==
  /\ row[m] = "none"
  /\ row' = [row EXCEPT ![m] = "stored"]
  /\ Goto(m, IF queueEnabled THEN "enqueue" ELSE "call")
  /\ UNCHANGED <<queueEnabled, ext, stamps, tries, reported, notified, queue,
                 res, notices, hooks, provider, answered, faults>>

\* With scheduledAt the row is all there is: nothing sends it later.
SendScheduled(m) ==
  /\ row[m] = "none"
  /\ row' = [row EXCEPT ![m] = "scheduled"]
  /\ UNCHANGED <<queueEnabled, ext, stamps, tries, reported, notified, queue,
                 attempt, hooks, provider, answered, faults>>

\* messageQueue.add, and the request answers.
Enqueue(m) ==
  /\ pc[m] = "enqueue"
  /\ job' = [job EXCEPT ![m] = "waiting"]
  /\ Goto(m, "idle")
  /\ UNCHANGED <<queueEnabled, table, made, stalls, res, notices, hooks,
                 provider, answered, faults>>

-----------------------------------------------------------------------------
(* One attempt to send: MessageProcessor.process() on a job, or            *)
(* sendMessageSync() in the request                                        *)

\* BullMQ: a worker takes the job.
Take(m) ==
  /\ job[m] = "waiting"
  /\ job' = [job EXCEPT ![m] = "active"]
  /\ Goto(m, "call")
  /\ UNCHANGED <<queueEnabled, table, made, stalls, res, notices, hooks,
                 provider, answered, faults>>

\* The provider accepts, under a new external id, or it refuses; an error of
\* the call is a refusal too: the provider object does not throw.
Call(m) ==
  /\ pc[m] = "call"
  /\ calls' = [calls EXCEPT ![m] = @ + 1]
  /\ \E accepts \in BOOLEAN :
       /\ acc' = IF accepts THEN [acc EXCEPT ![m] = @ + 1] ELSE acc
       /\ res' = [res EXCEPT ![m] = IF accepts THEN acc[m] + 1 ELSE 0]
  /\ Goto(m, "record")
  /\ UNCHANGED <<queueEnabled, table, queue, notices, hooks, answered, faults>>

\* Mutant: a refusal leaves the row as it was.
RowIfSent(m) ==
  /\ ext' = IF res[m] > 0 THEN [ext EXCEPT ![m] = res[m]] ELSE ext
  /\ stamps' = IF res[m] > 0 THEN [stamps EXCEPT ![m] = @ \cup {"sentAt"}]
                             ELSE stamps

\* message.update: what an earlier attempt left in failedAt is not cleared.
RowUpdated(m) ==
  /\ ext' = IF res[m] > 0 THEN [ext EXCEPT ![m] = res[m]] ELSE ext
  /\ stamps' = [stamps EXCEPT ![m] = @ \cup
                  {IF res[m] > 0 THEN "sentAt" ELSE "failedAt"}]

Record(m) ==
  /\ pc[m] = "record"
  /\ RowUpdated(m)
  /\ Goto(m, "history")
  /\ UNCHANGED <<queueEnabled, row, tries, reported, notified, queue, res,
                 notices, hooks, provider, answered, faults>>

\* messageStatus.create
TryLogged(m) ==
  tries' = [tries EXCEPT ![m][IF res[m] > 0 THEN "sent" ELSE "failed"] = @ + 1]

History(m) ==
  /\ pc[m] = "history"
  /\ TryLogged(m)
  /\ Goto(m, "touch")
  /\ UNCHANGED <<queueEnabled, row, ext, stamps, reported, notified, queue,
                 res, notices, hooks, provider, answered, faults>>

\* Mutants: the event is emitted whatever the result; the processor does not
\* throw when the provider refused, or throws when it accepted.
EmitAlways(m) == notices' = [notices EXCEPT ![m] = @ + 1]
EndQuietly(m) == Goto(m, IF queueEnabled THEN "done" ELSE "idle")
EndThrowing(m) == Goto(m, IF queueEnabled THEN "threw" ELSE "idle")

\* The message.processed event: its listener looks at failures only.
EmitProcessed(m) ==
  notices' = IF res[m] > 0 THEN notices ELSE [notices EXCEPT ![m] = @ + 1]

\* A job whose message was refused ends with an error; a request answers.
EndAttempt(m) ==
  Goto(m, IF ~queueEnabled THEN "idle"
          ELSE IF res[m] > 0 THEN "done" ELSE "threw")

\* conversation.update, the event, and the end of the attempt.
Touch(m) ==
  /\ pc[m] = "touch"
  /\ EmitProcessed(m)
  /\ EndAttempt(m)
  /\ UNCHANGED <<queueEnabled, table, queue, res, hooks, provider, answered,
                 faults>>

\* An error thrown in the attempt: the job fails, the request answers 500.
Throws(m) == Goto(m, IF queueEnabled THEN "threw" ELSE "idle")

\* handleMessageProcessed: the notification is stored.
Notify(m) ==
  /\ notices[m] > 0
  /\ notices' = [notices EXCEPT ![m] = @ - 1]
  /\ notified' = [notified EXCEPT ![m] = @ + 1]
  /\ UNCHANGED <<queueEnabled, row, ext, stamps, tries, reported, queue, pc,
                 res, hooks, provider, answered, faults>>

-----------------------------------------------------------------------------
(* BullMQ: what becomes of the job *)

JobDone(m) ==
  /\ pc[m] = "done"
  /\ job' = [job EXCEPT ![m] = "completed"]
  /\ Goto(m, "idle")
  /\ UNCHANGED <<queueEnabled, table, made, stalls, res, notices, hooks,
                 provider, answered, faults>>

\* Mutants: one attempt too many; a retry is put off and never taken up.
RetryOnceMore(m) == IF made[m] < MaxAttempts THEN "waiting" ELSE "failed"
RetryLater(m) == IF made[m] + 1 < MaxAttempts THEN "delayed" ELSE "failed"

\* The attempts option of the job.
RetryOrFail(m) == IF made[m] + 1 < MaxAttempts THEN "waiting" ELSE "failed"

JobThrew(m) ==
  /\ pc[m] = "threw"
  /\ made' = [made EXCEPT ![m] = @ + 1]
  /\ job' = [job EXCEPT ![m] = RetryOrFail(m)]
  /\ Goto(m, "idle")
  /\ UNCHANGED <<queueEnabled, table, stalls, res, notices, hooks, provider,
                 answered, faults>>

\* A job whose worker died is given out again, MaxStalls times.
JobStalled(m) ==
  /\ job[m] = "active" /\ pc[m] = "idle"
  /\ stalls' = [stalls EXCEPT ![m] = @ + 1]
  /\ job' = [job EXCEPT ![m] =
               IF stalls[m] < MaxStalls THEN "waiting" ELSE "failed"]
  /\ UNCHANGED <<queueEnabled, table, made, attempt, hooks, provider, answered,
                 faults>>

-----------------------------------------------------------------------------
(* Reports: processIncomingWebhook() and handleStatusUpdate() *)

HGoto(h, p) == hpc' = [hpc EXCEPT ![h] = p]

\* The handler is through with its report and the request answers 200.
HookAnswers(h) ==
  /\ HGoto(h, "idle")
  /\ hook' = [hook EXCEPT ![h] = NoReport]
  /\ answered' = answered \cup {<<hook[h].msg, hook[h].status>>}

\* The provider posts a report on a message it accepted, once or more, before
\* or after the attempt has stored the external id.
HookPosted(h, m, id, s) ==
  /\ hpc[h] = "idle" /\ id \in 1 .. acc[m]
  /\ HGoto(h, "find")
  /\ hook' = [hook EXCEPT ![h] = [msg |-> m, id |-> id, status |-> s]]
  /\ UNCHANGED <<queueEnabled, table, queue, attempt, provider, answered,
                 faults>>

\* Mutant: the message is not looked for by its external id.
FoundByMessage(h) == TRUE

\* findFirst by externalId.
Found(h) == ext[hook[h].msg] = hook[h].id

\* A report on an unknown id is dropped; "sent" sets no column.
HookFind(h) ==
  /\ hpc[h] = "find"
  /\ IF Found(h)
       THEN /\ HGoto(h, IF hook[h].status = "sent" THEN "history" ELSE "update")
            /\ UNCHANGED <<hook, answered>>
       ELSE HookAnswers(h)
  /\ UNCHANGED <<queueEnabled, table, queue, attempt, provider, faults>>

ColumnOf(s) ==
  [delivered |-> "deliveredAt", read |-> "readAt", failed |-> "failedAt"][s]

RowStamped(h) ==
  stamps' = [stamps EXCEPT ![hook[h].msg] = @ \cup {ColumnOf(hook[h].status)}]

HookUpdate(h) ==
  /\ hpc[h] = "update"
  /\ RowStamped(h)
  /\ HGoto(h, "history")
  /\ UNCHANGED <<queueEnabled, row, ext, tries, reported, notified, queue,
                 attempt, hook, provider, answered, faults>>

HookHistory(h) ==
  /\ hpc[h] = "history"
  /\ reported' = [reported EXCEPT ![hook[h].msg] = @ \cup {hook[h].status}]
  /\ HookAnswers(h)
  /\ UNCHANGED <<queueEnabled, row, ext, stamps, tries, notified, queue,
                 attempt, provider, faults>>

-----------------------------------------------------------------------------
(* Faults, MaxFaults of them *)

Fault == faults < MaxFaults /\ faults' = faults + 1

\* The process exits; the queue and the database stay.
Crash ==
  /\ Fault
  /\ pc' = [m \in Messages |-> "idle"]
  /\ res' = [m \in Messages |-> 0]
  /\ notices' = [m \in Messages |-> 0]
  /\ hpc' = [h \in Handlers |-> "idle"]
  /\ hook' = [h \in Handlers |-> NoReport]
  /\ UNCHANGED <<queueEnabled, table, queue, provider, answered>>

\* add() fails, the job was added or it was not.
EnqueueFails(m) ==
  /\ Fault /\ pc[m] = "enqueue"
  /\ job' \in {job, [job EXCEPT ![m] = "waiting"]}
  /\ Goto(m, "idle")
  /\ UNCHANGED <<queueEnabled, table, made, stalls, res, notices, hooks,
                 provider, answered>>

\* The provider accepts and the answer is lost: the code takes it for refused.
AnswerLost(m) ==
  /\ Fault /\ pc[m] = "call"
  /\ calls' = [calls EXCEPT ![m] = @ + 1]
  /\ acc' = [acc EXCEPT ![m] = @ + 1]
  /\ res' = [res EXCEPT ![m] = 0]
  /\ Goto(m, "record")
  /\ UNCHANGED <<queueEnabled, table, queue, notices, hooks, answered>>

\* A statement of the attempt fails, after it took effect or before.
AttemptFails(m) ==
  /\ Fault
  /\ \/ /\ pc[m] = "record"
        /\ UNCHANGED <<ext, stamps>> \/ RowUpdated(m)
        /\ UNCHANGED tries
     \/ /\ pc[m] = "history"
        /\ UNCHANGED tries \/ TryLogged(m)
        /\ UNCHANGED <<ext, stamps>>
     \/ /\ pc[m] = "touch"
        /\ UNCHANGED <<ext, stamps, tries>>
  /\ Throws(m)
  /\ UNCHANGED <<queueEnabled, row, reported, notified, queue, res, notices,
                 hooks, provider, answered>>

NotifyFails(m) ==
  /\ Fault /\ notices[m] > 0
  /\ notices' = [notices EXCEPT ![m] = @ - 1]
  /\ UNCHANGED <<queueEnabled, table, queue, pc, res, hooks, provider,
                 answered>>

\* A statement of a handler fails: the error is caught, and the answer is 200.
HookFails(h) ==
  /\ Fault
  /\ \/ /\ hpc[h] = "find"
        /\ UNCHANGED stamps
     \/ /\ hpc[h] = "update"
        /\ UNCHANGED stamps \/ RowStamped(h)
     \/ /\ hpc[h] = "history"
        /\ UNCHANGED stamps
  /\ HookAnswers(h)
  /\ UNCHANGED <<queueEnabled, row, ext, tries, reported, notified, queue,
                 attempt, provider>>

-----------------------------------------------------------------------------

AttemptStep(m) ==
  Enqueue(m) \/ Call(m) \/ Record(m) \/ History(m) \/ Touch(m)
QueueStep(m) == Take(m) \/ JobDone(m) \/ JobThrew(m) \/ JobStalled(m)
HookStep(h)  == HookFind(h) \/ HookUpdate(h) \/ HookHistory(h)
FaultStep ==
  \/ Crash
  \/ \E m \in Messages :
       EnqueueFails(m) \/ AnswerLost(m) \/ AttemptFails(m) \/ NotifyFails(m)
  \/ \E h \in Handlers : HookFails(h)

Next ==
  \/ \E m \in Messages : \/ Send(m)
                         \/ SendScheduled(m)
                         \/ AttemptStep(m)
                         \/ Notify(m)
                         \/ QueueStep(m)
  \/ \E h \in Handlers, m \in Messages, s \in Reports :
       \E id \in 1 .. acc[m] : HookPosted(h, m, id, s)
  \/ \E h \in Handlers : HookStep(h)
  \/ FaultStep

Spec == Init /\ [][Next]_vars

\* An attempt that began runs on, a worker takes what waits and BullMQ looks
\* for stalled jobs.  Users, the provider's reports and faults owe nothing.
Fairness ==
  /\ \A m \in Messages : WF_vars(AttemptStep(m)) /\ WF_vars(QueueStep(m))
  /\ \A h \in Handlers : WF_vars(HookStep(h))

FairSpec == Spec /\ Fairness

-----------------------------------------------------------------------------
(* Properties *)

\* A second acceptance, a message that reaches the user twice, costs a fault
\* each time: retries alone never send what the provider accepted.
DuplicatesNeedFaults == \A m \in Messages : acc[m] <= 1 + faults

\* The provider is called at most MaxAttempts times for a queued message, and
\* once more for each worker that died on it; once when there is no queue.
CallsBounded ==
  \A m \in Messages :
    calls[m] <= IF queueEnabled THEN MaxAttempts + MaxStalls ELSE 1

\* Why they hold.  A job is active while its attempt is on, has none before it
\* is queued, and has attempts and stalls left until it has failed.
Trying(m) == pc[m] \in {"call", "record", "history", "touch", "done", "threw"}
OneAttempt ==
  \A m \in Messages :
    /\ queueEnabled /\ Trying(m) => job[m] = "active"
    /\ ~queueEnabled => /\ job[m] = "none"
                        /\ pc[m] \notin {"enqueue", "done", "threw"}
    /\ pc[m] = "enqueue" => job[m] = "none"
    /\ row[m] # "stored" => /\ pc[m] = "idle" /\ job[m] = "none"
                            /\ calls[m] = 0 /\ acc[m] = 0
JobsAreLimited ==
  \A m \in Messages :
    /\ job[m] # "failed" => made[m] < MaxAttempts /\ stalls[m] <= MaxStalls
    /\ made[m] + stalls[m] <= MaxAttempts + MaxStalls

\* Each call is an attempt counted, a stall, or the attempt that is on; an
\* acceptance after which there may be another call was paid for by a fault.
CallsCounted ==
  \A m \in Messages :
    calls[m] <= IF queueEnabled
      THEN made[m] + stalls[m] +
           (IF job[m] \in {"active", "completed"} /\ pc[m] # "call" THEN 1 ELSE 0)
      ELSE IF pc[m] = "call" THEN 0 ELSE 1
MayCallAgain(m) ==
  \/ row[m] # "stored"
  \/ pc[m] \in {"enqueue", "call", "threw"}
  \/ pc[m] \in {"record", "history", "touch"} /\ res[m] = 0
  \/ job[m] = "waiting"
  \/ job[m] = "active" /\ pc[m] = "idle"
AcceptancesPaid ==
  \A m \in Messages : MayCallAgain(m) => acc[m] <= faults

\* As an inductive invariant of the queue and the attempts.
SendingInv ==
  /\ OneAttempt
  /\ JobsAreLimited
  /\ CallsCounted
  /\ AcceptancesPaid
  /\ DuplicatesNeedFaults

\* Where a message stands.  What has neither a job nor an attempt under way is
\* not taken up again; its row says whether it was sent.
IsOpen(m) == \/ job[m] \in {"waiting", "active"}
             \/ job[m] = "none" /\ pc[m] # "idle"
WasSent(m) == job[m] = "completed" \/ (job[m] = "none" /\ "sentAt" \in stamps[m])
Phase(m) ==
  CASE row[m] = "none"      -> "none"
    [] row[m] = "scheduled" -> "kept"
    [] OTHER -> IF IsOpen(m) THEN "open"
                ELSE IF WasSent(m) THEN "sent" ELSE "failed"

\* Queue, retries, stalls and the request that sends itself keep the promises
\* of Delivery: a message is settled once, by an answer, by its last attempt or
\* by a fault (one that never gets its job too), and is not called for again.
Promises == INSTANCE Delivery WITH
  allowed  <- IF queueEnabled THEN MaxAttempts ELSE 1,
  phase    <- [m \in Messages |-> Phase(m)],
  accepted <- acc,
  losses   <- faults
KeepsDelivery == Promises!Spec

\* Why they are kept.  A fault precedes each stall, and an attempt that ends
\* has called the provider.
StallsPaid ==
  \A m \in Messages :
    stalls[m] + (IF job[m] = "active" /\ pc[m] = "idle" THEN 1 ELSE 0) <= faults
AttemptsCall ==
  \A m \in Messages :
    pc[m] \in {"record", "history", "touch", "done", "threw"} => calls[m] > 0
AttemptInv == StallsPaid /\ AttemptsCall

\* A completed job stands for a message that has the last external id the
\* provider gave; a failed one, without faults, for a message that was tried
\* MaxAttempts times and never accepted.
JobTellsTheTruth ==
  \A m \in Messages :
    /\ job[m] = "completed" => /\ "sentAt" \in stamps[m]
                               /\ ext[m] = acc[m] /\ acc[m] > 0
    /\ (job[m] = "failed" /\ faults = 0) =>
         acc[m] = 0 /\ calls[m] = MaxAttempts /\ "sentAt" \notin stamps[m]

\* What reports say is filed only under messages shown as sent: the delivery
\* rate of the analytics, delivered by sent, is at most one.
DeliveredIsSent ==
  \A m \in Messages :
    stamps[m] \cap {"deliveredAt", "readAt"} # {} => "sentAt" \in stamps[m]

\* The user is told once of each failed attempt.
FailuresAreNotified ==
  faults = 0 =>
    \A m \in Messages :
      notified[m] + notices[m] +
        (IF pc[m] = "touch" /\ res[m] = 0 THEN 1 ELSE 0) = tries[m]["failed"]

\* Why they hold.  An external id is stored together with sentAt, a handler
\* goes on only from such a row, and the last answer stays until its job ends.
SentHasId ==
  \A m \in Messages : /\ ext[m] > 0 => "sentAt" \in stamps[m]
                      /\ "sentAt" \in stamps[m] => acc[m] > 0
HandlersHold ==
  \A h \in Handlers :
    /\ hpc[h] # "idle" => hook[h] \in Report
    /\ hpc[h] = "update" => hook[h].status # "sent"
FoundAreSent ==
  \A h \in Handlers :
    /\ hpc[h] # "idle" => hook[h].id > 0
    /\ hpc[h] \in {"update", "history"} => "sentAt" \in stamps[hook[h].msg]
Stored(m) == ext[m] = acc[m] /\ acc[m] > 0 /\ "sentAt" \in stamps[m]
AnswerKept ==
  \A m \in Messages :
    /\ (pc[m] = "record" /\ res[m] > 0) => res[m] = acc[m]
    /\ (pc[m] \in {"history", "touch"} /\ res[m] > 0) => Stored(m)
    /\ pc[m] = "done" \/ job[m] = "completed" => Stored(m)
WithoutFaults ==
  faults = 0 =>
    \A m \in Messages :
      /\ job[m] = "active" => pc[m] # "idle"
      /\ stalls[m] = 0
      /\ job[m] = "failed" => made[m] = MaxAttempts /\ acc[m] = 0
      /\ queueEnabled =>
           calls[m] = made[m] +
             (IF job[m] \in {"active", "completed"} /\ pc[m] # "call" THEN 1 ELSE 0)

\* As an inductive invariant of the rows, the handlers and the notifications.
RecordsInv ==
  /\ SentHasId
  /\ HandlersHold
  /\ FoundAreSent
  /\ AnswerKept
  /\ WithoutFaults
  /\ DeliveredIsSent
  /\ FailuresAreNotified

\* A queued message is settled, even if the worker dies on it.
QueuedIsSettled ==
  \A m \in Messages :
    job[m] = "waiting" ~> job[m] \in {"completed", "failed"}

\* Without faults a message that is not kept for later is tried, and its row
\* shows with what result.
StoredIsTried ==
  \A m \in Messages :
    row[m] = "stored" ~> (faults > 0 \/ stamps[m] \cap {"sentAt", "failedAt"} # {})

\* What status webhooks are said to do: each report on a message is filed in
\* its history.  One that overtakes the external id is answered and dropped.
ReportsAreFiled ==
  faults = 0 => \A a \in answered : a[2] \in reported[a[1]]
=============================================================================
