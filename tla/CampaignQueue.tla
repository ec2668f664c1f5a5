---------------------------- MODULE CampaignQueue ----------------------------
(***************************************************************************)
(* CampaignProcessor: the worker that runs the jobs of the queue           *)
(* "campaigns".  Nothing in the repository adds such a job yet; the module *)
(* follows one that is there, for a campaign that is not started by other  *)
(* means meanwhile (what start() runs is in Campaign).                     *)
(*                                                                         *)
(* A job that throws is run again while it has attempts left, and one      *)
(* whose worker died is taken for stalled and run again.                   *)
(*                                                                         *)
(* There to be reasoned about only: queued, stopped, queuedAtStop, again.  *)
(***************************************************************************)
EXTENDS Naturals, FiniteSets

CONSTANTS
  Recipients,
  BatchSize,        \* 50 in the code
  Attempts,         \* of the job, set by whoever adds it
  MaxQueueFaults    \* bound

ASSUME QueueAssumption ==
  /\ IsFiniteSet(Recipients)
  /\ BatchSize \in Nat \ {0} /\ Attempts \in Nat \ {0}
  /\ MaxQueueFaults \in Nat

VARIABLES
  known,            \* the campaign's provider is registered; fixed
  campaign,         \* the status of the campaign, GONE when deleted and
                    \* DROPPED when its provider is
  recipient,        \* the status of each recipient
  sent, failed,     \* sentCount, failedCount
  worker,           \* where process() is, its batch and its recipient
  runs,             \* runs of the job that threw
  queueFaults,
  queued,           \* jobs added to the queue "messages"
  stopped,          \* the campaign was paused or cancelled ...
  queuedAtStop,     \* ... when this many jobs had been added
  again             \* a job completed the campaign and did not end with it

counters == <<sent, failed>>
ledger == <<queued, stopped, queuedAtStop>>
queueVars == <<known, campaign, recipient, counters, worker, runs,
               queueFaults, ledger, again>>

InProcess == {"refuse", "check", "fetch", "pick", "add", "mark", "count",
              "failMark", "failCount", "finish", "ack"}
Worker == [at : InProcess \cup {"waiting", "over"}, left : SUBSET Recipients,
           with : SUBSET Recipients]

QueueTypeOK ==
  /\ known \in BOOLEAN /\ stopped \in BOOLEAN /\ again \in BOOLEAN
  /\ campaign \in {"RUNNING", "PAUSED", "CANCELLED", "COMPLETED", "FAILED",
                   "GONE", "DROPPED"}
  /\ recipient \in [Recipients -> {"PENDING", "SENT", "FAILED"}]
  /\ sent \in Nat /\ failed \in Nat /\ queued \in Nat /\ queuedAtStop \in Nat
  /\ worker \in Worker
  /\ runs \in 0 .. Attempts
  /\ queueFaults \in 0 .. MaxQueueFaults

Idle(at) == [at |-> at, left |-> {}, with |-> {}]

QueueInit ==
  /\ known \in BOOLEAN
  /\ campaign = "RUNNING"
  /\ recipient = [r \in Recipients |-> "PENDING"]
  /\ sent = 0 /\ failed = 0 /\ queued = 0 /\ queuedAtStop = 0
  /\ worker = Idle("waiting")
  /\ runs = 0 /\ queueFaults = 0
  /\ stopped = FALSE /\ again = FALSE

\* There is no such row.
Gone == campaign \in {"GONE", "DROPPED"}

WithStatus(status) == {r \in Recipients : recipient[r] = status}
Becomes(r, status) == recipient' = [recipient EXCEPT ![r] = status]
Moves(at) == worker' = [worker EXCEPT !.at = at]

\* The error leaves process(): another attempt, if there is one.
JobThrows ==
  /\ runs' = runs + 1
  /\ worker' = Idle(IF runs + 1 < Attempts THEN "waiting" ELSE "over")

-----------------------------------------------------------------------------

TakeJob ==
  /\ worker.at = "waiting"
  /\ Moves(IF Gone THEN "over" ELSE IF known THEN "check" ELSE "refuse")
  /\ UNCHANGED <<known, campaign, recipient, counters, runs, queueFaults,
                 ledger, again>>

\* No provider of its type is registered.
Refuse ==
  /\ worker.at = "refuse"
  /\ \/ /\ ~Gone
        /\ campaign' = "FAILED"
        /\ Moves("ack")
        /\ UNCHANGED runs
     \/ /\ Gone
        /\ JobThrows
        /\ UNCHANGED campaign
  /\ UNCHANGED <<known, recipient, counters, queueFaults, ledger, again>>

\* Mutant: only a deleted campaign stops the loop.
StopsWhenGone == {"GONE", "DROPPED"}

StopsLoop == {"GONE", "DROPPED", "PAUSED", "CANCELLED"}

CheckCampaign ==
  /\ worker.at = "check"
  /\ Moves(IF campaign \in StopsLoop THEN "finish" ELSE "fetch")
  /\ UNCHANGED <<known, campaign, recipient, counters, runs, queueFaults,
                 ledger, again>>

\* Those that take() brings are any; a deleted campaign has none.
IsBatch(batch) ==
  LET pending == IF Gone THEN {} ELSE WithStatus("PENDING")
  IN  /\ batch \subseteq pending
      /\ Cardinality(batch) <= BatchSize
      /\ Cardinality(batch) < BatchSize => batch = pending

FetchBatch ==
  /\ worker.at = "fetch"
  /\ \E batch \in SUBSET Recipients :
       /\ IsBatch(batch)
       /\ worker' = [Idle(IF batch = {} THEN "finish" ELSE "pick")
                       EXCEPT !.left = batch]
  /\ UNCHANGED <<known, campaign, recipient, counters, runs, queueFaults,
                 ledger, again>>

\* The conversation is found or created, and the message stored, which the
\* foreign key of a provider that was removed refuses.
PickRecipient ==
  /\ worker.at = "pick"
  /\ \E r \in worker.left :
       worker' = [worker EXCEPT
                    !.at = IF campaign = "DROPPED" THEN "failMark" ELSE "add",
                    !.with = {r}]
  /\ UNCHANGED <<known, campaign, recipient, counters, runs, queueFaults,
                 ledger, again>>

AddMessageJob ==
  /\ worker.at = "add"
  /\ queued' = queued + 1
  /\ Moves("mark")
  /\ UNCHANGED <<known, campaign, recipient, counters, runs, queueFaults,
                 stopped, queuedAtStop, again>>

\* Mutant: the recipient is not marked.
MarksNone == UNCHANGED recipient

MarksSent == \A r \in worker.with : Becomes(r, "SENT")

\* The recipient's row goes with its campaign.
MarkSent ==
  /\ worker.at = "mark"
  /\ \/ /\ ~Gone
        /\ MarksSent
        /\ Moves("count")
     \/ /\ Gone
        /\ Moves("failMark")
        /\ UNCHANGED recipient
  /\ UNCHANGED <<known, campaign, counters, runs, queueFaults, ledger, again>>

NextRecipient ==
  LET left == worker.left \ worker.with
  IN  worker' = [Idle(IF left = {} THEN "check" ELSE "pick")
                   EXCEPT !.left = left]

CountSent ==
  /\ worker.at = "count"
  /\ \/ /\ ~Gone
        /\ sent' = sent + 1
        /\ NextRecipient
     \/ /\ Gone
        /\ Moves("failMark")
        /\ UNCHANGED sent
  /\ UNCHANGED <<known, campaign, recipient, failed, runs, queueFaults,
                 ledger, again>>

MarksFailed == \A r \in worker.with : Becomes(r, "FAILED")

\* The catch block; what it throws, process() throws.
MarkFailed ==
  /\ worker.at = "failMark"
  /\ \/ /\ ~Gone
        /\ MarksFailed
        /\ Moves("failCount")
        /\ UNCHANGED runs
     \/ /\ Gone
        /\ JobThrows
        /\ UNCHANGED recipient
  /\ UNCHANGED <<known, campaign, counters, queueFaults, ledger, again>>

CountFailed ==
  /\ worker.at = "failCount"
  /\ \/ /\ ~Gone
        /\ failed' = failed + 1
        /\ NextRecipient
        /\ UNCHANGED runs
     \/ /\ Gone
        /\ JobThrows
        /\ UNCHANGED failed
  /\ UNCHANGED <<known, campaign, recipient, sent, queueFaults, ledger, again>>

\* COMPLETED whatever made the loop end.
Finish ==
  /\ worker.at = "finish"
  /\ \/ /\ ~Gone
        /\ campaign' = "COMPLETED"
        /\ Moves("ack")
        /\ UNCHANGED runs
     \/ /\ Gone
        /\ JobThrows
        /\ UNCHANGED campaign
  /\ UNCHANGED <<known, recipient, counters, queueFaults, ledger, again>>

\* BullMQ takes the job for done.
Acknowledge ==
  /\ worker.at = "ack"
  /\ Moves("over")
  /\ UNCHANGED <<known, campaign, recipient, counters, runs, queueFaults,
                 ledger, again>>

-----------------------------------------------------------------------------
(* The user, and faults *)

\* CampaignsService.pause and cancel: the status their guard read may be old,
\* so they may come after the campaign has ended.
StopCampaign(status) ==
  /\ ~Gone
  /\ campaign' = status
  /\ stopped' = TRUE
  /\ queuedAtStop' = IF stopped THEN queuedAtStop ELSE queued
  /\ UNCHANGED <<known, recipient, counters, worker, runs, queueFaults,
                 queued, again>>

\* CampaignsService.remove: recipients go by cascade.
RemoveCampaign ==
  /\ ~Gone /\ campaign # "RUNNING"
  /\ campaign' = "GONE"
  /\ UNCHANGED <<known, recipient, counters, worker, runs, queueFaults,
                 ledger, again>>

\* MessagingService.removeProvider: running or not, the campaign goes too.
RemoveProvider ==
  /\ campaign # "DROPPED"
  /\ campaign' = "DROPPED"
  /\ UNCHANGED <<known, recipient, counters, worker, runs, queueFaults,
                 ledger, again>>

QueueFault == /\ queueFaults < MaxQueueFaults
              /\ queueFaults' = queueFaults + 1

\* A statement of the try block, or the call of the queue, is rejected, having
\* had no effect or, when only its reply was lost, all of it.  (Before the job
\* is added a rejection is the same as one of adding it.)
RecipientFails ==
  /\ QueueFault
  /\ Moves("failMark")
  /\ \/ /\ worker.at \in {"add", "mark", "count"}
        /\ UNCHANGED <<queued, recipient, sent>>
     \/ /\ worker.at = "add"
        /\ queued' = queued + 1
        /\ UNCHANGED <<recipient, sent>>
     \/ /\ worker.at = "mark" /\ ~Gone
        /\ MarksSent
        /\ UNCHANGED <<queued, sent>>
     \/ /\ worker.at = "count" /\ ~Gone
        /\ sent' = sent + 1
        /\ UNCHANGED <<queued, recipient>>
  /\ UNCHANGED <<known, campaign, failed, runs, stopped, queuedAtStop, again>>

\* Of the other statements, what each has done when only its reply was lost.
TookEffect ==
  /\ ~Gone
  /\ \/ /\ worker.at = "refuse"
        /\ campaign' = "FAILED"
        /\ UNCHANGED <<recipient, failed, again>>
     \/ /\ worker.at = "failMark"
        /\ MarksFailed
        /\ UNCHANGED <<campaign, failed, again>>
     \/ /\ worker.at = "failCount"
        /\ failed' = failed + 1
        /\ UNCHANGED <<campaign, recipient, again>>
     \/ /\ worker.at = "finish"
        /\ campaign' = "COMPLETED"
        /\ again' = TRUE
        /\ UNCHANGED <<recipient, failed>>

\* A statement outside the try block is rejected: process() throws.
JobFails ==
  /\ QueueFault
  /\ worker.at \in {"waiting", "refuse", "check", "fetch", "failMark",
                   "failCount", "finish"}
  /\ JobThrows
  /\ TookEffect \/ UNCHANGED <<campaign, recipient, failed, again>>
  /\ UNCHANGED <<known, sent, ledger>>

\* Stalled once it is run again; more often, it is given up.
WorkerDies ==
  /\ QueueFault
  /\ worker.at \in InProcess
  /\ again' = (again \/ worker.at = "ack")
  /\ \E at \in {"waiting", "over"} : worker' = Idle(at)
  /\ UNCHANGED <<known, campaign, recipient, counters, runs, ledger>>

-----------------------------------------------------------------------------

QueueStep ==
  \/ TakeJob
  \/ Refuse
  \/ CheckCampaign
  \/ FetchBatch
  \/ PickRecipient
  \/ AddMessageJob
  \/ MarkSent
  \/ CountSent
  \/ MarkFailed
  \/ CountFailed
  \/ Finish
  \/ Acknowledge

QueueNext ==
  \/ QueueStep
  \/ \E status \in {"PAUSED", "CANCELLED"} : StopCampaign(status)
  \/ RemoveCampaign
  \/ RemoveProvider
  \/ RecipientFails
  \/ JobFails
  \/ WorkerDies

QueueSpec == QueueInit /\ [][QueueNext]_queueVars

\* A recipient is handed over and then marked and counted (campaign.processor
\* 115-151): what was handed over and not counted is the one at hand, one of
\* a deleted campaign, or goes back to a fault.  sentCount counts nobody who
\* is not SENT, but for one a fault: a reply lost by the statement that counts
\* makes the catch block turn the recipient into FAILED.  failedCount counts
\* nobody twice, whatever fails.
HandsOverOnce ==
  /\ queued <= sent + queueFaults
                 + (IF worker.at \in {"mark", "count"} \/ Gone THEN 1 ELSE 0)
  /\ sent <= Cardinality(WithStatus("SENT")) + queueFaults
  /\ failed <= Cardinality(WithStatus("FAILED"))

\* After a pause or a cancellation no more than a batch is handed over
\* (campaign.processor 55-64), unless the last update, which overwrites the
\* status, was not the end of the job: its reply was lost, or the worker died
\* after it.  Then the next run takes the recipients that are left.
QueueHeedsStop ==
  stopped /\ ~again => queued <= queuedAtStop + BatchSize
=============================================================================
