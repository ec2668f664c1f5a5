------------------------------ MODULE Campaign ------------------------------
(***************************************************************************)
(* One campaign of CampaignsService: the rows of tables campaigns and      *)
(* campaign_recipients, the HTTP requests that are being served, the       *)
(* executeCampaign calls that start() leaves running in the background,    *)
(* and the polling scheduler.                                              *)
(*                                                                         *)
(* The program is one Node process over a database.  Code between two      *)
(* awaits runs undisturbed, so every action below is one await: one        *)
(* database statement, or one call of the messaging provider, with the     *)
(* code up to the next one.                                                *)
(***************************************************************************)
EXTENDS Naturals, FiniteSets

CONSTANTS
  Contacts,             \* contacts that may be made recipients
  None,                 \* no contact
  Requests,             \* slots for requests served at the same time
  Executors,            \* one slot for each start() that may succeed
  BatchSize,            \* take: of findMany, 50 in the code
  ProviderRegistered,   \* providerRegistry.has(provider.type)
  Schedules,            \* what a request may give as scheduledAt
  MaxFaults             \* bound: database errors and process exits

ASSUME ConstantsAssumption ==
  /\ IsFiniteSet(Contacts) /\ None \notin Contacts
  /\ BatchSize \in Nat \ {0}
  /\ ProviderRegistered \in BOOLEAN
  /\ Schedules \subseteq {"none", "future"}
  /\ MaxFaults \in Nat

VARIABLES
  (* database *)
  status,         \* campaigns.status, or that there is no such row
  scheduledAt,    \* campaigns.scheduled_at against the clock
  total,          \* campaigns.total_recipients
  sentCount,      \* campaigns.sent_count
  failedCount,    \* campaigns.failed_count
  rcp,            \* campaign_recipients.status of each contact
  (* requests *)
  pc,             \* the await it is at: an operation's write, or adding rows
  todo,           \* addRecipients: rows not tried yet
  added,          \* addRecipients: rows created and not counted yet
  (* executeCampaign calls *)
  xpc,            \* the await it is at
  batch,          \* recipients of this batch not tried yet
  cur,            \* recipient being tried
  ok,             \* result.success for cur
  (* observation *)
  attempts,       \* provider calls made by each executor for each contact
  accepted,       \* contacts for which the provider once answered success
  late,           \* calls made by each executor since the campaign stopped
  faults          \* database errors and process exits so far

plan == <<scheduledAt, total>>
tally == <<sentCount, failedCount>>
db   == <<status, plan, tally, rcp>>
req  == <<pc, todo, added>>
exe  == <<xpc, batch, cur, ok>>
obs  == <<attempts, accepted, late>>
vars == <<db, req, exe, obs, faults>>

Stopping == {"PAUSED", "CANCELLED"}
Stored   == {"DRAFT", "SCHEDULED", "RUNNING", "COMPLETED"} \cup Stopping
Exists   == status \in Stored

\* Mutant: start() accepts whatever is not running, to allow a restart.
AcceptsRestart ==
      [ update |-> {"DRAFT", "SCHEDULED"},
        start  |-> Stored \ {"RUNNING"},
        pause  |-> {"RUNNING"},
        cancel |-> Stored \ {"COMPLETED", "CANCELLED"},
        remove |-> Stored \ {"RUNNING"} ]

\* The statuses under which each operation goes on after findOne(); under any
\* other it is refused and changes nothing.  The admin page's resume is
\* start() under another name.
Accepts ==
      [ update |-> {"DRAFT", "SCHEDULED"},
        start  |-> IF ProviderRegistered THEN {"DRAFT", "SCHEDULED"} ELSE {},
        pause  |-> {"RUNNING"},
        cancel |-> Stored \ {"COMPLETED", "CANCELLED"},
        remove |-> Stored \ {"RUNNING"} ]
Ops == DOMAIN Accepts

TypeOK ==
  /\ status \in Stored \cup {"ABSENT", "DELETED"}
  /\ scheduledAt \in {"none", "future", "due"}
  /\ total \in Nat /\ sentCount \in Nat /\ failedCount \in Nat
  /\ rcp \in [Contacts -> {"NONE", "PENDING", "SENT", "FAILED"}]
  /\ pc \in [Requests -> Ops \cup {"idle", "adding"}]
  /\ todo \in [Requests -> SUBSET Contacts]
  /\ added \in [Requests -> SUBSET Contacts]
  /\ xpc \in [Executors -> {"unused", "load", "check", "fetch", "send",
                            "record", "count", "catch", "catchCount",
                            "halted", "drained", "done", "dead"}]
  /\ batch \in [Executors -> SUBSET Contacts]
  /\ cur \in [Executors -> Contacts \cup {None}]
  /\ ok \in [Executors -> BOOLEAN]
  /\ attempts \in [Executors -> [Contacts -> Nat]]
  /\ accepted \in SUBSET Contacts
  /\ late \in [Executors -> Nat]
  /\ faults \in 0 .. MaxFaults

Init ==
  /\ status = "ABSENT"
  /\ scheduledAt = "none"
  /\ total = 0 /\ sentCount = 0 /\ failedCount = 0
  /\ rcp = [c \in Contacts |-> "NONE"]
  /\ pc = [r \in Requests |-> "idle"]
  /\ todo = [r \in Requests |-> {}]
  /\ added = [r \in Requests |-> {}]
  /\ xpc = [e \in Executors |-> "unused"]
  /\ batch = [e \in Executors |-> {}]
  /\ cur = [e \in Executors |-> None]
  /\ ok = [e \in Executors |-> FALSE]
  /\ attempts = [e \in Executors |-> [c \in Contacts |-> 0]]
  /\ accepted = {}
  /\ late = [e \in Executors |-> 0]
  /\ faults = 0

-----------------------------------------------------------------------------
(* Requests *)

Answer(r) ==
  /\ pc' = [pc EXCEPT ![r] = "idle"]
  /\ UNCHANGED <<todo, added>>

\* create(): the row gets the default status DRAFT, whether or not it is
\* scheduled, then addRecipients() runs when contacts were given.
Create(r, cs, at) ==
  /\ pc[r] = "idle" /\ status = "ABSENT"
  /\ status' = "DRAFT"
  /\ scheduledAt' = at
  /\ pc' = [pc EXCEPT ![r] = IF cs = {} THEN "idle" ELSE "adding"]
  /\ todo' = [todo EXCEPT ![r] = cs]
  /\ UNCHANGED <<total, tally, rcp, added, exe, obs, faults>>

\* findOne() and the status guard of update, start, pause, cancel, remove:
\* what they read is not looked at again before they write.
Begin(r, o) ==
  /\ pc[r] = "idle" /\ status \in Accepts[o]
  /\ pc' = [pc EXCEPT ![r] = o]
  /\ UNCHANGED <<db, todo, added, exe, obs, faults>>

\* A tick of checkScheduledCampaigns(): it starts what it finds, if anything.
SchedulerTick(r) ==
  /\ pc[r] = "idle"
  /\ LET found == status = "SCHEDULED" /\ scheduledAt = "due"
     IN  pc' = [pc EXCEPT ![r] =
                  IF found /\ status \in Accepts.start THEN "start" ELSE @]
  /\ UNCHANGED <<db, todo, added, exe, obs, faults>>

BecomeDue ==
  /\ scheduledAt = "future"
  /\ scheduledAt' = "due"
  /\ UNCHANGED <<status, total, tally, rcp, req, exe, obs, faults>>

\* An UPDATE of a row that is gone throws, and the request answers an error.
WriteGone(r) ==
  /\ pc[r] \in Ops /\ ~Exists
  /\ Answer(r)
  /\ UNCHANGED <<db, exe, obs, faults>>

WriteUpdate(r) ==
  /\ pc[r] = "update" /\ Exists
  /\ scheduledAt' \in {scheduledAt} \cup (Schedules \ {"none"})
  /\ Answer(r)
  /\ UNCHANGED <<status, total, tally, rcp, exe, obs, faults>>

\* The rest of start(): RUNNING is written whatever the status is by now, and
\* an executor is left running.
WriteStart(r, e) ==
  /\ pc[r] = "start" /\ Exists
  /\ xpc[e] = "unused"
  /\ status' = "RUNNING"
  /\ xpc' = [xpc EXCEPT ![e] = "load"]
  /\ Answer(r)
  /\ UNCHANGED <<plan, tally, rcp, batch, cur, ok, obs, faults>>

\* The rest of pause() and of cancel().
WriteStop(r) ==
  /\ pc[r] \in {"pause", "cancel"} /\ Exists
  /\ status' = IF pc[r] = "pause" THEN "PAUSED" ELSE "CANCELLED"
  /\ late' = IF status \in Stopping THEN late ELSE [e \in Executors |-> 0]
  /\ Answer(r)
  /\ UNCHANGED <<plan, tally, rcp, exe, attempts, accepted, faults>>

\* DELETE of the row: its recipients go with it (onDelete: Cascade).
RowGone ==
  /\ status' = "DELETED"
  /\ scheduledAt' = "none"
  /\ total' = 0 /\ sentCount' = 0 /\ failedCount' = 0
  /\ rcp' = [c \in Contacts |-> "NONE"]

WriteRemove(r) ==
  /\ pc[r] = "remove" /\ Exists
  /\ RowGone
  /\ Answer(r)
  /\ UNCHANGED <<exe, obs, faults>>

\* MessagingService.removeProvider() deletes the provider's campaigns too,
\* running or not.
RemoveProvider ==
  /\ Exists
  /\ RowGone
  /\ UNCHANGED <<req, exe, obs, faults>>

\* addRecipients(): findOne() and no guard on the status.
BeginAdd(r, cs) ==
  /\ pc[r] = "idle" /\ Exists
  /\ pc' = [pc EXCEPT ![r] = "adding"]
  /\ todo' = [todo EXCEPT ![r] = cs]
  /\ UNCHANGED <<db, added, exe, obs, faults>>

\* Mutant: upsert in place of create.
AnyRow(c) == Exists /\ c \in Contacts

NewRow(c) == Exists /\ rcp[c] = "NONE"

\* One of the creates of the Promise.all: a unique or foreign key error is
\* caught, and the contact is skipped.
AddRow(r, c) ==
  /\ pc[r] = "adding" /\ c \in todo[r]
  /\ todo' = [todo EXCEPT ![r] = @ \ {c}]
  /\ IF NewRow(c)
       THEN /\ rcp' = [rcp EXCEPT ![c] = "PENDING"]
            /\ added' = [added EXCEPT ![r] = @ \cup {c}]
       ELSE UNCHANGED <<rcp, added>>
  /\ UNCHANGED <<status, plan, tally, pc, exe, obs, faults>>

AddCount(r) ==
  /\ pc[r] = "adding" /\ todo[r] = {}
  /\ total' = IF Exists THEN total + Cardinality(added[r]) ELSE total
  /\ added' = [added EXCEPT ![r] = {}]
  /\ pc' = [pc EXCEPT ![r] = "idle"]
  /\ UNCHANGED <<status, scheduledAt, tally, rcp, todo, exe, obs, faults>>

-----------------------------------------------------------------------------
(* executeCampaign *)

Goto(e, p) == xpc' = [xpc EXCEPT ![e] = p]

\* The process ends: requests and executors are gone, the database stays.  A
\* supervisor starts it again; nothing looks for campaigns left RUNNING.
ProcessExits ==
  /\ pc' = [r \in Requests |-> "idle"]
  /\ todo' = [r \in Requests |-> {}]
  /\ added' = [r \in Requests |-> {}]
  /\ xpc' = [e \in Executors |->
               IF xpc[e] \in {"unused", "done"} THEN xpc[e] ELSE "dead"]
  /\ batch' = [e \in Executors |-> {}]
  /\ cur' = [e \in Executors |-> None]
  /\ ok' = [e \in Executors |-> FALSE]

\* Nobody awaits executeCampaign(), so an error it throws is an unhandled
\* rejection, and that ends a Node process.
ExecThrows(e) ==
  /\ ~Exists /\ xpc[e] \in {"catch", "catchCount", "halted", "drained"}
  /\ ProcessExits
  /\ UNCHANGED <<db, obs, faults>>

ExecLoad(e) ==
  /\ xpc[e] = "load"
  /\ Goto(e, IF Exists THEN "check" ELSE "done")
  /\ UNCHANGED <<db, req, batch, cur, ok, obs, faults>>

\* Mutant: the loop is left for PAUSED only.
PauseSeen == ~Exists \/ status = "PAUSED"

StopSeen == ~Exists \/ status \in Stopping

\* Top of the loop: the only place where the status is looked at.
ExecCheck(e) ==
  /\ xpc[e] = "check"
  /\ Goto(e, IF StopSeen THEN "halted" ELSE "fetch")
  /\ UNCHANGED <<db, req, batch, cur, ok, obs, faults>>

\* Mutant: failed recipients are fetched again.
Unsent == {c \in Contacts : rcp[c] \in {"PENDING", "FAILED"}}

Pending == {c \in Contacts : rcp[c] = "PENDING"}

\* Mutants: return in place of break; a partial batch taken for the end.
ReturnIfEmpty(b)  == IF b = {} THEN "done" ELSE "send"
BreakIfPartial(b) == IF Cardinality(b) < BatchSize THEN "drained" ELSE "send"

BreakIfEmpty(b) == IF b = {} THEN "drained" ELSE "send"

\* findMany(PENDING, take: BatchSize), in no particular order.
ExecFetch(e) ==
  /\ xpc[e] = "fetch"
  /\ \E b \in SUBSET Pending :
       /\ Cardinality(b) = IF Cardinality(Pending) < BatchSize
                             THEN Cardinality(Pending) ELSE BatchSize
       /\ batch' = [batch EXCEPT ![e] = b]
       /\ Goto(e, BreakIfEmpty(b))
  /\ UNCHANGED <<db, req, cur, ok, obs, faults>>

\* The provider call: it answers, it does not throw.
ExecSend(e, c) ==
  /\ xpc[e] = "send" /\ c \in batch[e]
  /\ batch' = [batch EXCEPT ![e] = @ \ {c}]
  /\ cur' = [cur EXCEPT ![e] = c]
  /\ \E success \in BOOLEAN :
       /\ ok' = [ok EXCEPT ![e] = success]
       /\ accepted' = IF success THEN accepted \cup {c} ELSE accepted
  /\ attempts' = [attempts EXCEPT ![e][c] = @ + 1]
  /\ late' = IF status \in Stopping THEN [late EXCEPT ![e] = @ + 1] ELSE late
  /\ Goto(e, "record")
  /\ UNCHANGED <<db, req, faults>>

\* Mutants: result.success is not looked at; a status no reader knows.
AlwaysSent(e) == IF ok[e] THEN "SENT" ELSE "SENT"
Accepted(e)   == IF ok[e] THEN "ACCEPTED" ELSE "FAILED"

Outcome(e) == IF ok[e] THEN "SENT" ELSE "FAILED"

NextRecipient(e) ==
  /\ Goto(e, IF batch[e] = {} THEN "check" ELSE "send")
  /\ cur' = [cur EXCEPT ![e] = None]
  /\ ok' = [ok EXCEPT ![e] = FALSE]

ExecRecord(e) ==
  /\ xpc[e] = "record"
  /\ IF Exists THEN /\ rcp' = [rcp EXCEPT ![cur[e]] = Outcome(e)]
                    /\ Goto(e, "count")
               ELSE /\ Goto(e, "catch")
                    /\ UNCHANGED rcp
  /\ UNCHANGED <<status, plan, tally, req, batch, cur, ok, obs, faults>>

\* Mutant: failures are not counted.
CountSuccess(e) ==
  /\ sentCount' = IF ok[e] THEN sentCount + 1 ELSE sentCount
  /\ failedCount' = failedCount

CountOutcome(e) ==
  /\ sentCount' = IF ok[e] THEN sentCount + 1 ELSE sentCount
  /\ failedCount' = IF ok[e] THEN failedCount ELSE failedCount + 1

ExecCount(e) ==
  /\ xpc[e] = "count"
  /\ IF Exists
       THEN /\ CountOutcome(e)
            /\ NextRecipient(e)
       ELSE /\ Goto(e, "catch")
            /\ UNCHANGED <<tally, cur, ok>>
  /\ UNCHANGED <<status, plan, rcp, req, batch, obs, faults>>

ExecCatch(e) ==
  /\ xpc[e] = "catch" /\ Exists
  /\ rcp' = [rcp EXCEPT ![cur[e]] = "FAILED"]
  /\ Goto(e, "catchCount")
  /\ UNCHANGED <<status, plan, tally, req, batch, cur, ok, obs, faults>>

ExecCatchCount(e) ==
  /\ xpc[e] = "catchCount" /\ Exists
  /\ failedCount' = failedCount + 1
  /\ NextRecipient(e)
  /\ UNCHANGED <<status, plan, sentCount, rcp, req, batch, obs, faults>>

\* After the loop, however it ended: COMPLETED.
ExecComplete(e) ==
  /\ xpc[e] \in {"halted", "drained"} /\ Exists
  /\ status' = "COMPLETED"
  /\ Goto(e, "done")
  /\ UNCHANGED <<plan, tally, rcp, req, batch, cur, ok, obs, faults>>

-----------------------------------------------------------------------------
(* Faults, MaxFaults of them *)

Fault == faults < MaxFaults /\ faults' = faults + 1

Crash ==
  /\ Fault /\ ProcessExits
  /\ UNCHANGED <<db, obs>>

\* The statement of a request fails; nothing was written.
RequestFails(r) ==
  /\ Fault
  /\ \/ pc[r] \in Ops
     \/ pc[r] = "adding" /\ todo[r] = {}
  /\ pc' = [pc EXCEPT ![r] = "idle"]
  /\ added' = [added EXCEPT ![r] = {}]
  /\ UNCHANGED <<db, todo, exe, obs>>

\* start() writes RUNNING, the connection breaks before the reply, and
\* executeCampaign() is not called.
StartReplyLost(r) ==
  /\ Fault /\ pc[r] = "start" /\ Exists
  /\ status' = "RUNNING"
  /\ Answer(r)
  /\ UNCHANGED <<plan, tally, rcp, exe, obs>>

\* A create of addRecipients() fails, after the row was written or before:
\* the contact is counted as skipped.
AddRowFails(r, c) ==
  /\ Fault /\ pc[r] = "adding" /\ c \in todo[r]
  /\ todo' = [todo EXCEPT ![r] = @ \ {c}]
  /\ rcp' \in {rcp, [rcp EXCEPT ![c] = IF NewRow(c) THEN "PENDING" ELSE @]}
  /\ UNCHANGED <<status, plan, tally, pc, added, exe, obs>>

\* A statement of the try block fails, after it took effect or before.
ExecRecordFails(e) ==
  /\ Fault /\ xpc[e] = "record" /\ Exists
  /\ rcp' \in {rcp, [rcp EXCEPT ![cur[e]] = Outcome(e)]}
  /\ Goto(e, "catch")
  /\ UNCHANGED <<status, plan, tally, req, batch, cur, ok, obs>>

ExecCountFails(e) ==
  /\ Fault /\ xpc[e] = "count" /\ Exists
  /\ UNCHANGED tally \/ CountOutcome(e)
  /\ Goto(e, "catch")
  /\ UNCHANGED <<status, plan, rcp, req, batch, cur, ok, obs>>

-----------------------------------------------------------------------------

RequestStep(r) ==
  \/ WriteGone(r)
  \/ WriteUpdate(r)
  \/ \E e \in Executors : WriteStart(r, e)
  \/ WriteStop(r)
  \/ WriteRemove(r)
  \/ \E c \in Contacts : AddRow(r, c)
  \/ AddCount(r)

ExecStep(e) ==
  \/ ExecThrows(e)
  \/ ExecLoad(e)
  \/ ExecCheck(e)
  \/ ExecFetch(e)
  \/ \E c \in Contacts : ExecSend(e, c)
  \/ ExecRecord(e)
  \/ ExecCount(e)
  \/ ExecCatch(e)
  \/ ExecCatchCount(e)
  \/ ExecComplete(e)

Ask(r) ==
  \/ \E cs \in SUBSET Contacts, at \in Schedules : Create(r, cs, at)
  \/ \E o \in Ops : Begin(r, o)
  \/ \E cs \in SUBSET Contacts : BeginAdd(r, cs)

FaultStep ==
  \/ Crash
  \/ \E r \in Requests :
       \/ RequestFails(r)
       \/ StartReplyLost(r)
       \/ \E c \in Contacts : AddRowFails(r, c)
  \/ \E e \in Executors :
       \/ ExecRecordFails(e)
       \/ ExecCountFails(e)

Next ==
  \/ \E r \in Requests : Ask(r) \/ SchedulerTick(r) \/ RequestStep(r)
  \/ \E e \in Executors : ExecStep(e)
  \/ BecomeDue
  \/ RemoveProvider
  \/ FaultStep

Spec == Init /\ [][Next]_vars

\* A handler that was called runs to its end, an executor too, the scheduler
\* keeps ticking and time passes.  Users and faults owe nothing.
Fairness ==
  /\ \A r \in Requests : WF_vars(RequestStep(r)) /\ WF_vars(SchedulerTick(r))
  /\ \A e \in Executors : WF_vars(ExecStep(e))
  /\ WF_vars(BecomeDue)

FairSpec == Spec /\ Fairness

-----------------------------------------------------------------------------
(* Properties *)

Live(e) == xpc[e] \notin {"unused", "done", "dead"}
Busy(e) == xpc[e] \in {"record", "count", "catch", "catchCount"}
Calls   == {p \in Executors \X Contacts : attempts[p[1]][p[2]] > 0}
StartedOnce ==
  \A e, x \in Executors : xpc[e] # "unused" /\ xpc[x] # "unused" => e = x

\* One start() never sends to the same contact twice, whatever fails and
\* whatever else runs: executeCampaign() takes a recipient out of PENDING
\* before it reads a batch again.
OncePerStart ==
  \A e \in Executors, c \in Contacts : attempts[e][c] <= 1

\* Why OncePerStart holds, as an inductive invariant: a batch holds enrolled
\* recipients the executor has not tried, and a recipient it has tried is out
\* of PENDING before the executor can fetch again.
Tried(e, c)   == attempts[e][c] > 0
FreshStart    == \A e \in Executors : xpc[e] = "unused" =>
                   batch[e] = {} /\ \A c \in Contacts : ~Tried(e, c)
NothingBefore == status = "ABSENT" => \A e \in Executors : xpc[e] = "unused"
BatchUntried  == \A e \in Executors : \A c \in batch[e] :
                   ~Tried(e, c) /\ (Exists => rcp[c] # "NONE")
CurrentTried  == \A e \in Executors :
                   Busy(e) => cur[e] \in Contacts /\ Tried(e, cur[e])
TriedEnrolled == Exists => \A e \in Executors, c \in Contacts :
                   Tried(e, c) => rcp[c] # "NONE"
TriedSettled  == \A e \in Executors, c \in Contacts :
                   (Tried(e, c) /\ rcp[c] = "PENDING") =>
                     \/ xpc[e] = "dead"
                     \/ xpc[e] \in {"record", "catch"} /\ cur[e] = c
DispatchInv ==
  /\ OncePerStart
  /\ FreshStart
  /\ NothingBefore
  /\ BatchUntried
  /\ CurrentTried
  /\ TriedEnrolled
  /\ TriedSettled

\* A recipient shown SENT was acknowledged by the provider; one shown FAILED
\* was not, unless a statement failed or the campaign was started twice.
RowsTellTheTruth ==
  \A c \in Contacts :
    /\ rcp[c] = "SENT" => c \in accepted
    /\ (rcp[c] = "FAILED" /\ faults = 0 /\ StartedOnce) => c \notin accepted

\* sentCount + failedCount is the number of provider calls, less those not
\* counted yet, even when two executors work on the same recipients.
CountsBalance ==
  (faults = 0 /\ Exists) =>
    sentCount + failedCount + Cardinality({e \in Executors : Busy(e)})
      = Cardinality(Calls)

\* totalRecipients counts the rows: concurrent addRecipients() calls count a
\* contact once, in the call whose create won, and no call counts a row twice.
TotalMatchesRows ==
  LET rows      == {c \in Contacts : rcp[c] # "NONE"}
      uncounted == UNION {added[r] : r \in Requests}
      known     == total + Cardinality(uncounted)
  IN  Exists => /\ known <= Cardinality(rows)
                /\ faults = 0 => known = Cardinality(rows)

\* A RUNNING campaign has an executor that will end it, however starts,
\* pauses, cancels and completions overtake one another: only a fault leaves
\* it RUNNING for ever.
RunningHasExecutor ==
  (status = "RUNNING" /\ faults = 0) => \E e \in Executors : Live(e)

\* pause() and cancel() take effect within a batch: an executor makes at most
\* BatchSize more calls while the campaign stays paused or cancelled.
StopsWithinOneBatch == \A e \in Executors : late[e] <= BatchSize

\* Every behaviour of the campaign is one of the ledger: enrolled once, called
\* at most once for each start(), settled only after a call and for good.
Ledger == INSTANCE DispatchLedger WITH
  Tickets <- Executors,
  phase   <- IF Exists THEN "OPEN" ELSE status,
  issued  <- {e \in Executors : xpc[e] # "unused"},
  book    <- rcp,
  calls   <- attempts
KeepsLedger == Ledger!Spec

\* An ended campaign is not revived: once it is completed or cancelled and no
\* start or pause that passed its guard before is still to write, it is never
\* run or paused again, only deleted.
Settled ==
  /\ status \in {"COMPLETED", "CANCELLED", "DELETED"}
  /\ \A r \in Requests : pc[r] \notin {"start", "pause"}
NeverRevived == [][Settled => Settled']_vars

\* A running campaign comes to an end, unless there is a fault.  (With one it
\* may not: the reply of start() is lost and no executor runs.)
RunningEnds == status = "RUNNING" ~> status # "RUNNING" \/ faults > 0

\* A recipient still pending when an executor reads a batch is tried, by it or
\* another, unless that executor sees the campaign paused, cancelled or gone,
\* or dies: whatever else fails, its loop goes on.
PendingIsTried ==
  \A e \in Executors, c \in Contacts :
    (xpc[e] = "fetch" /\ rcp[c] = "PENDING")
      ~> (rcp[c] # "PENDING" \/ xpc[e] \in {"halted", "dead"})

\* What cancel() and pause() are said to do: a stopped campaign is never
\* reported as completed.  The executor that sees the stop writes COMPLETED.
StoppedIsNotCompleted ==
  [][(status \in Stopping) => (status' # "COMPLETED")]_vars

\* What scheduling is said to do: a campaign that is due leaves DRAFT.
DueCampaignStarts ==
  (status = "DRAFT" /\ scheduledAt = "due") ~> status # "DRAFT"
=============================================================================
