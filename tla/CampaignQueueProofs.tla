------------------------- MODULE CampaignQueueProofs -------------------------
(***************************************************************************)
(* What holds of CampaignQueue for every set of recipients, size of the    *)
(* batch, number of attempts and of faults.  What is handed over is        *)
(* compared with what is counted by how far the worker is (Slack), and     *)
(* with what it had handed over at the stop by what is left of its batch   *)
(* (Todo).                                                                 *)
(***************************************************************************)
EXTENDS CampaignQueue, FiniteSetTheorems, TLAPS

AtOne == {"add", "mark", "count", "failMark", "failCount"}

\* The worker's batch, and the recipient it is at.
QueueShape ==
  /\ worker.at # "over" => runs < Attempts
  /\ worker.at \notin AtOne => worker.with = {}
  /\ worker.at \notin AtOne \cup {"pick"} => worker.left = {}
  /\ worker.at \in AtOne => \E r \in worker.left : worker.with = {r}
  /\ Cardinality(worker.left) <= BatchSize
  /\ worker.at \in {"pick", "add", "mark"} =>
       \A r \in worker.left : recipient[r] = "PENDING"
  /\ \A r \in worker.left \ worker.with : recipient[r] = "PENDING"
  /\ worker.at = "count" => \A r \in worker.with : recipient[r] = "SENT"
  /\ worker.at = "failCount" => \A r \in worker.with : recipient[r] = "FAILED"

\* The loop is entered with a registered provider only.
Served ==
  /\ worker.at \in InProcess \ {"refuse", "ack"} => known
  /\ worker.at = "refuse" => ~known

\* Whom the counts stand for.
Counted(status) == WithStatus(status) \ worker.with

Slack == IF \/ worker.at \in {"mark", "count"}
            \/ Gone /\ worker.at \notin {"pick", "add"}
         THEN 1 ELSE 0

\* Who is still to be handed over, and how many at most.
Remaining == IF worker.at = "add" THEN worker.left
             ELSE worker.left \ worker.with
Todo == IF worker.at = "fetch" THEN BatchSize ELSE Cardinality(Remaining)

HeldBack ==
  stopped /\ ~again =>
    /\ campaign \in StopsLoop \/ worker.at \in {"ack", "over"} \/ ~known
    /\ queued + Todo <= queuedAtStop + BatchSize

QueueInv ==
  /\ QueueTypeOK
  /\ QueueShape
  /\ Served
  /\ sent <= Cardinality(Counted("SENT")) + queueFaults
  /\ failed <= Cardinality(Counted("FAILED"))
  /\ queued <= sent + queueFaults + Slack
  /\ HeldBack

USE DEF Gone

-----------------------------------------------------------------------------

LEMMA SetsAreFinite ==
  ASSUME NEW S \in SUBSET Recipients
  PROVE  IsFiniteSet(S) /\ Cardinality(S) \in Nat
BY FS_Subset, FS_CardinalityType, QueueAssumption

-----------------------------------------------------------------------------
(* Types *)

LEMMA IdleType ==
  ASSUME NEW at \in InProcess \cup {"waiting", "over"}
  PROVE  Idle(at) \in Worker
BY DEF Idle, Worker

LEMMA MovesType ==
  ASSUME QueueTypeOK, NEW at \in InProcess \cup {"waiting", "over"}, Moves(at)
  PROVE  worker' \in Worker
BY DEF QueueTypeOK, Moves, Worker

LEMMA LeftType ==
  ASSUME NEW at \in InProcess, NEW left \in SUBSET Recipients
  PROVE  [Idle(at) EXCEPT !.left = left] \in Worker
BY DEF Idle, Worker

LEMMA MovesWorker ==
  ASSUME QueueTypeOK, NEW at, Moves(at)
  PROVE  /\ worker'.at = at
         /\ worker'.left = worker.left /\ worker'.with = worker.with
BY DEF QueueTypeOK, Moves, Worker

LEMMA PickType ==
  ASSUME QueueTypeOK, PickRecipient
  PROVE  /\ worker' \in Worker /\ worker'.at \in {"add", "failMark"}
         /\ worker'.at = "failMark" => Gone
         /\ worker'.left = worker.left
         /\ \E r \in worker.left : worker'.with = {r}
<1>. DEFINE at == IF campaign = "DROPPED" THEN "failMark" ELSE "add"
<1>1. PICK r \in worker.left :
        worker' = [worker EXCEPT !.at = at, !.with = {r}]
  BY DEF PickRecipient
<1>2. worker \in Worker
  BY DEF QueueTypeOK
<1>3. worker' = [at |-> at, left |-> worker.left, with |-> {r}]
  BY <1>1, <1>2 DEF Worker
<1>4. {r} \in SUBSET Recipients /\ worker.left \in SUBSET Recipients
  BY <1>2 DEF Worker
<1>5. worker' \in Worker
  BY <1>3, <1>4 DEF Worker, InProcess
<1>. QED
  BY <1>1, <1>3, <1>5

LEMMA BecomesType ==
  ASSUME QueueTypeOK, NEW status \in {"PENDING", "SENT", "FAILED"},
         \A r \in worker.with : Becomes(r, status),
         \E r \in worker.left : worker.with = {r}
  PROVE  /\ recipient' \in [Recipients -> {"PENDING", "SENT", "FAILED"}]
         /\ \A r \in worker.with : recipient'[r] = status
         /\ \A r \in Recipients \ worker.with : recipient'[r] = recipient[r]
<1>1. PICK r \in worker.left : worker.with = {r}
  OBVIOUS
<1>2. recipient' = [recipient EXCEPT ![r] = status] /\ r \in Recipients
  BY <1>1 DEF Becomes, QueueTypeOK, Worker
<1>. QED
  BY <1>1, <1>2 DEF QueueTypeOK

LEMMA JobThrowsType ==
  ASSUME QueueTypeOK, JobThrows, runs < Attempts
  PROVE  /\ runs' \in 0 .. Attempts /\ worker' \in Worker
         /\ worker'.at \in {"waiting", "over"}
         /\ worker'.at = "waiting" => runs' < Attempts
         /\ worker'.left = {} /\ worker'.with = {}
<1>1. runs' \in 0 .. Attempts
  BY QueueAssumption DEF QueueTypeOK, JobThrows
<1>2. \/ worker' = Idle("waiting") /\ runs' < Attempts
      \/ worker' = Idle("over")
  BY DEF JobThrows
<1>. QED
  BY <1>1, <1>2, IdleType DEF Idle

LEMMA NextRecipientType ==
  ASSUME QueueTypeOK, NextRecipient
  PROVE  /\ worker' \in Worker /\ worker'.at \in {"check", "pick"}
         /\ worker'.left = worker.left \ worker.with /\ worker'.with = {}
         /\ worker'.at = "check" => worker'.left = {}
<1>. DEFINE rest == worker.left \ worker.with
<1>1. rest \in SUBSET Recipients
  BY DEF QueueTypeOK, Worker
<1>2. \/ worker' = [Idle("check") EXCEPT !.left = rest] /\ rest = {}
      \/ worker' = [Idle("pick") EXCEPT !.left = rest]
  BY DEF NextRecipient
<1>. HIDE DEF rest
<1>3. worker' \in Worker
  BY <1>1, <1>2, LeftType DEF InProcess
<1>4. \/ worker' = [at |-> "check", left |-> rest, with |-> {}] /\ rest = {}
      \/ worker' = [at |-> "pick", left |-> rest, with |-> {}]
  BY <1>2 DEF Idle
<1>. QED
  BY <1>3, <1>4 DEF rest

-----------------------------------------------------------------------------
(* The parts of the invariant *)

LEMMA QueueInitially == QueueInit => QueueInv
<1>. SUFFICES ASSUME QueueInit PROVE QueueInv
  OBVIOUS
<1>1. worker = [at |-> "waiting", left |-> {}, with |-> {}]
  BY DEF QueueInit, Idle
<1>2. QueueTypeOK
  <2>1. worker \in Worker
    BY IdleType DEF QueueInit
  <2>2. 0 \in 0 .. Attempts /\ 0 \in 0 .. MaxQueueFaults
    BY QueueAssumption
  <2>3. recipient \in [Recipients -> {"PENDING", "SENT", "FAILED"}]
    BY DEF QueueInit
  <2>. QED
    BY <2>1, <2>2, <2>3 DEF QueueInit, QueueTypeOK
<1>3. Cardinality({}) = 0
  BY FS_EmptySet
<1>4. QueueShape
  BY <1>1, <1>3, QueueAssumption DEF QueueInit, QueueShape, AtOne
<1>5. /\ Cardinality(Counted("SENT")) \in Nat
      /\ Cardinality(Counted("FAILED")) \in Nat
  BY SetsAreFinite DEF Counted, WithStatus
<1>6. /\ Slack = 0 /\ sent = 0 /\ failed = 0 /\ queued = 0
      /\ queueFaults = 0 /\ ~stopped
  BY <1>1 DEF QueueInit, Slack
<1>7. /\ sent <= Cardinality(Counted("SENT")) + queueFaults
      /\ failed <= Cardinality(Counted("FAILED"))
      /\ queued <= sent + queueFaults + Slack
  BY <1>5, <1>6
<1>8. Served
  BY <1>1 DEF Served, InProcess
<1>. QED
  BY <1>2, <1>4, <1>6, <1>7, <1>8 DEF QueueInv, HeldBack

LEMMA QueueTypeStep ==
  ASSUME QueueTypeOK, QueueShape, [QueueNext]_queueVars
  PROVE  QueueTypeOK'
<1>. USE DEF QueueTypeOK
<1>1. worker.at # "over" => runs < Attempts
  BY DEF QueueShape
<1>2. worker.at \in AtOne => \E r \in worker.left : worker.with = {r}
  BY DEF QueueShape
<1>3. CASE TakeJob
  <2>1. worker' \in Worker
    BY <1>3, MovesType DEF TakeJob, InProcess
  <2>. QED
    BY <1>3, <2>1 DEF TakeJob, counters, ledger
<1>4. CASE CheckCampaign
  <2>1. worker' \in Worker
    BY <1>4, MovesType DEF CheckCampaign, InProcess
  <2>. QED
    BY <1>4, <2>1 DEF CheckCampaign, counters, ledger
<1>5. CASE FetchBatch
  <2>1. PICK batch \in SUBSET Recipients :
          worker' = [Idle(IF batch = {} THEN "finish" ELSE "pick")
                       EXCEPT !.left = batch]
    BY <1>5 DEF FetchBatch
  <2>2. worker' \in Worker
    BY <2>1, LeftType DEF InProcess
  <2>. QED
    BY <1>5, <2>2 DEF FetchBatch, counters, ledger
<1>6. CASE PickRecipient
  <2>1. worker' \in Worker
    BY <1>6, PickType
  <2>. QED
    BY <1>6, <2>1 DEF PickRecipient, counters, ledger
<1>7. CASE AddMessageJob
  <2>1. worker' \in Worker
    BY <1>7, MovesType DEF AddMessageJob, InProcess
  <2>. QED
    BY <1>7, <2>1 DEF AddMessageJob, counters
<1>8. CASE MarkSent
  <2>1. worker' \in Worker
    BY <1>8, MovesType DEF MarkSent, InProcess
  <2>2. recipient' \in [Recipients -> {"PENDING", "SENT", "FAILED"}]
    BY <1>2, <1>8, BecomesType DEF MarkSent, MarksSent, AtOne
  <2>. QED
    BY <1>8, <2>1, <2>2 DEF MarkSent, counters, ledger
<1>9. CASE CountSent
  <2>1. worker' \in Worker
    BY <1>9, MovesType, NextRecipientType DEF CountSent, InProcess
  <2>2. sent' \in Nat
    BY <1>9 DEF CountSent
  <2>. QED
    BY <1>9, <2>1, <2>2 DEF CountSent, ledger
<1>10. CASE MarkFailed
  <2>1. worker' \in Worker /\ runs' \in 0 .. Attempts
    BY <1>1, <1>10, MovesType, JobThrowsType DEF MarkFailed, InProcess
  <2>2. recipient' \in [Recipients -> {"PENDING", "SENT", "FAILED"}]
    BY <1>2, <1>10, BecomesType DEF MarkFailed, MarksFailed, AtOne
  <2>. QED
    BY <1>10, <2>1, <2>2 DEF MarkFailed, counters, ledger
<1>11. CASE CountFailed
  <2>1. worker' \in Worker /\ runs' \in 0 .. Attempts
    BY <1>1, <1>11, NextRecipientType, JobThrowsType DEF CountFailed
  <2>2. failed' \in Nat
    BY <1>11 DEF CountFailed
  <2>. QED
    BY <1>11, <2>1, <2>2 DEF CountFailed, ledger
<1>12. CASE Finish \/ Refuse
  <2>1. worker' \in Worker /\ runs' \in 0 .. Attempts
    BY <1>1, <1>12, MovesType, JobThrowsType DEF Finish, Refuse, InProcess
  <2>. QED
    BY <1>12, <2>1 DEF Finish, Refuse, counters, ledger
<1>13. CASE Acknowledge
  <2>1. worker' \in Worker
    BY <1>13, MovesType DEF Acknowledge
  <2>. QED
    BY <1>13, <2>1 DEF Acknowledge, counters, ledger
<1>14. ASSUME NEW status \in {"PAUSED", "CANCELLED"}, StopCampaign(status)
       PROVE  QueueTypeOK'
  BY <1>14 DEF StopCampaign, counters
<1>15. CASE RemoveCampaign \/ RemoveProvider
  BY <1>15 DEF RemoveCampaign, RemoveProvider, counters, ledger
<1>16. QueueFault => queueFaults' \in 0 .. MaxQueueFaults
  BY QueueAssumption DEF QueueFault
<1>17. CASE RecipientFails
  <2>1. worker' \in Worker
    BY <1>17, MovesType DEF RecipientFails, InProcess
  <2>2. recipient' \in [Recipients -> {"PENDING", "SENT", "FAILED"}]
    BY <1>2, <1>17, BecomesType DEF RecipientFails, MarksSent, AtOne
  <2>3. sent' \in Nat /\ queued' \in Nat
    BY <1>17 DEF RecipientFails
  <2>. QED
    BY <1>16, <1>17, <2>1, <2>2, <2>3 DEF RecipientFails
<1>18. CASE JobFails
  <2>1. worker' \in Worker /\ runs' \in 0 .. Attempts
    BY <1>1, <1>18, JobThrowsType DEF JobFails
  <2>2. recipient' \in [Recipients -> {"PENDING", "SENT", "FAILED"}]
    BY <1>2, <1>18, BecomesType DEF JobFails, TookEffect, MarksFailed, AtOne
  <2>3. failed' \in Nat /\ campaign' \in {campaign, "FAILED", "COMPLETED"}
    BY <1>18 DEF JobFails, TookEffect
  <2>4. again' = again \/ again' = TRUE
    BY <1>18 DEF JobFails, TookEffect
  <2>5. again' \in BOOLEAN
    BY <2>4, Zenon
  <2>. QED
    BY <1>16, <1>18, <2>1, <2>2, <2>3, <2>5 DEF JobFails, ledger
<1>19. CASE WorkerDies
  <2>1. worker' \in Worker
    BY <1>19, IdleType DEF WorkerDies
  <2>2. again' \in BOOLEAN
    BY <1>19, Zenon DEF WorkerDies
  <2>. QED
    BY <1>16, <1>19, <2>1, <2>2 DEF WorkerDies, counters, ledger
<1>20. CASE UNCHANGED queueVars
  BY <1>20 DEF queueVars, counters, ledger
<1>. QED
  BY <1>3, <1>4, <1>5, <1>6, <1>7, <1>8, <1>9, <1>10, <1>11, <1>12, <1>13,
     <1>14, <1>15, <1>17, <1>18, <1>19, <1>20
  DEF QueueNext, QueueStep

\* Nobody is at hand, and there is no batch.
LEMMA RestedShape ==
  ASSUME worker'.left = {}, worker'.with = {},
         worker'.at \notin AtOne \cup {"pick"},
         worker'.at # "over" => runs' < Attempts
  PROVE  QueueShape'
<1>1. Cardinality({}) = 0
  BY FS_EmptySet
<1>. QED
  BY <1>1, QueueAssumption DEF QueueShape, AtOne

\* The worker stays at the recipient.
LEMMA SameHandShape ==
  ASSUME QueueShape, worker.at \in AtOne, worker'.at \in AtOne,
         worker'.left = worker.left, worker'.with = worker.with,
         runs' = runs,
         \A r \in worker.left \ worker.with : recipient'[r] = recipient[r],
         worker'.at \in {"add", "mark"} =>
           worker.at \in {"add", "mark"} /\ recipient' = recipient,
         worker'.at = "count" =>
           \A r \in worker.with : recipient'[r] = "SENT",
         worker'.at = "failCount" =>
           \A r \in worker.with : recipient'[r] = "FAILED"
  PROVE  QueueShape'
BY DEF QueueShape, AtOne

\* Nothing changes that the shape speaks of.
LEMMA SameShape ==
  ASSUME QueueShape, UNCHANGED <<worker, recipient, runs>>
  PROVE  QueueShape'
BY DEF QueueShape

LEMMA NextRecipientShape ==
  ASSUME QueueTypeOK, QueueShape, NextRecipient, worker.at \in AtOne,
         UNCHANGED <<recipient, runs>>
  PROVE  QueueShape'
<1>1. /\ worker'.at \in {"check", "pick"} /\ worker'.with = {}
      /\ worker'.left = worker.left \ worker.with
      /\ worker'.at = "check" => worker'.left = {}
  BY NextRecipientType
<1>2. worker.left \in SUBSET Recipients
  BY DEF QueueTypeOK, Worker
<1>3. IsFiniteSet(worker.left) /\ worker'.left \in SUBSET worker.left
  BY <1>1, <1>2, SetsAreFinite
<1>4. /\ Cardinality(worker'.left) <= Cardinality(worker.left)
      /\ Cardinality(worker'.left) \in Nat
      /\ Cardinality(worker.left) \in Nat
  BY <1>3, FS_Subset, FS_CardinalityType
<1>5. Cardinality(worker'.left) <= BatchSize
  BY <1>4, QueueAssumption DEF QueueShape
<1>6. \A r \in worker'.left : recipient'[r] = "PENDING"
  BY <1>1 DEF QueueShape
<1>7. worker'.at # "over" => runs' < Attempts
  BY <1>1 DEF QueueShape, AtOne
<1>. QED
  BY <1>1, <1>5, <1>6, <1>7 DEF QueueShape, AtOne

LEMMA ShapeStep ==
  ASSUME QueueTypeOK, QueueShape, [QueueNext]_queueVars
  PROVE  QueueShape'
<1>1. worker.at # "over" => runs < Attempts
  BY DEF QueueShape
<1>2. worker.at \in AtOne => \E r \in worker.left : worker.with = {r}
  BY DEF QueueShape
<1>3. worker.at \notin AtOne \cup {"pick"} =>
        worker.left = {} /\ worker.with = {}
  BY DEF QueueShape, AtOne
<1>4. JobThrows /\ worker.at # "over" => QueueShape'
  BY <1>1, JobThrowsType, RestedShape DEF AtOne
<1>5. CASE TakeJob
  BY <1>1, <1>3, <1>5, MovesWorker, RestedShape DEF TakeJob, AtOne
<1>6. CASE CheckCampaign
  BY <1>1, <1>3, <1>6, MovesWorker, RestedShape DEF CheckCampaign, AtOne
<1>7. CASE FetchBatch
  <2>1. PICK batch \in SUBSET Recipients :
          /\ IsBatch(batch)
          /\ worker' = [Idle(IF batch = {} THEN "finish" ELSE "pick")
                          EXCEPT !.left = batch]
    BY <1>7 DEF FetchBatch
  <2>2. /\ worker'.at = (IF batch = {} THEN "finish" ELSE "pick")
        /\ worker'.left = batch /\ worker'.with = {}
    BY <2>1 DEF Idle
  <2>3. /\ \A r \in batch : recipient[r] = "PENDING"
        /\ Cardinality(batch) <= BatchSize
    BY <2>1 DEF IsBatch, WithStatus
  <2>4. runs' = runs /\ recipient' = recipient /\ worker.at = "fetch"
    BY <1>7 DEF FetchBatch
  <2>. QED
    BY <1>1, <2>2, <2>3, <2>4 DEF QueueShape, AtOne
<1>8. CASE PickRecipient
  <2>1. /\ worker'.at \in {"add", "failMark"} /\ worker'.left = worker.left
        /\ \E r \in worker.left : worker'.with = {r}
    BY <1>8, PickType
  <2>2. worker.at = "pick" /\ UNCHANGED <<recipient, runs>>
    BY <1>8 DEF PickRecipient
  <2>. QED
    BY <2>1, <2>2 DEF QueueShape, AtOne
<1>9. CASE AddMessageJob
  <2>1. /\ worker.at = "add" /\ Moves("mark") /\ UNCHANGED <<recipient, runs>>
    BY <1>9 DEF AddMessageJob
  <2>. QED
    BY <2>1, MovesWorker, SameHandShape DEF AtOne
<1>10. CASE MarkSent
  <2>1. worker.at = "mark" /\ runs' = runs
    BY <1>10 DEF MarkSent
  <2>2. CASE MarksSent /\ Moves("count")
    <3>1. /\ \A r \in worker.with : recipient'[r] = "SENT"
          /\ \A r \in Recipients \ worker.with : recipient'[r] = recipient[r]
      BY <1>2, <2>1, <2>2, BecomesType DEF MarksSent, AtOne
    <3>2. worker.left \subseteq Recipients
      BY DEF QueueTypeOK, Worker
    <3>. QED
      BY <2>1, <2>2, <3>1, <3>2, MovesWorker, SameHandShape DEF AtOne
  <2>3. CASE Moves("failMark") /\ UNCHANGED recipient
    BY <2>1, <2>3, MovesWorker, SameHandShape DEF AtOne
  <2>. QED
    BY <1>10, <2>2, <2>3 DEF MarkSent
<1>11. CASE CountSent
  <2>1. worker.at = "count" /\ UNCHANGED <<recipient, runs>>
    BY <1>11 DEF CountSent
  <2>2. NextRecipient \/ Moves("failMark")
    BY <1>11 DEF CountSent
  <2>. QED
    BY <2>1, <2>2, NextRecipientShape, MovesWorker, SameHandShape DEF AtOne
<1>12. CASE MarkFailed
  <2>1. worker.at = "failMark"
    BY <1>12 DEF MarkFailed
  <2>2. CASE MarksFailed /\ Moves("failCount") /\ UNCHANGED runs
    <3>1. /\ \A r \in worker.with : recipient'[r] = "FAILED"
          /\ \A r \in Recipients \ worker.with : recipient'[r] = recipient[r]
      BY <1>2, <2>1, <2>2, BecomesType DEF MarksFailed, AtOne
    <3>2. worker.left \subseteq Recipients
      BY DEF QueueTypeOK, Worker
    <3>. QED
      BY <2>1, <2>2, <3>1, <3>2, MovesWorker, SameHandShape DEF AtOne
  <2>. QED
    BY <1>4, <1>12, <2>1, <2>2 DEF MarkFailed
<1>13. CASE CountFailed
  <2>1. worker.at = "failCount" /\ UNCHANGED recipient
    BY <1>13 DEF CountFailed
  <2>2. JobThrows \/ (NextRecipient /\ UNCHANGED runs)
    BY <1>13 DEF CountFailed
  <2>. QED
    BY <1>4, <2>1, <2>2, NextRecipientShape DEF AtOne
<1>14. CASE Finish \/ Refuse
  <2>1. /\ worker.at \in {"finish", "refuse"}
        /\ JobThrows \/ (Moves("ack") /\ UNCHANGED runs)
    BY <1>14 DEF Finish, Refuse
  <2>. QED
    BY <1>1, <1>3, <1>4, <2>1, MovesWorker, RestedShape DEF AtOne
<1>15. CASE Acknowledge
  BY <1>3, <1>15, MovesWorker, RestedShape DEF Acknowledge, AtOne
<1>16. ASSUME NEW status \in {"PAUSED", "CANCELLED"}, StopCampaign(status)
       PROVE  QueueShape'
  BY <1>16, SameShape DEF StopCampaign
<1>17. CASE RemoveCampaign \/ RemoveProvider
  BY <1>17, SameShape DEF RemoveCampaign, RemoveProvider
<1>18. CASE RecipientFails
  <2>1. /\ worker.at \in {"add", "mark", "count"} /\ Moves("failMark")
        /\ runs' = runs
        /\ recipient' = recipient \/ (worker.at = "mark" /\ MarksSent)
    BY <1>18 DEF RecipientFails
  <2>2. \A r \in Recipients \ worker.with : recipient'[r] = recipient[r]
    BY <1>2, <2>1, BecomesType DEF MarksSent, AtOne
  <2>3. worker.left \subseteq Recipients
    BY DEF QueueTypeOK, Worker
  <2>. QED
    BY <2>1, <2>2, <2>3, MovesWorker, SameHandShape DEF AtOne
<1>19. CASE JobFails
  BY <1>4, <1>19 DEF JobFails
<1>20. CASE WorkerDies
  <2>1. /\ worker' \in {Idle("waiting"), Idle("over")} /\ runs' = runs
        /\ worker.at \in InProcess
    BY <1>20 DEF WorkerDies
  <2>2. worker.at # "over"
    BY <2>1 DEF InProcess
  <2>. QED
    BY <1>1, <2>1, <2>2, RestedShape DEF Idle, AtOne
<1>21. CASE UNCHANGED queueVars
  BY <1>21, SameShape DEF queueVars
<1>. QED
  BY <1>5, <1>6, <1>7, <1>8, <1>9, <1>10, <1>11, <1>12, <1>13, <1>14, <1>15,
     <1>16, <1>17, <1>18, <1>19, <1>20, <1>21
  DEF QueueNext, QueueStep

-----------------------------------------------------------------------------
(* Who is counted *)

\* The recipients that are not at hand keep their status; who comes to hand
\* was pending.
LEMMA CountedGrows ==
  ASSUME worker'.with \subseteq worker.with \cup WithStatus("PENDING"),
         \A r \in Recipients \ worker.with : recipient'[r] = recipient[r],
         NEW status \in {"SENT", "FAILED"}
  PROVE  Counted(status) \subseteq Counted(status)'
BY DEF Counted, WithStatus

LEMMA WithKept ==
  ASSUME QueueTypeOK, QueueShape, [QueueNext]_queueVars
  PROVE  /\ worker'.with \subseteq worker.with \cup WithStatus("PENDING")
         /\ \A r \in Recipients \ worker.with : recipient'[r] = recipient[r]
<1>1. ASSUME NEW at, Moves(at) PROVE worker'.with = worker.with
  BY <1>1, MovesWorker
<1>2. worker.at # "over" => runs < Attempts
  BY DEF QueueShape
<1>3. JobThrows /\ worker.at # "over" => worker'.with = {}
  BY <1>2, JobThrowsType
<1>4. NextRecipient => worker'.with = {}
  BY NextRecipientType
<1>5. FetchBatch => worker'.with = {}
  BY DEF FetchBatch, Idle
<1>6. ASSUME PickRecipient
      PROVE  worker'.with \subseteq WithStatus("PENDING")
  <2>1. PICK r \in worker.left : worker'.with = {r}
    BY <1>6, PickType
  <2>2. recipient[r] = "PENDING" /\ r \in Recipients
    BY <1>6, <2>1 DEF PickRecipient, QueueShape, QueueTypeOK, Worker
  <2>. QED
    BY <2>1, <2>2 DEF WithStatus
<1>7. WorkerDies => worker'.with = {}
  BY DEF WorkerDies, Idle
<1>8. worker'.with \subseteq worker.with \cup WithStatus("PENDING")
  BY <1>1, <1>3, <1>4, <1>5, <1>6, <1>7
  DEF QueueNext, QueueStep, TakeJob, Refuse, CheckCampaign, AddMessageJob,
      MarkSent, CountSent, MarkFailed, CountFailed, Finish, Acknowledge,
      StopCampaign, RemoveCampaign, RemoveProvider, RecipientFails, JobFails,
      queueVars
<1>9. worker.at \in AtOne => \E r \in worker.left : worker.with = {r}
  BY DEF QueueShape
<1>10. MarksSent /\ worker.at \in AtOne =>
         \A r \in Recipients \ worker.with : recipient'[r] = recipient[r]
  BY <1>9, BecomesType DEF MarksSent
<1>11. MarksFailed /\ worker.at \in AtOne =>
         \A r \in Recipients \ worker.with : recipient'[r] = recipient[r]
  BY <1>9, BecomesType DEF MarksFailed
<1>12. \/ worker.at \in AtOne /\ (MarksSent \/ MarksFailed)
       \/ recipient' = recipient
  BY DEF QueueNext, QueueStep, TakeJob, Refuse, CheckCampaign, FetchBatch,
         PickRecipient, AddMessageJob, MarkSent, CountSent, MarkFailed,
         CountFailed, Finish, Acknowledge, StopCampaign, RemoveCampaign,
         RemoveProvider, RecipientFails, TookEffect, JobFails, WorkerDies,
         queueVars, AtOne
<1>. QED
  BY <1>8, <1>10, <1>11, <1>12

\* Who is at hand and is then nobody's comes to be counted.
LEMMA OneMoreCounted ==
  ASSUME QueueTypeOK, QueueShape, worker.at \in AtOne, worker'.with = {},
         recipient' = recipient, NEW status \in {"SENT", "FAILED"},
         \A r \in worker.with : recipient[r] = status
  PROVE  Cardinality(Counted(status)) + 1 <= Cardinality(Counted(status)')
<1>. DEFINE C == Counted(status)
            CC == Counted(status)'
<1>1. /\ IsFiniteSet(C) /\ Cardinality(C) \in Nat
      /\ IsFiniteSet(CC) /\ Cardinality(CC) \in Nat
  BY SetsAreFinite DEF Counted, WithStatus
<1>2. PICK r \in worker.left : worker.with = {r}
  BY DEF QueueShape
<1>3. r \in Recipients /\ recipient[r] = status
  BY <1>2 DEF QueueTypeOK, Worker
<1>4. r \notin C /\ C \cup {r} \subseteq CC
  BY <1>2, <1>3 DEF Counted, WithStatus
<1>. HIDE DEF C, CC
<1>5. Cardinality(C \cup {r}) = Cardinality(C) + 1
  BY <1>1, <1>4, FS_AddElement
<1>6. Cardinality(C \cup {r}) <= Cardinality(CC)
  BY <1>1, <1>4, FS_Subset
<1>7. Cardinality(C) + 1 <= Cardinality(CC)
  BY <1>5, <1>6
<1>. QED
  BY <1>7 DEF C, CC

\* sentCount grows with somebody counted, or with a fault.
LEMMA SentGrows ==
  ASSUME QueueTypeOK, [QueueNext]_queueVars, sent' # sent
  PROVE  /\ sent' = sent + 1 /\ worker.at = "count"
         /\ \/ queueFaults' = queueFaults + 1
            \/ /\ NextRecipient /\ recipient' = recipient
               /\ queueFaults' = queueFaults
BY DEF QueueNext, QueueStep, TakeJob, Refuse, CheckCampaign, FetchBatch,
       PickRecipient, AddMessageJob, MarkSent, CountSent, MarkFailed,
       CountFailed, Finish, Acknowledge, StopCampaign, RemoveCampaign,
       RemoveProvider, RecipientFails, JobFails, QueueFault, WorkerDies,
       queueVars, counters

\* failedCount grows with somebody counted, be the reply lost or not.
LEMMA FailedGrows ==
  ASSUME QueueTypeOK, [QueueNext]_queueVars, failed' # failed
  PROVE  /\ failed' = failed + 1 /\ worker.at = "failCount"
         /\ NextRecipient \/ JobThrows
         /\ recipient' = recipient
BY DEF QueueNext, QueueStep, TakeJob, Refuse, CheckCampaign, FetchBatch,
       PickRecipient, AddMessageJob, MarkSent, CountSent, MarkFailed,
       CountFailed, Finish, Acknowledge, StopCampaign, RemoveCampaign,
       RemoveProvider, RecipientFails, TookEffect, JobFails, WorkerDies,
       queueVars, counters

LEMMA FaultsGrow ==
  ASSUME QueueTypeOK, [QueueNext]_queueVars
  PROVE  queueFaults' \in {queueFaults, queueFaults + 1}
BY DEF QueueNext, QueueStep, TakeJob, Refuse, CheckCampaign, FetchBatch,
       PickRecipient, AddMessageJob, MarkSent, CountSent, MarkFailed,
       CountFailed, Finish, Acknowledge, StopCampaign, RemoveCampaign,
       RemoveProvider, RecipientFails, JobFails, QueueFault, WorkerDies,
       queueVars

LEMMA CountedNotLess ==
  ASSUME QueueTypeOK, QueueShape, [QueueNext]_queueVars,
         NEW status \in {"SENT", "FAILED"}
  PROVE  /\ Cardinality(Counted(status)) \in Nat
         /\ Cardinality(Counted(status)') \in Nat
         /\ Cardinality(Counted(status)) <= Cardinality(Counted(status)')
<1>1. Counted(status) \subseteq Counted(status)'
  BY WithKept, CountedGrows
<1>2. /\ IsFiniteSet(Counted(status)) /\ Cardinality(Counted(status)) \in Nat
      /\ IsFiniteSet(Counted(status)')
      /\ Cardinality(Counted(status)') \in Nat
  BY SetsAreFinite DEF Counted, WithStatus
<1>. QED
  BY <1>1, <1>2, FS_Subset

LEMMA SentStep ==
  ASSUME QueueInv, [QueueNext]_queueVars
  PROVE  sent' <= Cardinality(Counted("SENT")') + queueFaults'
<1>. DEFINE c == Cardinality(Counted("SENT"))
            cc == Cardinality(Counted("SENT")')
<1>1. QueueTypeOK /\ QueueShape /\ sent <= c + queueFaults
  BY DEF QueueInv
<1>2. c \in Nat /\ cc \in Nat /\ c <= cc
  BY <1>1, CountedNotLess
<1>3. sent \in Nat /\ queueFaults \in Nat
  BY <1>1, QueueAssumption DEF QueueTypeOK
<1>4. ASSUME NextRecipient, recipient' = recipient, worker.at = "count"
      PROVE  c + 1 <= cc
  <2>1. worker'.with = {}
    BY <1>1, <1>4, NextRecipientType
  <2>2. \A r \in worker.with : recipient[r] = "SENT"
    BY <1>1, <1>4 DEF QueueShape
  <2>. QED
    BY <1>1, <1>4, <2>1, <2>2, OneMoreCounted DEF AtOne
<1>. HIDE DEF c, cc
<1>5. CASE sent' = sent
  BY <1>1, <1>2, <1>3, <1>5, FaultsGrow DEF cc
<1>6. CASE sent' # sent
  BY <1>1, <1>2, <1>3, <1>4, <1>6, SentGrows DEF cc
<1>. QED
  BY <1>5, <1>6

LEMMA FailedStep ==
  ASSUME QueueInv, [QueueNext]_queueVars
  PROVE  failed' <= Cardinality(Counted("FAILED")')
<1>. DEFINE c == Cardinality(Counted("FAILED"))
            cc == Cardinality(Counted("FAILED")')
<1>1. QueueTypeOK /\ QueueShape /\ failed <= c /\ failed \in Nat
  BY DEF QueueInv, QueueTypeOK
<1>2. c \in Nat /\ cc \in Nat /\ c <= cc
  BY <1>1, CountedNotLess
<1>3. ASSUME failed' # failed
      PROVE  failed' = failed + 1 /\ c + 1 <= cc
  <2>1. /\ failed' = failed + 1 /\ worker.at = "failCount"
        /\ NextRecipient \/ JobThrows
        /\ recipient' = recipient
    BY <1>1, <1>3, FailedGrows
  <2>2. worker'.with = {}
    BY <1>1, <2>1, NextRecipientType, JobThrowsType DEF QueueShape
  <2>3. \A r \in worker.with : recipient[r] = "FAILED"
    BY <1>1, <2>1 DEF QueueShape
  <2>. QED
    BY <1>1, <2>1, <2>2, <2>3, OneMoreCounted DEF AtOne
<1>. HIDE DEF c, cc
<1>. QED
  BY <1>1, <1>2, <1>3 DEF cc

\* The providers of the process are registered once.
LEMMA ServedStep ==
  ASSUME QueueInv, [QueueNext]_queueVars
  PROVE  Served'
<1>1. QueueTypeOK /\ QueueShape /\ Served
  BY DEF QueueInv
<1>2. ASSUME NEW at, Moves(at) PROVE worker'.at = at
  BY <1>1, <1>2, MovesWorker
<1>3. worker.at # "over" /\ JobThrows => worker'.at \in {"waiting", "over"}
  BY <1>1, JobThrowsType DEF QueueShape
<1>4. NextRecipient => worker'.at \in {"check", "pick"}
  BY <1>1, NextRecipientType
<1>5. known' = known
  BY DEF QueueNext, QueueStep, TakeJob, Refuse, CheckCampaign, FetchBatch,
         PickRecipient, AddMessageJob, MarkSent, CountSent, MarkFailed,
         CountFailed, Finish, Acknowledge, StopCampaign, RemoveCampaign,
         RemoveProvider, RecipientFails, JobFails, WorkerDies, queueVars
<1>6. CASE TakeJob
  BY <1>2, <1>5, <1>6 DEF TakeJob, Served, InProcess
<1>7. CASE Refuse \/ Finish
  BY <1>2, <1>3, <1>7 DEF Refuse, Finish, Served, InProcess
<1>8. CASE Acknowledge \/ WorkerDies \/ JobFails
  BY <1>2, <1>3, <1>8
  DEF Acknowledge, WorkerDies, JobFails, Idle, Served, InProcess
<1>9. CASE MarkFailed \/ CountFailed
  BY <1>1, <1>2, <1>3, <1>4, <1>5, <1>9
  DEF MarkFailed, CountFailed, Served, InProcess
<1>10. CASE CheckCampaign \/ AddMessageJob \/ MarkSent \/ CountSent
  BY <1>1, <1>2, <1>4, <1>5, <1>10
  DEF CheckCampaign, AddMessageJob, MarkSent, CountSent, Served, InProcess
<1>11. CASE RecipientFails
  BY <1>1, <1>2, <1>5, <1>11 DEF RecipientFails, Served, InProcess
<1>12. CASE FetchBatch
  <2>1. worker.at = "fetch" /\ worker'.at \in {"finish", "pick"}
    BY <1>12 DEF FetchBatch, Idle
  <2>. QED
    BY <1>1, <1>5, <2>1 DEF Served, InProcess
<1>13. CASE PickRecipient
  <2>1. worker.at = "pick" /\ worker'.at \in {"add", "failMark"}
    BY <1>1, <1>13, PickType DEF PickRecipient
  <2>. QED
    BY <1>1, <1>5, <2>1 DEF Served, InProcess
<1>14. CASE worker' = worker
  BY <1>1, <1>5, <1>14 DEF Served
<1>. QED
  BY <1>6, <1>7, <1>8, <1>9, <1>10, <1>11, <1>12, <1>13, <1>14
  DEF QueueNext, QueueStep, StopCampaign, RemoveCampaign, RemoveProvider,
      queueVars

-----------------------------------------------------------------------------
(* What is handed over *)

\* The ways in which a step keeps what is handed over within what is counted.
LEMMA WithinCount ==
  ASSUME NEW q \in Nat, NEW s \in Nat, NEW f \in Nat, NEW k \in {0, 1},
         NEW qq \in Nat, NEW ss \in Nat, NEW ff \in Nat, NEW kk \in {0, 1},
         q <= s + f + k,
         \/ qq = q /\ ss = s /\ ff = f /\ k <= kk
         \/ qq = q /\ ss = s + 1 /\ ff = f
         \/ qq = q + 1 /\ ss = s /\ ff = f /\ k = 0 /\ kk = 1
  PROVE  qq <= ss + ff + kk
OBVIOUS

\* The same counts, and more slack or none before.
LEMMA WithinSlack ==
  ASSUME NEW q \in Nat, NEW s \in Nat, NEW f \in Nat, NEW k \in {0, 1},
         NEW kk \in {0, 1}, q <= s + f + k, k = 0 \/ kk = 1
  PROVE  q <= s + f + kk
OBVIOUS

\* A fault allows for one that is handed over, or counted, besides.
LEMMA WithinFaults ==
  ASSUME NEW q \in Nat, NEW s \in Nat, NEW f \in Nat, NEW k \in {0, 1},
         NEW kk \in {0, 1}, q <= s + f + k
  PROVE  /\ q <= s + (f + 1) + kk /\ q <= (s + 1) + (f + 1) + kk
         /\ k = 0 => q + 1 <= s + (f + 1) + kk
OBVIOUS

LEMMA QueuedStep ==
  ASSUME QueueInv, QueueTypeOK', [QueueNext]_queueVars
  PROVE  queued' <= sent' + queueFaults' + Slack'
<1>1. /\ QueueTypeOK /\ QueueShape
      /\ queued <= sent + queueFaults + Slack
  BY DEF QueueInv
<1>2. /\ queued \in Nat /\ sent \in Nat /\ queueFaults \in Nat
      /\ queued' \in Nat /\ sent' \in Nat /\ queueFaults' \in Nat
      /\ Slack \in {0, 1} /\ Slack' \in {0, 1}
  BY <1>1, QueueAssumption DEF QueueTypeOK, Slack
<1>3. ASSUME NEW at, Moves(at) PROVE worker'.at = at
  BY <1>1, <1>3, MovesWorker
<1>4. worker.at # "over" /\ JobThrows => worker'.at \in {"waiting", "over"}
  BY <1>1, JobThrowsType DEF QueueShape
<1>5. ASSUME queued' = queued, sent' = sent, queueFaults' = queueFaults,
             Slack = 0 \/ Slack' = 1
      PROVE  queued' <= sent' + queueFaults' + Slack'
  <2>1. queued <= sent + queueFaults + Slack'
    BY <1>1, <1>2, <1>5, WithinSlack, Zenon
  <2>. QED
    BY <1>5, <2>1, Zenon
<1>6. CASE TakeJob
  <2>1. /\ queued' = queued /\ sent' = sent /\ queueFaults' = queueFaults
        /\ worker.at = "waiting"
    BY <1>6 DEF TakeJob, counters, ledger
  <2>2. worker'.at \in {"over", "check", "refuse"}
    BY <1>3, <1>6 DEF TakeJob
  <2>3. campaign' = campaign
    BY <1>6 DEF TakeJob
  <2>4. Slack = 0 \/ Slack' = 1
    BY <2>1, <2>2, <2>3 DEF Slack
  <2>. QED
    BY <1>5, <2>1, <2>4
<1>7. CASE CheckCampaign
  BY <1>1, <1>2, <1>3, <1>7, WithinCount
  DEF CheckCampaign, Slack, counters, ledger
<1>8. CASE FetchBatch
  BY <1>1, <1>2, <1>8, WithinCount
  DEF FetchBatch, IsBatch, Idle, Slack, counters, ledger
<1>9. CASE PickRecipient
  <2>1. /\ queued' = queued /\ sent' = sent /\ queueFaults' = queueFaults
        /\ worker.at = "pick"
    BY <1>9 DEF PickRecipient, counters, ledger
  <2>2. campaign' = campaign /\ worker'.at \in {"add", "failMark"}
    BY <1>1, <1>9, PickType DEF PickRecipient
  <2>3. Slack = 0
    BY <2>1 DEF Slack
  <2>. QED
    BY <1>5, <2>1, <2>3
<1>10. CASE AddMessageJob
  BY <1>1, <1>2, <1>3, <1>10, WithinCount DEF AddMessageJob, Slack, counters
<1>11. CASE MarkSent
  BY <1>1, <1>2, <1>3, <1>11, WithinCount
  DEF MarkSent, Slack, counters, ledger
<1>12. CASE CountSent
  <2>1. /\ queued' = queued /\ queueFaults' = queueFaults
        /\ worker.at = "count" /\ campaign' = campaign
    BY <1>12 DEF CountSent, ledger
  <2>2. CASE sent' = sent + 1
    BY <1>1, <1>2, <2>1, <2>2, WithinCount DEF Slack
  <2>3. CASE sent' = sent /\ Gone /\ Moves("failMark")
    <3>1. Slack' = 1
      BY <1>3, <2>1, <2>3 DEF Slack
    <3>. QED
      BY <1>1, <1>2, <2>1, <2>3, <3>1, WithinCount
  <2>. QED
    BY <1>12, <2>2, <2>3 DEF CountSent
<1>13. CASE MarkFailed
  BY <1>1, <1>2, <1>3, <1>4, <1>13, WithinCount
  DEF MarkFailed, Slack, counters, ledger
<1>14. CASE CountFailed
  BY <1>1, <1>2, <1>4, <1>14, NextRecipientType, WithinCount
  DEF CountFailed, Slack, ledger
<1>15. CASE Finish \/ Refuse
  <2>1. /\ worker.at \in {"finish", "refuse"}
        /\ queued' = queued /\ sent' = sent /\ queueFaults' = queueFaults
        /\ worker'.at \in {"ack", "waiting", "over"}
        /\ Gone => campaign' = campaign
    BY <1>3, <1>4, <1>15 DEF Finish, Refuse, counters, ledger
  <2>2. Slack = 0 \/ Slack' = 1
    BY <2>1 DEF Slack
  <2>. QED
    BY <1>5, <2>1, <2>2
<1>16. CASE Acknowledge
  BY <1>1, <1>2, <1>3, <1>16, WithinCount
  DEF Acknowledge, Slack, counters, ledger
<1>17. ASSUME NEW status \in {"PAUSED", "CANCELLED"}, StopCampaign(status)
       PROVE  queued' <= sent' + queueFaults' + Slack'
  BY <1>1, <1>2, <1>17, WithinCount DEF StopCampaign, Slack, counters
<1>18. CASE RemoveCampaign \/ RemoveProvider
  <2>1. /\ queued' = queued /\ sent' = sent /\ queueFaults' = queueFaults
        /\ worker' = worker /\ Gone'
    BY <1>18 DEF RemoveCampaign, RemoveProvider, counters, ledger
  <2>2. Slack = 0 \/ Slack' = 1
    BY <2>1 DEF Slack
  <2>. QED
    BY <1>5, <2>1, <2>2
<1>19. CASE RecipientFails \/ JobFails \/ WorkerDies
  <2>1. /\ queueFaults' = queueFaults + 1
        /\ \/ queued' = queued /\ sent' \in {sent, sent + 1}
           \/ worker.at = "add" /\ queued' = queued + 1 /\ sent' = sent
    BY <1>19
    DEF RecipientFails, JobFails, WorkerDies, QueueFault, counters, ledger
  <2>2. worker.at = "add" => Slack = 0
    BY DEF Slack
  <2>3. queueFaults' = queueFaults + 1
    BY <2>1
  <2>4. /\ queued <= sent + (queueFaults + 1) + Slack'
        /\ queued <= (sent + 1) + (queueFaults + 1) + Slack'
        /\ Slack = 0 => queued + 1 <= sent + (queueFaults + 1) + Slack'
    BY <1>1, <1>2, WithinFaults, Zenon
  <2>5. CASE queued' = queued /\ sent' = sent
    BY <2>3, <2>4, <2>5, Zenon
  <2>6. CASE queued' = queued /\ sent' = sent + 1
    BY <2>3, <2>4, <2>6, Zenon
  <2>7. CASE queued' = queued + 1 /\ sent' = sent /\ Slack = 0
    BY <2>3, <2>4, <2>7, Zenon
  <2>. QED
    BY <2>1, <2>2, <2>5, <2>6, <2>7
<1>20. CASE UNCHANGED queueVars
  BY <1>1, <1>2, <1>20 DEF queueVars, counters, ledger, Slack
<1>. QED
  BY <1>6, <1>7, <1>8, <1>9, <1>10, <1>11, <1>12, <1>13, <1>14, <1>15, <1>16,
     <1>17, <1>18, <1>19, <1>20
  DEF QueueNext, QueueStep

-----------------------------------------------------------------------------
(* After a stop *)

LEMMA PartOfBatch ==
  ASSUME NEW L \in SUBSET Recipients, NEW M \in SUBSET L,
         Cardinality(L) <= BatchSize
  PROVE  /\ IsFiniteSet(M) /\ Cardinality(M) \in Nat
         /\ Cardinality(M) <= BatchSize
<1>1. /\ IsFiniteSet(L) /\ IsFiniteSet(M)
      /\ Cardinality(M) \in Nat /\ Cardinality(L) \in Nat
  BY SetsAreFinite
<1>2. Cardinality(M) <= Cardinality(L)
  BY <1>1, FS_Subset
<1>. QED
  BY <1>1, <1>2, QueueAssumption

\* The rest of a batch never grows, but for a fetch, which comes with the
\* whole of one already.
LEMMA TodoStep ==
  ASSUME QueueTypeOK, QueueShape, QueueTypeOK', QueueShape',
         [QueueNext]_queueVars
  PROVE  /\ ~CheckCampaign => queued' + Todo' <= queued + Todo
         /\ CheckCampaign => queued' = queued
         /\ worker'.at # "fetch" => Todo' = Cardinality(Remaining')
<1>1. /\ IsFiniteSet(Remaining) /\ Cardinality(Remaining) \in Nat
      /\ Cardinality(Remaining) <= BatchSize
      /\ IsFiniteSet(Remaining') /\ Cardinality(Remaining') \in Nat
      /\ Cardinality(Remaining') <= BatchSize
  <2>1. /\ worker.left \in SUBSET Recipients
        /\ Remaining \in SUBSET worker.left
        /\ Cardinality(worker.left) <= BatchSize
    BY DEF QueueTypeOK, Worker, Remaining, QueueShape
  <2>2. /\ worker'.left \in SUBSET Recipients
        /\ Remaining' \in SUBSET worker'.left
        /\ Cardinality(worker'.left) <= BatchSize
    BY DEF QueueTypeOK, Worker, Remaining, QueueShape
  <2>. QED
    BY <2>1, <2>2, PartOfBatch
<1>2. /\ queued \in Nat /\ queued' \in Nat /\ BatchSize \in Nat
  BY QueueAssumption DEF QueueTypeOK
<1>. DEFINE T == Todo
            TT == Todo'
<1>3. T \in Nat /\ TT \in Nat
  BY <1>1, <1>2 DEF Todo
<1>4. ASSUME queued' = queued, worker'.at \notin {"fetch", "add"},
             worker'.left \ worker'.with \subseteq worker.left \ worker.with
      PROVE  queued' + TT <= queued + T
  <2>1. Remaining' \subseteq Remaining
    BY <1>4 DEF Remaining
  <2>2. Cardinality(Remaining') <= Cardinality(Remaining)
    BY <1>1, <2>1, FS_Subset
  <2>3. TT = Cardinality(Remaining')
    BY <1>4 DEF Todo
  <2>4. T = BatchSize \/ T = Cardinality(Remaining)
    BY DEF Todo
  <2>. HIDE DEF T, TT
  <2>. DEFINE c == Cardinality(Remaining)
              cc == Cardinality(Remaining')
  <2>5. /\ c \in Nat /\ cc \in Nat /\ c <= BatchSize /\ cc <= c
        /\ TT = cc /\ (T = BatchSize \/ T = c)
    BY <1>1, <2>2, <2>3, <2>4
  <2>. HIDE DEF c, cc
  <2>. QED
    BY <1>2, <1>3, <1>4, <2>5
<1>. HIDE DEF T, TT
<1>5. ASSUME NEW at, Moves(at)
      PROVE  /\ worker'.at = at /\ worker'.left = worker.left
             /\ worker'.with = worker.with
  BY <1>5, MovesWorker
<1>6. worker.at # "over" /\ JobThrows =>
        worker'.left = {} /\ worker'.at \notin {"fetch", "add"}
  BY JobThrowsType DEF QueueShape
<1>7. NextRecipient =>
        /\ worker'.left \ worker'.with \subseteq worker.left \ worker.with
        /\ worker'.at \notin {"fetch", "add"}
  BY NextRecipientType
<1>8. TakeJob => queued' + TT <= queued + T
  BY <1>4, <1>5 DEF TakeJob, ledger
<1>9. ASSUME FetchBatch PROVE queued' + TT <= queued + T
  <2>1. worker.at = "fetch" /\ queued' = queued
    BY <1>9 DEF FetchBatch, ledger
  <2>2. worker'.at # "fetch"
    BY <1>9 DEF FetchBatch, Idle
  <2>3. T = BatchSize /\ TT = Cardinality(Remaining')
    BY <2>1, <2>2 DEF T, TT, Todo
  <2>4. TT <= BatchSize
    BY <1>1, <2>3, Zenon
  <2>. QED
    BY <1>2, <1>3, <2>1, <2>3, <2>4
<1>10. ASSUME PickRecipient PROVE queued' + TT <= queued + T
  <2>1. worker.at = "pick" /\ queued' = queued
    BY <1>10 DEF PickRecipient, ledger
  <2>2. worker'.at \in {"add", "failMark"} /\ worker'.left = worker.left
    BY <1>10, PickType
  <2>3. CASE worker'.at = "add"
    <3>1. Remaining' = Remaining
      BY <2>1, <2>2, <2>3 DEF Remaining, QueueShape, AtOne
    <3>2. TT = T
      BY <2>1, <2>2, <2>3, <3>1 DEF T, TT, Todo
    <3>. QED
      BY <1>2, <1>3, <2>1, <3>2
  <2>4. CASE worker'.at = "failMark"
    <3>1. worker'.left \ worker'.with \subseteq worker.left \ worker.with
      BY <2>1, <2>2 DEF QueueShape, AtOne
    <3>. QED
      BY <1>4, <2>1, <2>4, <3>1
  <2>. QED
    BY <2>2, <2>3, <2>4
<1>11. ASSUME worker.at = "add", queued' = queued + 1,
              Moves("mark") \/ Moves("failMark")
       PROVE  queued' + TT <= queued + T
  <2>1. /\ worker.at = "add" /\ queued' = queued + 1
        /\ worker'.at \in {"mark", "failMark"} /\ worker'.left = worker.left
        /\ worker'.with = worker.with
    BY <1>5, <1>11
  <2>2. PICK r \in worker.left : worker.with = {r}
    BY <2>1 DEF QueueShape, AtOne
  <2>3. Remaining = worker.left /\ Remaining' = worker.left \ {r}
    BY <2>1, <2>2 DEF Remaining
  <2>4. Cardinality(worker.left \ {r}) = Cardinality(worker.left) - 1
    BY <1>1, <2>2, <2>3, FS_RemoveElement
  <2>5. T = Cardinality(Remaining) /\ TT = Cardinality(Remaining')
    BY <2>1 DEF T, TT, Todo
  <2>6. TT = T - 1
    BY <2>3, <2>4, <2>5, Zenon
  <2>. QED
    BY <1>2, <1>3, <2>1, <2>6
<1>12. MarkSent => queued' + TT <= queued + T
  BY <1>4, <1>5 DEF MarkSent, ledger
<1>13. CountSent => queued' + TT <= queued + T
  BY <1>4, <1>5, <1>7 DEF CountSent, ledger
<1>14. MarkFailed => queued' + TT <= queued + T
  BY <1>4, <1>5, <1>6 DEF MarkFailed, ledger
<1>15. CountFailed => queued' + TT <= queued + T
  BY <1>4, <1>6, <1>7 DEF CountFailed, ledger
<1>16. Finish \/ Refuse => queued' + TT <= queued + T
  BY <1>4, <1>5, <1>6 DEF Finish, Refuse, ledger
<1>17. Acknowledge => queued' + TT <= queued + T
  BY <1>4, <1>5 DEF Acknowledge, ledger
<1>18. UNCHANGED <<worker, queued>> => queued' + TT <= queued + T
  BY <1>2, <1>3 DEF T, TT, Todo, Remaining
<1>19. RecipientFails => queued' + TT <= queued + T
  BY <1>4, <1>5, <1>11 DEF RecipientFails
<1>20. JobFails => queued' + TT <= queued + T
  BY <1>4, <1>6 DEF JobFails, ledger
<1>21. WorkerDies => queued' + TT <= queued + T
  BY <1>4 DEF WorkerDies, Idle, ledger
<1>22. CheckCampaign => queued' = queued
  BY DEF CheckCampaign, ledger
<1>23. ~CheckCampaign => queued' + TT <= queued + T
  BY <1>8, <1>9, <1>10, <1>11, <1>12, <1>13, <1>14, <1>15, <1>16, <1>17,
     <1>18, <1>19, <1>20, <1>21
  DEF QueueNext, QueueStep, AddMessageJob, StopCampaign, RemoveCampaign,
      RemoveProvider, queueVars, ledger
<1>24. worker'.at # "fetch" => Todo' = Cardinality(Remaining')
  BY DEF Todo
<1>. QED
  BY <1>22, <1>23, <1>24 DEF T, TT

\* Whoever stopped the campaign is not overruled before the worker ends, but
\* by one that hands nobody over.
LEMMA StatusHolds ==
  ASSUME QueueInv, [QueueNext]_queueVars, stopped, ~again, ~again'
  PROVE  campaign' \in StopsLoop \/ worker'.at \in {"ack", "over"} \/ ~known'
<1>1. /\ QueueTypeOK /\ QueueShape /\ Served
      /\ campaign \in StopsLoop \/ worker.at \in {"ack", "over"} \/ ~known
  BY DEF QueueInv, HeldBack
<1>2. ASSUME NEW at, Moves(at) PROVE worker'.at = at
  BY <1>1, <1>2, MovesWorker
<1>3. CASE TakeJob
  BY <1>1, <1>2, <1>3 DEF TakeJob, StopsLoop
<1>4. CASE Finish \/ Refuse
  BY <1>1, <1>2, <1>4 DEF Finish, Refuse, StopsLoop
<1>5. CASE Acknowledge
  BY <1>2, <1>5 DEF Acknowledge
<1>6. ASSUME NEW status \in {"PAUSED", "CANCELLED"}, StopCampaign(status)
      PROVE  campaign' \in StopsLoop
  BY <1>6 DEF StopCampaign, StopsLoop
<1>7. RemoveCampaign \/ RemoveProvider => campaign' \in StopsLoop
  BY DEF RemoveCampaign, RemoveProvider, StopsLoop
<1>8. CASE WorkerDies
  <2>1. /\ worker.at \in InProcess /\ worker.at # "ack"
        /\ campaign' = campaign /\ known' = known
    BY <1>8 DEF WorkerDies
  <2>. QED
    BY <1>1, <2>1 DEF InProcess
<1>9. UNCHANGED queueVars => UNCHANGED <<known, campaign, worker>>
  BY DEF queueVars
<1>10. CASE \/ CheckCampaign \/ FetchBatch \/ PickRecipient \/ AddMessageJob
            \/ MarkSent \/ CountSent \/ MarkFailed \/ CountFailed
            \/ RecipientFails
  <2>1. /\ campaign' = campaign /\ known' = known
        /\ worker.at \notin {"ack", "over"}
    BY <1>10
    DEF CheckCampaign, FetchBatch, PickRecipient, AddMessageJob, MarkSent,
        CountSent, MarkFailed, CountFailed, RecipientFails
  <2>. QED
    BY <1>1, <2>1
<1>11. CASE JobFails
  <2>1. worker.at \notin {"ack", "over"} /\ known' = known
    BY <1>11 DEF JobFails
  <2>2. campaign' = campaign \/ worker.at = "refuse"
    BY <1>11 DEF JobFails, TookEffect
  <2>3. worker.at = "refuse" => ~known
    BY <1>1 DEF Served
  <2>. QED
    BY <1>1, <2>1, <2>2, <2>3
<1>. QED
  BY <1>1, <1>3, <1>4, <1>5, <1>6, <1>7, <1>8, <1>9, <1>10, <1>11
  DEF QueueNext, QueueStep

\* The first stop notes how much was handed over.
LEMMA StopNotes ==
  ASSUME QueueTypeOK, [QueueNext]_queueVars
  PROVE  \/ /\ stopped' = stopped /\ queuedAtStop' = queuedAtStop
            /\ again => again'
         \/ \E status \in {"PAUSED", "CANCELLED"} : StopCampaign(status)
BY DEF QueueNext, QueueStep, TakeJob, Refuse, CheckCampaign, FetchBatch,
       PickRecipient, AddMessageJob, MarkSent, CountSent, MarkFailed,
       CountFailed, Finish, Acknowledge, RemoveCampaign, RemoveProvider,
       RecipientFails, TookEffect, JobFails, WorkerDies, queueVars, ledger

LEMMA WithinBatch ==
  ASSUME NEW q \in Nat, NEW qq \in Nat, NEW t \in Nat, NEW tt \in Nat,
         NEW a \in Nat, NEW b \in Nat,
         q + t <= a + b, qq + tt <= q + t
  PROVE  qq + tt <= a + b
OBVIOUS

LEMMA HeldBackStep ==
  ASSUME QueueInv, QueueTypeOK', QueueShape', [QueueNext]_queueVars
  PROVE  HeldBack'
<1>. DEFINE T == Todo
            TT == Todo'
<1>1. QueueTypeOK /\ QueueShape
  BY DEF QueueInv
<1>2. /\ queued \in Nat /\ queued' \in Nat /\ queuedAtStop \in Nat
      /\ BatchSize \in Nat
  BY <1>1, QueueAssumption DEF QueueTypeOK
<1>3. stopped /\ ~again => queued + T <= queuedAtStop + BatchSize
  BY DEF QueueInv, HeldBack
<1>4. /\ ~CheckCampaign => queued' + TT <= queued + T
      /\ CheckCampaign => queued' = queued
      /\ worker'.at # "fetch" => TT = Cardinality(Remaining')
  BY <1>1, TodoStep
<1>5. T \in Nat /\ TT \in Nat
  <2>1. worker.left \in SUBSET Recipients /\ worker'.left \in SUBSET Recipients
    BY <1>1 DEF QueueTypeOK, Worker
  <2>2. Remaining \in SUBSET Recipients /\ Remaining' \in SUBSET Recipients
    BY <2>1 DEF Remaining
  <2>3. Cardinality(Remaining) \in Nat /\ Cardinality(Remaining') \in Nat
    BY <2>2, SetsAreFinite
  <2>. QED
    BY <1>2, <2>3 DEF Todo
<1>6. ASSUME NEW status \in {"PAUSED", "CANCELLED"}, StopCampaign(status)
      PROVE  /\ TT = T /\ T <= BatchSize /\ queued' = queued
             /\ campaign' = status /\ stopped' /\ again' = again
             /\ queuedAtStop' = IF stopped THEN queuedAtStop ELSE queued
  <2>1. Cardinality(Remaining) <= BatchSize
    <3>1. /\ worker.left \in SUBSET Recipients
          /\ Remaining \in SUBSET worker.left
          /\ Cardinality(worker.left) <= BatchSize
      BY <1>1 DEF QueueTypeOK, Worker, Remaining, QueueShape
    <3>. QED
      BY <3>1, PartOfBatch
  <2>2. T <= BatchSize
    BY <1>2, <2>1 DEF Todo
  <2>3. TT = T
    BY <1>6 DEF StopCampaign, Todo, Remaining
  <2>. HIDE DEF T, TT
  <2>. QED
    BY <1>6, <2>2, <2>3 DEF StopCampaign
<1>7. CheckCampaign /\ stopped /\ ~again => TT = 0
  <2>. SUFFICES ASSUME CheckCampaign, stopped, ~again PROVE TT = 0
    OBVIOUS
  <2>1. worker.at = "check"
    BY DEF CheckCampaign
  <2>2. campaign \in StopsLoop
    BY <2>1 DEF QueueInv, HeldBack, Served, InProcess
  <2>3. Moves("finish")
    BY <2>2 DEF CheckCampaign
  <2>4. worker'.at = "finish" /\ worker'.left = worker.left
    BY <1>1, <2>3, MovesWorker
  <2>5. worker.left = {}
    BY <1>1, <2>1 DEF QueueShape, AtOne
  <2>6. Remaining' = {} /\ TT = Cardinality(Remaining')
    BY <1>4, <2>4, <2>5 DEF Remaining
  <2>. QED
    BY <2>6, FS_EmptySet
<1>. HIDE DEF T, TT
<1>8. ASSUME stopped', ~again'
      PROVE  queued' + TT <= queuedAtStop' + BatchSize
  <2>1. ASSUME NEW status \in {"PAUSED", "CANCELLED"}, StopCampaign(status)
        PROVE  queued' + TT <= queuedAtStop' + BatchSize
    <3>1. CASE stopped
      BY <1>3, <1>6, <1>8, <2>1, <3>1
    <3>2. CASE ~stopped
      <4>1. queuedAtStop' = queued /\ queued' = queued /\ TT <= BatchSize
        BY <1>6, <2>1, <3>2
      <4>. QED
        BY <1>2, <1>5, <4>1
    <3>. QED
      BY <3>1, <3>2
  <2>2. CASE /\ stopped' = stopped /\ queuedAtStop' = queuedAtStop
             /\ again => again'
    <3>1. queued + T <= queuedAtStop + BatchSize
      BY <1>3, <1>8, <2>2
    <3>2. queuedAtStop' = queuedAtStop
      BY <2>2
    <3>3. CASE CheckCampaign
      <4>1. TT = 0 /\ queued' = queued
        BY <1>4, <1>7, <1>8, <2>2, <3>3
      <4>. QED
        BY <1>2, <1>5, <3>1, <3>2, <4>1
    <3>4. CASE ~CheckCampaign
      <4>1. queued' + TT <= queued + T
        BY <1>4, <3>4
      <4>. QED
        BY <1>2, <1>5, <3>1, <3>2, <4>1, WithinBatch, Zenon
    <3>. QED
      BY <3>3, <3>4
  <2>. QED
    BY <1>1, <2>1, <2>2, StopNotes
<1>9. ASSUME stopped', ~again'
      PROVE  \/ campaign' \in StopsLoop
             \/ worker'.at \in {"ack", "over"} \/ ~known'
  <2>1. ASSUME NEW status \in {"PAUSED", "CANCELLED"}, StopCampaign(status)
        PROVE  campaign' \in StopsLoop
    BY <2>1 DEF StopCampaign, StopsLoop
  <2>2. CASE stopped' = stopped /\ (again => again')
    BY <1>9, <2>2, StatusHolds
  <2>. QED
    BY <1>1, <2>1, <2>2, StopNotes
<1>. QED
  BY <1>8, <1>9 DEF HeldBack, T, TT

LEMMA QueueInvariant == QueueSpec => []QueueInv
<1>1. QueueInv /\ [QueueNext]_queueVars => QueueInv'
  <2>. SUFFICES ASSUME QueueInv, [QueueNext]_queueVars PROVE QueueInv'
    OBVIOUS
  <2>1. QueueTypeOK' /\ QueueShape'
    BY QueueTypeStep, ShapeStep DEF QueueInv
  <2>2. HeldBack' /\ queued' <= sent' + queueFaults' + Slack'
    BY <2>1, HeldBackStep, QueuedStep
  <2>3. /\ sent' <= Cardinality(Counted("SENT")') + queueFaults'
        /\ failed' <= Cardinality(Counted("FAILED")')
        /\ Served'
    BY SentStep, FailedStep, ServedStep
  <2>. QED
    BY <2>1, <2>2, <2>3 DEF QueueInv
<1>. QED
  BY <1>1, QueueInitially, PTL DEF QueueSpec

\* Campaign, recipients, counters and worker keep their types.
THEOREM QueueTypeCorrect == QueueSpec => []QueueTypeOK
<1>1. QueueInv => QueueTypeOK
  BY DEF QueueInv
<1>. QED
  BY <1>1, QueueInvariant, PTL

\* What was handed over and is not counted is the recipient at hand, one of a
\* deleted campaign, or goes back to a fault; sentCount is ahead of the SENT
\* recipients by one a fault at most, and failedCount never of the FAILED ones
\* (campaign.processor 101-151).
THEOREM QueueHandsOverOnce == QueueSpec => []HandsOverOnce
<1>1. ASSUME NEW status
      PROVE  /\ Cardinality(Counted(status)) \in Nat
             /\ Cardinality(WithStatus(status)) \in Nat
             /\ Cardinality(Counted(status)) <= Cardinality(WithStatus(status))
  <2>1. Counted(status) \in SUBSET WithStatus(status)
    BY DEF Counted
  <2>2. /\ IsFiniteSet(WithStatus(status))
        /\ Cardinality(WithStatus(status)) \in Nat
    BY SetsAreFinite DEF WithStatus
  <2>. QED
    BY <2>1, <2>2, FS_Subset, FS_CardinalityType
<1>2. QueueInv => HandsOverOnce
  <2>. SUFFICES ASSUME QueueInv PROVE HandsOverOnce
    OBVIOUS
  <2>1. /\ sent \in Nat /\ failed \in Nat /\ queued \in Nat
        /\ queueFaults \in Nat
    BY QueueAssumption DEF QueueInv, QueueTypeOK
  <2>2. queued <= sent + queueFaults
           + (IF worker.at \in {"mark", "count"} \/ Gone
              THEN 1 ELSE 0)
    BY <2>1 DEF QueueInv, Slack
  <2>3. sent <= Cardinality(WithStatus("SENT")) + queueFaults
    BY <1>1, <2>1 DEF QueueInv
  <2>4. failed <= Cardinality(WithStatus("FAILED"))
    BY <1>1, <2>1 DEF QueueInv
  <2>. QED
    BY <2>2, <2>3, <2>4 DEF HandsOverOnce
<1>. QED
  BY <1>2, QueueInvariant, PTL

\* After a pause or a cancellation no more than a batch is handed over, unless
\* the update that completes the campaign was not the end of its job: its
\* reply was lost or the worker died (campaign.processor 55-64, 154-160).
THEOREM QueueStops == QueueSpec => []QueueHeedsStop
<1>1. QueueInv => QueueHeedsStop
  <2>. SUFFICES ASSUME QueueInv, stopped, ~again
                PROVE  queued <= queuedAtStop + BatchSize
    BY DEF QueueHeedsStop
  <2>. DEFINE T == Todo
  <2>1. queued \in Nat /\ queuedAtStop \in Nat /\ BatchSize \in Nat
    BY QueueAssumption DEF QueueInv, QueueTypeOK
  <2>2. worker.left \in SUBSET Recipients
    BY DEF QueueInv, QueueTypeOK, Worker
  <2>3. Remaining \in SUBSET Recipients
    BY <2>2 DEF Remaining
  <2>4. T \in Nat
    BY <2>1, <2>3, SetsAreFinite DEF Todo
  <2>5. queued + T <= queuedAtStop + BatchSize
    BY DEF QueueInv, HeldBack
  <2>. HIDE DEF T
  <2>. QED
    BY <2>1, <2>4, <2>5
<1>. QED
  BY <1>1, QueueInvariant, PTL
=============================================================================
