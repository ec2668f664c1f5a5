------------------------------ MODULE Webhooks ------------------------------
(***************************************************************************)
(* WebhooksService: events are posted to the webhooks that are active, and *)
(* each delivery is logged and counted by itself.  Nothing in the          *)
(* repository calls trigger() yet; the calls are the environment's.        *)
(*                                                                         *)
(* Nobody awaits a delivery: what its catch block throws is an unhandled   *)
(* rejection, and Node exits, with every delivery under way.  It exits for *)
(* other reasons too: a deployment, or what another component throws.      *)
(***************************************************************************)
EXTENDS Naturals, FiniteSets

CONSTANTS
  Hooks,          \* webhooks, by their ids
  Events,         \* calls of trigger()
  MaxUpsets       \* bound

ASSUME HookAssumption == IsFiniteSet(Events) /\ MaxUpsets \in Nat

VARIABLES
  hook,           \* the rows of webhooks
  failures,       \* their failureCount
  called,         \* the calls of trigger() there were
  delivery,       \* deliverWebhook for an event and a webhook
  hookLog,        \* rows of webhook_logs for it, by their success
  upsets          \* statements rejected, and exits for other reasons

hookVars == <<hook, failures, called, delivery, hookLog, upsets>>

Stops == {"none", "call", "log", "update", "logError", "updateError", "done",
          "cut"}
Delivery == [at : Stops, answer : {"none", "ok", "notOk", "thrown"}]
Logged == [good : 0 .. 1, bad : 0 .. 2]

HookTypeOK ==
  /\ hook \in [Hooks -> {"none", "active", "inactive", "deleted"}]
  /\ failures \in [Hooks -> Nat]
  /\ called \subseteq Events
  /\ delivery \in [Events \X Hooks -> Delivery]
  /\ hookLog \in [Events \X Hooks -> Logged]
  /\ upsets \in 0 .. MaxUpsets

HookInit ==
  /\ hook = [h \in Hooks |-> "none"]
  /\ failures = [h \in Hooks |-> 0]
  /\ called = {}
  /\ delivery = [d \in Events \X Hooks |-> [at |-> "none", answer |-> "none"]]
  /\ hookLog = [d \in Events \X Hooks |-> [good |-> 0, bad |-> 0]]
  /\ upsets = 0

Stored == {h \in Hooks : hook[h] \in {"active", "inactive"}}

-----------------------------------------------------------------------------

CreateHook(h) ==
  /\ hook[h] = "none"
  /\ hook' = [hook EXCEPT ![h] = "active"]
  /\ UNCHANGED <<failures, called, delivery, hookLog, upsets>>

\* update() and remove(): who finds the row gone is refused.
UpdateHook(h) ==
  /\ h \in Stored
  /\ \E isActive \in {"active", "inactive"} :
       hook' = [hook EXCEPT ![h] = isActive]
  /\ UNCHANGED <<failures, called, delivery, hookLog, upsets>>

RemoveHook(h) ==
  /\ h \in Stored
  /\ hook' = [hook EXCEPT ![h] = "deleted"]
  /\ UNCHANGED <<failures, called, delivery, hookLog, upsets>>

Trigger(e) ==
  /\ e \notin called
  /\ called' = called \cup {e}
  /\ delivery' = [d \in Events \X Hooks |->
       IF d[1] = e /\ hook[d[2]] = "active"
       THEN [at |-> "call", answer |-> "none"] ELSE delivery[d]]
  /\ UNCHANGED <<hook, failures, hookLog, upsets>>

\* fetch() returns, or throws: at the latest after DELIVERY_TIMEOUT_MS.
Answered(d, answer) ==
  /\ delivery[d].at = "call"
  /\ delivery' = [delivery EXCEPT ![d] =
       [at |-> IF answer = "thrown" THEN "logError" ELSE "log",
        answer |-> answer]]
  /\ UNCHANGED <<hook, failures, called, hookLog, upsets>>

GoesOn(d, at) == delivery' = [delivery EXCEPT ![d].at = at]

LogsAnswer(d) ==
  hookLog' = IF delivery[d].answer = "ok"
             THEN [hookLog EXCEPT ![d].good = 1]
             ELSE [hookLog EXCEPT ![d].bad = 1]

LogAnswer(d) ==
  /\ delivery[d].at = "log"
  /\ LogsAnswer(d)
  /\ GoesOn(d, "update")
  /\ UNCHANGED <<hook, failures, called, upsets>>

\* Mutant: an answer that is not ok counts twice.
CountsDouble(n, answer) == IF answer = "ok" THEN 0 ELSE n + 2

\* Mutant: a success takes one off instead of starting anew.
CountsDown(n, answer) == IF answer = "ok" THEN n - 1 ELSE n + 1

\* failureCount after an answer.
CountedFailures(n, answer) == IF answer = "ok" THEN 0 ELSE n + 1

CountsAnswer(d) ==
  failures' = [failures EXCEPT ![d[2]] =
                 CountedFailures(@, delivery[d].answer)]

\* The update is in the try block: if the webhook is gone, a delivery that
\* was answered is logged a second time, as failed.
CountAnswer(d) ==
  /\ delivery[d].at = "update"
  /\ \/ /\ d[2] \in Stored
        /\ CountsAnswer(d)
        /\ GoesOn(d, "done")
     \/ /\ d[2] \notin Stored
        /\ GoesOn(d, "logError")
        /\ UNCHANGED failures
  /\ UNCHANGED <<hook, called, hookLog, upsets>>

\* The catch block.
LogsError(d) == hookLog' = [hookLog EXCEPT ![d].bad = @ + 1]

LogError(d) ==
  /\ delivery[d].at = "logError"
  /\ LogsError(d)
  /\ GoesOn(d, "updateError")
  /\ UNCHANGED <<hook, failures, called, upsets>>

UnderWay == {d \in Events \X Hooks : delivery[d].at \notin {"none", "done",
                                                            "cut"}}
NodeExits ==
  delivery' = [d \in Events \X Hooks |->
    IF d \in UnderWay THEN [delivery[d] EXCEPT !.at = "cut"] ELSE delivery[d]]

CountsError(d) == failures' = [failures EXCEPT ![d[2]] = @ + 1]

CountError(d) ==
  /\ delivery[d].at = "updateError"
  /\ \/ /\ d[2] \in Stored
        /\ CountsError(d)
        /\ GoesOn(d, "done")
     \/ /\ d[2] \notin Stored
        /\ NodeExits
        /\ UNCHANGED failures
  /\ UNCHANGED <<hook, called, hookLog, upsets>>

Upset == /\ upsets < MaxUpsets
         /\ upsets' = upsets + 1

\* A statement of the try block is rejected, having had no effect or, when
\* only its reply was lost, all of it: the catch block logs and counts.
DeliveryFails(d) ==
  /\ Upset
  /\ GoesOn(d, "logError")
  /\ \/ /\ delivery[d].at \in {"log", "update"}
        /\ UNCHANGED <<hookLog, failures>>
     \/ /\ delivery[d].at = "log"
        /\ LogsAnswer(d)
        /\ UNCHANGED failures
     \/ /\ delivery[d].at = "update" /\ d[2] \in Stored
        /\ CountsAnswer(d)
        /\ UNCHANGED hookLog
  /\ UNCHANGED <<hook, called>>

\* So is one of the catch block.
CatchFails(d) ==
  /\ Upset
  /\ NodeExits
  /\ \/ /\ delivery[d].at \in {"logError", "updateError"}
        /\ UNCHANGED <<hookLog, failures>>
     \/ /\ delivery[d].at = "logError"
        /\ LogsError(d)
        /\ UNCHANGED failures
     \/ /\ delivery[d].at = "updateError" /\ d[2] \in Stored
        /\ CountsError(d)
        /\ UNCHANGED hookLog
  /\ UNCHANGED <<hook, called>>

\* The process exits, for a reason of its own.
HooksCrash ==
  /\ Upset
  /\ NodeExits
  /\ UNCHANGED <<hook, failures, called, hookLog>>

-----------------------------------------------------------------------------

DeliveryStep(d) ==
  \/ \E answer \in {"ok", "notOk", "thrown"} : Answered(d, answer)
  \/ LogAnswer(d)
  \/ CountAnswer(d)
  \/ LogError(d)
  \/ CountError(d)
  \/ DeliveryFails(d)
  \/ CatchFails(d)

HookNext ==
  \/ \E h \in Hooks : CreateHook(h) \/ UpdateHook(h) \/ RemoveHook(h)
  \/ \E e \in Events : Trigger(e)
  \/ \E d \in Events \X Hooks : DeliveryStep(d)
  \/ HooksCrash

HookSpec == HookInit /\ [][HookNext]_hookVars

FailedOf(h) == {e \in Events : hookLog[<<e, h>>].bad > 0}

\* A delivery is logged before it is counted (webhooks.service 123-159): one
\* that is done left a log, and a log that tells otherwise than the answer
\* goes back to a rejected statement or a webhook deleted meanwhile; a delivery
\* is cut off by these or by an exit of the process.  failureCount does not
\* exceed the deliveries that left a failed log, but for those counted twice:
\* the update took effect and its reply was lost, so the catch block counts
\* again.
LogsTellTheTruth ==
  /\ \A d \in Events \X Hooks :
       LET log == hookLog[d]
           excused == upsets > 0 \/ \E h \in Hooks : hook[h] = "deleted"
       IN  /\ delivery[d].at = "done" => log.good + log.bad > 0
           /\ log.good = 1 => delivery[d].answer = "ok"
           /\ log.bad > 0 /\ delivery[d].answer = "ok" => excused
           /\ log.bad > 1 => excused
           /\ delivery[d].at = "cut" => excused
  /\ \A h \in Hooks : failures[h] <= Cardinality(FailedOf(h)) + upsets
=============================================================================
