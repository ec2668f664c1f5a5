--------------------------- MODULE WebhooksProofs ---------------------------
(***************************************************************************)
(* What holds of Webhooks for any number of webhooks and calls.  The stage *)
(* of a delivery tells what it has logged; a failure is counted with the   *)
(* step that ends a delivery, or with an upset.                            *)
(***************************************************************************)
EXTENDS Webhooks, FiniteSetTheorems, TLAPS

Deliveries == Events \X Hooks
Excused == upsets > 0 \/ \E h \in Hooks : hook[h] = "deleted"

\* What a delivery has logged at each stage.
Unlogged(d) == hookLog[d] = [good |-> 0, bad |-> 0]
LoggedRight(d) ==
  hookLog[d] = IF delivery[d].answer = "ok" THEN [good |-> 1, bad |-> 0]
               ELSE [good |-> 0, bad |-> 1]
Tells(d) ==
  /\ hookLog[d].good = 1 => delivery[d].answer = "ok"
  /\ ~Excused => hookLog[d].bad <= 1
  /\ ~Excused /\ hookLog[d].bad > 0 => delivery[d].answer # "ok"

ByStage(d) ==
  LET at == delivery[d].at
  IN  /\ at \in {"none", "call", "log"} => Unlogged(d)
      /\ at = "update" => LoggedRight(d)
      /\ at = "logError" => /\ hookLog[d].bad <= 1
                            /\ ~Excused => /\ Unlogged(d)
                                           /\ delivery[d].answer = "thrown"
      /\ at = "updateError" => hookLog[d].bad > 0
      /\ at = "done" => hookLog[d].good = 1 \/ hookLog[d].bad > 0
      /\ at = "cut" => Excused
      /\ at = "none" \/ hook[d[2]] # "none"

DoneWith(h) == {e \in Events : /\ delivery[<<e, h>>].at = "done"
                               /\ hookLog[<<e, h>>].bad > 0}

HookInv ==
  /\ HookTypeOK
  /\ \A d \in Deliveries : ByStage(d) /\ Tells(d)
  /\ \A d \in Deliveries : d[1] \notin called => delivery[d].at = "none"
  /\ \A h \in Hooks : failures[h] <= Cardinality(DoneWith(h)) + upsets

-----------------------------------------------------------------------------

LEMMA DoneIsFinite ==
  ASSUME NEW S \in SUBSET Events
  PROVE  IsFiniteSet(S) /\ Cardinality(S) \in Nat
BY FS_Subset, FS_CardinalityType, HookAssumption

LEMMA HookInitially == HookInit => HookInv
<1>. SUFFICES ASSUME HookInit PROVE HookInv
  OBVIOUS
<1>1. HookTypeOK
  BY HookAssumption DEF HookInit, HookTypeOK, Delivery, Stops, Logged
<1>2. ASSUME NEW d \in Deliveries PROVE ByStage(d) /\ Tells(d)
  <2>1. delivery[d] = [at |-> "none", answer |-> "none"] /\ Unlogged(d)
    BY DEF HookInit, Deliveries, Unlogged
  <2>. QED
    BY <2>1 DEF ByStage, Tells, Unlogged
<1>3. ASSUME NEW h \in Hooks
      PROVE  failures[h] <= Cardinality(DoneWith(h)) + upsets
  <2>1. failures[h] = 0 /\ upsets = 0
    BY DEF HookInit
  <2>2. Cardinality(DoneWith(h)) \in Nat
    BY DoneIsFinite DEF DoneWith
  <2>. QED
    BY <2>1, <2>2
<1>4. \A d \in Deliveries : delivery[d].at = "none"
  BY DEF HookInit, Deliveries
<1>. QED
  BY <1>1, <1>2, <1>3, <1>4 DEF HookInv

LEMMA NodeExitsType ==
  ASSUME HookTypeOK, NodeExits
  PROVE  delivery' \in [Deliveries -> Delivery]
BY DEF HookTypeOK, NodeExits, Deliveries, Delivery, Stops

LEMMA GoesOnType ==
  ASSUME HookTypeOK, NEW d \in Deliveries, NEW at \in Stops, GoesOn(d, at)
  PROVE  delivery' \in [Deliveries -> Delivery]
BY DEF HookTypeOK, GoesOn, Deliveries, Delivery

LEMMA UpsetExcuses ==
  ASSUME HookTypeOK, Upset
  PROVE  /\ upsets' = upsets + 1 /\ upsets' \in 0 .. MaxUpsets
         /\ upsets \in Nat /\ Excused'
BY HookAssumption DEF HookTypeOK, Upset, Excused

LEMMA HookTypeStep ==
  ASSUME HookInv, [HookNext]_hookVars
  PROVE  HookTypeOK'
<1>. USE DEF HookTypeOK
<1>1. HookTypeOK
  BY DEF HookInv
<1>2. ASSUME NEW h \in Hooks, CreateHook(h) \/ UpdateHook(h) \/ RemoveHook(h)
      PROVE  HookTypeOK'
  BY <1>1, <1>2 DEF CreateHook, UpdateHook, RemoveHook
<1>3. ASSUME NEW e \in Events, Trigger(e)
      PROVE  HookTypeOK'
  BY <1>1, <1>3 DEF Trigger, Delivery, Stops
<1>4. ASSUME NEW d \in Deliveries, DeliveryStep(d)
      PROVE  HookTypeOK'
  <2>. USE <1>1
  <2>1. ASSUME NEW answer \in {"ok", "notOk", "thrown"}, Answered(d, answer)
        PROVE  HookTypeOK'
    BY <2>1 DEF Answered, Delivery, Stops, Deliveries
  <2>2. CASE LogAnswer(d)
    BY <2>2, GoesOnType DEF LogAnswer, LogsAnswer, Logged, Stops, Deliveries
  <2>3. CASE CountAnswer(d)
    <3>1. delivery' \in [Deliveries -> Delivery]
      BY <2>3, GoesOnType DEF CountAnswer, Stops
    <3>2. failures' \in [Hooks -> Nat]
      BY <2>3 DEF CountAnswer, CountsAnswer, CountedFailures
    <3>. QED
      BY <2>3, <3>1, <3>2 DEF CountAnswer, Deliveries
  <2>4. CASE LogError(d)
    <3>1. hookLog[d] \in Logged /\ hookLog[d].bad \in 0 .. 1
      BY <2>4 DEF LogError, HookInv, ByStage, Logged, Deliveries
    <3>2. hookLog' \in [Deliveries -> Logged]
      BY <2>4, <3>1 DEF LogError, LogsError, Logged, Deliveries
    <3>. QED
      BY <2>4, <3>2, GoesOnType DEF LogError, Stops, Deliveries
  <2>5. CASE CountError(d)
    <3>1. delivery' \in [Deliveries -> Delivery]
      BY <2>5, GoesOnType, NodeExitsType DEF CountError, Stops
    <3>2. failures' \in [Hooks -> Nat]
      BY <2>5 DEF CountError, CountsError
    <3>. QED
      BY <2>5, <3>1, <3>2 DEF CountError, Deliveries
  <2>6. CASE DeliveryFails(d)
    <3>1. delivery' \in [Deliveries -> Delivery] /\ upsets' \in 0 .. MaxUpsets
      BY <2>6, GoesOnType, UpsetExcuses DEF DeliveryFails, Stops
    <3>2. failures' \in [Hooks -> Nat]
      BY <2>6 DEF DeliveryFails, CountsAnswer, CountedFailures
    <3>3. hookLog' \in [Deliveries -> Logged]
      BY <2>6 DEF DeliveryFails, LogsAnswer, Logged, Deliveries
    <3>. QED
      BY <2>6, <3>1, <3>2, <3>3 DEF DeliveryFails, Deliveries
  <2>7. CASE CatchFails(d)
    <3>1. delivery' \in [Deliveries -> Delivery] /\ upsets' \in 0 .. MaxUpsets
      BY <2>7, NodeExitsType, UpsetExcuses DEF CatchFails
    <3>2. failures' \in [Hooks -> Nat]
      BY <2>7 DEF CatchFails, CountsError
    <3>3. CASE hookLog' = hookLog
      BY <2>7, <3>1, <3>2, <3>3 DEF CatchFails, Deliveries
    <3>4. CASE delivery[d].at = "logError" /\ LogsError(d)
      <4>1. hookLog[d] \in Logged /\ hookLog[d].bad \in 0 .. 1
        BY <3>4 DEF HookInv, ByStage, Logged, Deliveries
      <4>2. hookLog' \in [Deliveries -> Logged]
        BY <3>4, <4>1 DEF LogsError, Logged, Deliveries
      <4>. QED
        BY <2>7, <3>1, <3>2, <4>2 DEF CatchFails, Deliveries
    <3>. QED
      BY <2>7, <3>3, <3>4 DEF CatchFails
  <2>. QED
    BY <1>4, <2>1, <2>2, <2>3, <2>4, <2>5, <2>6, <2>7 DEF DeliveryStep
<1>5. CASE HooksCrash
  <2>1. delivery' \in [Deliveries -> Delivery] /\ upsets' \in 0 .. MaxUpsets
    BY <1>1, <1>5, NodeExitsType, UpsetExcuses DEF HooksCrash
  <2>. QED
    BY <1>1, <1>5, <2>1 DEF HooksCrash, Deliveries
<1>6. CASE UNCHANGED hookVars
  BY <1>1, <1>6 DEF hookVars
<1>. QED
  BY <1>2, <1>3, <1>4, <1>5, <1>6 DEF HookNext, Deliveries

-----------------------------------------------------------------------------
(* Stages and logs *)

\* Once excused, always excused; and a webhook that was there was there.
LEMMA ExcusesStay ==
  ASSUME HookInv, [HookNext]_hookVars
  PROVE  /\ Excused => Excused'
         /\ \A h \in Hooks : hook[h] # "none" => hook'[h] # "none"
<1>1. /\ hook \in [Hooks -> {"none", "active", "inactive", "deleted"}]
      /\ upsets \in Nat
  BY HookAssumption DEF HookInv, HookTypeOK
<1>2. ASSUME NEW h \in Hooks, CreateHook(h) \/ UpdateHook(h) \/ RemoveHook(h)
      PROVE  /\ upsets' = upsets
             /\ \A g \in Hooks : /\ hook[g] = "deleted" => hook'[g] = "deleted"
                                 /\ hook[g] # "none" => hook'[g] # "none"
  BY <1>1, <1>2 DEF CreateHook, UpdateHook, RemoveHook, Stored
<1>3. ASSUME NEW e \in Events, Trigger(e)
      PROVE  hook' = hook /\ upsets' = upsets
  BY <1>3 DEF Trigger
<1>4. ASSUME NEW d \in Events \X Hooks, DeliveryStep(d)
      PROVE  hook' = hook /\ (upsets' = upsets \/ upsets' = upsets + 1)
  BY <1>4 DEF DeliveryStep, Answered, LogAnswer, CountAnswer, LogError,
              CountError, DeliveryFails, CatchFails, Upset
<1>5. HooksCrash => hook' = hook /\ upsets' = upsets + 1
  BY DEF HooksCrash, Upset
<1>6. CASE UNCHANGED hookVars
  BY <1>6 DEF hookVars, Excused
<1>. QED
  BY <1>1, <1>2, <1>3, <1>4, <1>5, <1>6 DEF HookNext, Excused

\* A delivery nobody moves, or that is cut off with an excuse.
LEMMA UnmovedIsRight ==
  ASSUME NEW d \in Deliveries, ByStage(d), Tells(d), Excused => Excused',
         hook[d[2]] # "none" => hook'[d[2]] # "none",
         hookLog'[d] = hookLog[d],
         \/ delivery'[d] = delivery[d]
         \/ /\ Excused' /\ delivery'[d].at = "cut"
            /\ delivery'[d].answer = delivery[d].answer
            /\ delivery[d].at # "none"
  PROVE  ByStage(d)' /\ Tells(d)'
BY DEF ByStage, Tells, Unlogged, LoggedRight

LEMMA ExitsCut ==
  ASSUME HookTypeOK, NodeExits, NEW d \in Deliveries
  PROVE  \/ delivery'[d] = delivery[d]
         \/ /\ delivery'[d].at = "cut" /\ delivery[d].at # "none"
            /\ delivery'[d].answer = delivery[d].answer
BY DEF HookTypeOK, NodeExits, UnderWay, Deliveries, Delivery

\* The delivery that moves, step by step.
LEMMA MovedIsRight ==
  ASSUME HookInv, HookTypeOK', NEW d \in Deliveries, DeliveryStep(d),
         Excused => Excused'
  PROVE  ByStage(d)' /\ Tells(d)'
<1>. USE DEF ByStage, Tells, Unlogged, LoggedRight
<1>1. /\ ByStage(d) /\ Tells(d) /\ HookTypeOK
      /\ d \in Events \X Hooks /\ d[2] \in Hooks
  BY DEF HookInv, Deliveries
<1>2. delivery[d] \in Delivery /\ hookLog[d] \in Logged
  BY <1>1 DEF HookTypeOK
<1>3. hook' = hook
  BY DEF DeliveryStep, Answered, LogAnswer, CountAnswer, LogError,
         CountError, DeliveryFails, CatchFails
<1>4. ASSUME NEW at, GoesOn(d, at)
      PROVE  delivery'[d].at = at /\ delivery'[d].answer = delivery[d].answer
  BY <1>1, <1>2, <1>4 DEF GoesOn, HookTypeOK, Delivery
<1>5. ASSUME NEW answer \in {"ok", "notOk", "thrown"}, Answered(d, answer)
      PROVE  ByStage(d)' /\ Tells(d)'
  BY <1>1, <1>3, <1>5 DEF Answered, HookTypeOK, Excused
<1>6. CASE LogAnswer(d)
  <2>1. /\ delivery[d].at = "log" /\ delivery'[d].at = "update"
        /\ delivery'[d].answer = delivery[d].answer
    BY <1>4, <1>6 DEF LogAnswer
  <2>2. Unlogged(d)
    BY <1>1, <2>1
  <2>3. LoggedRight(d)'
    BY <1>1, <1>2, <1>6, <2>1, <2>2
    DEF LogAnswer, LogsAnswer, HookTypeOK, Logged
  <2>. QED
    BY <1>1, <1>3, <2>1, <2>3
<1>7. CASE CountAnswer(d)
  <2>1. hookLog' = hookLog /\ delivery[d].at = "update" /\ upsets' = upsets
    BY <1>7 DEF CountAnswer
  <2>2. CASE GoesOn(d, "done")
    BY <1>1, <1>3, <1>4, <2>1, <2>2
  <2>3. CASE d[2] \notin Stored /\ GoesOn(d, "logError")
    <3>1. hook[d[2]] = "deleted"
      BY <1>1, <2>1, <2>3 DEF Stored, HookTypeOK
    <3>2. Excused'
      BY <1>1, <1>3, <3>1 DEF Excused
    <3>. QED
      BY <1>1, <1>3, <1>4, <2>1, <2>3, <3>2
  <2>. QED
    BY <1>7, <2>2, <2>3 DEF CountAnswer
<1>8. CASE LogError(d)
  <2>1. /\ delivery[d].at = "logError" /\ delivery'[d].at = "updateError"
        /\ delivery'[d].answer = delivery[d].answer
    BY <1>4, <1>8 DEF LogError
  <2>2. hookLog'[d] = [good |-> hookLog[d].good, bad |-> hookLog[d].bad + 1]
    BY <1>1, <1>2, <1>8 DEF LogError, LogsError, HookTypeOK, Logged
  <2>3. hookLog[d].bad \in Nat /\ hookLog[d].bad <= 1
    BY <1>1, <1>2, <2>1 DEF Logged
  <2>4. ~Excused => hookLog[d].bad = 0 /\ delivery[d].answer = "thrown"
    BY <1>1, <2>1
  <2>. QED
    BY <1>1, <1>3, <2>1, <2>2, <2>3, <2>4
<1>9. CASE CountError(d)
  <2>1. hookLog' = hookLog /\ delivery[d].at = "updateError"
    BY <1>9 DEF CountError
  <2>2. CASE GoesOn(d, "done")
    BY <1>1, <1>3, <1>4, <2>1, <2>2
  <2>3. CASE d[2] \notin Stored /\ NodeExits
    <3>1. hook[d[2]] = "deleted"
      BY <1>1, <2>1, <2>3 DEF Stored, HookTypeOK
    <3>2. Excused'
      BY <1>1, <1>3, <3>1 DEF Excused
    <3>. QED
      BY <1>1, <1>3, <2>1, <2>3, <3>2, ExitsCut, UnmovedIsRight
  <2>. QED
    BY <1>9, <2>2, <2>3 DEF CountError
<1>10. CASE DeliveryFails(d)
  <2>1. /\ Excused' /\ GoesOn(d, "logError")
        /\ delivery[d].at \in {"log", "update"}
    BY <1>1, <1>10, UpsetExcuses DEF DeliveryFails
  <2>2. /\ delivery'[d].at = "logError"
        /\ delivery'[d].answer = delivery[d].answer
    BY <1>4, <2>1
  <2>3. \/ hookLog'[d] = hookLog[d]
        \/ /\ Unlogged(d)
           /\ \/ hookLog'[d] = [good |-> 0, bad |-> 1]
              \/ /\ hookLog'[d] = [good |-> 1, bad |-> 0]
                 /\ delivery[d].answer = "ok"
    BY <1>1, <1>2, <1>10 DEF DeliveryFails, LogsAnswer, HookTypeOK, Logged
  <2>. QED
    BY <1>1, <1>2, <1>3, <2>1, <2>2, <2>3 DEF Logged
<1>11. CASE CatchFails(d)
  <2>1. /\ Excused' /\ NodeExits
        /\ delivery[d].at \in {"logError", "updateError"}
    BY <1>1, <1>11, UpsetExcuses DEF CatchFails
  <2>2. /\ delivery'[d].at = "cut"
        /\ delivery'[d].answer = delivery[d].answer
    BY <1>1, <1>2, <2>1 DEF NodeExits, UnderWay, Delivery
  <2>3. hookLog'[d].good = hookLog[d].good
    BY <1>1, <1>2, <1>11 DEF CatchFails, LogsError, HookTypeOK, Logged
  <2>. QED
    BY <1>1, <1>3, <2>1, <2>2, <2>3
<1>. QED
  BY <1>5, <1>6, <1>7, <1>8, <1>9, <1>10, <1>11 DEF DeliveryStep

\* The others keep their log and stay, or are cut off with an excuse.
LEMMA OthersAreRight ==
  ASSUME HookInv, NEW d \in Deliveries, DeliveryStep(d), Excused => Excused',
         NEW c \in Deliveries \ {d}
  PROVE  ByStage(c)' /\ Tells(c)'
<1>1. /\ ByStage(c) /\ Tells(c) /\ HookTypeOK /\ ByStage(d)
      /\ c \in Events \X Hooks /\ d \in Events \X Hooks /\ d[2] \in Hooks
  BY DEF HookInv, Deliveries
<1>2. hookLog'[c] = hookLog[c] /\ hook' = hook
  BY <1>1 DEF DeliveryStep, Answered, LogAnswer, LogsAnswer, CountAnswer,
              LogError, LogsError, CountError, DeliveryFails, CatchFails,
              HookTypeOK
<1>3. \/ delivery'[c] = delivery[c]
      \/ NodeExits /\ Excused'
  <2>1. ASSUME NEW answer \in {"ok", "notOk", "thrown"}, Answered(d, answer)
        PROVE  delivery'[c] = delivery[c]
    BY <1>1, <2>1 DEF Answered, HookTypeOK
  <2>2. ASSUME NEW at, GoesOn(d, at)
        PROVE  delivery'[c] = delivery[c]
    BY <1>1, <2>2 DEF GoesOn, HookTypeOK
  <2>3. CASE CountError(d)
    <3>1. CASE d[2] \notin Stored /\ NodeExits
      <4>1. delivery[d].at = "updateError"
        BY <2>3 DEF CountError
      <4>2. hook[d[2]] # "none"
        BY <1>1, <4>1 DEF ByStage
      <4>3. hook'[d[2]] = "deleted"
        BY <1>1, <1>2, <3>1, <4>2 DEF Stored, HookTypeOK
      <4>. QED
        BY <1>1, <3>1, <4>3 DEF Excused
    <3>. QED
      BY <2>2, <2>3, <3>1 DEF CountError
  <2>4. CASE DeliveryFails(d)
    BY <2>2, <2>4 DEF DeliveryFails
  <2>5. CASE CatchFails(d)
    BY <1>1, <2>5, UpsetExcuses DEF CatchFails
  <2>. QED
    BY <2>1, <2>2, <2>3, <2>4, <2>5
    DEF DeliveryStep, LogAnswer, CountAnswer, LogError
<1>. QED
  BY <1>1, <1>2, <1>3, ExitsCut, UnmovedIsRight

LEMMA StagesStep ==
  ASSUME HookInv, HookTypeOK', [HookNext]_hookVars, NEW d \in Deliveries
  PROVE  ByStage(d)' /\ Tells(d)'
<1>1. /\ ByStage(d) /\ Tells(d) /\ HookTypeOK
      /\ d \in Events \X Hooks /\ d[2] \in Hooks
  BY DEF HookInv, Deliveries
<1>2. /\ Excused => Excused'
      /\ hook[d[2]] # "none" => hook'[d[2]] # "none"
  BY <1>1, ExcusesStay
<1>3. ASSUME NEW h \in Hooks, CreateHook(h) \/ UpdateHook(h) \/ RemoveHook(h)
      PROVE  UNCHANGED <<delivery, hookLog>>
  BY <1>3 DEF CreateHook, UpdateHook, RemoveHook
<1>4. ASSUME NEW e \in Events, Trigger(e)
      PROVE  ByStage(d)' /\ Tells(d)'
  <2>1. hookLog' = hookLog /\ hook' = hook /\ upsets' = upsets
    BY <1>4 DEF Trigger
  <2>2. CASE delivery'[d] = delivery[d]
    BY <1>1, <1>2, <2>1, <2>2, UnmovedIsRight
  <2>3. CASE delivery'[d] # delivery[d]
    <3>1. /\ delivery'[d] = [at |-> "call", answer |-> "none"]
          /\ d[1] = e /\ hook[d[2]] = "active"
      BY <1>1, <1>4, <2>3 DEF Trigger, HookTypeOK
    <3>2. delivery[d].at = "none"
      BY <1>4, <3>1 DEF Trigger, HookInv
    <3>. QED
      BY <1>1, <2>1, <3>1, <3>2
      DEF ByStage, Tells, Unlogged, LoggedRight, Excused
  <2>. QED
    BY <2>2, <2>3
<1>5. ASSUME NEW c \in Deliveries, DeliveryStep(c)
      PROVE  ByStage(d)' /\ Tells(d)'
  BY <1>2, <1>5, MovedIsRight, OthersAreRight
<1>6. CASE HooksCrash
  <2>1. Excused' /\ NodeExits /\ hookLog' = hookLog
    BY <1>1, <1>6, UpsetExcuses DEF HooksCrash
  <2>. QED
    BY <1>1, <1>2, <2>1, ExitsCut, UnmovedIsRight
<1>7. UNCHANGED <<delivery, hookLog>> => ByStage(d)' /\ Tells(d)'
  BY <1>1, <1>2, UnmovedIsRight
<1>. QED
  BY <1>3, <1>4, <1>5, <1>6, <1>7 DEF HookNext, hookVars, Deliveries

\* A delivery begins with the call of its event.
LEMMA CalledStep ==
  ASSUME HookInv, [HookNext]_hookVars, NEW d \in Deliveries,
         d[1] \notin called'
  PROVE  delivery'[d].at = "none"
<1>1. HookTypeOK /\ d \in Events \X Hooks
  BY DEF HookInv, Deliveries
<1>2. called \subseteq called'
  BY DEF HookNext, CreateHook, UpdateHook, RemoveHook, Trigger, DeliveryStep,
         Answered, LogAnswer, CountAnswer, LogError, CountError,
         DeliveryFails, CatchFails, HooksCrash, hookVars
<1>3. delivery[d].at = "none"
  BY <1>2 DEF HookInv
<1>4. delivery'[d] = delivery[d]
  <2>1. ASSUME NEW h \in Hooks, CreateHook(h) \/ UpdateHook(h) \/ RemoveHook(h)
        PROVE  delivery' = delivery
    BY <2>1 DEF CreateHook, UpdateHook, RemoveHook
  <2>2. ASSUME NEW e \in Events, Trigger(e)
        PROVE  delivery'[d] = delivery[d]
    BY <1>1, <2>2 DEF Trigger, HookTypeOK
  <2>3. ASSUME NEW c \in Events \X Hooks, DeliveryStep(c)
        PROVE  delivery'[d] = delivery[d]
    <3>1. NodeExits => delivery'[d] = delivery[d]
      BY <1>1, <1>3 DEF NodeExits, UnderWay
    <3>2. delivery[c].at # "none"
      BY <2>3 DEF DeliveryStep, Answered, LogAnswer, CountAnswer, LogError,
                  CountError, DeliveryFails, CatchFails
    <3>3. c # d
      BY <1>3, <3>2
    <3>4. ASSUME NEW at, GoesOn(c, at) PROVE delivery'[d] = delivery[d]
      BY <1>1, <3>3, <3>4 DEF GoesOn, HookTypeOK
    <3>5. ASSUME NEW answer \in {"ok", "notOk", "thrown"}, Answered(c, answer)
          PROVE  delivery'[d] = delivery[d]
      BY <1>1, <3>3, <3>5 DEF Answered, HookTypeOK
    <3>. QED
      BY <2>3, <3>1, <3>4, <3>5
      DEF DeliveryStep, LogAnswer, CountAnswer, LogError, CountError,
          DeliveryFails, CatchFails
  <2>4. HooksCrash => delivery'[d] = delivery[d]
    BY <1>1, <1>3 DEF HooksCrash, NodeExits, UnderWay
  <2>. QED
    BY <2>1, <2>2, <2>3, <2>4 DEF HookNext, hookVars
<1>. QED
  BY <1>3, <1>4

-----------------------------------------------------------------------------
(* The count of failures *)

\* A delivery that is done stays done, with its log.
LEMMA DoneStays ==
  ASSUME HookInv, [HookNext]_hookVars, NEW d \in Deliveries,
         delivery[d].at = "done"
  PROVE  delivery'[d] = delivery[d] /\ hookLog'[d] = hookLog[d]
<1>1. /\ HookTypeOK /\ d \in Events \X Hooks
      /\ d[1] \in called
  BY DEF HookInv, Deliveries
<1>2. ASSUME NEW h \in Hooks, CreateHook(h) \/ UpdateHook(h) \/ RemoveHook(h)
      PROVE  UNCHANGED <<delivery, hookLog>>
  BY <1>2 DEF CreateHook, UpdateHook, RemoveHook
<1>3. ASSUME NEW e \in Events, Trigger(e)
      PROVE  delivery'[d] = delivery[d] /\ hookLog'[d] = hookLog[d]
  BY <1>1, <1>3 DEF Trigger, HookTypeOK
<1>4. ASSUME NEW c \in Events \X Hooks, DeliveryStep(c)
      PROVE  delivery'[d] = delivery[d] /\ hookLog'[d] = hookLog[d]
  <2>1. delivery[c].at # "done"
    BY <1>4 DEF DeliveryStep, Answered, LogAnswer, CountAnswer, LogError,
                CountError, DeliveryFails, CatchFails
  <2>2. c # d
    BY <2>1
  <2>3. hookLog'[d] = hookLog[d]
    BY <1>1, <1>4, <2>2
    DEF DeliveryStep, Answered, LogAnswer, LogsAnswer, CountAnswer, LogError,
        LogsError, CountError, DeliveryFails, CatchFails, HookTypeOK
  <2>4. NodeExits => delivery'[d] = delivery[d]
    BY <1>1 DEF NodeExits, UnderWay
  <2>5. ASSUME NEW at, GoesOn(c, at) PROVE delivery'[d] = delivery[d]
    BY <1>1, <2>2, <2>5 DEF GoesOn, HookTypeOK
  <2>6. ASSUME NEW answer \in {"ok", "notOk", "thrown"}, Answered(c, answer)
        PROVE  delivery'[d] = delivery[d]
    BY <1>1, <2>2, <2>6 DEF Answered, HookTypeOK
  <2>. QED
    BY <1>4, <2>3, <2>4, <2>5, <2>6
    DEF DeliveryStep, LogAnswer, CountAnswer, LogError, CountError,
        DeliveryFails, CatchFails
<1>5. CASE HooksCrash
  BY <1>1, <1>5 DEF HooksCrash, NodeExits, UnderWay
<1>. QED
  BY <1>2, <1>3, <1>4, <1>5 DEF HookNext, hookVars

\* A failure is counted by a delivery that ends with a failed log, or with an
\* upset.
LEMMA CountedByOne ==
  ASSUME HookInv, HookTypeOK', [HookNext]_hookVars, NEW h \in Hooks
  PROVE  \/ failures'[h] \in {0, failures[h]}
         \/ failures'[h] = failures[h] + 1 /\ upsets' = upsets + 1
         \/ /\ failures'[h] = failures[h] + 1
            /\ \E e \in Events : /\ e \notin DoneWith(h)
                                 /\ e \in DoneWith(h)'
<1>1. HookTypeOK /\ \A d \in Deliveries : ByStage(d)
  BY DEF HookInv
<1>2. ASSUME NEW g \in Hooks, CreateHook(g) \/ UpdateHook(g) \/ RemoveHook(g)
      PROVE  failures' = failures
  BY <1>2 DEF CreateHook, UpdateHook, RemoveHook
<1>3. ASSUME NEW e \in Events, Trigger(e)
      PROVE  failures' = failures
  BY <1>3 DEF Trigger
<1>4. ASSUME NEW e \in Events, NEW g \in Hooks, DeliveryStep(<<e, g>>),
             failures' # failures
      PROVE  \/ failures'[h] \in {0, failures[h]}
             \/ failures'[h] = failures[h] + 1 /\ upsets' = upsets + 1
             \/ /\ failures'[h] = failures[h] + 1
                /\ e \notin DoneWith(h) /\ e \in DoneWith(h)'
  <2>. DEFINE d == <<e, g>>
  <2>1. d \in Deliveries /\ d \in Events \X Hooks /\ d[2] = g
    BY DEF Deliveries
  <2>2. CountsAnswer(d) \/ CountsError(d)
    BY <1>4 DEF DeliveryStep, Answered, LogAnswer, CountAnswer, LogError,
                CountError, DeliveryFails, CatchFails
  <2>3. ByStage(d) /\ delivery[d] \in Delivery /\ hookLog[d] \in Logged
    BY <1>1, <2>1 DEF HookTypeOK
  <2>. HIDE DEF d
  <2>4. g # h => failures'[h] = failures[h]
    BY <1>1, <2>1, <2>2 DEF CountsAnswer, CountsError, HookTypeOK
  <2>5. g = h => failures'[h] \in {0, failures[h] + 1}
    BY <1>1, <2>1, <2>2
    DEF CountsAnswer, CountsError, CountedFailures, HookTypeOK
  <2>6. CASE DeliveryFails(d) \/ CatchFails(d)
    <3>1. upsets' = upsets + 1
      BY <2>6 DEF DeliveryFails, CatchFails, Upset
    <3>. QED
      BY <2>4, <2>5, <3>1
  <2>7. CASE CountAnswer(d) \/ CountError(d)
    <3>1. /\ GoesOn(d, "done") /\ hookLog' = hookLog
          /\ delivery[d].at # "done"
      BY <1>4, <2>7 DEF CountAnswer, CountError
    <3>2. delivery'[d].at = "done"
      BY <1>1, <2>1, <2>3, <3>1 DEF GoesOn, HookTypeOK, Delivery
    <3>3. CASE CountAnswer(d) /\ delivery[d].answer = "ok"
      <4>1. g = h => failures'[h] = 0
        BY <1>1, <1>4, <2>1, <3>3
        DEF CountAnswer, CountsAnswer, CountedFailures, HookTypeOK
      <4>. QED
        BY <2>4, <4>1
    <3>4. CASE CountAnswer(d) /\ delivery[d].answer # "ok"
      <4>1. hookLog[d].bad > 0
        BY <2>3, <3>4 DEF CountAnswer, ByStage, LoggedRight
      <4>. QED
        BY <2>4, <2>5, <3>1, <3>2, <4>1 DEF DoneWith, d
    <3>5. CASE CountError(d)
      <4>1. hookLog[d].bad > 0
        BY <2>3, <3>5 DEF CountError, ByStage
      <4>. QED
        BY <2>4, <2>5, <3>1, <3>2, <4>1 DEF DoneWith, d
    <3>. QED
      BY <2>7, <3>3, <3>4, <3>5
  <2>8. DeliveryStep(d)
    BY <1>4 DEF d
  <2>9. ~(Answered(d, "ok") \/ LogAnswer(d) \/ LogError(d))
    BY <1>4 DEF Answered, LogAnswer, LogError
  <2>10. \A answer : ~Answered(d, answer)
    BY <1>4 DEF Answered
  <2>. QED
    BY <2>6, <2>7, <2>8, <2>9, <2>10 DEF DeliveryStep
<1>5. failures' = failures => failures'[h] \in {0, failures[h]}
  OBVIOUS
<1>6. ASSUME NEW d \in Events \X Hooks, DeliveryStep(d), failures' # failures
      PROVE  \/ failures'[h] \in {0, failures[h]}
             \/ failures'[h] = failures[h] + 1 /\ upsets' = upsets + 1
             \/ /\ failures'[h] = failures[h] + 1
                /\ \E e \in Events : /\ e \notin DoneWith(h)
                                     /\ e \in DoneWith(h)'
  <2>1. PICK e \in Events, g \in Hooks : d = <<e, g>>
    OBVIOUS
  <2>2. DeliveryStep(<<e, g>>)
    BY <1>6, <2>1
  <2>. QED
    BY <1>4, <1>6, <2>2
<1>7. HooksCrash => failures' = failures
  BY DEF HooksCrash
<1>. QED
  BY <1>2, <1>3, <1>5, <1>6, <1>7 DEF HookNext, hookVars

LEMMA UpsetsGrow ==
  ASSUME HookTypeOK, [HookNext]_hookVars
  PROVE  upsets' = upsets \/ upsets' = upsets + 1
BY DEF HookNext, CreateHook, UpdateHook, RemoveHook, Trigger, DeliveryStep,
       Answered, LogAnswer, CountAnswer, LogError, CountError, DeliveryFails,
       CatchFails, HooksCrash, Upset, hookVars

LEMMA NoMoreThan ==
  ASSUME NEW f \in Nat, NEW g \in Nat, NEW c \in Nat, NEW d \in Nat,
         NEW u \in Nat, NEW v \in Nat,
         f <= c + u, c <= d, v = u \/ v = u + 1,
         \/ g \in {0, f}
         \/ g = f + 1 /\ v = u + 1
         \/ g = f + 1 /\ c + 1 <= d
  PROVE  g <= d + v
OBVIOUS

LEMMA FailuresStep ==
  ASSUME HookInv, HookTypeOK', [HookNext]_hookVars, NEW h \in Hooks
  PROVE  failures'[h] <= Cardinality(DoneWith(h)') + upsets'
<1>. DEFINE D == DoneWith(h)
            E == DoneWith(h)'
<1>1. D \subseteq E
  BY DoneStays DEF DoneWith, Deliveries
<1>2. D \in SUBSET Events /\ E \in SUBSET Events
  BY DEF DoneWith
<1>3. /\ failures[h] <= Cardinality(D) + upsets
      /\ failures[h] \in Nat /\ failures'[h] \in Nat
      /\ upsets \in Nat /\ upsets' \in Nat
  BY HookAssumption DEF HookInv, HookTypeOK
<1>4. \/ failures'[h] \in {0, failures[h]}
      \/ failures'[h] = failures[h] + 1 /\ upsets' = upsets + 1
      \/ /\ failures'[h] = failures[h] + 1
         /\ \E e \in Events : e \notin D /\ e \in E
  BY CountedByOne
<1>. HIDE DEF D, E
<1>5. /\ IsFiniteSet(D) /\ Cardinality(D) \in Nat
      /\ IsFiniteSet(E) /\ Cardinality(E) \in Nat
  BY <1>2, DoneIsFinite
<1>6. Cardinality(D) <= Cardinality(E)
  BY <1>1, <1>5, FS_Subset
<1>7. ASSUME NEW e \in Events, e \notin D, e \in E
      PROVE  Cardinality(D) + 1 <= Cardinality(E)
  <2>1. Cardinality(D \cup {e}) = Cardinality(D) + 1
    BY <1>5, <1>7, FS_AddElement
  <2>2. D \cup {e} \subseteq E
    BY <1>1, <1>7
  <2>3. Cardinality(D \cup {e}) <= Cardinality(E)
    BY <1>5, <2>2, FS_Subset
  <2>. QED
    BY <2>1, <2>3
<1>8. \/ failures'[h] \in {0, failures[h]}
      \/ failures'[h] = failures[h] + 1 /\ upsets' = upsets + 1
      \/ /\ failures'[h] = failures[h] + 1
         /\ Cardinality(D) + 1 <= Cardinality(E)
  BY <1>4, <1>7
<1>9. upsets' = upsets \/ upsets' = upsets + 1
  BY UpsetsGrow DEF HookInv
<1>10. failures'[h] <= Cardinality(E) + upsets'
  BY <1>3, <1>5, <1>6, <1>8, <1>9, NoMoreThan
<1>. QED
  BY <1>10 DEF E

LEMMA HookInvariant == HookSpec => []HookInv
<1>1. HookInv /\ [HookNext]_hookVars => HookInv'
  BY HookTypeStep, StagesStep, CalledStep, FailuresStep
  DEF HookInv, Deliveries
<1>. QED
  BY <1>1, HookInitially, PTL DEF HookSpec

\* Webhooks, deliveries and logs keep their types.
THEOREM WebhooksTypeCorrect == HookSpec => []HookTypeOK
<1>1. HookInv => HookTypeOK
  BY DEF HookInv
<1>. QED
  BY <1>1, HookInvariant, PTL

\* The log of a delivery that is done tells its answer, a delivery that is cut
\* off has an excuse, and failureCount exceeds the deliveries logged as failed
\* by one an upset at most (webhooks.service 101-160).
THEOREM WebhooksTellTheTruth == HookSpec => []LogsTellTheTruth
<1>1. HookInv => LogsTellTheTruth
  <2>. SUFFICES ASSUME HookInv PROVE LogsTellTheTruth
    OBVIOUS
  <2>1. ASSUME NEW d \in Events \X Hooks
        PROVE  /\ delivery[d].at = "done" =>
                    hookLog[d].good + hookLog[d].bad > 0
               /\ hookLog[d].good = 1 => delivery[d].answer = "ok"
               /\ hookLog[d].bad > 0 /\ delivery[d].answer = "ok" => Excused
               /\ hookLog[d].bad > 1 => Excused
               /\ delivery[d].at = "cut" => Excused
    <3>1. ByStage(d) /\ Tells(d) /\ hookLog[d] \in Logged
      BY DEF HookInv, HookTypeOK, Deliveries
    <3>2. hookLog[d].good \in Nat /\ hookLog[d].bad \in Nat
      BY <3>1 DEF Logged
    <3>3. delivery[d].at = "done" => hookLog[d].good + hookLog[d].bad > 0
      <4>1. delivery[d].at = "done" =>
              hookLog[d].good = 1 \/ hookLog[d].bad > 0
        BY <3>1 DEF ByStage
      <4>. QED
        BY <3>2, <4>1
    <3>4. delivery[d].at = "cut" => Excused
      BY <3>1 DEF ByStage
    <3>5. ~(hookLog[d].bad <= 1) <=> hookLog[d].bad > 1
      BY <3>2
    <3>. QED
      BY <3>1, <3>3, <3>4, <3>5 DEF Tells
  <2>2. ASSUME NEW h \in Hooks
        PROVE  failures[h] <= Cardinality(FailedOf(h)) + upsets
    <3>1. DoneWith(h) \subseteq FailedOf(h) /\ FailedOf(h) \in SUBSET Events
      BY DEF DoneWith, FailedOf
    <3>2. IsFiniteSet(FailedOf(h)) /\ Cardinality(FailedOf(h)) \in Nat
      BY <3>1, DoneIsFinite
    <3>3. Cardinality(DoneWith(h)) <= Cardinality(FailedOf(h))
      BY <3>1, <3>2, FS_Subset
    <3>4. Cardinality(DoneWith(h)) \in Nat
      BY DoneIsFinite DEF DoneWith
    <3>5. /\ failures[h] <= Cardinality(DoneWith(h)) + upsets
          /\ failures[h] \in Nat /\ upsets \in Nat
      BY HookAssumption DEF HookInv, HookTypeOK
    <3>. QED
      BY <3>2, <3>3, <3>4, <3>5
  <2>. QED
    BY <2>1, <2>2 DEF LogsTellTheTruth, Excused
<1>. QED
  BY <1>1, HookInvariant, PTL
=============================================================================
