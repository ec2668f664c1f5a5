----------------------------- MODULE InboxProofs -----------------------------
(***************************************************************************)
(* Theorems of Inbox, for any number of handlers, messages, requests and   *)
(* faults.                                                                 *)
(*                                                                         *)
(* The counters of the conversation are compared with the rows of messages *)
(* through the handlers that have stored a row and not yet counted it; the *)
(* bound on refused creations through those that still may be refused.     *)
(***************************************************************************)
EXTENDS Inbox, FiniteSetTheorems, TLAPS

In(stage) == {s \in Slots : slot[s].at = stage}

\* A handler's stage, kind and events fit together.
Fits(q) ==
  /\ q.at = "idle" <=> q.kind = "none"
  /\ q.kind = "send" => q.at \notin {"event", "count"}
  /\ q.kind = "hook" /\ q.at # "event" => q.left # <<>>

Shape == \A s \in Slots : Fits(slot[s])

\* A text of a webhook is still to come or has been settled.
Settled ==
  /\ answered \subseteq stored \cup lost \cup dropped
  /\ \A s \in Slots : slot[s].kind = "hook" =>
       TextsOf(slot[s].batch) \subseteq
         TextsOf(slot[s].left) \cup stored \cup lost \cup dropped
  /\ \A s \in Slots : At(s, "count") => Head(slot[s].left) \in stored
  /\ lost \subseteq Strange \/ raced + faults > 0 \/ provider = "REMOVED"

Counts ==
  /\ rows <= rowsAtRead + chat.unread + Cardinality(In("count")) + uncounted
  /\ rowsAtRead + chat.unread + Cardinality(In("count"))
       <= rows + Cardinality(Slots)
  /\ chat.status # "OPEN" =>
       rows <= rowsAtClose + Cardinality(In("count")) + uncounted

\* How far the handlers can have come, and how often they can still be refused.
Races ==
  /\ contact = "NONE" => raced = 0 /\ ~chat.exists
  /\ \A s \in Slots : slot[s].at \in {"chat", "newChat", "store", "count"} =>
       contact # "NONE"
  /\ \A s \in Slots : slot[s].at \in {"store", "count"} => chat.exists
  /\ ~chat.exists => chat.unread = 0 /\ chat.status = "OPEN"
  /\ ~chat.exists =>
       raced + Cardinality(In("newContact")) <= Cardinality(Slots)
  /\ chat.exists =>
       raced + Cardinality(In("newContact")) + Cardinality(In("newChat"))
         < 2 * Cardinality(Slots)

InboxInv == InboxTypeOK /\ Shape /\ Settled /\ Counts /\ Races

-----------------------------------------------------------------------------
(* Sequences and sets *)

LEMMA HeadAndTail ==
  ASSUME NEW q \in Seq(Texts), q # <<>>
  PROVE  /\ Tail(q) \in Seq(Texts) /\ Head(q) \in Texts
         /\ TextsOf(q) \subseteq {Head(q)} \cup TextsOf(Tail(q))
<1>1. Tail(q) \in Seq(Texts) /\ Head(q) \in Texts /\ Head(q) = q[1]
  OBVIOUS
<1>2. ASSUME NEW k \in DOMAIN q, k # 1
      PROVE  k - 1 \in DOMAIN Tail(q) /\ Tail(q)[k - 1] = q[k]
  BY <1>2
<1>3. QED
  BY <1>1, <1>2 DEF TextsOf

LEMMA SlotsFinite ==
  /\ IsFiniteSet(Slots) /\ Cardinality(Slots) \in Nat
  /\ Cardinality(Slots) > 0
  /\ Batches \subseteq Seq(Texts) /\ MaxFaults \in Nat
BY InboxAssumption, FS_CardinalityType, FS_EmptySet DEF InboxAssumption

LEMMA SumIsPositive ==
  \A m, n, k \in Nat : /\ n > 0 => m + n > 0
                       /\ m + n > 0 /\ n <= k => m + k > 0
OBVIOUS

LEMMA InIsFinite ==
  ASSUME NEW stage
  PROVE  /\ IsFiniteSet(In(stage)) /\ Cardinality(In(stage)) \in Nat
         /\ Cardinality(In(stage)) <= Cardinality(Slots)
BY SlotsFinite, FS_Subset, FS_CardinalityType DEF In

\* What a step of one handler does to the number of those at a stage.
LEMMA OneMoves ==
  ASSUME slot \in [Slots -> Slot], NEW s \in Slots, NEW q \in Slot,
         slot' = [slot EXCEPT ![s] = q], NEW stage
  PROVE  LET n == Cardinality(In(stage))
             m == Cardinality(In(stage)')
         IN  /\ n \in Nat /\ m \in Nat /\ m <= Cardinality(Slots)
             /\ q.at # stage => m <= n
             /\ slot[s].at # stage /\ q.at # stage => m = n
             /\ slot[s].at # stage /\ q.at = stage => m = n + 1
             /\ slot[s].at = stage /\ q.at # stage => m = n - 1
             /\ q.at # stage => m < Cardinality(Slots)
<1> DEFINE A == In(stage)
           B == In(stage)'
<1>1. /\ IsFiniteSet(A) /\ Cardinality(A) \in Nat
      /\ B \subseteq Slots /\ IsFiniteSet(B) /\ Cardinality(B) \in Nat
      /\ Cardinality(B) <= Cardinality(Slots)
  <2>1. B \subseteq Slots
    BY DEF In
  <2>2. QED
    BY <2>1, InIsFinite, SlotsFinite, FS_Subset, FS_CardinalityType
<1>2. CASE slot[s].at # stage /\ q.at # stage
  <2>1. A = B
    BY <1>2 DEF In
  <2>2. s \in Slots \ B
    BY <1>2 DEF In
  <2>3. Cardinality(B) < Cardinality(Slots)
    BY <1>1, <2>2, SlotsFinite, FS_Subset
  <2>4. QED
    BY <1>1, <1>2, <2>1, <2>3
<1>3. CASE slot[s].at # stage /\ q.at = stage
  <2>1. B = A \cup {s} /\ s \notin A
    BY <1>3 DEF In
  <2>2. Cardinality(B) = Cardinality(A) + 1
    BY <1>1, <2>1, FS_AddElement
  <2>3. QED
    BY <1>1, <1>3, <2>2
<1>4. CASE slot[s].at = stage /\ q.at # stage
  <2>1. B = A \ {s} /\ s \in A /\ s \in Slots \ B
    BY <1>4 DEF In
  <2>2. Cardinality(B) = Cardinality(A) - 1
    BY <1>1, <2>1, FS_RemoveElement
  <2>3. Cardinality(B) < Cardinality(Slots)
    BY <1>1, <2>1, SlotsFinite, FS_Subset
  <2>4. QED
    BY <1>1, <1>4, <2>2, <2>3
<1>5. CASE slot[s].at = stage /\ q.at = stage
  BY <1>1, <1>5
<1>6. QED
  BY <1>2, <1>3, <1>4, <1>5

\* What a handler becomes.
LEMMA GoesToIs ==
  ASSUME InboxInv, NEW s \in Slots, NEW stage \in Stages
  PROVE  LET q == [slot[s] EXCEPT !.at = stage]
         IN  /\ q \in Slot /\ q.at = stage /\ q.kind = slot[s].kind
             /\ q.batch = slot[s].batch /\ q.left = slot[s].left
BY DEF InboxInv, InboxTypeOK, Slot

LEMMA NextEventIs ==
  ASSUME InboxInv, NEW s \in Slots, slot[s].left # <<>>
  PROVE  LET q == NextEvent(s)
         IN  /\ q \in Slot /\ q.at = "event" /\ q.kind = slot[s].kind
             /\ q.batch = slot[s].batch /\ q.left = Tail(slot[s].left)
<1>1. slot[s] \in Slot /\ slot[s].left \in Seq(Texts)
  BY DEF InboxInv, InboxTypeOK, Slot
<1>2. Tail(slot[s].left) \in Seq(Texts)
  BY <1>1, HeadAndTail
<1>3. QED
  BY <1>1, <1>2 DEF NextEvent, Slot, Stages

LEMMA FreeIs == Free \in Slot /\ Free.at = "idle" /\ Free.kind = "none"
BY DEF Free, Slot, Stages

LEMMA AfterThrowIs ==
  ASSUME InboxInv, NEW s \in Slots, slot[s].at \notin {"idle", "event"}
  PROVE  LET q == AfterThrow(s)
         IN  /\ q \in Slot /\ Fits(q) /\ q.at \in {"idle", "event"}
             /\ q.kind = "hook" => /\ slot[s].kind = "hook"
                                   /\ slot[s].left # <<>>
                                   /\ q.batch = slot[s].batch
                                   /\ q.left = Tail(slot[s].left)
<1>1. Fits(slot[s]) /\ slot[s] \in Slot
  BY DEF InboxInv, InboxTypeOK, Shape
<1>2. CASE slot[s].kind = "hook"
  BY <1>1, <1>2, NextEventIs DEF AfterThrow, Fits
<1>3. CASE slot[s].kind # "hook"
  BY <1>3, FreeIs DEF AfterThrow, Fits
<1>4. QED
  BY <1>2, <1>3

-----------------------------------------------------------------------------
(* Steps of handlers *)

\* The parts of the invariant that speak of each handler, when s becomes q.
LEMMA HandlerMoves ==
  ASSUME InboxInv, NEW s \in Slots, NEW q \in Slot, Fits(q),
         slot' = [slot EXCEPT ![s] = q],
         stored \subseteq stored', lost \subseteq lost',
         dropped \subseteq dropped',
         answered' \subseteq stored' \cup lost' \cup dropped',
         q.kind = "hook" =>
           TextsOf(q.batch) \subseteq
             TextsOf(q.left) \cup stored' \cup lost' \cup dropped',
         q.at = "count" => Head(q.left) \in stored',
         \/ lost' \subseteq Strange
         \/ raced' + faults' > 0
         \/ provider' = "REMOVED"
  PROVE  Shape' /\ Settled'
<1>1. slot \in [Slots -> Slot]
  BY DEF InboxInv, InboxTypeOK
<1>2. \A x \in Slots : slot'[x] = IF x = s THEN q ELSE slot[x]
  BY <1>1
<1>3. Shape'
  BY <1>2 DEF InboxInv, Shape
<1>4. ASSUME NEW x \in Slots, slot'[x].kind = "hook"
      PROVE  TextsOf(slot'[x].batch) \subseteq
               TextsOf(slot'[x].left) \cup stored' \cup lost' \cup dropped'
  BY <1>2, <1>4 DEF InboxInv, Settled
<1>5. ASSUME NEW x \in Slots, slot'[x].at = "count"
      PROVE  Head(slot'[x].left) \in stored'
  BY <1>2, <1>5 DEF InboxInv, Settled, At
<1>6. Settled'
  BY <1>4, <1>5 DEF Settled, At
<1>7. QED
  BY <1>3, <1>6

\* The other parts, when s becomes q and no counter changes.
LEMMA HandlerWaits ==
  ASSUME InboxInv, NEW s \in Slots, NEW q \in Slot,
         slot' = [slot EXCEPT ![s] = q],
         slot[s].at # "count", q.at # "count",
         UNCHANGED <<contact, chat, rows, raced, reading>>,
         q.at = "newContact" => contact = "NONE",
         q.at \in {"chat", "newChat", "store"} => contact # "NONE",
         q.at = "newChat" => ~chat.exists,
         q.at = "store" => chat.exists
  PROVE  Counts' /\ Races'
<1>1. slot \in [Slots -> Slot] /\ chat \in Chat /\ raced \in Nat
  BY DEF InboxInv, InboxTypeOK
<1>2. Cardinality(In("count")') = Cardinality(In("count"))
  BY <1>1, OneMoves
<1>3. Counts'
  BY <1>2 DEF InboxInv, Counts, reading
<1>4. \A x \in Slots : slot'[x] = IF x = s THEN q ELSE slot[x]
  BY <1>1
<1>5. /\ \A x \in Slots : slot'[x].at \in {"chat", "newChat", "store", "count"}
           => contact # "NONE"
      /\ \A x \in Slots : slot'[x].at \in {"store", "count"} => chat.exists
  BY <1>4 DEF InboxInv, Races
<1>6. contact = "NONE" => raced = 0 /\ ~chat.exists
  BY DEF InboxInv, Races
<1>7. LET n == Cardinality(In("newContact"))
          m == Cardinality(In("newContact")')
      IN  /\ n \in Nat /\ m \in Nat /\ m <= Cardinality(Slots)
          /\ q.at # "newContact" => m <= n
  BY <1>1, OneMoves
<1>8. LET n == Cardinality(In("newChat"))
          m == Cardinality(In("newChat")')
      IN  n \in Nat /\ m \in Nat /\ (q.at # "newChat" => m <= n)
  BY <1>1, OneMoves
<1>9. ~chat.exists =>
        raced + Cardinality(In("newContact")') <= Cardinality(Slots)
  <2>1. CASE q.at = "newContact"
    BY <2>1, <1>1, <1>6, <1>7, SlotsFinite
  <2>2. CASE q.at # "newContact"
    BY <2>2, <1>1, <1>7, SlotsFinite DEF InboxInv, Races
  <2>3. QED
    BY <2>1, <2>2
<1>10. ASSUME chat.exists
       PROVE  raced + Cardinality(In("newContact")')
                + Cardinality(In("newChat")') < 2 * Cardinality(Slots)
  <2>1. q.at # "newContact" /\ q.at # "newChat"
    BY <1>6, <1>10
  <2>2. QED
    BY <2>1, <1>1, <1>7, <1>8, <1>10, SlotsFinite DEF InboxInv, Races
<1>11. QED
  BY <1>3, <1>5, <1>6, <1>9, <1>10 DEF Races, InboxInv

LEMMA PostStep ==
  ASSUME InboxInv, NEW s \in Slots, NEW batch \in Batches, Post(s, batch)
  PROVE  InboxInv'
<1> DEFINE q == [kind |-> "hook", at |-> "event", batch |-> batch,
                 left |-> batch]
<1>1. batch \in Seq(Texts) /\ Cardinality(Storable(batch)) \in Nat
  <2>1. batch \in Seq(Texts)
    BY SlotsFinite
  <2>2. DOMAIN batch = 1 .. Len(batch) /\ Len(batch) \in Nat
    BY <2>1
  <2>3. IsFiniteSet(1 .. Len(batch))
    BY <2>2, FS_Interval
  <2>4. Storable(batch) \subseteq 1 .. Len(batch)
    BY <2>2 DEF Storable
  <2>5. QED
    BY <2>1, <2>3, <2>4, FS_Subset, FS_CardinalityType
<1>2. q \in Slot /\ q.at = "event" /\ Fits(q)
  BY <1>1 DEF Slot, Stages, Fits
<1>3. slot' = [slot EXCEPT ![s] = q]
  BY DEF Post
<1>4. q.kind = "hook" /\ q.batch = q.left
  OBVIOUS
<1> HIDE DEF q
<1>5. InboxTypeOK'
  <2>1. slot' \in [Slots -> Slot]
    BY <1>2, <1>3 DEF InboxInv, InboxTypeOK
  <2>2. done' \in [posts : Nat, sends : Nat, edits : Nat]
    <3>1. done \in [posts : Nat, sends : Nat, edits : Nat]
      BY DEF InboxInv, InboxTypeOK
    <3>2. done' = [done EXCEPT !.posts = done.posts + 1]
      BY DEF Post
    <3>3. QED
      BY <3>1, <3>2
  <2>3. posted' \in Nat
    <3>1. posted \in Nat /\ posted' = posted + Cardinality(Storable(batch))
      BY DEF InboxInv, InboxTypeOK, Post
    <3>2. QED
      BY <3>1, <1>1
  <2>4. QED
    BY <2>1, <2>2, <2>3 DEF InboxInv, InboxTypeOK, Post, reading, bell
<1>6. Shape' /\ Settled'
  BY <1>2, <1>3, <1>4, HandlerMoves DEF InboxInv, Settled, Post
<1>7. Counts' /\ Races'
  BY <1>2, <1>3, HandlerWaits DEF Post, At
<1>8. QED
  BY <1>5, <1>6, <1>7 DEF InboxInv

LEMMA SendStep ==
  ASSUME InboxInv, NEW s \in Slots, Send(s)
  PROVE  InboxInv'
<1> DEFINE q == [Free EXCEPT !.kind = "send", !.at = "contact"]
<1>1. q \in Slot /\ q.at = "contact" /\ q.kind = "send" /\ Fits(q)
  BY FreeIs DEF Slot, Stages, Fits, Free
<1>2. slot' = [slot EXCEPT ![s] = q]
  BY DEF Send
<1> HIDE DEF q
<1>3. InboxTypeOK'
  <2>1. slot' \in [Slots -> Slot]
    BY <1>1, <1>2 DEF InboxInv, InboxTypeOK
  <2>2. done' \in [posts : Nat, sends : Nat, edits : Nat]
    BY DEF InboxInv, InboxTypeOK, Send
  <2>3. QED
    BY <2>1, <2>2 DEF InboxInv, InboxTypeOK, Send, history, reading, bell
<1>4. Shape' /\ Settled'
  BY <1>1, <1>2, HandlerMoves DEF InboxInv, Settled, Send, history
<1>5. Counts' /\ Races'
  BY <1>1, <1>2, HandlerWaits DEF Send, At, history
<1>6. QED
  BY <1>3, <1>4, <1>5 DEF InboxInv

LEMMA AnswerStep ==
  ASSUME InboxInv, NEW s \in Slots, Answer(s)
  PROVE  InboxInv'
<1>1. slot' = [slot EXCEPT ![s] = Free]
  BY DEF Answer
<1>2. Fits(Free) /\ Fits(slot[s])
  BY FreeIs DEF Fits, InboxInv, Shape
<1>3. slot[s].kind = "hook" /\ slot[s] \in Slot
  BY <1>2 DEF Answer, At, Fits, Slot, InboxInv, InboxTypeOK
<1>4. TextsOf(slot[s].left) = {}
  BY DEF Answer, TextsOf
<1>5. TextsOf(slot[s].batch) \subseteq Texts
  BY <1>3 DEF TextsOf, Slot
<1>6. answered' \subseteq stored \cup lost \cup dropped
  BY <1>3, <1>4 DEF Answer, InboxInv, Settled
<1>7. InboxTypeOK'
  BY <1>1, <1>5, FreeIs DEF InboxInv, InboxTypeOK, Answer, reading, bell
<1>8. Shape' /\ Settled'
  BY <1>1, <1>2, <1>6, FreeIs, HandlerMoves DEF InboxInv, Settled, Answer
<1>9. Counts' /\ Races'
  BY <1>1, FreeIs, HandlerWaits DEF Answer, At
<1>10. QED
  BY <1>7, <1>8, <1>9 DEF InboxInv

LEMMA BeginStep ==
  ASSUME InboxInv, NEW s \in Slots, Begin(s)
  PROVE  InboxInv'
<1>1. slot[s].kind = "hook" /\ slot[s].left # <<>> /\ slot[s] \in Slot
  BY DEF Begin, At, Fits, Slot, InboxInv, InboxTypeOK, Shape
<1>2. slot[s].left \in Seq(Texts)
  BY <1>1 DEF Slot
<1>3. CASE provider = "ACTIVE" /\ GoesTo(s, "contact") /\ UNCHANGED dropped
  <2> DEFINE q == [slot[s] EXCEPT !.at = "contact"]
  <2>1. /\ q \in Slot /\ q.at = "contact" /\ q.kind = "hook"
        /\ q.batch = slot[s].batch /\ q.left = slot[s].left
    BY <1>1, GoesToIs DEF Stages
  <2>2. slot' = [slot EXCEPT ![s] = q]
    BY <1>3 DEF GoesTo, InboxInv, InboxTypeOK
  <2> HIDE DEF q
  <2>3. Fits(q)
    BY <2>1, <1>1 DEF Fits
  <2>4. InboxTypeOK'
    BY <2>1, <2>2, <1>3 DEF InboxInv, InboxTypeOK, Begin, reading, bell
  <2>5. Shape' /\ Settled'
    BY <2>1, <2>2, <2>3, <1>1, <1>3, HandlerMoves
    DEF InboxInv, Settled, Begin
  <2>6. Counts' /\ Races'
    BY <2>1, <2>2, HandlerWaits DEF Begin, At
  <2>7. QED
    BY <2>4, <2>5, <2>6 DEF InboxInv
<1>4. CASE /\ slot' = [slot EXCEPT ![s] = NextEvent(s)]
           /\ dropped' = dropped \cup {Head(slot[s].left)}
  <2> DEFINE q == NextEvent(s)
  <2>1. /\ q \in Slot /\ q.at = "event" /\ q.kind = "hook"
        /\ q.batch = slot[s].batch /\ q.left = Tail(slot[s].left)
    BY <1>1, NextEventIs
  <2> HIDE DEF q
  <2>2. slot' = [slot EXCEPT ![s] = q]
    BY <1>4 DEF q
  <2>3. Fits(q)
    BY <2>1 DEF Fits
  <2>4. InboxTypeOK'
    BY <2>1, <2>2, <1>1, <1>2, <1>4, HeadAndTail
    DEF InboxInv, InboxTypeOK, Begin, reading, bell
  <2>5. TextsOf(q.batch) \subseteq
          TextsOf(q.left) \cup stored \cup lost \cup dropped'
    BY <2>1, <1>1, <1>2, <1>4, HeadAndTail DEF InboxInv, Settled
  <2>6. Shape' /\ Settled'
    BY <2>1, <2>2, <2>3, <2>5, <1>4, HandlerMoves
    DEF InboxInv, Settled, Begin
  <2>7. Counts' /\ Races'
    BY <2>1, <2>2, HandlerWaits DEF Begin, At
  <2>8. QED
    BY <2>4, <2>6, <2>7 DEF InboxInv
<1>5. QED
  BY <1>3, <1>4 DEF Begin

\* A handler that goes to another stage and changes nothing else.
LEMMA StageStep ==
  ASSUME InboxInv, NEW s \in Slots, NEW stage \in Stages, GoesTo(s, stage),
         slot[s].at \notin {"idle", "event", "count"},
         stage \notin {"idle", "event", "count"},
         stage = "newContact" => contact = "NONE",
         stage \in {"chat", "newChat", "store"} => contact # "NONE",
         stage = "newChat" => ~chat.exists,
         stage = "store" => chat.exists,
         UNCHANGED <<mix, provider, contact, optIn, chat, editor, rows,
                     stored, retried, done, faults, history, reading, bell>>
  PROVE  InboxInv'
<1> DEFINE q == [slot[s] EXCEPT !.at = stage]
<1>1. /\ q \in Slot /\ q.at = stage /\ q.kind = slot[s].kind
      /\ q.batch = slot[s].batch /\ q.left = slot[s].left
  BY GoesToIs
<1>2. slot' = [slot EXCEPT ![s] = q]
  BY DEF GoesTo, InboxInv, InboxTypeOK
<1> HIDE DEF q
<1>3. Fits(q)
  BY <1>1 DEF Fits, InboxInv, Shape
<1>4. InboxTypeOK'
  BY <1>1, <1>2 DEF InboxInv, InboxTypeOK, history, reading, bell
<1>5. Shape' /\ Settled'
  BY <1>1, <1>2, <1>3, HandlerMoves DEF InboxInv, Settled, history
<1>6. Counts' /\ Races'
  BY <1>1, <1>2, HandlerWaits DEF history
<1>7. QED
  BY <1>4, <1>5, <1>6 DEF InboxInv

LEMMA FindStep ==
  ASSUME InboxInv, NEW s \in Slots, FindContact(s) \/ FindChat(s)
  PROVE  InboxInv'
<1>1. CASE FindContact(s)
  <2>1. CASE contact = "NONE"
    BY <1>1, <2>1, StageStep DEF FindContact, FoundContact, At, Stages
  <2>2. CASE contact # "NONE"
    BY <1>1, <2>2, StageStep DEF FindContact, FoundContact, At, Stages
  <2>3. QED
    BY <2>1, <2>2
<1>2. CASE FindChat(s)
  <2>1. contact # "NONE"
    BY <1>2 DEF FindChat, At, InboxInv, Races
  <2>2. CASE chat.exists
    BY <1>2, <2>1, <2>2, StageStep DEF FindChat, At, Stages
  <2>3. CASE ~chat.exists
    BY <1>2, <2>1, <2>3, StageStep DEF FindChat, At, Stages
  <2>4. QED
    BY <2>2, <2>3
<1>3. QED
  BY <1>1, <1>2

LEMMA StoreOutgoingStep ==
  ASSUME InboxInv, NEW s \in Slots, StoreOutgoing(s)
  PROVE  InboxInv'
<1>1. slot' = [slot EXCEPT ![s] = Free]
  BY DEF StoreOutgoing
<1>2. Fits(Free)
  BY FreeIs DEF Fits
<1>3. InboxTypeOK'
  BY <1>1, FreeIs
  DEF InboxInv, InboxTypeOK, StoreOutgoing, history, reading, bell
<1>4. Shape' /\ Settled'
  BY <1>1, <1>2, FreeIs, HandlerMoves
  DEF InboxInv, Settled, StoreOutgoing, history
<1>5. Counts' /\ Races'
  BY <1>1, FreeIs, HandlerWaits DEF StoreOutgoing, At, history
<1>6. QED
  BY <1>3, <1>4, <1>5 DEF InboxInv

\* An event that throws leaves its text in lost, or it was stored before.
LEMMA ThrowMoves ==
  ASSUME InboxInv, NEW s \in Slots, slot[s].at \notin {"idle", "event"},
         Throws(s), stored \subseteq stored', UNCHANGED <<dropped, answered>>,
         \/ lost' \subseteq Strange
         \/ raced' + faults' > 0
         \/ provider' = "REMOVED"
  PROVE  /\ slot' = [slot EXCEPT ![s] = AfterThrow(s)]
         /\ slot' \in [Slots -> Slot] /\ lost' \subseteq Texts
         /\ Shape' /\ Settled'
<1> DEFINE q == AfterThrow(s)
<1>1. /\ q \in Slot /\ Fits(q) /\ q.at \in {"idle", "event"}
      /\ q.kind = "hook" => /\ slot[s].kind = "hook"
                            /\ slot[s].left # <<>>
                            /\ q.batch = slot[s].batch
                            /\ q.left = Tail(slot[s].left)
  BY AfterThrowIs
<1> HIDE DEF q
<1>2. slot' = [slot EXCEPT ![s] = q]
  BY DEF Throws, q
<1>3. slot[s] \in Slot /\ slot[s].left \in Seq(Texts) /\ Fits(slot[s])
  BY DEF InboxInv, InboxTypeOK, Slot, Shape
<1>4. lost' \subseteq Texts /\ lost \subseteq lost'
  <2>1. lost \subseteq Texts
    BY DEF InboxInv, InboxTypeOK
  <2>2. CASE slot[s].kind = "hook" /\ ~At(s, "count")
    <3>1. Head(slot[s].left) \in Texts
      BY <2>2, <1>3, HeadAndTail DEF Fits
    <3>2. QED
      BY <2>1, <2>2, <3>1 DEF Throws
  <2>3. CASE ~(slot[s].kind = "hook" /\ ~At(s, "count"))
    BY <2>1, <2>3 DEF Throws
  <2>4. QED
    BY <2>2, <2>3
<1>5. ASSUME q.kind = "hook"
      PROVE  TextsOf(q.batch) \subseteq
               TextsOf(q.left) \cup stored' \cup lost' \cup dropped'
  <2>1. TextsOf(slot[s].left) \subseteq
          {Head(slot[s].left)} \cup TextsOf(q.left)
    BY <1>1, <1>3, <1>5, HeadAndTail
  <2>2. Head(slot[s].left) \in stored \cup lost'
    BY <1>1, <1>5 DEF Throws, InboxInv, Settled
  <2>3. TextsOf(q.batch) \subseteq
          TextsOf(slot[s].left) \cup stored \cup lost \cup dropped
    BY <1>1, <1>5 DEF InboxInv, Settled
  <2>4. QED
    BY <2>1, <2>2, <2>3, <1>4
<1>6. answered' \subseteq stored' \cup lost' \cup dropped'
  BY <1>4 DEF InboxInv, Settled
<1>7. Shape' /\ Settled'
  BY <1>1, <1>2, <1>4, <1>5, <1>6, HandlerMoves
<1>8. slot' \in [Slots -> Slot]
  BY <1>1, <1>2 DEF InboxInv, InboxTypeOK
<1>9. QED
  BY <1>2, <1>4, <1>7, <1>8 DEF q

LEMMA HandlerFailsStep ==
  ASSUME InboxInv, NEW s \in Slots, HandlerFails(s)
  PROVE  InboxInv'
<1> DEFINE q == AfterThrow(s)
<1>1. /\ raced \in Nat /\ faults' \in 0 .. MaxFaults /\ faults' > 0
      /\ faults' \in Nat /\ uncounted \in Nat
  BY SlotsFinite DEF InboxInv, InboxTypeOK, HandlerFails, Fault
<1>2. /\ slot' = [slot EXCEPT ![s] = q]
      /\ slot' \in [Slots -> Slot] /\ lost' \subseteq Texts
      /\ Shape' /\ Settled'
  <2>1. slot[s].at \notin {"idle", "event"} /\ Throws(s)
    BY DEF HandlerFails
  <2>2. raced' = raced
    BY DEF HandlerFails
  <2>3. raced' + faults' > 0
    BY <2>2, <1>1, SumIsPositive
  <2>4. UNCHANGED <<stored, dropped, answered>>
    BY DEF HandlerFails
  <2>5. QED
    BY <2>1, <2>3, <2>4, ThrowMoves
<1>3. q \in Slot /\ q.at \in {"idle", "event"}
  BY AfterThrowIs DEF HandlerFails
<1> HIDE DEF q
<1>4. uncounted' \in Nat
  BY <1>1 DEF HandlerFails
<1>5. InboxTypeOK'
  BY <1>1, <1>2, <1>4 DEF InboxInv, InboxTypeOK, HandlerFails, bell
<1>6. CASE slot[s].at # "count"
  <2>1. UNCHANGED <<contact, chat, rows, raced, reading>>
    BY <1>6 DEF HandlerFails, At, reading
  <2>2. Counts' /\ Races'
    BY <2>1, <1>2, <1>3, <1>6, HandlerWaits
  <2>3. QED
    BY <2>2, <1>2, <1>5 DEF InboxInv
<1>7. CASE slot[s].at = "count"
  <2>1. uncounted' = uncounted + 1
    BY <1>7 DEF HandlerFails, At
  <2>2. slot \in [Slots -> Slot] /\ chat \in Chat
    BY DEF InboxInv, InboxTypeOK
  <2>3. LET n == Cardinality(In("count"))
            m == Cardinality(In("count")')
        IN  n \in Nat /\ m = n - 1
    BY <1>2, <1>3, <1>7, <2>2, OneMoves
  <2>4. Counts'
    <3>1. UNCHANGED <<rows, chat, rowsAtRead, rowsAtClose>>
      BY DEF HandlerFails
    <3>2. /\ rows \in Nat /\ rowsAtRead \in Nat /\ rowsAtClose \in Nat
          /\ chat.unread \in Nat /\ Cardinality(Slots) \in Nat
      BY <2>2, SlotsFinite DEF InboxInv, InboxTypeOK, Chat
    <3>3. QED
      BY <2>1, <2>3, <3>1, <3>2, <1>1 DEF InboxInv, Counts
  <2>5. /\ In("newContact")' = In("newContact")
        /\ In("newChat")' = In("newChat")
        /\ In("store")' = In("store")
    BY <1>2, <1>3, <1>7, <2>2 DEF In
  <2>6. \A x \in Slots : slot'[x] = IF x = s THEN q ELSE slot[x]
    BY <1>2, <2>2
  <2>7. Races'
    BY <2>5, <2>6, <1>3 DEF InboxInv, Races, HandlerFails
  <2>8. QED
    BY <2>4, <2>7, <1>2, <1>5 DEF InboxInv
<1>8. QED
  BY <1>6, <1>7

\* What becomes of the counters when s creates the contact ...
LEMMA ContactMade ==
  ASSUME InboxInv, NEW s \in Slots, NEW q \in Slot,
         slot' = [slot EXCEPT ![s] = q], slot[s].at = "newContact",
         q.at \in {"chat", "idle", "event"},
         contact = "NONE", contact' = "LIVE",
         UNCHANGED <<chat, rows, raced, reading>>
  PROVE  Counts' /\ Races'
<1>1. slot \in [Slots -> Slot]
  BY DEF InboxInv, InboxTypeOK
<1>2. Cardinality(In("count")') = Cardinality(In("count"))
  BY <1>1, OneMoves
<1>3. Counts'
  BY <1>2 DEF InboxInv, Counts, reading
<1>4. /\ raced = 0 /\ ~chat.exists /\ chat.unread = 0 /\ chat.status = "OPEN"
      /\ \A x \in Slots : slot[x].at \notin {"chat", "newChat", "store",
                                             "count"}
  BY DEF InboxInv, Races
<1>5. \A x \in Slots : slot'[x] = IF x = s THEN q ELSE slot[x]
  BY <1>1
<1>6. LET m == Cardinality(In("newContact")')
      IN  m \in Nat /\ m <= Cardinality(Slots)
  BY <1>1, OneMoves
<1>7. raced' + Cardinality(In("newContact")') <= Cardinality(Slots)
  BY <1>4, <1>6, SlotsFinite
<1>8. \A x \in Slots : slot'[x].at \notin {"store", "count"}
  BY <1>4, <1>5
<1>9. Races'
  BY <1>4, <1>7, <1>8 DEF Races
<1>10. QED
  BY <1>3, <1>9

\* ... or the conversation, and goes on or throws ...
LEMMA ChatMade ==
  ASSUME InboxInv, NEW s \in Slots, NEW q \in Slot,
         slot' = [slot EXCEPT ![s] = q], slot[s].at = "newChat",
         q.at \in {"store", "idle", "event"},
         ~chat.exists, chat' = NewChat,
         UNCHANGED <<contact, rows, raced, reading>>
  PROVE  chat' \in Chat /\ Counts' /\ Races'
<1>1. slot \in [Slots -> Slot] /\ raced \in Nat /\ contact # "NONE"
  BY DEF InboxInv, InboxTypeOK, Races
<1>2. /\ NewChat \in Chat /\ NewChat.exists /\ NewChat.unread = 0
      /\ NewChat.status = "OPEN"
  BY DEF NewChat, Chat
<1>3. Cardinality(In("count")') = Cardinality(In("count"))
  BY <1>1, OneMoves
<1>4. chat.unread = 0 /\ chat.status = "OPEN"
  BY DEF InboxInv, Races
<1>5. Counts'
  BY <1>2, <1>3, <1>4 DEF InboxInv, Counts, reading
<1>6. In("newContact")' = In("newContact")
  BY <1>1 DEF In
<1>7. LET m == Cardinality(In("newChat")')
      IN  m \in Nat /\ m < Cardinality(Slots)
  BY <1>1, OneMoves
<1>8. raced + Cardinality(In("newContact")) <= Cardinality(Slots)
  BY DEF InboxInv, Races
<1>9. raced' + Cardinality(In("newContact")')
        + Cardinality(In("newChat")') < 2 * Cardinality(Slots)
  BY <1>1, <1>6, <1>7, <1>8, InIsFinite, SlotsFinite
<1>10. Races'
  BY <1>1, <1>2, <1>9 DEF Races
<1>11. QED
  BY <1>2, <1>5, <1>10

\* ... or counts a row.
LEMMA RowCounted ==
  ASSUME InboxInv, NEW s \in Slots, NEW q \in Slot,
         slot' = [slot EXCEPT ![s] = q], slot[s].at = "count",
         q.at \in {"idle", "event"}, chat' = Counted(chat),
         UNCHANGED <<contact, rows, raced, reading>>
  PROVE  chat' \in Chat /\ Counts' /\ Races'
<1>1. /\ slot \in [Slots -> Slot] /\ chat \in Chat
      /\ rows \in Nat /\ rowsAtRead \in 0 .. rows
      /\ rowsAtClose \in 0 .. rows /\ uncounted \in Nat
  BY DEF InboxInv, InboxTypeOK
<1>2. /\ chat' \in Chat /\ chat'.exists = chat.exists
      /\ chat'.unread = chat.unread + 1 /\ chat'.status = "OPEN"
  <2>1. chat' = [exists |-> chat.exists, status |-> "OPEN",
                 unread |-> chat.unread + 1, closedAt |-> chat.closedAt]
    BY <1>1 DEF Counted, Chat
  <2>2. chat.unread + 1 \in Nat
    BY <1>1 DEF Chat
  <2>3. QED
    BY <2>1, <2>2, <1>1 DEF Chat
<1>3. LET n == Cardinality(In("count"))
          m == Cardinality(In("count")')
      IN  n \in Nat /\ m \in Nat /\ m = n - 1
  BY <1>1, OneMoves
<1>4. Counts'
  <2>1. /\ rows' = rows /\ rowsAtRead' = rowsAtRead
        /\ rowsAtClose' = rowsAtClose /\ uncounted' = uncounted
    BY DEF reading
  <2>2. chat.unread \in Nat
    BY <1>1 DEF Chat
  <2>3. /\ rows <= rowsAtRead + chat.unread + Cardinality(In("count"))
                     + uncounted
        /\ rowsAtRead + chat.unread + Cardinality(In("count"))
             <= rows + Cardinality(Slots)
    BY DEF InboxInv, Counts
  <2>4. /\ rowsAtRead \in Nat /\ rowsAtClose \in Nat
        /\ Cardinality(Slots) \in Nat /\ rows \in Nat /\ uncounted \in Nat
    BY <1>1, SlotsFinite
  <2>5. QED
    BY <2>1, <2>2, <2>3, <2>4, <1>2, <1>3 DEF Counts
<1>5. Races'
  <2>1. \A x \in Slots : slot'[x] = IF x = s THEN q ELSE slot[x]
    BY <1>1
  <2>2. /\ In("newContact")' = In("newContact")
        /\ In("newChat")' = In("newChat")
    BY <2>1 DEF In
  <2>3. contact # "NONE" /\ chat.exists
    BY DEF InboxInv, Races
  <2>4. QED
    BY <2>2, <2>3, <1>2 DEF InboxInv, Races
<1>6. QED
  BY <1>2, <1>4, <1>5

LEMMA CreateContactStep ==
  ASSUME InboxInv, NEW s \in Slots, CreateContact(s)
  PROVE  InboxInv'
<1>1. /\ slot \in [Slots -> Slot] /\ slot[s].at = "newContact"
      /\ raced \in Nat /\ faults \in Nat /\ rows \in Nat /\ chat \in Chat
  BY SlotsFinite DEF InboxInv, InboxTypeOK, CreateContact, At
<1>2. CASE contact = "NONE" /\ contact' = "LIVE" /\ GoesTo(s, "chat")
           /\ UNCHANGED <<lost, raced>>
  <2> DEFINE q == [slot[s] EXCEPT !.at = "chat"]
  <2>1. /\ q \in Slot /\ q.at = "chat" /\ q.kind = slot[s].kind
        /\ q.batch = slot[s].batch /\ q.left = slot[s].left
    BY GoesToIs DEF Stages
  <2>2. slot' = [slot EXCEPT ![s] = q]
    BY <1>2, <1>1 DEF GoesTo
  <2> HIDE DEF q
  <2>3. Fits(q)
    BY <2>1, <1>1 DEF Fits, InboxInv, Shape
  <2>4. InboxTypeOK'
    BY <2>1, <2>2, <1>2
    DEF InboxInv, InboxTypeOK, CreateContact, reading, bell
  <2>5. Shape' /\ Settled'
    BY <2>1, <2>2, <2>3, <1>2, HandlerMoves
    DEF InboxInv, Settled, CreateContact
  <2>6. Counts' /\ Races'
    BY <2>1, <2>2, <1>1, <1>2, ContactMade DEF CreateContact, reading
  <2>7. QED
    BY <2>4, <2>5, <2>6 DEF InboxInv
<1>3. CASE contact # "NONE" /\ Throws(s) /\ raced' = raced + 1
           /\ UNCHANGED contact
  <2> DEFINE q == AfterThrow(s)
  <2>1. /\ slot' = [slot EXCEPT ![s] = q]
        /\ slot' \in [Slots -> Slot] /\ lost' \subseteq Texts
        /\ Shape' /\ Settled'
    <3>1. raced' + faults' > 0
      BY <1>1, <1>3 DEF CreateContact
    <3>2. UNCHANGED <<stored, dropped, answered>>
      BY DEF CreateContact
    <3>3. QED
      BY <3>1, <3>2, <1>1, <1>3, ThrowMoves
  <2>2. q \in Slot /\ q.at \in {"idle", "event"}
    BY <1>1, AfterThrowIs
  <2> HIDE DEF q
  <2>3. InboxTypeOK'
    BY <2>1, <1>1, <1>3
    DEF InboxInv, InboxTypeOK, CreateContact, reading, bell
  <2>4. Cardinality(In("count")') = Cardinality(In("count"))
    BY <2>1, <2>2, <1>1, OneMoves
  <2>5. Counts'
    BY <2>4 DEF InboxInv, Counts, CreateContact, reading
  <2>6. LET n == Cardinality(In("newContact"))
            m == Cardinality(In("newContact")')
        IN  n \in Nat /\ m \in Nat /\ m = n - 1
    BY <2>1, <2>2, <1>1, OneMoves
  <2>7. In("newChat")' = In("newChat")
    BY <2>1, <2>2, <1>1 DEF In
  <2>8. \A x \in Slots : slot'[x] = IF x = s THEN q ELSE slot[x]
    BY <2>1, <1>1
  <2>9. UNCHANGED chat
    BY DEF CreateContact
  <2>10. raced' + Cardinality(In("newContact")')
           = raced + Cardinality(In("newContact"))
    BY <2>6, <1>1, <1>3
  <2>11. ~chat.exists =>
           raced' + Cardinality(In("newContact")') <= Cardinality(Slots)
    BY <2>10 DEF InboxInv, Races
  <2>12. chat.exists =>
           raced' + Cardinality(In("newContact")')
             + Cardinality(In("newChat")') < 2 * Cardinality(Slots)
    BY <2>7, <2>10 DEF InboxInv, Races
  <2>13. /\ \A x \in Slots :
              slot'[x].at \in {"chat", "newChat", "store", "count"} =>
                contact # "NONE"
         /\ \A x \in Slots : slot'[x].at \in {"store", "count"} => chat.exists
    BY <2>2, <2>8 DEF InboxInv, Races
  <2>14. Races'
    BY <2>9, <2>11, <2>12, <2>13, <1>3 DEF InboxInv, Races
  <2>15. QED
    BY <2>1, <2>3, <2>5, <2>14 DEF InboxInv
<1>4. QED
  BY <1>2, <1>3 DEF CreateContact

LEMMA CreateChatStep ==
  ASSUME InboxInv, NEW s \in Slots, CreateChat(s)
  PROVE  InboxInv'
<1>1. /\ slot \in [Slots -> Slot] /\ slot[s].at = "newChat"
      /\ raced \in Nat /\ faults \in Nat /\ rows \in Nat /\ chat \in Chat
      /\ contact # "NONE"
  BY SlotsFinite DEF InboxInv, InboxTypeOK, CreateChat, At, Races
<1>2. CASE ~chat.exists /\ chat' = NewChat /\ GoesTo(s, "store")
           /\ UNCHANGED <<lost, raced>>
  <2> DEFINE q == [slot[s] EXCEPT !.at = "store"]
  <2>1. /\ q \in Slot /\ q.at = "store" /\ q.kind = slot[s].kind
        /\ q.batch = slot[s].batch /\ q.left = slot[s].left
    BY GoesToIs DEF Stages
  <2>2. slot' = [slot EXCEPT ![s] = q]
    BY <1>2, <1>1 DEF GoesTo
  <2> HIDE DEF q
  <2>3. Fits(q)
    BY <2>1, <1>1 DEF Fits, InboxInv, Shape
  <2>4. /\ NewChat \in Chat /\ NewChat.exists /\ NewChat.unread = 0
        /\ NewChat.status = "OPEN"
    BY DEF NewChat, Chat
  <2>5. InboxTypeOK'
    BY <2>1, <2>2, <2>4, <1>2
    DEF InboxInv, InboxTypeOK, CreateChat, reading, bell
  <2>6. Shape' /\ Settled'
    BY <2>1, <2>2, <2>3, <1>2, HandlerMoves
    DEF InboxInv, Settled, CreateChat
  <2>7. Counts' /\ Races'
    BY <2>1, <2>2, <1>1, <1>2, ChatMade DEF CreateChat, reading
  <2>8. QED
    BY <2>5, <2>6, <2>7 DEF InboxInv
<1>3. CASE chat.exists /\ Throws(s) /\ raced' = raced + 1
           /\ UNCHANGED chat
  <2> DEFINE q == AfterThrow(s)
  <2>1. /\ slot' = [slot EXCEPT ![s] = q]
        /\ slot' \in [Slots -> Slot] /\ lost' \subseteq Texts
        /\ Shape' /\ Settled'
    <3>1. raced' + faults' > 0
      BY <1>1, <1>3 DEF CreateChat
    <3>2. UNCHANGED <<stored, dropped, answered>>
      BY DEF CreateChat
    <3>3. QED
      BY <3>1, <3>2, <1>1, <1>3, ThrowMoves
  <2>2. q \in Slot /\ q.at \in {"idle", "event"}
    BY <1>1, AfterThrowIs
  <2> HIDE DEF q
  <2>3. InboxTypeOK'
    BY <2>1, <1>1, <1>3
    DEF InboxInv, InboxTypeOK, CreateChat, reading, bell
  <2>4. Cardinality(In("count")') = Cardinality(In("count"))
    BY <2>1, <2>2, <1>1, OneMoves
  <2>5. Counts'
    BY <2>4, <1>3 DEF InboxInv, Counts, CreateChat, reading
  <2>6. LET n == Cardinality(In("newChat"))
            m == Cardinality(In("newChat")')
        IN  n \in Nat /\ m \in Nat /\ m = n - 1
    BY <2>1, <2>2, <1>1, OneMoves
  <2>7. In("newContact")' = In("newContact")
    BY <2>1, <2>2, <1>1 DEF In
  <2>8. raced' + Cardinality(In("newContact")')
           + Cardinality(In("newChat")') < 2 * Cardinality(Slots)
    BY <2>6, <2>7, <1>1, <1>3, InIsFinite, SlotsFinite DEF InboxInv, Races
  <2>9. Races'
    BY <2>8, <1>1, <1>3 DEF Races, CreateChat
  <2>10. QED
    BY <2>1, <2>3, <2>5, <2>9 DEF InboxInv
<1>4. QED
  BY <1>2, <1>3 DEF CreateChat

\* The row is written ...
LEMMA StoredStep ==
  ASSUME InboxInv, NEW s \in Slots, StoreIncoming(s),
         Accepted(s)
  PROVE  InboxInv'
<1> DEFINE q == [slot[s] EXCEPT !.at = "count"]
<1>1. /\ slot \in [Slots -> Slot] /\ slot[s].at = "store"
      /\ slot[s].kind = "hook" /\ slot[s].left # <<>>
      /\ slot[s].left \in Seq(Texts) /\ chat \in Chat
      /\ rows \in Nat /\ rowsAtRead \in 0 .. rows
      /\ rowsAtClose \in 0 .. rows /\ uncounted \in Nat
  BY DEF InboxInv, InboxTypeOK, StoreIncoming, At, Shape, Fits, Slot
<1>2. /\ q \in Slot /\ q.at = "count" /\ q.kind = slot[s].kind
      /\ q.batch = slot[s].batch /\ q.left = slot[s].left
  BY GoesToIs DEF Stages
<1>3. slot' = [slot EXCEPT ![s] = q]
  BY <1>1 DEF GoesTo, StoreIncoming
<1> HIDE DEF q
<1>4. Fits(q)
  BY <1>1, <1>2 DEF Fits
<1>5. Head(slot[s].left) \in Texts
  BY <1>1, HeadAndTail
<1>6. InboxTypeOK'
  <2>1. /\ rows' = rows + 1 /\ stored' = stored \cup {Head(slot[s].left)}
        /\ UNCHANGED <<mix, provider, contact, optIn, chat, editor, retried,
                       done, faults, posted, answered, lost, dropped, raced,
                       uncounted, rowsAtRead, rowsAtClose, unannounced, notes,
                       unseen, silenced>>
    BY DEF StoreIncoming, StoresRow, reading, bell
  <2>2. rowsAtRead \in 0 .. rows' /\ rowsAtClose \in 0 .. rows'
    BY <2>1, <1>1
  <2>3. rows' \in Nat
    BY <2>1, <1>1
  <2>4. slot' \in [Slots -> Slot]
    BY <1>1, <1>2, <1>3
  <2>5. QED
    BY <2>1, <2>2, <2>3, <2>4, <1>5 DEF InboxInv, InboxTypeOK
<1>7. Shape' /\ Settled'
  <2>1. /\ stored' = stored \cup {Head(slot[s].left)}
        /\ UNCHANGED <<lost, dropped, answered, raced, faults, provider>>
    BY DEF StoreIncoming, StoresRow, history
  <2>2. QED
    BY <2>1, <1>1, <1>2, <1>3, <1>4, HandlerMoves DEF InboxInv, Settled
<1>8. LET n == Cardinality(In("count"))
          m == Cardinality(In("count")')
      IN  n \in Nat /\ m \in Nat /\ m = n + 1 /\ m <= Cardinality(Slots)
  BY <1>1, <1>2, <1>3, OneMoves
<1>9. Counts'
  <2>1. /\ rows' = rows + 1 /\ chat' = chat /\ rowsAtRead' = rowsAtRead
        /\ rowsAtClose' = rowsAtClose /\ uncounted' = uncounted
    BY DEF StoreIncoming, StoresRow, reading
  <2>2. chat.unread \in Nat
    BY <1>1 DEF Chat
  <2>3. /\ rows <= rowsAtRead + chat.unread + Cardinality(In("count"))
                     + uncounted
        /\ rowsAtRead + chat.unread + Cardinality(In("count"))
             <= rows + Cardinality(Slots)
        /\ chat.status # "OPEN" =>
             rows <= rowsAtClose + Cardinality(In("count")) + uncounted
    BY DEF InboxInv, Counts
  <2>4. /\ rowsAtRead \in Nat /\ rowsAtClose \in Nat
        /\ Cardinality(Slots) \in Nat /\ rows \in Nat /\ uncounted \in Nat
    BY <1>1, SlotsFinite
  <2>5. QED
    BY <2>1, <2>2, <2>3, <2>4, <1>8 DEF Counts
<1>10. Races'
  <2>1. \A x \in Slots : slot'[x] = IF x = s THEN q ELSE slot[x]
    BY <1>1, <1>3
  <2>2. /\ In("newContact")' = In("newContact")
        /\ In("newChat")' = In("newChat")
    BY <2>1, <1>1, <1>2 DEF In
  <2>3. contact # "NONE" /\ chat.exists
    BY <1>1 DEF InboxInv, Races
  <2>4. UNCHANGED <<contact, chat, raced>>
    BY DEF StoreIncoming, history
  <2>5. QED
    BY <2>2, <2>3, <2>4 DEF InboxInv, Races
<1>11. QED
  BY <1>6, <1>7, <1>9, <1>10 DEF InboxInv

\* ... or refused, and the event throws.
LEMMA RefusedStep ==
  ASSUME InboxInv, NEW s \in Slots, StoreIncoming(s),
         ~Accepted(s)
  PROVE  InboxInv'
<1> DEFINE q == AfterThrow(s)
<1>1. /\ At(s, "store") /\ Throws(s)
      /\ UNCHANGED <<rows, stored, mix, provider, contact, optIn, chat,
                     editor, retried, done, faults, posted, answered, dropped,
                     raced, reading, bell>>
  BY DEF StoreIncoming
<1>2. /\ slot \in [Slots -> Slot] /\ slot[s].at = "store"
      /\ contact # "NONE" /\ chat.exists
  BY <1>1 DEF InboxInv, InboxTypeOK, At, Races
<1>3. lost' \subseteq Strange \/ raced' + faults' > 0 \/ provider' = "REMOVED"
  <2>1. lost' \subseteq lost \cup {Head(slot[s].left)}
    BY <1>1 DEF Throws
  <2>2. lost \subseteq Strange \/ raced + faults > 0 \/ provider = "REMOVED"
    BY DEF InboxInv, Settled
  <2>3. Head(slot[s].left) \in Strange \/ provider = "REMOVED"
    BY DEF Accepted
  <2>4. QED
    BY <2>1, <2>2, <2>3, <1>1
<1>4. /\ slot' = [slot EXCEPT ![s] = q]
      /\ slot' \in [Slots -> Slot] /\ lost' \subseteq Texts
      /\ Shape' /\ Settled'
  BY <1>1, <1>2, <1>3, ThrowMoves
<1>5. q \in Slot /\ q.at \in {"idle", "event"}
  BY <1>2, AfterThrowIs
<1> HIDE DEF q
<1>6. InboxTypeOK'
  BY <1>1, <1>4 DEF InboxInv, InboxTypeOK, reading, bell
<1>7. Counts' /\ Races'
  BY <1>1, <1>2, <1>4, <1>5, HandlerWaits
<1>8. QED
  BY <1>4, <1>6, <1>7 DEF InboxInv

LEMMA StoreIncomingStep ==
  ASSUME InboxInv, NEW s \in Slots, StoreIncoming(s)
  PROVE  InboxInv'
BY StoredStep, RefusedStep

LEMMA CountStep ==
  ASSUME InboxInv, NEW s \in Slots, Count(s)
  PROVE  InboxInv'
<1> DEFINE q == NextEvent(s)
<1>1. /\ slot \in [Slots -> Slot] /\ slot[s].at = "count"
      /\ slot[s].kind = "hook" /\ slot[s].left # <<>>
      /\ slot[s].left \in Seq(Texts) /\ chat \in Chat
      /\ rows \in Nat /\ rowsAtRead \in 0 .. rows
      /\ rowsAtClose \in 0 .. rows /\ uncounted \in Nat
  <2>1. slot[s].at = "count" /\ Fits(slot[s]) /\ slot[s] \in Slot
    BY DEF InboxInv, InboxTypeOK, Count, At, Shape
  <2>2. slot[s].kind = "hook"
    BY <2>1 DEF Fits, Slot
  <2>3. QED
    BY <2>1, <2>2 DEF InboxInv, InboxTypeOK, Fits, Slot
<1>2. /\ q \in Slot /\ q.at = "event" /\ q.kind = "hook"
      /\ q.batch = slot[s].batch /\ q.left = Tail(slot[s].left)
  BY <1>1, NextEventIs
<1> HIDE DEF q
<1>3. slot' = [slot EXCEPT ![s] = q]
  BY DEF Count, q
<1>4. Fits(q)
  BY <1>2 DEF Fits
<1>5. chat' \in Chat /\ Counts' /\ Races'
  BY <1>1, <1>2, <1>3, RowCounted DEF Count, history
<1>6. InboxTypeOK'
  BY <1>1, <1>2, <1>3, <1>5
  DEF InboxInv, InboxTypeOK, Count, EmitIncoming, history, reading
<1>7. Shape' /\ Settled'
  <2>1. UNCHANGED <<stored, lost, dropped, answered, raced, faults, provider>>
    BY DEF Count, history
  <2>2. Head(slot[s].left) \in stored
    BY <1>1 DEF InboxInv, Settled, At
  <2>3. TextsOf(slot[s].left) \subseteq
          {Head(slot[s].left)} \cup TextsOf(q.left)
    BY <1>1, <1>2, HeadAndTail
  <2>4. TextsOf(q.batch) \subseteq
          TextsOf(q.left) \cup stored \cup lost \cup dropped
    BY <2>2, <2>3, <1>1, <1>2 DEF InboxInv, Settled
  <2>5. QED
    BY <2>1, <2>4, <1>2, <1>3, <1>4, HandlerMoves DEF InboxInv, Settled
<1>8. QED
  BY <1>5, <1>6, <1>7 DEF InboxInv

\* What becomes of the counters when the row was stored and s throws: it will
\* not be counted.
LEMMA RowLeft ==
  ASSUME InboxInv, NEW s \in Slots, NEW q \in Slot,
         slot' = [slot EXCEPT ![s] = q], slot[s].at = "store",
         q.at \in {"idle", "event"},
         rows' = rows + 1, uncounted' = uncounted + 1,
         UNCHANGED <<contact, chat, raced, rowsAtRead, rowsAtClose>>
  PROVE  Counts' /\ Races'
<1>1. /\ slot \in [Slots -> Slot] /\ chat.unread \in Nat
      /\ rows \in Nat /\ rowsAtRead \in Nat /\ rowsAtClose \in Nat
      /\ uncounted \in Nat /\ Cardinality(Slots) \in Nat
  BY SlotsFinite DEF InboxInv, InboxTypeOK, Chat
<1>2. /\ Cardinality(In("count")') = Cardinality(In("count"))
      /\ Cardinality(In("count")) \in Nat
  BY <1>1, OneMoves
<1>3. /\ rows <= rowsAtRead + chat.unread + Cardinality(In("count"))
                   + uncounted
      /\ rowsAtRead + chat.unread + Cardinality(In("count"))
           <= rows + Cardinality(Slots)
      /\ chat.status # "OPEN" =>
           rows <= rowsAtClose + Cardinality(In("count")) + uncounted
  BY DEF InboxInv, Counts
<1>4. Counts'
  BY <1>1, <1>2, <1>3 DEF Counts
<1>5. \A x \in Slots : slot'[x] = IF x = s THEN q ELSE slot[x]
  BY <1>1
<1>6. /\ In("newContact")' = In("newContact")
      /\ In("newChat")' = In("newChat")
  BY <1>5 DEF In
<1>7. contact # "NONE" /\ chat.exists
  BY DEF InboxInv, Races
<1>8. Races'
  BY <1>6, <1>7 DEF InboxInv, Races
<1>9. QED
  BY <1>4, <1>8

LEMMA ReplyLostStep ==
  ASSUME InboxInv, NEW s \in Slots, ReplyLost(s)
  PROVE  InboxInv'
<1> DEFINE q == AfterThrow(s)
<1>1. /\ raced \in Nat /\ faults' \in 0 .. MaxFaults /\ faults' > 0
      /\ faults' \in Nat /\ uncounted \in Nat /\ rows \in Nat
      /\ rowsAtRead \in 0 .. rows /\ rowsAtClose \in 0 .. rows
      /\ chat \in Chat
  BY SlotsFinite DEF InboxInv, InboxTypeOK, ReplyLost, Fault
<1>2. /\ slot[s].at \in {"newContact", "newChat", "store", "count"}
      /\ Throws(s)
      /\ UNCHANGED <<mix, provider, optIn, editor, retried, done, posted,
                      answered, dropped, raced, rowsAtRead, rowsAtClose, bell>>
  BY DEF ReplyLost
<1>3. stored \subseteq stored'
  BY DEF ReplyLost, StoresRow
<1>4. raced' + faults' > 0
  BY <1>1, <1>2, SumIsPositive
<1>5. /\ slot' = [slot EXCEPT ![s] = q]
      /\ slot' \in [Slots -> Slot] /\ lost' \subseteq Texts
      /\ Shape' /\ Settled'
  BY <1>2, <1>3, <1>4, ThrowMoves
<1>6. q \in Slot /\ q.at \in {"idle", "event"}
  BY <1>2, AfterThrowIs
<1> HIDE DEF q
<1>7. /\ contact' \in {"LIVE", contact} /\ chat' \in Chat
      /\ rows' \in {rows, rows + 1} /\ uncounted' \in Nat
      /\ stored' \subseteq Texts
      /\ Counts' /\ Races'
  <2>1. CASE /\ At(s, "newContact") /\ contact = "NONE" /\ contact' = "LIVE"
             /\ UNCHANGED <<chat, rows, stored, uncounted>>
    <3>1. Counts' /\ Races'
      BY <2>1, <1>2, <1>5, <1>6, ContactMade DEF At, reading
    <3>2. QED
      BY <2>1, <3>1, <1>1 DEF InboxInv, InboxTypeOK
  <2>2. CASE /\ At(s, "newChat") /\ ~chat.exists /\ chat' = NewChat
             /\ UNCHANGED <<contact, rows, stored, uncounted>>
    <3>1. chat' \in Chat /\ Counts' /\ Races'
      BY <2>2, <1>2, <1>5, <1>6, ChatMade DEF At, reading
    <3>2. QED
      BY <2>2, <3>1, <1>1 DEF InboxInv, InboxTypeOK
  <2>3. CASE /\ At(s, "store") /\ slot[s].kind = "hook" /\ StoresRow(s)
             /\ uncounted' = uncounted + 1
             /\ UNCHANGED <<contact, chat>>
    <3>1. rows' = rows + 1
      BY <2>3 DEF StoresRow
    <3>2. Counts' /\ Races'
      BY <2>3, <3>1, <1>2, <1>5, <1>6, RowLeft DEF At
    <3>3. slot[s].left \in Seq(Texts) /\ slot[s].left # <<>>
      BY <2>3 DEF InboxInv, InboxTypeOK, Shape, Fits, At, Slot
    <3>4. stored' \subseteq Texts
      BY <2>3, <3>3, HeadAndTail DEF StoresRow, InboxInv, InboxTypeOK
    <3>5. QED
      BY <2>3, <3>1, <3>2, <3>4, <1>1
  <2>4. CASE /\ At(s, "count") /\ chat' = Counted(chat)
             /\ UNCHANGED <<contact, rows, stored, uncounted>>
    <3>1. chat' \in Chat /\ Counts' /\ Races'
      BY <2>4, <1>2, <1>5, <1>6, RowCounted DEF At, reading
    <3>2. QED
      BY <2>4, <3>1, <1>1 DEF InboxInv, InboxTypeOK
  <2>5. QED
    BY <2>1, <2>2, <2>3, <2>4 DEF ReplyLost
<1>8. InboxTypeOK'
  <2>1. /\ rows' \in Nat /\ rowsAtRead' \in 0 .. rows'
        /\ rowsAtClose' \in 0 .. rows'
    BY <1>1, <1>2, <1>7
  <2>2. QED
    BY <2>1, <1>1, <1>2, <1>5, <1>7 DEF InboxInv, InboxTypeOK, bell
<1>9. QED
  BY <1>5, <1>7, <1>8 DEF InboxInv

LEMMA CrashStep ==
  ASSUME InboxInv, Crash
  PROVE  InboxInv'
<1>1. \A x \in Slots : slot'[x] = Free
  BY DEF Crash
<1>2. \A stage \in Stages \ {"idle"} : In(stage)' = {}
  BY <1>1, FreeIs DEF In
<1>3. /\ Cardinality(In("count")') = 0 /\ Cardinality(In("newChat")') = 0
      /\ Cardinality(In("newContact")') = 0
  BY <1>2, FS_EmptySet DEF Stages
<1>4. Waiting = In("count")
  BY DEF Waiting, In, At
<1>5. /\ rows \in Nat /\ uncounted \in Nat /\ chat \in Chat
      /\ rowsAtRead \in 0 .. rows /\ rowsAtClose \in 0 .. rows
      /\ unannounced \in Nat /\ silenced \in Nat /\ raced \in Nat
      /\ Cardinality(In("count")) \in Nat /\ faults \in Nat
      /\ faults' \in 0 .. MaxFaults
  BY SlotsFinite, InIsFinite DEF InboxInv, InboxTypeOK, Crash, Fault
<1>6. InboxTypeOK'
  <2>1. slot' \in [Slots -> Slot] /\ editor' \in [Editors -> Editor]
    BY FreeIs DEF Crash, NoEdit, Editor, OptIns
  <2>2. uncounted' \in Nat /\ silenced' \in Nat /\ unannounced' \in Nat
    BY <1>4, <1>5 DEF Crash
  <2>3. QED
    BY <2>1, <2>2, <1>5 DEF InboxInv, InboxTypeOK, Crash, history
<1>7. Shape'
  BY <1>1, FreeIs DEF Shape, Fits
<1>8. Settled'
  <2>1. UNCHANGED <<stored, lost, dropped, answered, raced>>
    BY DEF Crash, history
  <2>2. faults' = faults + 1
    BY DEF Crash, Fault
  <2>3. \A x \in Slots : slot'[x].kind = "none" /\ slot'[x].at = "idle"
    BY <1>1, FreeIs
  <2>4. raced' + faults' > 0
    BY <2>1, <2>2, <1>5
  <2>5. QED
    BY <2>1, <2>3, <2>4 DEF InboxInv, Settled, At
<1>9. Counts'
  <2>1. /\ rows' = rows /\ rowsAtRead' = rowsAtRead /\ chat' = chat
        /\ rowsAtClose' = rowsAtClose
        /\ uncounted' = uncounted + Cardinality(In("count"))
    BY <1>4 DEF Crash
  <2>2. chat.unread \in Nat
    BY <1>5 DEF Chat
  <2>3. QED
    BY <2>1, <2>2, <1>3, <1>5, SlotsFinite DEF InboxInv, Counts
<1>10. Races'
  <2>1. UNCHANGED <<contact, chat, raced>>
    BY DEF Crash, history
  <2>2. Cardinality(In("newContact")) \in Nat
        /\ Cardinality(In("newChat")) \in Nat
    BY InIsFinite
  <2>3. \A x \in Slots : slot'[x].at = "idle"
    BY <1>1, FreeIs
  <2>4. /\ ~chat.exists => raced <= Cardinality(Slots)
        /\ chat.exists => raced < 2 * Cardinality(Slots)
    BY <2>2, <1>5, SlotsFinite DEF InboxInv, Races
  <2>5. QED
    BY <2>1, <2>3, <2>4, <1>3, <1>5 DEF InboxInv, Races
<1>11. QED
  BY <1>6, <1>7, <1>8, <1>9, <1>10 DEF InboxInv

-----------------------------------------------------------------------------
(* Steps of others *)

\* The handlers stay where they are.
LEMMA HandlersStay ==
  ASSUME InboxInv, InboxTypeOK', Counts',
         UNCHANGED <<slot, stored, answered, lost, dropped, raced>>,
         faults' \in {faults, faults + 1},
         provider = "REMOVED" => provider' = "REMOVED",
         contact' = "NONE" => contact = "NONE",
         chat' # chat => chat.exists /\ chat'.exists
  PROVE  InboxInv'
<1>1. Shape'
  BY DEF InboxInv, Shape
<1>2. Settled'
  <2>1. raced \in Nat /\ faults \in Nat
    BY SlotsFinite DEF InboxInv, InboxTypeOK
  <2>2. faults' \in Nat /\ faults <= faults'
    BY <2>1
  <2>3. raced + faults > 0 => raced + faults' > 0
    BY <2>1, <2>2, SumIsPositive
  <2>4. lost \subseteq Strange \/ raced + faults > 0 \/ provider = "REMOVED"
    BY DEF InboxInv, Settled
  <2>5. \/ lost' \subseteq Strange
        \/ raced' + faults' > 0
        \/ provider' = "REMOVED"
    BY <2>3, <2>4
  <2>6. QED
    BY <2>5 DEF InboxInv, Settled, At
<1>3. /\ In("newContact")' = In("newContact")
      /\ In("newChat")' = In("newChat")
  BY DEF In
<1>4. chat' # chat => chat.exists /\ chat'.exists
  OBVIOUS
<1>5. Races'
  <2>1. CASE chat' = chat
    BY <2>1, <1>3 DEF InboxInv, Races
  <2>2. CASE chat' # chat
    BY <2>2, <1>3, <1>4 DEF InboxInv, Races
  <2>3. QED
    BY <2>1, <2>2
<1>6. QED
  BY <1>1, <1>2, <1>5 DEF InboxInv

\* ... and the conversation does too.
LEMMA CountsStay ==
  ASSUME InboxInv, UNCHANGED <<slot, chat, rows, reading>>
  PROVE  Counts'
<1>1. In("count")' = In("count")
  BY DEF In
<1>2. QED
  BY <1>1 DEF InboxInv, Counts, reading

LEMMA WorkStep ==
  ASSUME InboxInv, NEW op, Works(op)
  PROVE  done' \in [posts : Nat, sends : Nat, edits : Nat]
BY DEF InboxInv, InboxTypeOK, Works

LEMMA NotifyStep ==
  ASSUME InboxInv, Notify
  PROVE  InboxInv'
<1>1. InboxTypeOK'
  BY DEF InboxInv, InboxTypeOK, Notify, history, reading
<1>2. Counts'
  BY CountsStay DEF Notify, history, reading
<1>3. UNCHANGED <<slot, stored, answered, lost, dropped, raced, faults,
                provider, contact, chat>>
  BY DEF Notify, history
<1>4. QED
  BY <1>1, <1>2, <1>3, HandlersStay

LEMMA NotifyFailsStep ==
  ASSUME InboxInv, NotifyFails
  PROVE  InboxInv'
<1>1. InboxTypeOK'
  <2>1. faults' \in 0 .. MaxFaults
    BY SlotsFinite DEF InboxInv, InboxTypeOK, NotifyFails, Fault
  <2>2. unannounced' \in Nat /\ silenced' \in Nat
    BY DEF InboxInv, InboxTypeOK, NotifyFails
  <2>3. QED
    BY <2>1, <2>2 DEF InboxInv, InboxTypeOK, NotifyFails, history, reading
<1>2. Counts'
  BY CountsStay DEF NotifyFails
<1>3. faults' = faults + 1
  BY DEF NotifyFails, Fault
<1>4. UNCHANGED <<slot, stored, answered, lost, dropped, raced, provider,
                  contact, chat>>
  BY DEF NotifyFails, history
<1>5. QED
  BY <1>1, <1>2, <1>3, <1>4, HandlersStay

LEMMA ConfigureStep ==
  ASSUME InboxInv, Configure \/ RemoveProvider
  PROVE  InboxInv'
<1>1. done' \in [posts : Nat, sends : Nat, edits : Nat]
  BY WorkStep DEF Configure, RemoveProvider
<1>2. InboxTypeOK'
  BY <1>1 DEF InboxInv, InboxTypeOK, Configure,
      RemoveProvider, history, reading, bell
<1>3. Counts'
  BY CountsStay DEF Configure, RemoveProvider, history, reading
<1>4. /\ UNCHANGED <<slot, stored, answered, lost, dropped, raced, faults,
                   contact, chat>>
      /\ provider = "REMOVED" => provider' = "REMOVED"
  BY DEF Configure, RemoveProvider, history
<1>5. QED
  BY <1>2, <1>3, <1>4, HandlersStay

LEMMA ContactSteps ==
  ASSUME InboxInv, ContactStep
  PROVE  InboxInv'
<1>1. CASE AddContact \/ ImportContact
  <2>1. done' \in [posts : Nat, sends : Nat, edits : Nat]
    BY <1>1, WorkStep DEF AddContact, ImportContact
  <2>2. contact' \in {"LIVE", contact} /\ optIn' \in OptIns \cup {optIn}
    BY <1>1 DEF AddContact, ImportContact
  <2>3. UNCHANGED <<mix, provider, chat, slot, editor, rows, stored,
                    retried, faults, history, reading, bell>>
    BY <1>1 DEF AddContact, ImportContact
  <2>4. InboxTypeOK'
    BY <2>1, <2>2, <2>3 DEF InboxInv, InboxTypeOK, history, reading, bell
  <2>5. Counts'
    BY <2>3, CountsStay
  <2>6. UNCHANGED <<slot, stored, answered, lost, dropped, raced, faults,
                    provider, chat>>
    BY <2>3 DEF history
  <2>7. QED
    BY <2>2, <2>4, <2>5, <2>6, HandlersStay
<1>2. ASSUME NEW e \in Editors, NEW op \in Edits, ReadContact(e, op)
      PROVE  InboxInv'
  <2>1. done' \in [posts : Nat, sends : Nat, edits : Nat]
    BY <1>2, WorkStep DEF ReadContact
  <2>2. editor' \in [Editors -> Editor]
    BY <1>2 DEF ReadContact, InboxInv, InboxTypeOK, Editor
  <2>3. InboxTypeOK'
    BY <2>1, <2>2, <1>2
    DEF InboxInv, InboxTypeOK, ReadContact, history, reading, bell
  <2>4. Counts'
    BY <1>2, CountsStay DEF ReadContact
  <2>5. UNCHANGED <<slot, stored, answered, lost, dropped, raced, faults,
                    provider, contact, chat>>
    BY <1>2 DEF ReadContact, history
  <2>6. QED
    BY <2>3, <2>4, <2>5, HandlersStay
<1>3. ASSUME NEW e \in Editors, WriteContact(e)
      PROVE  InboxInv'
  <2>1. editor[e] \in Editor /\ editor[e].op \in Edits
    BY <1>3 DEF WriteContact, InboxInv, InboxTypeOK, Editor
  <2>2. editor' \in [Editors -> Editor]
    BY <1>3 DEF WriteContact, InboxInv, InboxTypeOK, Editor, NoEdit, OptIns
  <2>3. contact' \in {"DELETED", contact}
    BY <1>3 DEF WriteContact
  <2>4. optIn' \in OptIns
    BY <2>1, <1>3
    DEF WriteContact, Written, Edits, OptIns, InboxInv, InboxTypeOK
  <2>5. InboxTypeOK'
    BY <2>2, <2>3, <2>4, <1>3
    DEF InboxInv, InboxTypeOK, WriteContact, history, reading, bell
  <2>6. Counts'
    BY <1>3, CountsStay DEF WriteContact
  <2>7. UNCHANGED <<slot, stored, answered, lost, dropped, raced, faults,
                    provider, chat>>
    BY <1>3 DEF WriteContact, history
  <2>8. QED
    BY <2>3, <2>5, <2>6, <2>7, HandlersStay
<1>4. QED
  BY <1>1, <1>2, <1>3 DEF ContactStep

LEMMA ChatSteps ==
  ASSUME InboxInv, ChatStep
  PROVE  InboxInv'
<1>1. /\ rows \in Nat /\ uncounted \in Nat /\ chat \in Chat
      /\ rowsAtRead \in Nat /\ rowsAtClose \in Nat /\ rows \in 0 .. rows
      /\ chat.unread \in Nat
  BY DEF InboxInv, InboxTypeOK, Chat
<1>2. /\ done' \in [posts : Nat, sends : Nat, edits : Nat]
      /\ chat.exists
      /\ UNCHANGED <<mix, provider, contact, optIn, slot, editor, rows,
                      stored, retried, faults, history, uncounted, bell>>
  BY WorkStep DEF ChatStep, Close, Archive, Reopen, MarkAsRead, reading
<1>3. /\ In("count")' = In("count")
      /\ Cardinality(In("count")) \in Nat /\ Cardinality(Slots) \in Nat
      /\ Cardinality(In("count")) <= Cardinality(Slots)
  BY <1>2, InIsFinite, SlotsFinite DEF In
<1>4. /\ chat' \in Chat /\ chat'.exists
      /\ rowsAtRead' \in 0 .. rows /\ rowsAtClose' \in 0 .. rows
  <2>1. /\ rowsAtRead \in 0 .. rows /\ rowsAtClose \in 0 .. rows
        /\ 0 \in Nat
    BY DEF InboxInv, InboxTypeOK
  <2>2. CASE Close
    BY <2>1, <2>2, <1>1, <1>2 DEF Close, Chat
  <2>3. CASE Archive
    BY <2>1, <2>3, <1>1, <1>2 DEF Archive, Chat
  <2>4. CASE Reopen
    BY <2>1, <2>4, <1>1, <1>2 DEF Reopen, Chat, reading
  <2>5. CASE MarkAsRead
    BY <2>1, <2>5, <1>1, <1>2 DEF MarkAsRead, Chat
  <2>6. QED
    BY <2>2, <2>3, <2>4, <2>5 DEF ChatStep
<1>5. InboxTypeOK'
  BY <1>2, <1>4 DEF InboxInv, InboxTypeOK, history, reading, bell
<1>6. /\ rows <= rowsAtRead + chat.unread + Cardinality(In("count"))
                   + uncounted
      /\ rowsAtRead + chat.unread + Cardinality(In("count"))
           <= rows + Cardinality(Slots)
      /\ chat.status # "OPEN" =>
           rows <= rowsAtClose + Cardinality(In("count")) + uncounted
  BY DEF InboxInv, Counts
<1>7. CASE Close \/ Archive
  <2>1. /\ chat'.unread = chat.unread /\ rowsAtClose' = rows
        /\ rowsAtRead' = rowsAtRead
    BY <1>1, <1>7 DEF Close, Archive, Chat
  <2>2. Counts'
    BY <2>1, <1>1, <1>2, <1>3, <1>6 DEF Counts
  <2>3. QED
    BY <2>2, <1>2, <1>4, <1>5, HandlersStay DEF history
<1>8. CASE Reopen
  <2>1. /\ chat'.unread = chat.unread /\ chat'.status = "OPEN"
        /\ rowsAtRead' = rowsAtRead
    BY <1>1, <1>8 DEF Reopen, Chat, reading
  <2>2. Counts'
    BY <2>1, <1>1, <1>2, <1>3, <1>6 DEF Counts
  <2>3. QED
    BY <2>2, <1>2, <1>4, <1>5, HandlersStay DEF history
<1>9. CASE MarkAsRead
  <2>1. /\ chat'.unread = 0 /\ chat'.status = chat.status
        /\ rowsAtRead' = rows /\ rowsAtClose' = rowsAtClose
    BY <1>1, <1>9 DEF MarkAsRead, Chat
  <2>2. Counts'
    BY <2>1, <1>1, <1>2, <1>3, <1>6 DEF Counts
  <2>3. QED
    BY <2>2, <1>2, <1>4, <1>5, HandlersStay DEF history
<1>10. QED
  BY <1>7, <1>8, <1>9 DEF ChatStep

LEMMA NoteSteps ==
  ASSUME InboxInv, SeeNotes \/ Reprocess
  PROVE  InboxInv'
<1>1. done' \in [posts : Nat, sends : Nat, edits : Nat]
  BY WorkStep DEF SeeNotes, Reprocess
<1>2. unseen' \in Nat /\ retried' \in Nat
  BY DEF SeeNotes, Reprocess, InboxInv, InboxTypeOK, bell
<1>3. UNCHANGED <<mix, provider, contact, optIn, chat, slot, editor, rows,
                  stored, faults, history, reading, unannounced, notes,
                  silenced>>
  BY DEF SeeNotes, Reprocess, bell
<1>4. InboxTypeOK'
  BY <1>1, <1>2, <1>3 DEF InboxInv, InboxTypeOK, history, reading
<1>5. Counts'
  BY <1>3, CountsStay
<1>6. UNCHANGED <<slot, stored, answered, lost, dropped, raced, faults,
                provider, contact, chat>>
  BY <1>3 DEF history
<1>7. QED
  BY <1>4, <1>5, <1>6, HandlersStay

-----------------------------------------------------------------------------

LEMMA InboxInit == Init => InboxInv
<1> SUFFICES ASSUME Init PROVE InboxInv
  OBVIOUS
<1>1. \A x \in Slots : slot[x] = Free
  BY DEF Init
<1>2. \A stage \in Stages \ {"idle"} : In(stage) = {}
  BY <1>1, FreeIs DEF In
<1>3. /\ Cardinality(In("count")) = 0 /\ Cardinality(In("newChat")) = 0
      /\ Cardinality(In("newContact")) = 0
  BY <1>2, FS_EmptySet DEF Stages
<1>4. InboxTypeOK
  <2>1. chat \in Chat
    BY DEF Init, NewChat, Chat
  <2>2. slot \in [Slots -> Slot] /\ editor \in [Editors -> Editor]
    BY FreeIs DEF Init, NoEdit, Editor, OptIns
  <2>3. faults \in 0 .. MaxFaults
    BY SlotsFinite DEF Init
  <2>4. QED
    BY <2>1, <2>2, <2>3 DEF Init, InboxTypeOK, OptIns
<1>5. Shape
  BY <1>1, FreeIs DEF Shape, Fits
<1>6. Settled
  BY <1>1, FreeIs DEF Init, Settled, At
<1>7. /\ ~chat.exists /\ chat.unread = 0 /\ chat.status = "OPEN"
  BY DEF Init, NewChat
<1>8. Counts
  BY <1>3, <1>7, SlotsFinite DEF Init, Counts
<1>9. Races
  BY <1>1, <1>3, <1>7, FreeIs, SlotsFinite DEF Init, Races
<1>10. QED
  BY <1>4, <1>5, <1>6, <1>8, <1>9 DEF InboxInv

LEMMA InboxStep == InboxInv /\ [Next]_vars => InboxInv'
<1> SUFFICES ASSUME InboxInv, [Next]_vars PROVE InboxInv'
  OBVIOUS
<1>1. ASSUME NEW s \in Slots, HandlerStep(s)
      PROVE  InboxInv'
  BY <1>1, AnswerStep, BeginStep, FindStep, CreateContactStep,
     CreateChatStep, StoreIncomingStep, StoreOutgoingStep, CountStep
  DEF HandlerStep
<1>2. CASE Next
  BY <1>1, <1>2, PostStep, SendStep, HandlerFailsStep, ReplyLostStep,
     NotifyStep, ConfigureStep, ContactSteps, ChatSteps, NoteSteps,
     NotifyFailsStep, CrashStep
  DEF Next
<1>3. CASE UNCHANGED vars
  <2>1. InboxTypeOK'
    BY <1>3 DEF InboxInv, InboxTypeOK, vars, history, reading, bell
  <2>2. Counts'
    BY <1>3, CountsStay DEF vars
  <2>3. UNCHANGED <<slot, stored, answered, lost, dropped, raced, faults,
                    provider, contact, chat>>
    BY <1>3 DEF vars, history
  <2>4. QED
    BY <2>1, <2>2, <2>3, HandlersStay
<1>4. QED
  BY <1>2, <1>3

LEMMA InboxInvariant == Spec => []InboxInv
BY InboxInit, InboxStep, PTL DEF Spec

\* Whatever handlers, requests, faults and restarts meet, the rows, the
\* counters and the handlers keep their types.
THEOREM InboxTypeCorrect == Spec => []InboxTypeOK
<1>1. InboxInv => InboxTypeOK
  BY DEF InboxInv
<1>2. QED
  BY <1>1, InboxInvariant, PTL

\* unreadCount never falls short of the messages stored since the user last
\* read the conversation by more than those still to be counted and those
\* whose update failed, nor exceeds them by more than one a handler, though
\* row and count are two statements (messaging.service 490-514) and
\* markAsRead may come between them.
THEOREM UnreadFollowsRows == Spec => []UnreadKeepsUp
<1>1. InboxInv => UnreadKeepsUp
  <2> SUFFICES ASSUME InboxInv PROVE UnreadKeepsUp
    OBVIOUS
  <2>1. Waiting = In("count")
    BY DEF Waiting, In, At
  <2>2. /\ rows \in Nat /\ uncounted \in Nat /\ chat.unread \in Nat
        /\ rowsAtRead \in Nat /\ Cardinality(In("count")) \in Nat
        /\ Cardinality(Slots) \in Nat
    BY InIsFinite, SlotsFinite DEF InboxInv, InboxTypeOK, Chat
  <2>3. /\ rows <= rowsAtRead + chat.unread + Cardinality(In("count"))
                     + uncounted
        /\ rowsAtRead + chat.unread + Cardinality(In("count"))
             <= rows + Cardinality(Slots)
    BY DEF InboxInv, Counts
  <2>4. QED
    BY <2>1, <2>2, <2>3 DEF UnreadKeepsUp
<1>2. QED
  BY <1>1, InboxInvariant, PTL

\* A message that comes while the conversation is being closed or archived
\* opens it again: none newer than the closing stays behind, but for those
\* whose update failed.
THEOREM NothingHidesInClosed == Spec => []ClosedIsQuiet
<1>1. InboxInv => ClosedIsQuiet
  <2> SUFFICES ASSUME InboxInv, chat.status # "OPEN"
               PROVE  rows - rowsAtClose <= Cardinality(Waiting) + uncounted
    BY DEF ClosedIsQuiet
  <2>1. Waiting = In("count")
    BY DEF Waiting, In, At
  <2>2. /\ rows \in Nat /\ uncounted \in Nat /\ rowsAtClose \in Nat
        /\ Cardinality(In("count")) \in Nat
    BY InIsFinite DEF InboxInv, InboxTypeOK
  <2>3. rows <= rowsAtClose + Cardinality(In("count")) + uncounted
    BY DEF InboxInv, Counts
  <2>4. QED
    BY <2>1, <2>2, <2>3
<1>2. QED
  BY <1>1, InboxInvariant, PTL

\* However many requests race for a new sender's contact and conversation,
\* the unique indexes refuse at most two creations of each handler, less one.
THEOREM RacesAreBounded == Spec => []LossesBounded
<1>1. InboxInv => LossesBounded
  <2> SUFFICES ASSUME InboxInv PROVE LossesBounded
    OBVIOUS
  <2>1. /\ Cardinality(In("newContact")) \in Nat /\ raced \in Nat
        /\ Cardinality(In("newChat")) \in Nat
        /\ Cardinality(Slots) \in Nat /\ Cardinality(Slots) > 0
    BY InIsFinite, SlotsFinite DEF InboxInv, InboxTypeOK
  <2>2. CASE chat.exists
    <3>1. raced + Cardinality(In("newContact")) + Cardinality(In("newChat"))
            < 2 * Cardinality(Slots)
      BY <2>2 DEF InboxInv, Races
    <3>2. QED
      BY <2>1, <3>1 DEF LossesBounded
  <2>3. CASE ~chat.exists
    <3>1. raced + Cardinality(In("newContact")) <= Cardinality(Slots)
      BY <2>3 DEF InboxInv, Races
    <3>2. QED
      BY <2>1, <3>1 DEF LossesBounded
  <2>4. QED
    BY <2>2, <2>3
<1>2. QED
  BY <1>1, InboxInvariant, PTL

\* A text of a webhook that was answered 200 is stored, or its event threw
\* (for a fault, a race or a removed provider), or no configuration of the
\* provider was active.
THEOREM AnswersAreAccountedFor == Spec => []AnsweredIsAccounted
<1>1. InboxInv => AnsweredIsAccounted
  BY DEF InboxInv, Settled, AnsweredIsAccounted
<1>2. QED
  BY <1>1, InboxInvariant, PTL

-----------------------------------------------------------------------------
(* The events of the webhooks under way that may still be stored, each      *)
(* under its place from the end, which does not change as the handler goes  *)
(* through them.                                                            *)

Open(q, j) ==
  /\ j \in 1 .. Len(q.left)
  /\ q.left[Len(q.left) + 1 - j] \notin Strange
  /\ q.at = "count" => j # Len(q.left)

Todo == {p \in Slots \X Nat : Open(slot[p[1]], p[2])}

StoredInv == IsFiniteSet(Todo) /\ rows + Cardinality(Todo) <= posted

\* A handler that stays where it is with its events, or drops the first, or
\* all, has nothing new to store.
LEMMA OpenFrame ==
  ASSUME NEW q \in Slot, NEW p \in Slot,
         \/ /\ p.left = q.left
            /\ q.at = "count" => p.at = "count"
         \/ q.left # <<>> /\ p.left = Tail(q.left)
         \/ p.left = <<>>,
         NEW j \in Nat, Open(p, j)
  PROVE  Open(q, j)
<1>1. q.left \in Seq(Texts) /\ p.left \in Seq(Texts)
  BY DEF Slot
<1>2. CASE p.left = q.left /\ (q.at = "count" => p.at = "count")
  BY <1>2 DEF Open
<1>3. CASE q.left # <<>> /\ p.left = Tail(q.left)
  <2>1. /\ Len(p.left) = Len(q.left) - 1
        /\ \A k \in 1 .. Len(p.left) : p.left[k] = q.left[k + 1]
        /\ Len(q.left) \in Nat
    BY <1>1, <1>3
  <2>2. /\ j \in 1 .. Len(q.left) - 1
        /\ Len(p.left) + 1 - j \in 1 .. Len(p.left)
        /\ (Len(p.left) + 1 - j) + 1 = Len(q.left) + 1 - j
    BY <2>1 DEF Open
  <2>3. p.left[Len(p.left) + 1 - j] = q.left[Len(q.left) + 1 - j]
    BY <2>1, <2>2
  <2>4. QED
    BY <2>1, <2>2, <2>3 DEF Open
<1>4. CASE p.left = <<>>
  BY <1>4 DEF Open
<1>5. QED
  BY <1>2, <1>3, <1>4

LEMMA TodoFrame ==
  ASSUME InboxTypeOK, InboxTypeOK', StoredInv, UNCHANGED <<rows, posted>>,
         \A s \in Slots :
           \/ /\ slot'[s].left = slot[s].left
              /\ At(s, "count") => slot'[s].at = "count"
           \/ slot[s].left # <<>> /\ slot'[s].left = Tail(slot[s].left)
           \/ slot'[s].left = <<>>
  PROVE  StoredInv'
<1>1. Todo' \subseteq Todo
  <2> SUFFICES ASSUME NEW s \in Slots, NEW j \in Nat, Open(slot'[s], j)
               PROVE  Open(slot[s], j)
    BY DEF Todo
  <2>1. slot[s] \in Slot /\ slot'[s] \in Slot
    BY DEF InboxTypeOK
  <2>2. \/ /\ slot'[s].left = slot[s].left
           /\ slot[s].at = "count" => slot'[s].at = "count"
        \/ slot[s].left # <<>> /\ slot'[s].left = Tail(slot[s].left)
        \/ slot'[s].left = <<>>
    BY DEF At
  <2>3. QED
    BY <2>1, <2>2, OpenFrame
<1>2. /\ IsFiniteSet(Todo') /\ Cardinality(Todo') <= Cardinality(Todo)
      /\ Cardinality(Todo') \in Nat /\ Cardinality(Todo) \in Nat
  BY <1>1, FS_Subset, FS_CardinalityType DEF StoredInv
<1>3. rows \in Nat /\ posted \in Nat /\ rows + Cardinality(Todo) <= posted
  BY DEF StoredInv, InboxTypeOK
<1>4. rows' + Cardinality(Todo') <= posted'
  BY <1>2, <1>3
<1>5. QED
  BY <1>2, <1>4 DEF StoredInv

\* Most steps of a handler.
LEMMA TodoMoves ==
  ASSUME InboxTypeOK, InboxTypeOK', StoredInv, UNCHANGED <<rows, posted>>,
         NEW s \in Slots, NEW q, slot' = [slot EXCEPT ![s] = q],
         \/ /\ q.left = slot[s].left
            /\ At(s, "count") => q.at = "count"
         \/ slot[s].left # <<>> /\ q.left = Tail(slot[s].left)
         \/ q.left = <<>>
  PROVE  StoredInv'
<1>1. \A x \in Slots : slot'[x] = IF x = s THEN q ELSE slot[x]
  BY DEF InboxTypeOK
<1>2. ASSUME NEW x \in Slots
      PROVE  \/ /\ slot'[x].left = slot[x].left
                /\ At(x, "count") => slot'[x].at = "count"
             \/ slot[x].left # <<>> /\ slot'[x].left = Tail(slot[x].left)
             \/ slot'[x].left = <<>>
  BY <1>1 DEF At
<1>3. QED
  BY <1>2, TodoFrame

\* A webhook brings what is counted as posted.
LEMMA TodoPost ==
  ASSUME InboxTypeOK, StoredInv, NEW s \in Slots, NEW batch \in Batches,
         Post(s, batch)
  PROVE  StoredInv'
<1> DEFINE q == [kind |-> "hook", at |-> "event", batch |-> batch,
                 left |-> batch]
           New == {p \in {s} \X Nat : Open(q, p[2])}
           n == Len(batch)
<1>1. /\ batch \in Seq(Texts) /\ n \in Nat /\ DOMAIN batch = 1 .. n
      /\ q.left = batch /\ q.at = "event"
  BY SlotsFinite
<1>2. IsFiniteSet(Storable(batch)) /\ Cardinality(Storable(batch)) \in Nat
  <2>1. IsFiniteSet(1 .. n)
    BY <1>1, FS_Interval
  <2>2. Storable(batch) \subseteq 1 .. n
    BY <1>1 DEF Storable
  <2>3. QED
    BY <2>1, <2>2, FS_Subset, FS_CardinalityType
<1>3. IsFiniteSet(New) /\ Cardinality(New) <= Cardinality(Storable(batch))
      /\ Cardinality(New) \in Nat
  <2> DEFINE f == [p \in New |-> n + 1 - p[2]]
  <2>1. ASSUME NEW p \in New
        PROVE  n + 1 - p[2] \in Storable(batch) /\ p[2] \in Nat /\ p[1] = s
               /\ p = <<p[1], p[2]>>
    BY <1>1 DEF Open, Storable
  <2>2. ASSUME NEW p \in New, NEW r \in New, f[p] = f[r]
        PROVE  p = r
    <3>1. p[2] = r[2]
      BY <1>1, <2>1, <2>2
    <3>2. QED
      BY <2>1, <3>1
  <2>3. f \in Injection(New, Storable(batch))
    BY <2>1, <2>2 DEF Injection, IsInjective
  <2>4. QED
    BY <1>2, <2>3, FS_Injection, FS_CardinalityType
<1>4. \A x \in Slots : slot'[x] = IF x = s THEN q ELSE slot[x]
  BY DEF Post, InboxTypeOK
<1> HIDE DEF q
<1>5. Todo' \subseteq Todo \cup New
  BY <1>4 DEF Todo
<1> HIDE DEF New
<1>6. /\ IsFiniteSet(Todo) /\ IsFiniteSet(Todo \cup New)
      /\ Cardinality(Todo \cup New) <= Cardinality(Todo) + Cardinality(New)
      /\ Cardinality(Todo) \in Nat /\ Cardinality(Todo \cup New) \in Nat
  <2>1. IsFiniteSet(Todo)
    BY DEF StoredInv
  <2>2. IsFiniteSet(Todo \cap New)
    BY <1>3, FS_Subset
  <2>3. Cardinality(Todo \cap New) \in Nat
    BY <2>2, FS_CardinalityType
  <2>4. /\ IsFiniteSet(Todo \cup New)
        /\ Cardinality(Todo \cup New) = Cardinality(Todo) + Cardinality(New)
                                          - Cardinality(Todo \cap New)
    BY <1>3, <2>1, FS_Union
  <2>5. Cardinality(Todo) \in Nat /\ Cardinality(Todo \cup New) \in Nat
    BY <2>1, <2>4, FS_CardinalityType
  <2>6. QED
    BY <1>3, <2>1, <2>3, <2>4, <2>5
<1>7. /\ IsFiniteSet(Todo') /\ Cardinality(Todo') \in Nat
      /\ Cardinality(Todo') <= Cardinality(Todo \cup New)
  BY <1>5, <1>6, FS_Subset, FS_CardinalityType
<1>8. rows' = rows /\ posted' = posted + Cardinality(Storable(batch))
  BY DEF Post
<1>9. rows \in Nat /\ posted \in Nat /\ rows + Cardinality(Todo) <= posted
  BY DEF StoredInv, InboxTypeOK
<1>10. rows' + Cardinality(Todo') <= posted'
  BY <1>2, <1>3, <1>6, <1>7, <1>8, <1>9
<1>11. QED
  BY <1>7, <1>10 DEF StoredInv

\* The first event is stored, and will not be again, whether the handler goes
\* on to count it or drops it.
LEMMA TodoStored ==
  ASSUME InboxInv, InboxTypeOK', StoredInv, NEW s \in Slots, At(s, "store"),
         slot[s].kind = "hook", Head(slot[s].left) \notin Strange,
         NEW q \in Slot, slot' = [slot EXCEPT ![s] = q],
         \/ q.left = slot[s].left /\ q.at = "count"
         \/ q.left = Tail(slot[s].left),
         rows' = rows + 1, UNCHANGED posted
  PROVE  StoredInv'
<1>1. /\ slot[s].left \in Seq(Texts) /\ slot[s].left # <<>>
      /\ slot[s].at = "store"
  BY DEF InboxInv, InboxTypeOK, Shape, Fits, At, Slot
<1> DEFINE n == Len(slot[s].left)
<1>2. /\ n \in Nat /\ n > 0 /\ n + 1 - n = 1
      /\ slot[s].left[1] = Head(slot[s].left)
  BY <1>1
<1>3. <<s, n>> \in Todo
  BY <1>1, <1>2 DEF Todo, Open
<1>4. \A x \in Slots : slot'[x] = IF x = s THEN q ELSE slot[x]
  BY DEF InboxInv, InboxTypeOK
<1>5. Todo' \subseteq Todo \ {<<s, n>>}
  <2> SUFFICES ASSUME NEW x \in Slots, NEW j \in Nat, Open(slot'[x], j)
               PROVE  Open(slot[x], j) /\ ~(x = s /\ j = n)
    BY DEF Todo
  <2>1. CASE x # s
    BY <2>1, <1>4
  <2>2. CASE x = s
    <3>1. slot'[s] = q /\ slot[s] \in Slot
      BY <1>4 DEF InboxInv, InboxTypeOK
    <3>2. Open(q, j)
      BY <2>2, <3>1
    <3>3. Open(slot[s], j)
      BY <3>1, <3>2, <1>1, OpenFrame
    <3>4. Len(Tail(slot[s].left)) = n - 1
      BY <1>1
    <3>5. j # n
      <4>1. CASE q.left = slot[s].left /\ q.at = "count"
        BY <4>1, <3>2 DEF Open
      <4>2. CASE q.left = Tail(slot[s].left)
        <5>1. j \in 1 .. n - 1
          BY <4>2, <3>2, <3>4 DEF Open
        <5>2. QED
          BY <5>1, <1>2
      <4>3. QED
        BY <4>1, <4>2
    <3>6. QED
      BY <2>2, <3>3, <3>5
  <2>3. QED
    BY <2>1, <2>2
<1>6. /\ IsFiniteSet(Todo) /\ Cardinality(Todo) \in Nat
      /\ IsFiniteSet(Todo \ {<<s, n>>})
      /\ Cardinality(Todo \ {<<s, n>>}) = Cardinality(Todo) - 1
  BY <1>3, FS_RemoveElement, FS_CardinalityType DEF StoredInv
<1>7. /\ IsFiniteSet(Todo') /\ Cardinality(Todo') \in Nat
      /\ Cardinality(Todo') <= Cardinality(Todo) - 1
  BY <1>5, <1>6, FS_Subset, FS_CardinalityType
<1>8. rows \in Nat /\ posted \in Nat /\ rows + Cardinality(Todo) <= posted
  BY DEF StoredInv, InboxInv, InboxTypeOK
<1>9. rows' + Cardinality(Todo') <= posted'
  BY <1>6, <1>7, <1>8
<1>10. QED
  BY <1>7, <1>9 DEF StoredInv

LEMMA StoredOnceStep ==
  InboxInv /\ InboxInv' /\ StoredInv /\ [Next]_vars => StoredInv'
<1> SUFFICES ASSUME InboxInv, InboxInv', StoredInv, [Next]_vars
             PROVE  StoredInv'
  OBVIOUS
<1>0. /\ InboxTypeOK /\ InboxTypeOK'
      /\ \A s \in Slots : slot[s] \in Slot /\ Fits(slot[s])
  BY DEF InboxInv, InboxTypeOK, Shape
<1>1. ASSUME NEW s \in Slots
      PROVE  /\ Free.left = <<>>
             /\ \A stage : [slot[s] EXCEPT !.at = stage].left = slot[s].left
             /\ \A stage : [slot[s] EXCEPT !.at = stage].at = stage
             /\ NextEvent(s).left = Tail(slot[s].left)
             /\ [Free EXCEPT !.kind = "send", !.at = "contact"].left = <<>>
  BY <1>0 DEF Free, NextEvent, Slot
<1>2. ASSUME NEW s \in Slots, slot[s].at \notin {"idle", "event"}
      PROVE  slot[s].kind = "hook" => slot[s].left # <<>>
  BY <1>0, <1>2 DEF Fits
<1>3. ASSUME NEW s \in Slots, slot[s].at \notin {"idle", "event"}, Throws(s),
             UNCHANGED <<rows, posted>>
      PROVE  StoredInv'
  <2>1. slot' = [slot EXCEPT ![s] = AfterThrow(s)]
    BY <1>3 DEF Throws
  <2>2. \/ slot[s].left # <<>> /\ AfterThrow(s).left = Tail(slot[s].left)
        \/ AfterThrow(s).left = <<>>
    BY <1>1, <1>2, <1>3 DEF AfterThrow
  <2>3. QED
    BY <1>0, <1>3, <2>1, <2>2, TodoMoves
<1>4. ASSUME NEW s \in Slots, NEW stage, GoesTo(s, stage), ~At(s, "count"),
             UNCHANGED <<rows, posted>>
      PROVE  StoredInv'
  BY <1>0, <1>1, <1>4, TodoMoves DEF GoesTo
<1>5. ASSUME NEW s \in Slots, NEW batch \in Batches, Post(s, batch)
      PROVE  StoredInv'
  BY <1>0, <1>5, TodoPost
<1>6. ASSUME NEW s \in Slots, Send(s) \/ Answer(s) \/ StoreOutgoing(s)
      PROVE  StoredInv'
  BY <1>0, <1>1, <1>6, TodoMoves DEF Send, Answer, StoreOutgoing, history
<1>7. ASSUME NEW s \in Slots, Begin(s) PROVE StoredInv'
  <2>1. CASE provider = "ACTIVE"
    BY <1>4, <1>7, <2>1 DEF Begin, At
  <2>2. CASE provider # "ACTIVE"
    BY <1>0, <1>1, <1>7, <2>2, TodoMoves DEF Begin
  <2>3. QED
    BY <2>1, <2>2
<1>8. ASSUME NEW s \in Slots, FindContact(s) \/ FindChat(s) PROVE StoredInv'
  BY <1>4, <1>8 DEF FindContact, FindChat, At, history
<1>9. ASSUME NEW s \in Slots, CreateContact(s) \/ CreateChat(s)
      PROVE  StoredInv'
  <2>1. /\ slot[s].at \in {"newContact", "newChat"}
        /\ UNCHANGED <<rows, posted>>
        /\ Throws(s) \/ \E stage : GoesTo(s, stage)
    BY <1>9 DEF CreateContact, CreateChat, At
  <2>2. QED
    BY <1>3, <1>4, <2>1 DEF At
<1>10. ASSUME NEW s \in Slots, StoreIncoming(s) PROVE StoredInv'
  <2>1. CASE Accepted(s)
    <3> DEFINE q == [slot[s] EXCEPT !.at = "count"]
    <3>1. q \in Slot /\ q.left = slot[s].left /\ q.at = "count"
      BY GoesToIs DEF Stages
    <3>2. slot' = [slot EXCEPT ![s] = q]
      BY <1>0, <1>10, <2>1 DEF StoreIncoming, GoesTo, InboxTypeOK
    <3> HIDE DEF q
    <3>3. /\ At(s, "store") /\ slot[s].kind = "hook"
          /\ Head(slot[s].left) \notin Strange
          /\ rows' = rows + 1 /\ UNCHANGED posted
      BY <1>10, <2>1 DEF StoreIncoming, Accepted, StoresRow
    <3>4. QED
      BY <1>0, <3>1, <3>2, <3>3, TodoStored
  <2>2. CASE ~Accepted(s)
    BY <1>3, <1>10, <2>2 DEF StoreIncoming, At
  <2>3. QED
    BY <2>1, <2>2
<1>11. ASSUME NEW s \in Slots, Count(s) PROVE StoredInv'
  <2>1. slot[s].kind = "hook"
    BY <1>0, <1>11 DEF Count, At, Fits, Slot
  <2>2. slot[s].left # <<>>
    BY <1>2, <1>11, <2>1 DEF Count, At
  <2>3. QED
    BY <1>0, <1>1, <1>11, <2>2, TodoMoves DEF Count, history
<1>12. ASSUME NEW s \in Slots, HandlerFails(s) PROVE StoredInv'
  BY <1>3, <1>12 DEF HandlerFails
<1>13. CASE Crash
  <2>1. \A s \in Slots : slot'[s] = Free
    BY <1>13 DEF Crash
  <2>2. QED
    BY <1>0, <1>1, <1>13, <2>1, TodoFrame DEF Crash, history
<1>14. ASSUME NEW s \in Slots, ReplyLost(s) PROVE StoredInv'
  <2>1. /\ slot[s].at \notin {"idle", "event"} /\ Throws(s)
        /\ UNCHANGED posted
    BY <1>14 DEF ReplyLost
  <2>2. CASE UNCHANGED rows
    BY <1>3, <2>1, <2>2
  <2>3. CASE ~UNCHANGED rows
    <3> DEFINE q == AfterThrow(s)
    <3>1. /\ At(s, "store") /\ slot[s].kind = "hook"
          /\ Head(slot[s].left) \notin Strange /\ rows' = rows + 1
      BY <1>14, <2>3 DEF ReplyLost, Accepted, StoresRow
    <3>2. q \in Slot /\ q.left = Tail(slot[s].left)
      BY <1>1, <2>1, <3>1, AfterThrowIs DEF AfterThrow
    <3>3. slot' = [slot EXCEPT ![s] = q]
      BY <2>1 DEF Throws
    <3> HIDE DEF q
    <3>4. QED
      BY <1>0, <2>1, <3>1, <3>2, <3>3, TodoStored
  <2>4. QED
    BY <2>2, <2>3
<1>15. CASE UNCHANGED <<slot, rows, posted>>
  BY <1>0, <1>15, TodoFrame DEF At
<1>16. QED
  <2>1. ASSUME \/ Notify \/ Configure \/ RemoveProvider \/ ContactStep
               \/ ChatStep \/ SeeNotes \/ Reprocess \/ NotifyFails
               \/ UNCHANGED vars
        PROVE  UNCHANGED <<slot, rows, posted>>
    BY <2>1
    DEF Notify, Configure, RemoveProvider, ContactStep, AddContact,
        ImportContact, ReadContact, WriteContact, ChatStep, Close, Archive,
        Reopen, MarkAsRead, SeeNotes, Reprocess, NotifyFails, history, vars
  <2>2. ASSUME NEW s \in Slots, HandlerStep(s) PROVE StoredInv'
    BY <1>6, <1>7, <1>8, <1>9, <1>10, <1>11, <2>2 DEF HandlerStep
  <2>3. CASE \/ Notify \/ Configure \/ RemoveProvider \/ ContactStep
             \/ ChatStep \/ SeeNotes \/ Reprocess \/ NotifyFails
             \/ UNCHANGED vars
    BY <2>1, <2>3, <1>15
  <2>4. CASE \E s \in Slots : \/ \E batch \in Batches : Post(s, batch)
                             \/ Send(s)
                             \/ HandlerStep(s)
                             \/ HandlerFails(s)
                             \/ ReplyLost(s)
    BY <2>2, <2>4, <1>5, <1>6, <1>12, <1>14
  <2>5. QED
    BY <2>3, <2>4, <1>13 DEF Next

\* A handler stores each event of its webhook once at most (messaging.service
\* 492), whatever throws after it and whatever the others do.
THEOREM EventsAreStoredOnce == Spec => []StoredOncePerPost
<1>1. Init => StoredInv
  <2> SUFFICES ASSUME Init PROVE StoredInv
    OBVIOUS
  <2>1. \A s \in Slots : slot[s].left = <<>>
    BY DEF Init, Free
  <2>2. Todo = {}
    BY <2>1 DEF Todo, Open
  <2>3. QED
    BY <2>2, FS_EmptySet DEF StoredInv, Init
<1>2. InboxInv /\ StoredInv => StoredOncePerPost
  <2> SUFFICES ASSUME InboxInv, StoredInv PROVE rows <= posted
    BY DEF StoredOncePerPost
  <2>1. Cardinality(Todo) \in Nat
    BY FS_CardinalityType DEF StoredInv
  <2>2. QED
    BY <2>1 DEF StoredInv, InboxInv, InboxTypeOK
<1>3. QED
  BY <1>1, <1>2, StoredOnceStep, InboxInvariant, PTL DEF Spec
=============================================================================
