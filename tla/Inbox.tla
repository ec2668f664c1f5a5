-------------------------------- MODULE Inbox --------------------------------
(***************************************************************************)
(* What one sender writes to one user: the contact, the conversation and   *)
(* its counters, and the incoming messages, stored by webhooks that are    *)
(* served at the same time as sendMessage() to the same number, and as the *)
(* user's work on contacts and conversations.  An action is one await.     *)
(*                                                                         *)
(* A webhook handles its events one after the other; an event that throws  *)
(* is logged, the next one is taken, and the answer is 200.  Rows of       *)
(* contacts and conversations are never deleted, only marked.              *)
(*                                                                         *)
(* There to be reasoned about only: posted, answered, lost, dropped,       *)
(* raced, uncounted, silenced, rowsAtRead and rowsAtClose.                 *)
(***************************************************************************)
EXTENDS Naturals, FiniteSets, Sequences

CONSTANTS
  Slots,          \* webhooks and sendMessage() calls served at the same time
  Texts,          \* the messages the sender writes, by their external ids
  Strange,        \* those of a type the column does not know
  Batches,        \* what a webhook brings: sequences of messages
  Editors,        \* requests that read a contact before they write it
  Mixes,          \* bound: the operations in use in one behaviour
  MaxPosts, MaxSends, MaxEdits, MaxFaults   \* bounds

ASSUME InboxAssumption ==
  /\ IsFiniteSet(Slots) /\ Slots # {}
  /\ Strange \subseteq Texts
  /\ Batches \subseteq Seq(Texts)
  /\ Mixes \subseteq SUBSET STRING
  /\ {MaxPosts, MaxSends, MaxEdits, MaxFaults} \subseteq Nat

VARIABLES
  mix,            \* fixed
  provider,       \* the provider has an active configuration, or has none,
                  \* or is removed for good
  contact,        \* the row of contacts for the number
  optIn,
  chat,           \* the row of conversations
  slot,           \* the handlers
  editor,
  rows,           \* INBOUND rows of messages
  stored,         \* the texts they hold
  unannounced,    \* message.incoming emitted, the listener has not written
  notes,          \* NEW_MESSAGE notifications ...
  unseen,         \* ... and those not marked as read
  retried,        \* retryCount of the webhook events, summed up
  done,           \* [posts, sends, edits]
  faults,
  posted,         \* events posted that can be stored, repetitions counted
  answered,       \* texts that were in a webhook answered 200
  lost,           \* texts whose event threw
  dropped,        \* texts that came while there was no configuration
  raced,          \* creations refused by a unique index
  uncounted,      \* rows whose update of the conversation failed or never came
  silenced,       \* notifications that failed
  rowsAtRead,     \* rows when the conversation was last marked as read
  rowsAtClose     \* ... and last closed or archived

history == <<posted, answered, lost, dropped, raced>>
reading == <<uncounted, rowsAtRead, rowsAtClose>>
bell == <<unannounced, notes, unseen, silenced>>
vars == <<mix, provider, contact, optIn, chat, slot, editor, rows, stored,
          retried, done, faults, history, reading, bell>>

OptIns == {"PENDING", "OPTED_IN", "OPTED_OUT"}
Stages == {"idle", "event", "contact", "newContact", "chat", "newChat",
           "store", "count"}
Edits == {"remove", "optIn", "optOut", "toggle"}

Chat == [exists : BOOLEAN, status : {"OPEN", "CLOSED", "ARCHIVED"},
         unread : Nat, closedAt : BOOLEAN]
Slot == [kind : {"none", "hook", "send"}, at : Stages, batch : Seq(Texts),
         left : Seq(Texts)]
Editor == [op : Edits \cup {"none"}, read : OptIns]

Free == [kind |-> "none", at |-> "idle", batch |-> <<>>, left |-> <<>>]
NoEdit == [op |-> "none", read |-> "PENDING"]

InboxTypeOK ==
  /\ mix \in Mixes
  /\ provider \in {"ACTIVE", "INACTIVE", "REMOVED"}
  /\ contact \in {"NONE", "LIVE", "DELETED"}
  /\ optIn \in OptIns
  /\ chat \in Chat
  /\ slot \in [Slots -> Slot]
  /\ editor \in [Editors -> Editor]
  /\ rows \in Nat /\ stored \subseteq Texts
  /\ unannounced \in Nat /\ notes \in Nat /\ unseen \in Nat
  /\ retried \in Nat
  /\ done \in [posts : Nat, sends : Nat, edits : Nat]
  /\ faults \in 0 .. MaxFaults
  /\ posted \in Nat /\ raced \in Nat /\ uncounted \in Nat /\ silenced \in Nat
  /\ answered \subseteq Texts /\ lost \subseteq Texts
  /\ dropped \subseteq Texts
  /\ rowsAtRead \in 0 .. rows /\ rowsAtClose \in 0 .. rows

NewChat == [exists |-> TRUE, status |-> "OPEN", unread |-> 0,
            closedAt |-> FALSE]

Init ==
  /\ mix \in Mixes
  /\ provider = "ACTIVE"
  /\ contact = "NONE" /\ optIn = "PENDING"
  /\ chat = [NewChat EXCEPT !.exists = FALSE]
  /\ slot = [s \in Slots |-> Free]
  /\ editor = [e \in Editors |-> NoEdit]
  /\ rows = 0 /\ stored = {}
  /\ unannounced = 0 /\ notes = 0 /\ unseen = 0
  /\ retried = 0
  /\ done = [posts |-> 0, sends |-> 0, edits |-> 0]
  /\ faults = 0
  /\ posted = 0 /\ raced = 0 /\ uncounted = 0 /\ silenced = 0
  /\ answered = {} /\ lost = {} /\ dropped = {}
  /\ rowsAtRead = 0 /\ rowsAtClose = 0

TextsOf(batch) == {batch[k] : k \in DOMAIN batch}
Storable(batch) == {k \in DOMAIN batch : batch[k] \notin Strange}
At(s, stage) == slot[s].at = stage
GoesTo(s, stage) == slot' = [slot EXCEPT ![s].at = stage]

-----------------------------------------------------------------------------
(* processIncomingWebhook and handleIncomingMessage; the steps from the     *)
(* contact to the message are sendMessage's as well                        *)

\* The raw event is stored, and the provider takes the messages out of it:
\* none when the signature is wrong.
Post(s, batch) ==
  /\ At(s, "idle") /\ done.posts < MaxPosts
  /\ done' = [done EXCEPT !.posts = @ + 1]
  /\ slot' = [slot EXCEPT ![s] = [kind |-> "hook", at |-> "event",
                                  batch |-> batch, left |-> batch]]
  /\ posted' = posted + Cardinality(Storable(batch))
  /\ UNCHANGED <<mix, provider, contact, optIn, chat, editor, rows, stored,
                 retried, faults, answered, lost, dropped, raced, reading,
                 bell>>

\* sendMessage() to the number: it comes first to the contact.
Send(s) ==
  /\ "send" \in mix /\ provider # "REMOVED"
  /\ At(s, "idle") /\ done.sends < MaxSends
  /\ done' = [done EXCEPT !.sends = @ + 1]
  /\ slot' = [slot EXCEPT ![s] = [Free EXCEPT !.kind = "send",
                                              !.at = "contact"]]
  /\ UNCHANGED <<mix, provider, contact, optIn, chat, editor, rows, stored,
                 retried, faults, history, reading, bell>>

\* The last event was handled.
Answer(s) ==
  /\ At(s, "event") /\ slot[s].left = <<>>
  /\ slot' = [slot EXCEPT ![s] = Free]
  /\ answered' = answered \cup TextsOf(slot[s].batch)
  /\ UNCHANGED <<mix, provider, contact, optIn, chat, editor, rows, stored,
                 retried, done, faults, posted, lost, dropped, raced, reading,
                 bell>>

\* s after its event, whatever came of it.
NextEvent(s) == [slot[s] EXCEPT !.at = "event", !.left = Tail(@)]

\* Without an active configuration the event is nobody's.
Begin(s) ==
  /\ At(s, "event") /\ slot[s].left # <<>>
  /\ \/ /\ provider = "ACTIVE"
        /\ GoesTo(s, "contact")
        /\ UNCHANGED dropped
     \/ /\ provider # "ACTIVE"
        /\ slot' = [slot EXCEPT ![s] = NextEvent(s)]
        /\ dropped' = dropped \cup {Head(slot[s].left)}
  /\ UNCHANGED <<mix, provider, contact, optIn, chat, editor, rows, stored,
                 retried, done, faults, posted, answered, lost, raced, reading,
                 bell>>

\* Mutant: a deleted contact is not found.
LiveContact == contact = "LIVE"

\* findFirst by user and number, deleted or not.
FoundContact == contact # "NONE"

FindContact(s) ==
  /\ At(s, "contact")
  /\ GoesTo(s, IF FoundContact THEN "chat" ELSE "newContact")
  /\ UNCHANGED <<mix, provider, contact, optIn, chat, editor, rows, stored,
                 retried, done, faults, history, reading, bell>>

\* Mutant: the webhook gives up at the first event that throws.
GivesUp(s) ==
  IF slot[s].kind = "hook" THEN [slot[s] EXCEPT !.at = "event", !.left = <<>>]
                           ELSE Free

\* Mutant: the event is tried again.
TriesAgain(s) ==
  IF slot[s].kind = "hook" THEN [slot[s] EXCEPT !.at = "event"] ELSE Free

\* s after its event threw: caught and logged by the webhook; the caller of
\* sendMessage() gets the error.
AfterThrow(s) == IF slot[s].kind = "hook" THEN NextEvent(s) ELSE Free

Throws(s) ==
  /\ slot' = [slot EXCEPT ![s] = AfterThrow(s)]
  /\ lost' = IF slot[s].kind = "hook" /\ ~At(s, "count")
             THEN lost \cup {Head(slot[s].left)} ELSE lost

\* create; the unique index lets one row in.
CreateContact(s) ==
  /\ At(s, "newContact")
  /\ \/ /\ contact = "NONE"
        /\ contact' = "LIVE"
        /\ GoesTo(s, "chat")
        /\ UNCHANGED <<lost, raced>>
     \/ /\ contact # "NONE"
        /\ Throws(s)
        /\ raced' = raced + 1
        /\ UNCHANGED contact
  /\ UNCHANGED <<mix, provider, optIn, chat, editor, rows, stored, retried,
                 done, faults, posted, answered, dropped, reading, bell>>

FindChat(s) ==
  /\ At(s, "chat")
  /\ GoesTo(s, IF chat.exists THEN "store" ELSE "newChat")
  /\ UNCHANGED <<mix, provider, contact, optIn, chat, editor, rows, stored,
                 retried, done, faults, history, reading, bell>>

CreateChat(s) ==
  /\ At(s, "newChat")
  /\ \/ /\ ~chat.exists
        /\ chat' = NewChat
        /\ GoesTo(s, "store")
        /\ UNCHANGED <<lost, raced>>
     \/ /\ chat.exists
        /\ Throws(s)
        /\ raced' = raced + 1
        /\ UNCHANGED chat
  /\ UNCHANGED <<mix, provider, contact, optIn, editor, rows, stored,
                 retried, done, faults, posted, answered, dropped, reading,
                 bell>>

\* The type is the sender's word in capitals, whether the column knows it or
\* not; and the provider of the row is the one Begin found.
Accepted(s) == Head(slot[s].left) \notin Strange /\ provider # "REMOVED"

StoresRow(s) ==
  /\ rows' = rows + 1
  /\ stored' = stored \cup {Head(slot[s].left)}

\* message.create: a row for each time, externalId is not unique.
StoreIncoming(s) ==
  /\ At(s, "store") /\ slot[s].kind = "hook"
  /\ \/ /\ Accepted(s)
        /\ StoresRow(s)
        /\ GoesTo(s, "count")
        /\ UNCHANGED lost
     \/ /\ ~Accepted(s)
        /\ Throws(s)
        /\ UNCHANGED <<rows, stored>>
  /\ UNCHANGED <<mix, provider, contact, optIn, chat, editor, retried, done,
                 faults, posted, answered, dropped, raced, reading, bell>>

\* The outgoing row, unless its provider was removed; what follows is Message.
StoreOutgoing(s) ==
  /\ At(s, "store") /\ slot[s].kind = "send"
  /\ slot' = [slot EXCEPT ![s] = Free]
  /\ UNCHANGED <<mix, provider, contact, optIn, chat, editor, rows, stored,
                 retried, done, faults, history, reading, bell>>

\* Mutant: the conversation stays closed.
CountedOnly(c) == [c EXCEPT !.unread = @ + 1]

\* Mutant: the count is set, not incremented.
CountedAsOne(c) == [c EXCEPT !.unread = 1, !.status = "OPEN"]

Counted(c) == [c EXCEPT !.unread = @ + 1, !.status = "OPEN"]

\* Mutant: nothing is emitted to the listener.
EmitNothing == UNCHANGED unannounced

EmitIncoming == unannounced' = unannounced + 1

\* conversation.update, then the event for the listener.
Count(s) ==
  /\ At(s, "count")
  /\ chat' = Counted(chat)
  /\ slot' = [slot EXCEPT ![s] = NextEvent(s)]
  /\ EmitIncoming
  /\ UNCHANGED <<mix, provider, contact, optIn, editor, rows, stored,
                 retried, done, faults, history, reading, notes, unseen,
                 silenced>>

\* MessagingEventsListener.handleIncomingMessage, which nobody awaits.
Notify ==
  /\ unannounced > 0
  /\ unannounced' = unannounced - 1
  /\ notes' = notes + 1
  /\ unseen' = unseen + 1
  /\ UNCHANGED <<mix, provider, contact, optIn, chat, slot, editor, rows,
                 stored, retried, done, faults, history, reading, silenced>>

-----------------------------------------------------------------------------
(* The user's work *)

Works(op) == /\ op \in mix
             /\ done.edits < MaxEdits
             /\ done' = [done EXCEPT !.edits = @ + 1]

\* MessagingService.configureProvider, with isActive.
Configure ==
  /\ Works("configure")
  /\ provider # "REMOVED"
  /\ provider' \in {"ACTIVE", "INACTIVE"}
  /\ UNCHANGED <<mix, contact, optIn, chat, slot, editor, rows, stored,
                 retried, faults, history, reading, bell>>

\* MessagingService.removeProvider: configurations go by cascade.  One that is
\* created afterwards is another provider.
RemoveProvider ==
  /\ Works("configure")
  /\ provider # "REMOVED"
  /\ provider' = "REMOVED"
  /\ UNCHANGED <<mix, contact, optIn, chat, slot, editor, rows, stored,
                 retried, faults, history, reading, bell>>

\* ContactsService.create and the admin page; refused if there is a row.
AddContact ==
  /\ Works("contacts")
  /\ contact = "NONE"
  /\ contact' = "LIVE"
  /\ optIn' \in OptIns
  /\ UNCHANGED <<mix, provider, chat, slot, editor, rows, stored, retried,
                 faults, history, reading, bell>>

\* ContactsService.importContacts: an upsert.  A row that is there keeps its
\* optIn, and stays deleted though it is reported as imported.
ImportContact ==
  /\ Works("contacts")
  /\ \/ /\ contact = "NONE" /\ contact' = "LIVE"
        /\ optIn' \in OptIns
     \/ /\ contact # "NONE" /\ UNCHANGED <<contact, optIn>>
  /\ UNCHANGED <<mix, provider, chat, slot, editor, rows, stored, retried,
                 faults, history, reading, bell>>

\* ContactsService.findOne: deleted contacts are not found.
ReadContact(e, op) ==
  /\ Works("contacts")
  /\ editor[e].op = "none" /\ contact = "LIVE"
  /\ editor' = [editor EXCEPT ![e] = [op |-> op, read |-> optIn]]
  /\ UNCHANGED <<mix, provider, contact, optIn, chat, slot, rows, stored,
                 retried, faults, history, reading, bell>>

\* Mutant: toggling off writes a word the column does not know.
WrittenNone(op, read) ==
  IF op = "toggle" /\ read = "OPTED_IN" THEN "NONE" ELSE "OPTED_IN"

\* What follows findOne: the admin page negates what it read, after update()
\* has looked for the contact once more.
Written(op, read) ==
  CASE op = "optIn" -> "OPTED_IN"
    [] op = "optOut" -> "OPTED_OUT"
    [] op = "toggle" -> IF read = "OPTED_IN" THEN "OPTED_OUT" ELSE "OPTED_IN"

WriteContact(e) ==
  /\ editor[e].op # "none"
  /\ editor' = [editor EXCEPT ![e] = NoEdit]
  /\ \/ /\ editor[e].op = "remove"
        /\ contact' = "DELETED"
        /\ UNCHANGED optIn
     \/ /\ editor[e].op # "remove"
        /\ optIn' = Written(editor[e].op, editor[e].read)
        /\ UNCHANGED contact
     \/ /\ editor[e].op = "toggle" /\ contact = "DELETED"
        /\ UNCHANGED <<contact, optIn>>
  /\ UNCHANGED <<mix, provider, chat, slot, rows, stored, retried, done,
                 faults, history, reading, bell>>

\* ConversationsService: what findOne found cannot go away.
Close ==
  /\ Works("chat") /\ chat.exists
  /\ chat' = [chat EXCEPT !.status = "CLOSED", !.closedAt = TRUE]
  /\ rowsAtClose' = rows
  /\ UNCHANGED <<mix, provider, contact, optIn, slot, editor, rows, stored,
                 retried, faults, history, uncounted, rowsAtRead, bell>>

Archive ==
  /\ Works("chat") /\ chat.exists
  /\ chat' = [chat EXCEPT !.status = "ARCHIVED"]
  /\ rowsAtClose' = rows
  /\ UNCHANGED <<mix, provider, contact, optIn, slot, editor, rows, stored,
                 retried, faults, history, uncounted, rowsAtRead, bell>>

Reopen ==
  /\ Works("chat") /\ chat.exists
  /\ chat' = [chat EXCEPT !.status = "OPEN", !.closedAt = FALSE]
  /\ UNCHANGED <<mix, provider, contact, optIn, slot, editor, rows, stored,
                 retried, faults, history, reading, bell>>

MarkAsRead ==
  /\ Works("chat") /\ chat.exists
  /\ chat' = [chat EXCEPT !.unread = 0]
  /\ rowsAtRead' = rows
  /\ UNCHANGED <<mix, provider, contact, optIn, slot, editor, rows, stored,
                 retried, faults, history, uncounted, rowsAtClose, bell>>

\* NotificationsService.markAsRead and markAllAsRead.
SeeNotes ==
  /\ Works("notes")
  /\ \/ unseen > 0 /\ unseen' = unseen - 1
     \/ unseen' = 0
  /\ UNCHANGED <<mix, provider, contact, optIn, chat, slot, editor, rows,
                 stored, retried, faults, history, reading, unannounced, notes,
                 silenced>>

\* WebhookEventsService.reprocess counts; no event is handled again.
Reprocess ==
  /\ Works("notes") /\ done.posts > 0
  /\ retried' = retried + 1
  /\ UNCHANGED <<mix, provider, contact, optIn, chat, slot, editor, rows,
                 stored, faults, history, reading, bell>>

-----------------------------------------------------------------------------
(* Faults *)

Fault == faults < MaxFaults /\ faults' = faults + 1

\* A statement of a handler is rejected, without effect.
HandlerFails(s) ==
  /\ Fault
  /\ slot[s].at \in {"contact", "newContact", "chat", "newChat", "store",
                     "count"}
  /\ Throws(s)
  /\ uncounted' = IF At(s, "count") THEN uncounted + 1 ELSE uncounted
  /\ UNCHANGED <<mix, provider, contact, optIn, chat, editor, rows, stored,
                 retried, done, posted, answered, dropped, raced, rowsAtRead,
                 rowsAtClose, bell>>

\* Or only its reply is lost: it took effect, and the event throws.
ReplyLost(s) ==
  /\ Fault
  /\ slot[s].at \in {"newContact", "newChat", "store", "count"}
  /\ Throws(s)
  /\ \/ /\ At(s, "newContact") /\ contact = "NONE"
        /\ contact' = "LIVE"
        /\ UNCHANGED <<chat, rows, stored, uncounted>>
     \/ /\ At(s, "newChat") /\ ~chat.exists
        /\ chat' = NewChat
        /\ UNCHANGED <<contact, rows, stored, uncounted>>
     \/ /\ At(s, "store") /\ slot[s].kind = "hook" /\ Accepted(s)
        /\ StoresRow(s)
        /\ uncounted' = uncounted + 1
        /\ UNCHANGED <<contact, chat>>
     \/ /\ At(s, "count")
        /\ chat' = Counted(chat)
        /\ UNCHANGED <<contact, rows, stored, uncounted>>
  /\ UNCHANGED <<mix, provider, optIn, editor, retried, done, posted, answered,
                 dropped, raced, rowsAtRead, rowsAtClose, bell>>

\* With effect, and its reply lost, it is Notify: nobody awaits the listener.
NotifyFails ==
  /\ Fault
  /\ unannounced > 0
  /\ unannounced' = unannounced - 1
  /\ silenced' = silenced + 1
  /\ UNCHANGED <<mix, provider, contact, optIn, chat, slot, editor, rows,
                 stored, retried, done, history, reading, notes, unseen>>

Waiting == {s \in Slots : At(s, "count")}

\* The process exits: no webhook is answered, no listener runs.
Crash ==
  /\ Fault
  /\ slot' = [s \in Slots |-> Free]
  /\ editor' = [e \in Editors |-> NoEdit]
  /\ uncounted' = uncounted + Cardinality(Waiting)
  /\ unannounced' = 0
  /\ silenced' = silenced + unannounced
  /\ UNCHANGED <<mix, provider, contact, optIn, chat, rows, stored, retried,
                 done, history, rowsAtRead, rowsAtClose, notes, unseen>>

-----------------------------------------------------------------------------

HandlerStep(s) ==
  \/ Answer(s)
  \/ Begin(s)
  \/ FindContact(s)
  \/ CreateContact(s)
  \/ FindChat(s)
  \/ CreateChat(s)
  \/ StoreIncoming(s)
  \/ StoreOutgoing(s)
  \/ Count(s)

ContactStep ==
  \/ AddContact
  \/ ImportContact
  \/ \E e \in Editors : \/ \E op \in Edits : ReadContact(e, op)
                        \/ WriteContact(e)

ChatStep == Close \/ Archive \/ Reopen \/ MarkAsRead

Next ==
  \/ \E s \in Slots : \/ \E batch \in Batches : Post(s, batch)
                      \/ Send(s)
                      \/ HandlerStep(s)
                      \/ HandlerFails(s)
                      \/ ReplyLost(s)
  \/ Notify
  \/ Configure
  \/ RemoveProvider
  \/ ContactStep
  \/ ChatStep
  \/ SeeNotes
  \/ Reprocess
  \/ NotifyFails
  \/ Crash

Spec == Init /\ [][Next]_vars

\* What was begun goes on: Node runs every promise that is settled, and
\* PostgreSQL answers.
Fairness ==
  /\ \A s \in Slots : WF_vars(HandlerStep(s))
  /\ WF_vars(Notify)

FairSpec == Spec /\ Fairness

-----------------------------------------------------------------------------
(* Properties *)

\* unreadCount (messaging.service 511) against what was stored since the user
\* last marked the conversation as read (conversations.service 133): short
\* only of rows still to be counted or whose count failed or never came, and
\* over only by rows that were under way when it was marked.
UnreadKeepsUp ==
  LET new == rows - rowsAtRead
  IN  /\ new <= chat.unread + Cardinality(Waiting) + uncounted
      /\ chat.unread <= new + Cardinality(Slots)

\* A closed or archived conversation holds nothing newer than the closing
\* that will not open it again (messaging.service 512), but for
\* updates that failed or never came.
ClosedIsQuiet ==
  chat.status # "OPEN" =>
    rows - rowsAtClose <= Cardinality(Waiting) + uncounted

\* The races for a new sender's rows (messaging.service 454, 471; 195, 205)
\* cost each handler one contact and one conversation at most, and a
\* conversation is there afterwards: no later message is refused.
LossesBounded == raced <= 2 * Cardinality(Slots) - 1

\* Each event is settled on its own (messaging.service 372-389): a text of an
\* answered webhook is stored, unless its own event threw or no configuration
\* of the provider was active; and it throws for its type, a fault, a race or
\* a provider that was removed under way.
AnsweredIsAccounted ==
  /\ answered \subseteq stored \cup lost \cup dropped
  /\ lost \subseteq Strange \/ raced + faults > 0 \/ provider = "REMOVED"

\* A webhook that is repeated stores its messages again (messaging.service
\* 492), but a handler never stores an event twice, whatever fails after.
StoredOncePerPost == rows <= posted

\* Every stored message is announced (messaging.service 516), unless
\* something failed.
StoredIsAnnounced ==
  \A n \in 1 .. MaxPosts : (rows >= n) ~> (notes >= n \/ faults > 0)

\* WHY_AND_HOW.md:515: the conversation is created and the message stored.
AnsweredIsStored == answered \subseteq stored
=============================================================================
