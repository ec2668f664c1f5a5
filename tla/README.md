# Wapp in TLA+

Wapp is a WhatsApp messaging back end (`src/backend-api`, NestJS over
PostgreSQL, Redis and BullMQ). This directory holds TLA+ models of the parts of
it that keep state over several steps, the TLC configurations that check them,
and TLAPS proofs of the results that matter most.

- `tlc -workers 2 -config MCCampaignRaces.cfg MCCampaign` runs one check (the
  table under *Runs* names them all);
- `tlapm <component>Proofs.tla` checks the proofs of a component.

`PROJECT.json` maps each definition to the source lines it stands for, and lists
runs, findings, hazards and theorems. Paths below are relative to
`src/backend-api/src` unless they start with `src/`.

## What kind of program this is

One Node process (restarted by docker-compose: `restart: unless-stopped`) serves
HTTP requests, runs a one-minute polling scheduler and works on BullMQ queues.
Nothing is locked and almost nothing is done in a transaction: a handler reads
a row, checks a condition, awaits something, and writes by primary key.
Code between two `await`s runs undisturbed; everything else interleaves. This
fixes the grain of all models: **one action is one await**, that is, one
database statement or one call to a provider, with the code up to the next one.

## Inventory

| Component | State it keeps | Operations | Hard behaviour | What makes it correct |
|---|---|---|---|---|
| Campaigns (`modules/campaigns/campaigns.service.ts`) | `campaigns` (status, scheduledAt, total/sent/failed counts), `campaign_recipients` | create, update, addRecipients, start, pause, cancel, remove, executeCampaign | read-check-write on `status`; executeCampaign is not awaited by `start()`; counters updated apart from the rows they count; nothing looks for campaigns left RUNNING | a contact is called once a start; counts and rows agree; a stop takes effect within a batch; an ended campaign stays ended |
| Campaign scheduler (`campaign-scheduler.service.ts`) | a timer | tick: start what is SCHEDULED and due | ticks overlap with requests and with each other | what is due is started |
| Outgoing messages (`modules/messaging/messaging.service.ts`, `queues/message.processor.ts`) | `messages`, `message_statuses`, jobs of the `messages` queue | sendMessage, sendMessageSync, MessageProcessor.process | a row and a job written apart; retries of what the provider may have accepted; stalled jobs | duplicates only where a fault explains them; every message settles; row, job and history tell what the provider did |
| Status reports (`handleStatusUpdate`) | columns `sentAt`, `deliveredAt`, ... and history rows | one report | reports overtake the external id, each other and retries | a report reaches its message, and only a sent one |
| Event listener (`listeners/messaging-events.listener.ts`) | `notifications` | a notification for a failed message, for an incoming one, for the end of a campaign | not awaited, not repeated | one notification for each event |
| Incoming messages (`processIncomingWebhook`, `handleIncomingMessage`) and what they share with `sendMessage`, contacts and conversations | `contacts`, `conversations` (unreadCount, status), `messages`, `webhook_events` | one webhook; create, import, edit, delete a contact; close, archive, reopen, mark as read | find-or-create without a lock; repeated webhooks; soft-deleted contacts; the message stored and counted in two statements | a message that was answered is stored or its loss explained; unreadCount follows the rows; a closed conversation hides nothing new |
| Campaign queue processor (`queues/campaign.processor.ts`) | jobs of the `campaigns` queue | a second way to run a campaign | retry of a half-done job; a failure between queue and row; no code enqueues its jobs today | a recipient is handed over once; a stop is heeded |
| Providers (`provider registry`, `removeProvider`, `configureProvider`) | `providers`, configurations, the registry in memory | configure, remove | removal cascades to campaigns that are running | see Campaigns, the queue processor and incoming messages |
| Authentication and users (`modules/auth`, `modules/users`, `common/guards`) | `users` (password, loginAttempts, lockedUntil, role, isActive, deletedAt, reset token), `sessions`, the cookie session of the admin pages | register, login, refresh, logout, change and reset password, verify; create, update, remove, restore | lost increments; two uses of one refresh token; refresh against password change; roles kept in tokens | an old password does not keep a session but for requests it overtakes; a second exchange of a session and a lost wrong password go back to requests that overlap; a role taken away is soon without effect |
| Templates (`modules/templates`) | `templates`, and what WhatsApp has registered | create, update, submit, remove | a call of the provider between a read and a write | row and provider agree |
| Outgoing webhooks (`modules/webhooks`) | `webhooks` (isActive, failureCount), `webhook_logs` | create, update, remove, trigger, deliverWebhook | nobody awaits a delivery; its catch block throws | log and counter tell what was answered |
| Media and files (`modules/media`, `modules/file-upload`, `common/services/storage.service.ts`) | files on the disk and their rows | upload, remove | file and row are written apart | a row has its file and a file its row |
| Feature flags, API keys, billing, settings, analytics, audit, plumbing | rows | single statements or reads | none across steps, but for the toggle of a flag | - |

How they interact: controllers and admin pages call the services; the scheduler
calls `CampaignsService.start()` (so does the admin page's *resume*);
`executeCampaign()` calls the provider directly and not through
`sendMessage()`; `sendMessage()` hands a job to BullMQ or, with the queue
disabled, attempts in the request; `MessageProcessor` emits `message.processed`,
which the listener turns into a notification; the provider posts reports and
incoming messages to the public webhook route.

## What is modelled

### `Campaign.tla` (core)

One campaign, its recipients, the requests on it and the executors left running
by `start()`.

| State | Code |
|---|---|
| `status`, `scheduledAt`, `total`, `sentCount`, `failedCount` | columns of `campaigns`; `status` is also ABSENT or DELETED; `scheduledAt` only against the clock |
| `rcp[c]` | `campaign_recipients.status` of contact `c`, NONE without a row (`@@unique([campaignId, contactId])`) |
| `pc[r]`, `todo[r]`, `added[r]` | locals of request `r`: the operation whose guard it has passed and whose write is pending, or the rows of `addRecipients` |
| `xpc[e]`, `batch[e]`, `cur[e]`, `ok[e]` | locals of an `executeCampaign` call; a slot is used once, so it also stands for the `start()` that made it |
| `attempts`, `accepted`, `late`, `faults` | observation only: what the provider saw, how late a stop took effect, how many faults there were |

| Actions | Code |
|---|---|
| `Create`, `BeginAdd`, `AddRow`, `AddCount` | `create` and `addRecipients`: the row, each `create` of the `Promise.all` (unique and foreign key errors are swallowed), the increment |
| `Begin`, then `WriteUpdate`, `WriteStart`, `WriteStop`, `WriteRemove`, `WriteGone` | the guard of each operation on the status `findOne` read, and later its write, which does not look at the status again |
| `SchedulerTick`, `BecomeDue` | `checkScheduledCampaigns` and the clock |
| `ExecLoad` ... `ExecComplete`, `ExecThrows` | each await of `executeCampaign`; what it throws is an unhandled rejection, which ends the process |
| `RemoveProvider` | `removeProvider` with the cascades of the schema |
| `Crash`, `RequestFails`, `StartReplyLost`, `AddRowFails`, `ExecRecordFails`, `ExecCountFails` | process exit, a failed statement (with and without effect), a lost reply |

The provider answers errors as `success: false` and does not throw; removal of
contacts is soft, so no cascade reaches recipients from there.

### `DispatchLedger.tla` (abstract specification)

What running a campaign promises per contact, without requests, batches or
statuses: a contact is enrolled once, each start is a ticket, a ticket buys at
most one provider call per contact and only for enrolled contacts, an entry is
settled only after a call and never goes back. `Campaign` implements it under
the mapping `phase` from `status`, `issued` the executors used, `book` the
recipient rows, `calls` the observed provider calls (`KeepsLedger`).

### `Message.tla`

One or more calls of `sendMessage()`, with the queue or without it
(`queueEnabled` is fixed in `Init`).

| State | Code |
|---|---|
| `row`, `ext`, `stamps`, `tries`, `reported`, `notified` | `messages` row, its externalId (as the number of the acceptance it names) and non-null timestamps; history rows of attempts and of reports; notifications |
| `job`, `made`, `stalls` | the BullMQ job, `attemptsMade`, and its stalled count: external, from the options the code gives |
| `pc`, `res`, `notices` | the attempt's await, the provider's answer, events emitted and not handled |
| `hpc`, `hook` | webhook handlers in progress |
| `acc`, `calls`, `answered`, `faults` | what the provider saw, which reports were answered 200, fault count |

`Send`, `SendScheduled`, `Enqueue` are `sendMessage`; `Call`, `Record`,
`History`, `Touch` are the awaits that `sendMessageSync` and
`MessageProcessor.process` have in common, `EndAttempt` where they differ (the
processor throws on a refusal); `Notify` is the listener; `Take`, `JobDone`,
`JobThrew`, `JobStalled` are BullMQ; `HookPosted`, `HookFind`, `HookUpdate`,
`HookHistory` are the status branch of the webhook. `Crash`, `EnqueueFails`,
`AnswerLost`, `AttemptFails`, `NotifyFails`, `HookFails` are the faults. The
provider is external: it may accept a message and lose the answer, and may post
a report early, late, out of order or repeatedly.

### `Delivery.tla` (abstract specification)

What sending a message promises, without queue, rows or steps of a process: it
is kept for later or open; while it is open the provider is called for it, no
more often than it has attempts; it is settled once, as sent only if the
provider took it, as failed only if the provider does not have it and all
attempts were made. Each of the limits may be passed by as much as was lost (an
answer, a statement, a process). `Message` implements it (`KeepsDelivery`): the
phase of a message comes from `row`, `job`, `pc` and `sentAt` (`Phase`). A
message that has neither a job nor an attempt under way is settled, for nothing
looks for it: as failed if it has no `sentAt`. Only a loss leaves one behind.

### `Inbox.tla`

What one sender writes to one user, served beside `sendMessage()` to the same
number and the user's own work. The code takes one active configuration of
the provider for every incoming message (`take: 1` at `messaging.service.ts:448`),
whichever the database returns first: with one configuration there is one user
to serve, and several are not modelled.

| State | Code |
|---|---|
| `contact`, `optIn`, `chat` | the rows of `contacts` and `conversations` for the number; deletion of a contact is soft, and a deleted one is still found by webhooks |
| `slot[s]` | a webhook or a `sendMessage()` in progress: its await and the events left |
| `editor[e]` | a request that has read the contact and is to write it |
| `rows`, `stored`, `unannounced`, `notes`, `unseen` | INBOUND rows of `messages`; events emitted and notifications |
| `provider`, `retried` | whether the provider has an active configuration, or is removed; `retryCount` of `webhook_events` |
| `posted`, `answered`, `lost`, `dropped`, `raced`, `uncounted`, `silenced`, `rowsAtRead`, `rowsAtClose` | observation only |

`Post`, `Begin`, `Answer` are `processIncomingWebhook`; `FindContact` to
`CreateChat` the find-or-create that `handleIncomingMessage` and `sendMessage`
share; `StoreIncoming`, `Count` and `Notify` the message, the conversation's
update and the listener. An event that throws is caught (`AfterThrow`) and the
next one taken. `Texts` in `Strange` have a type (`messages[].type` of WhatsApp,
in capitals) that the enum column refuses; the foreign key refuses every row of a
provider that was removed since `Begin` found it (`RemoveProvider`, `Accepted`).
A webhook may be repeated, and two of them be served at once. A statement of a
handler may fail without effect (`HandlerFails`) or with all of it, only its reply
lost (`ReplyLost`): the event throws either way, and a row that was stored is then
never counted. The rest are the handlers of contacts, conversations,
notifications and webhook events.

### `Sessions.tla` and `Routes.tla`

One account: its password (the number of times it was changed), lock, role and
standing, the sessions opened on it, and requests served at the same time.

| State | Code |
|---|---|
| `user` | the row of `users` |
| `sess`, `opened` | the rows of `sessions`; a token is the role and the time signed into it, so two of one second are equal (`SameToken`) |
| `adminIn` | the cookie session of the admin pages |
| `req[r]` | a request: what it read and keeps until it writes |
| `now` | the clock, for locks, tokens and sessions that expire |
| `late`, `tainted`, `guesses`, `used`, `roleSince`, `faults` | observation only |

Each operation is a read with its guards (`LoginReads`, `RefreshReads`, ...) and
a write (`LoginOpens`, `RefreshSwaps`, ...), the transactions of the code being
one write. A request becomes *late* when what it read changes under it.
`Routes` holds, for each controller, who passes `JwtAuthGuard` and `RolesGuard`;
`Serves` of `Sessions` asks it with the role in the token, as the guard does.

### `SessionStore.tla` (abstract specification)

The sessions of an account if each request were one step: `Login` on the
password and role there are, `Exchange` of a live session for a new one, `Close`,
`Alter` (an edit, or a new password, which closes all). What is closed stays
closed. A slot becomes *late* only when the account changes or a session is
closed; a late one opens at most one session, on an earlier password
(`LateOpens`), or none (`Leave`). `Sessions` implements it (`KeepsStore`) under the
mapping `AccountNow`, `RowsNow`, `LateNow`: the columns a login depends on, the
rows, and the requests that were overtaken. So the awaits between the reads and
writes of `auth.service.ts` show in these requests and nowhere else.

### `CampaignQueue.tla`, `Webhooks.tla`, `Templates.tla`, `Files.tla`, `Office.tla`

Four components that share no state. `Office` puts one of each side by side;
`part` says which of them moves, so that TLC checks all four in one run without
their product.

- `CampaignQueue` follows one job of `CampaignProcessor` (nothing enqueues one
  today): the awaits of the loop, `StopCampaign`, `RemoveCampaign` and
  `RemoveProvider` of the user in between, `JobThrows` and `WorkerDies` as BullMQ
  answers them. Each statement may fail without effect or with all of it, its
  reply lost: inside the `try` (`RecipientFails`) that leads to the catch block, so
  a recipient counted as sent becomes FAILED; outside (`JobFails`, `TookEffect`)
  the job throws, also when it has just written COMPLETED.
- `Webhooks` follows each delivery of an event to a webhook (nothing calls
  `trigger()` today). A statement of the `try` block that fails, with or without
  effect, enters the catch block (`DeliveryFails`). What that throws (`CatchFails`,
  or the update of a webhook that is gone) is nobody's, and ends the process with
  every delivery under way (`NodeExits`); so does an exit for any other reason
  (`HooksCrash`).
- `Templates` follows submissions and removals between the row and
  WhatsApp's registry. `deleteTemplate` deletes a name in all languages, and what
  it returns is not looked at. Submitting a submitted template again marks it
  REJECTED, for its name is taken, while its external id stays. The provider's
  own row stays: `removeProvider` would take the templates' rows with it and tell
  WhatsApp nothing, which is not modelled.
- `Files` follows uploads and deletions between the disk and a table; media and
  file uploads have the same steps.

## Runs

| Run | Shows | Bounds, and why they are enough |
|---|---|---|
| `campaign_races` (`MCCampaignRaces`) | `OncePerStart`, `CountsBalance`, `TotalMatchesRows`, `RunningHasExecutor`, `StopsWithinOneBatch`, `NeverRevived` | 2 requests, so that any two operations overlap between guard and write; 2 executors, so that two starts run on the same rows; 2 contacts with batches of 1, so that an executor fetches, checks and fetches again; no faults |
| `campaign_faults` | `TypeOK`, `RowsTellTheTruth`, `DispatchInv`, `KeepsLedger`, `RunningEnds` and `PendingIsTried` (liveness) | 2 executors (a start, a pause and a second start) over 2 contacts with batches of 2, so that one executor's batch holds what the other is at; 1 request at a time (what two do to each other is in `campaign_races`) and one fault anywhere, with and without effect |
| `campaign_stop` | a violation, finding 1 | |
| `campaign_schedule` | a violation, finding 2 | scheduler and clock fair |
| `message_faults` | `TypeOK`, `KeepsDelivery`, `CallsBounded`, `JobTellsTheTruth`, `DeliveredIsSent`, `FailuresAreNotified`, `QueuedIsSettled` and `StoredIsTried` (liveness) | 1 message (messages share no state); 3 attempts as in the default configuration, 1 stall, 2 faults: enough for a lost answer and a crash in one message's life; 1 handler, so reports come in any order and repeatedly but one at a time (two at once are in `message_reports` and in the proofs) |
| `message_reports` | a violation, finding 3 | 2 handlers; no faults needed |
| `sessions_races` | `SessionsTypeOK`, `OldPasswordsSlipIn`, `HeirsBounded`, `RolesCatchUp`, `ResetOnce`, `GuessesBounded`, `KeepsStore` | 2 requests; 2 attempts before a lock, so that one can be lost; 4 sessions, so that one may have three heirs, more than requests; 2 reset tokens, so that one is issued while another is being used; lifetimes of 1 and 2 ticks, so that tokens and locks expire while rows live. A behaviour draws one of eight *mixes* of operations, which bound it as well: those that touch the same columns are together, as the products of independent histories would fill the run |
| `sessions_rotation` | a violation, finding 5 | 2 refreshes of one session, no fault |
| `sessions_lock` | a violation, finding 6 | 2 wrong passwords at once with a limit of 2, no fault |
| `inbox_races` | `InboxTypeOK`, `UnreadKeepsUp`, `ClosedIsQuiet`, `LossesBounded`, `AnsweredIsAccounted`, `StoredOncePerPost`, `StoredIsAnnounced` (liveness) | 2 handlers, 2 webhooks of which one may repeat the other, an empty one and one with a message that is stored and one that is refused; 2 edits, 2 editors, 1 `sendMessage`, 1 fault (with effect, without, or an exit), the provider reconfigured or removed; four mixes of the user's work |
| `inbox_first_contact` | a violation, finding 4 | 2 webhooks of one message each, no edits and no fault |
| `office_parts` | `OfficeTypeOK`, `HandsOverOnce`, `QueueHeedsStop`, `LogsTellTheTruth`, `RowsMatchProvider`, `RowsHaveFiles` | `part`, drawn in `Init`, says which of the four moves. 3 recipients in batches of 2, 2 runs of the job, 2 faults, so that the reply of the last update is lost and the worker dies; 2 webhooks and 2 events, 1 rejected statement or exit; 2 templates, 3 pairs of name and language of which two share the name, 2 requests, 1 upheaval; 3 files, 2 requests, 1 fault |

`CHECK_DEADLOCK FALSE` is set where the system really may stop: after a message is
refused for the last time, when the bounded clock or the bounded numbers of
posts, edits and events are used up, or when a job is over, nothing is left to
do. `Campaign` never stops, since the scheduler ticks.

Symmetry (permutations of contacts, requests, executors, hooks, events,
templates' rows) is used in runs of invariants and action properties only: no
property tells the members apart. In the liveness runs there is none.

What the properties say that a unit test would hardly reach:

- `OncePerStart`: an executor never reaches the same contact twice, whatever
  requests, other executors and failed statements do, although a failed
  `update` leaves the recipient PENDING until the `catch` has written FAILED.
- `CountsBalance`, `TotalMatchesRows`: increments and rows are separate
  statements and agree up to the ones still to come, with two executors on the
  same recipients and two `addRecipients` on the same contacts.
- `RunningHasExecutor`, `RunningEnds`: no order of start, pause, cancel and
  completion leaves a campaign RUNNING with nobody to end it. With faults it
  can: the property is stated for `faults = 0`. Two requests at once meet
  `RunningHasExecutor` in `campaign_races`; `RunningEnds` is checked with two
  executors and one request at a time.
- `StopsWithinOneBatch`: the status is looked at once a batch.
- `NeverRevived`: an ended campaign comes back only through an operation that
  had passed its guard before.
- `KeepsDelivery`, `CallsBounded`: a message is accepted twice only if an answer,
  a statement or the process was lost in between (`DuplicatesNeedFaults` follows
  from it), never called for more than attempts and stalls allow, and settled
  once: nothing sends it again or takes back what it came to.
- `JobTellsTheTruth`, `DeliveredIsSent`, `FailuresAreNotified`: job, row, history
  and notifications agree with what the provider did, in every order of reports.
- `OldPasswordsSlipIn`: after a change of the password only a session that goes
  back to a request under way at that moment lives on the old one. `tainted`
  follows it through refreshes.
- `HeirsBounded`: a session may be exchanged more than once (finding 5); of the
  sessions that come out of it, all but one were opened by requests that had
  found the row before it was revoked, and there are no more than requests at a
  time. It speaks of rows: two sessions of one second hold equal tokens, and
  what that means for revoking one of them no property says.
- `KeepsStore`: what login and refresh checked (there, active, not deleted,
  unlocked, the role, the password, the session exchanged) still holds when they
  write, unless the request was overtaken; a session once revoked is never live
  again; a new password closes all there are, in the same step.
- `RolesCatchUp`: over all routes, a role that was taken away is served for no
  longer than an access token lives, but for late requests.
- `GuessesBounded`: the lost increments of `loginAttempts` let more than
  MaxAttempts wrong passwords through (finding 6); this says how many. Of each
  count below the limit a *profile* says how many requests stand at less. A
  failed login that is counted never takes the profile back to an earlier one,
  so there are no more of them than profiles (MaxAttempts - 1 + n over n for n
  requests at a time) less one, and one more for each request and for each
  fault: with a limit of 5 and no fault, at most 5 for one request at a time,
  and 16 for two.
- `ResetOnce`: a reset token is good once for each request that had found it.
- `UnreadKeepsUp`, `ClosedIsQuiet`: `unreadCount` and the status follow rows
  stored by several handlers while the user marks, closes and archives, up to
  the rows still to be counted and the updates that failed or never came.
- `LossesBounded`, `AnsweredIsAccounted`: the races for a new sender's rows lose
  at most two events a handler less one, and an event is lost only to a race, a
  fault, its type, a removed provider or a missing configuration - never to another
  event of its webhook.
- `StoredOncePerPost`, `StoredIsAnnounced`: a webhook stores an event at most
  once for each time it was posted, and every stored message is announced.
- `HandsOverOnce`: with retries, dying workers and statements that fail with or
  without effect, what was handed over is counted as sent, up to the recipient
  at hand and one a fault. `sentCount` exceeds the recipients SENT by one for each
  fault at most (the reply of its increment lost, the catch block turns the
  recipient into FAILED and counts it there too); `failedCount` never exceeds
  those FAILED.
- `QueueHeedsStop`: no more than a batch follows a stop. The exception is real:
  the last update overwrites PAUSED with COMPLETED, and if its reply is lost, or
  the worker dies after it, BullMQ runs the job again over those that are PENDING.
- `LogsTellTheTruth`: a log that tells otherwise than the answer goes back to a
  rejected statement or a webhook deleted meanwhile; a delivery is cut off only by
  these or by an exit of the process; `failureCount` exceeds the deliveries logged
  as failed by one for each update that took effect and lost its reply, since the
  catch block counts again.
- `RowsMatchProvider`: row and WhatsApp agree but for a request under way, two at
  once, a renaming, another row's name deleted, or a lost call.
- `RowsHaveFiles`: without faults, also with two deletions of one file.

## Fairness

`RequestStep`, `ExecStep`, `AttemptStep` and `HookStep` are weakly fair for each
handler: Node resumes a function whose await is over, and the database answers.
The scheduler's tick and the clock are fair (`setInterval`). For BullMQ, a free
worker takes a waiting job and the stalled check runs (`QueueStep`): that is the
library's contract. Nothing is assumed of users (`Ask`, `Send`), of
`RemoveProvider`, of the provider's reports, of the notification listener, or of
faults. No property needs strong fairness.

The liveness properties excuse what the code does not mend: `RunningEnds` and
`StoredIsTried` speak of behaviours without a fault, `PendingIsTried` excuses an
executor that halts or dies, `QueuedIsSettled` nothing.

In `Inbox`, `HandlerStep` of each handler and `Notify` are weakly fair, for the
same reason: a webhook that was begun goes on, and an event emitted in the
process reaches its listener. Posts, edits and faults are not. `Sessions` and
the four parts of `Office` have safety properties only and assume nothing.

## Findings

1. **A stopped campaign becomes COMPLETED** (`campaign_stop`). The loop of
   `executeCampaign()` is left when the status is PAUSED or CANCELLED, and the
   code after the loop writes COMPLETED unconditionally
   (`campaigns.service.ts:341`). `src/WHY_AND_HOW.md:356` promises that a
   paused campaign can be resumed.
2. **A scheduled campaign never starts** (`campaign_schedule`). Nothing writes
   SCHEDULED, which is what the scheduler looks for; `docs/MESSAGING.md:336`
   says scheduled campaigns run automatically.
3. **A report may be lost** (`message_reports`). A report handled before the
   attempt has stored the external id is dropped and answered 200
   (`messaging.service.ts:401`), against `docs/WEBHOOKS.md:105`.
4. **A first message may be lost** (`inbox_first_contact`). Two webhooks of a new
   sender both find no contact; the unique index refuses the second `create`,
   the error is logged and the webhook answered 200
   (`messaging.service.ts:384`), so it is not repeated. `src/WHY_AND_HOW.md:515`
   says that the conversation is created and the message stored.
5. **A refresh token may be exchanged twice** (`sessions_rotation`). Two requests
   find the session by its token before either revokes it, and revoke it by its
   id (`auth.service.ts:176`, `:206`): two live sessions come out of one.
   `docs/SECURITY.md:62` says that old tokens are revoked on use, which prevents
   replay; so does `docs/AUTH.md:22`.
6. **The lock comes late** (`sessions_lock`). Overlapping wrong passwords each write
   one more than they read (`auth.service.ts:94`) and count as one, so an account
   takes more than five. `docs/AUTH.md:15` and `docs/SECURITY.md:72` say that it
   locks after five.

Met on the way, and not stated as findings: a crash between `message.create` and
`queue.add` leaves a row that nothing will send (in `Delivery` it counts as
failed, though the row says nothing of the kind); `Message.scheduledAt` is never
read; a retry that succeeds does not clear `failedAt`, and the admin page shows
such a message as FAILED (`modules/admin/admin.controller.ts:884`); an import
reports a soft-deleted contact as imported and leaves it deleted; a message of a
type the enum does not have is answered and not stored; a recipient whose count
lost its reply is counted as sent and as failed; a webhook's failure is counted
twice for the same reason; a start whose reply is lost leaves the campaign
RUNNING with no executor; nothing enqueues a job for `CampaignProcessor` and
nothing calls `WebhooksService.trigger()`.

## Proofs

`CampaignProofs.tla` proves, for every number of contacts, requests, starts and
faults and for every batch size (assumption `ConstantsAssumption`: the set of
contacts is finite and does not hold `None`, `BatchSize` is positive):

| Theorem | Says |
|---|---|
| `TypeCorrect` | `Spec => []TypeOK` |
| `DispatchInvariant` | `Spec => []DispatchInv` |
| `AtMostOncePerStart` | `Spec => []OncePerStart` |
| `EndedStaysEnded` | `Spec => NeverRevived` |
| `ImplementsLedger` | `Spec => KeepsLedger`: `Campaign` implements `DispatchLedger` |
| `RunningIsExecuted` | `Spec => []RunningHasExecutor` |
| `StopsInTime` | `Spec => []StopsWithinOneBatch` |
| `RowsAreTruthful` | `Spec => []RowsTellTheTruth` |
| `CountersBalance` | `Spec => []CountsBalance` |
| `TotalIsRight` | `Spec => []TotalMatchesRows` |

`OncePerStart` is not inductive: whether an executor may call again for a
contact depends on its local `batch` and `cur` against the shared rows.
`DispatchInv` adds what is missing. A batch holds only contacts the executor
has not tried and that have a row (`BatchUntried`); while it records, the
current contact has been tried (`CurrentTried`); a contact it has tried has a
row, and that row is PENDING only while the executor is still to write it, or
is dead (`TriedEnrolled`, `TriedSettled`). So a fetch, which reads PENDING rows,
cannot return a contact tried before. An unused slot has tried nothing
(`FreshStart`) and before `create` all slots are unused (`NothingBefore`).

The refinement proof uses `TypeOK` and `DispatchInv`: `ExecSend` maps to `Call`
(by `BatchUntried`), the writes of recipient rows to `Settle` (by `CurrentTried`
and `TriedEnrolled`), the removals to `Close`, `WriteStart` to `Issue`, and all
else to a stutter.

The other five have invariants of their own. `RunningHasExecutor` is inductive
given `TypeOK`. `StopInv` adds the calls an executor has made since the stop to
what is left of its batch, and says that an executor about to fetch has made
none since: after a batch it reads the status first, and leaves. `TruthInv` says what an executor knows while it
records an answer (`ok`), and that without faults `catch` is reached only once
the campaign is deleted; with a second start the FAILED half does not hold: the
two may call for one contact, and the later write of the two answers wins.
`CountInv` carries the balance with the finiteness of the set of calls and of
the set of busy executors. `TotalInv` says that overlapping `addRecipients`
create disjoint sets of rows, since the create of a row that exists fails.

`MessageProofs.tla` proves every safety invariant of `Message` that holds, for
every number of messages, handlers, attempts, stalls and faults (assumption
`ConstantsAssumption`: `MaxAttempts` is positive, and the reports are those of the
code):

| Theorem | Says |
|---|---|
| `TypeCorrect` | `Spec => []TypeOK` |
| `SendingInvariant` | `Spec => []SendingInv` |
| `DuplicatesArePaid` | `Spec => []DuplicatesNeedFaults` |
| `CallsStayBounded` | `Spec => []CallsBounded` |
| `JobsTellTheTruth` | `Spec => []JobTellsTheTruth` |
| `RecordsInvariant` | `Spec => []RecordsInv` |
| `DeliveredOnlyIfSent` | `Spec => []DeliveredIsSent` |
| `FailuresReachTheUser` | `Spec => []FailuresAreNotified` |
| `ImplementsDelivery` | `Spec => KeepsDelivery`: `Message` implements `Delivery` |

None of these is inductive by itself, not even `TypeOK`: that `attemptsMade` stays
below its limit depends on a job having attempts left as long as it has not
failed (`JobsAreLimited`) and on a throwing attempt being that of an active job
(`OneAttempt`). The proof goes in three layers, each using the ones before.
`Basics` is types, jobs and handlers. `SendingInv` counts: each call is an
attempt made, a stall, or the attempt that is on (`CallsCounted`), and where the
code may call again, no acceptance is unpaid for (`AcceptancesPaid`); the step
from there to one more acceptance is what makes `DuplicatesNeedFaults` hold.
`RecordsInv` follows one answer from the call to the row (`AnswerKept`) and one
report from the row it found to the columns it stamps (`FoundAreSent`, which
needs that an external id is never stored without `sentAt`, `SentHasId`).

The refinement needs all of them and `AttemptInv`: a fault precedes each stall
(so that the calls stay below attempts and losses), and an attempt that ends has
called the provider (so that a message is not given up untried). `Call` maps to
`Attempt`; the end of an attempt to `Succeed`, `GiveUp` or, with a retry to come,
a stutter; a crash to one `Lose` for all messages whose attempts it ends.

`SessionsProofs.tla`, for every number of requests, sessions and reset tokens,
all lifetimes and all mixes (assumption `SessionsAssumption`):

| Theorem | Says |
|---|---|
| `SessionsTypeCorrect` | `Spec => []SessionsTypeOK` |
| `OldPasswordsOnlySlipIn` | `Spec => []OldPasswordsSlipIn` |
| `RolesDoCatchUp` | `Spec => []RolesCatchUp` |
| `HeirsAreBounded` | `Spec => []HeirsBounded` |
| `OpensInGoodStanding` | `Spec => OpenedInGoodStanding` |
| `ImplementsStore` | `Spec => KeepsStore`: `Sessions` implements `SessionStore` |
| `ResetsAreBounded` | `Spec => []ResetOnce` |
| `LockIsReached` | `Spec => []GuessesBounded` |

The invariant `SessionsInv` says what a request that is not late may rely on,
field by field of what it read (`Relies`); of each row, that it is dead, tainted
or on the current password, and that its role is the account's, late or old
(`Rows`); and how rows descend from each other (`Lines`): a live row has no
heirs, and of two heirs of one row one was opened late. That the heirs are no more than the
requests is an injection from heirs to the slots that opened them. `ResetInv`
bounds the uses of a token with the requests that hold it (`Holders`): once
used it is in no row, so nobody comes to hold it again.

`GuessesBounded` needs more than the count in the row: a failed login may write
less than it finds, and the request that does so may have read long ago.
`GuessInv` therefore looks at all requests together. One with a wrong password
to write stands at the count it read, the others at the row's (`StandsAt`);
`Profile` says, of each count, how many stand below it. A failed login that read
`a` writes `a + 1`: it is itself no longer below `a + 1`, nobody has come below it or
a smaller count, though many may be below greater ones. So profiles are compared
at the smallest counts first (`Lower`), and every failed login that is counted
lowers the profile; a login or a lock starts anew. The guesses made and the
profiles still to come (`Below`) stay within the bound. A request that dies might
as well not have tried, so the invariant says this for every set `D` of requests
left out.

The refinement uses `Relies` of `SessionsInv` for `Login` and `Exchange`, and
`StoreInv`: no request and no row knows a later password than the account has,
no request knows of a row that is not there (`NobodyKnowsMore`), and an account
that is not there has its first password, no reset token and no request that
would change it (`NothingToChange`), so that registering is no change of
password. `StoreShape` sorts the thirty actions into four kinds before any of them
is mapped: reads (`Learns`), writes that open nothing (`Alters`), opens, ticks.

`InboxProofs.tla`, for every number of handlers, messages, edits and faults
(assumption `InboxAssumption`; there is at least one handler):

| Theorem | Says |
|---|---|
| `InboxTypeCorrect` | `Spec => []InboxTypeOK` |
| `UnreadFollowsRows` | `Spec => []UnreadKeepsUp` |
| `NothingHidesInClosed` | `Spec => []ClosedIsQuiet` |
| `RacesAreBounded` | `Spec => []LossesBounded` |
| `AnswersAreAccountedFor` | `Spec => []AnsweredIsAccounted` |
| `EventsAreStoredOnce` | `Spec => []StoredOncePerPost` |

`InboxInv` has four parts. `Shape` fits a handler's stage to its kind; `Settled`
follows each text from the webhook to one of the three places it may end in;
`Counts` compares the counter with the rows and the handlers between storing and
counting; `Races` bounds refusals by the handlers that are still before a
creation: once a row exists, nobody comes to its creation again. `StoredInv`
adds the rows stored to the events still to store (`Todo`, numbered from the end
of each webhook so that a step past the first leaves the others their numbers).

`CampaignQueueProofs`, `WebhooksProofs`, `TemplatesProofs` and `OfficeProofs`, for all
values of their constants under the assumptions named in the modules:

| Theorem | Says |
|---|---|
| `QueueTypeCorrect`, `WebhooksTypeCorrect`, `TemplatesTypeCorrect`, `FilesTypeCorrect` | `[]QueueTypeOK`, `[]HookTypeOK`, `[]TemplateTypeOK`, `[]FileTypeOK` |
| `QueueHandsOverOnce` | `QueueSpec => []HandsOverOnce` |
| `QueueStops` | `QueueSpec => []QueueHeedsStop` |
| `WebhooksTellTheTruth` | `HookSpec => []LogsTellTheTruth` |
| `TemplatesMatchProvider` | `TemplateSpec => []RowsMatchProvider` |
| `FilesAndRowsAgree` | `FileSpec => []RowsHaveFiles` |
| `OfficeImplementsParts` | `OfficeSpec` implies `QueueSpec`, `HookSpec`, `TemplateSpec` and `FileSpec` |
| `OfficeTypeCorrect` | `OfficeSpec => []OfficeTypeOK` |
| `OfficeKeepsPromises` | all five properties above, of `OfficeSpec`, which is what the run checks |

`QueueInv` says which recipient the worker is at and that the rest of its batch
is PENDING (`QueueShape`), compares hand-overs and both counters with the rows,
with room for the recipient at hand and for one of each fault (`Slack`) and, once
stopped, with what is left of the batch (`HeldBack`, over `Todo`).
`HookInv` says what a delivery has logged at each stage (`ByStage`, `Tells`) and
that a failure is counted by the step that ends a delivery or with an upset, so
that `failureCount` is the size of a set of deliveries (`DoneWith`) and the
number of upsets at most. `TemplateInv` says of
a row that has not strayed that one request at a time is at it, with the slot
it still has (`Kept`, `Fits`). `FileInv` says that a key being stored is nobody
else's (`OneWriter`).

Model-checked only: liveness (`RunningEnds`, `PendingIsTried`, `QueuedIsSettled`,
`StoredIsTried`, `StoredIsAnnounced`) and with it everything under fairness,
which is beyond the prover. Every safety property of a passing run, the type
invariants and the three refinements among them, has its theorem.

## Not modelled, and why

- Wording, payloads, variables and media of a message: no property tells two
  texts apart. Validation of DTOs is stateless.
- Read-only queries (lists, statistics, analytics) and single statements on rows
  that nothing else relates to: settings, API keys, billing, audit log,
  `conversations.assign`, the listener of the campaign events. Their handlers'
  audiences are in `Routes`.
- Feature flags: no code of the server acts on a flag. That two toggles at once
  count as one is listed under hazards without a property; the same read and
  write is in `Inbox` for a contact's toggle.
- Several users of one provider, several senders, several accounts: handlers
  work on the rows of one of each, and the models have one.
- The rate limit and the delay between two sends: they move nothing but time.
- The health endpoints, mail, logger and the wiring of libraries: no state. A
  mail that is not sent is logged.
- Isolation below one statement: PostgreSQL makes a statement atomic; the
  transactions of `auth.service.ts` are one step each, and lock the rows they
  write.
- Two processes at once: the deployment runs one. Overlapping scheduler ticks
  and overlapping requests of one process are modelled.

## Plan

Done: `Campaign`, `DispatchLedger`, `Message`, `Delivery`, `Inbox`, `Routes`,
`Sessions`, `SessionStore`, `CampaignQueue`, `Webhooks`, `Templates`, `Files`,
`Office`, and the proofs above.

Left: an abstract inbox that `Inbox` implements up to the races of first
contact; `CampaignQueue` composed with `Message` when code enqueues its jobs; the
toggle of feature flags when code reads them.
