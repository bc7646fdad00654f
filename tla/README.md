# Verification of MessageSender's campaign, messaging and account core

MessageSender is a NestJS backend with a web frontend. It sends Facebook Messenger messages
for businesses (one-time, scheduled, drip, A/B and trigger campaigns), keeps an inbox that
webhooks fill, enforces rate limits and messaging-window rules, and looks after accounts,
sessions, Facebook pages and segments of contacts. This directory holds TLA+ modules that
model its concurrent core, TLC configurations that check them on small instances, and proofs
about them for every instance.

    tlc -workers 2 -config MCCampaigns_core.cfg MCCampaigns     # a run
    tlapm CampaignsProofs.tla                                   # proofs

`PROJECT.json` lists the components, the runs, the mutants that show each property can fail,
the source lines of each definition, the findings, the hazards and the theorems. Source paths
below are relative to `src/backend/src/modules/` unless they begin with `src/`.

## 1. Inventory

### Campaigns (`campaigns/campaigns.service.ts`)

State: a row of the table `campaigns` (status, `totalRecipients`, `sentCount`, `failedCount`,
`startedAt`, `completedAt`). Operations: create, update, delete, duplicate, launch, schedule,
pause, resume, cancel, getProgress. Every operation reads the row, tests the status, and
writes by id several awaits later. `launch` writes RUNNING, then hands one job per recipient
to the campaign queue. `pause` and `resume` switch that queue, which *all* campaigns share.

Hard: two requests on one campaign; a request against the workers; pausing one campaign
while another runs; a crash between the status write and the jobs.
Correct: statistics equal what happened, no job of a draft, the last worker completes the
campaign, a completed campaign has nothing left to do.

### Queues and workers (`messages/message-queue.service.ts`, `messages/message-worker.service.ts`)

State: three BullMQ queues in Redis (messages, campaigns, scheduled), their jobs, attempts
and the paused flag; the slots of each worker. `processCampaignMessage` sends, increments
`sentCount` or `failedCount`, reads the counters of the row again, and writes COMPLETED when
they add up to `totalRecipients`; its catch block counts a failure. Jobs of a worker that
died are put back by BullMQ once (`maxStalledCount`), then failed.

Hard: several workers on the last jobs of a campaign; a row deleted under a worker; crashes
between sending, counting and completing. Correct: every job ends, each job counted once, a
job sends at most once for each time it was put to run.

### Rate limits (`messages/rate-limit.service.ts`)

State: a Redis counter with a time to live for each limit and identifier (page, workspace,
user, contact). `checkRateLimit` reads; `incrementAndCheck` runs INCRBY and PTTL in one
MULTI, then perhaps PEXPIRE, then perhaps DECRBY; `consumeMessageQuota` checks three
counters, then increments three, concurrently. Errors of Redis answer "allowed".

Hard: the key expires between two commands; a caller dies between two commands; calls that
passed the check together. Correct: a counter says what was granted, a used-up quota comes
back, what is granted in a life of a counter stays bounded.

### Webhooks and the inbox (`webhooks/`, `conversations/`, `contacts/contacts.service.ts`)

State: Redis keys of the events seen in the last hour, the queue of events, the tables
`contacts`, `conversations`, `messages`. Facebook's post is answered at once; each event is
queued under the id page_sender_timestamp, drained by five worker slots, deduplicated by the
key, and turned into a contact (created at the first message), a conversation, a message row
and one more unread. An error of a handler queues a retry. Users change the status of a
conversation and mark it read; outgoing messages create conversations too.

Hard: events posted twice, retried, run again after a crash; several events of a new contact
at once; resolved conversations; reads racing increments. Correct: an event counts once,
unread counts agree with the messages, every person who writes appears in the inbox.

### Sending (`messages/messages.service.ts`, `send-api.service.ts`, `otn.service.ts`, `recurring-notification.service.ts`)

State: rows of `messages` (PENDING, SENT, DELIVERED, READ, FAILED), one-time tokens
(`isUsed`), recurring subscriptions (`nextAllowedAt`, `messagesSent`). `SendApiService`
creates a row, calls the Graph API and stores the answer; `MessagesService.sendMessage` wraps
it with a row of its own; `useOtnToken` and `sendRecurringMessage` read a right before the
call and write it as spent after it. Opt-ins, delivery and read receipts arrive by webhook.

Hard: two rows of one send with one unique `fbMessageId`; rights read before and written
after the call; receipts by id and by watermark in any order; an error between the call and
the write. Correct: a row tells what happened to its message, its status never goes back,
what was spent is refused and counted.

### A/B tests, drip and trigger campaigns (`campaigns/ab-testing.service.ts`, `drip-campaign.service.ts`, `trigger-campaign.service.ts`)

State: the campaign row; Redis keys for the drip progress of each contact, for an active
trigger and the set of a workspace's triggers, and for the cooldown and count of each
contact. They hand their jobs to the *message* queue, whose processor does not pass on the
campaign. Nothing calls `onStepCompleted` and `evaluateContactEvent`.

Hard: percentages that do not round to the audience; the last two contacts of a drip
campaign; progress written back from a stale copy; counters and cooldowns read before and
written after the message is queued. Correct: each launch of a test reaches everybody once, a
drip campaign completes when its last contact does and not before, a trigger keeps its limit.

### Accounts and sessions (`auth/auth.service.ts`, `auth/strategies/jwt.strategy.ts`, `users/users.service.ts`, `src/frontend/src/lib/api-client.ts`)

State: the status of a user (pending, active, inactive), rows of `sessions` with one refresh
token each, a Redis entry per session that `validateSession` asks before the table, and the
tokens in the browser. Administrators approve, reject, deactivate and reactivate; users log
in, refresh, log out of one or all sessions.

Hard: a login or a validation that read before a deactivation or a logout and writes after
it; several requests of one browser that refresh at once. Correct: nobody is logged in before
approval or after deactivation, the browser keeps the current token, a logout clears the
entries of what it ends, an ended session is forgotten.

### Pages and Facebook accounts (`facebook/`, `pages/`)

State: OAuth states in Redis, rows of Facebook accounts and pages (`isActive`,
`webhookSubscribed`), and, at Facebook, whether the application is subscribed to the page.
`initiateOAuth` and `handleCallback` connect an account, `connectPage` subscribes a page and
stores its row (taking it over from another workspace), others deactivate, reactivate,
disconnect and repair it.

Hard: flows and connects that cross; a Graph API call that fails in the middle; flags that
are written without asking Facebook. Correct: one account of a workspace, one row of a page,
in the workspace of its account; a page that says it is subscribed gets its messages.

### Segments (`segments/segments.service.ts`)

State: rows of `segments` with a stored `contactCount`, rows of `segment_contacts` for static
segments, a filter for dynamic ones. Adding and removing contacts count again afterwards, a
changed filter is recalculated, `recalculateAllSegments` goes through all; `delete` asks
whether a campaign uses the segment. Campaigns count the recipients of a segment themselves.

Hard: the count read in one await and written in the next; a deletion that crosses a campaign
being written. Correct: the number shown is the number of contacts, campaigns keep their
segments and count what the segment shows.

### The rest

Conversation notes, labels and the WebSocket gateway; import, custom fields, engagement
scores; templates, compliance texts, sponsored messages; workspaces; administration, backup,
reports; analytics; configuration, encryption, Prisma and Redis clients; controllers and
DTOs; the frontend but for its token refresh; shared types and scripts. See "Not modelled".

### Interaction

    HTTP request -> CampaignsService -> campaign queue -> campaign worker -> SendApiService -> Graph API
                          |  row            (paused)          |  counters, completion
                          +----------- campaigns table -------+
    SegmentsService -> segments, segment_contacts -> audience of a campaign
    A/B, drip and trigger services -> message queue; progress, cooldowns, counts in Redis
    message worker, MessagesService -> RateLimitService -> Redis counters
    Graph API -> webhook request -> webhook queue -> webhook worker -> contacts, conversations, messages
                                                            +-> receipts, opt-ins -> messages, tokens, subscriptions
    inbox users, SendApiService  -------------------------------------> conversations
    browser (api-client) -> AuthService -> sessions table, session cache in Redis
    FacebookService, PagesService -> Graph API -> whether webhooks arrive at all

The modules meet at what they hand over: `Campaigns` calls the send of a job one step that is
accepted or refused, and `Sending` opens that step; `Webhooks` and `Sending` share the
message rows, `Webhooks` for incoming and `Sending` for outgoing ones; `Segments` ends where
`Campaigns` begins, at a draft with its `totalRecipients`.

## 2. Modules

| module | models | state |
|---|---|---|
| `CampaignLedger` | what the statistics of a campaign promise (abstract) | `book`, `entered`, `pending`, `delivered`, `sent`, `failed` |
| `Campaigns` | campaign rows, requests, the campaign queue, its workers, crashes and errors | `row`, `request`, `jobState`, `stalls`, `accepted`, `paused`, `worker`, `faults` |
| `RateLimit` | the Redis counters, the calls that check and consume them | `count`, `ttl`, `call`, `leg`, ghosts `granted`, `strays` |
| `Webhooks` | posts, the webhook queue, its workers, the inbox | `post`, `jobState`, `tries`, `stalls`, `worker`, `seen`, `expired`, `contact`, `conversation`, `stored`, `unread`, ghosts `touched`, `cleared` |
| `Sending` | sends, message rows, one-time tokens, subscriptions, receipts | `send`, `row`, `note`, `token`, `sub`, `stamps` |
| `Journeys` | A/B tests, drip campaigns, triggers | `plan`, `status`, `sentCount`, `queued`, `progress`, `awaiting`, `meta`, `trigger`, `cooling`, `count`, `deleted`, `op`, ghosts |
| `Sessions` | a user account, its sessions, their cache, the browser | `account`, `session`, `cache`, `op`, `stored`, `issued`, ghosts `contended`, `leftover` |
| `Pages` | OAuth, Facebook accounts, one page and its subscription | `account`, `page`, `delivers`, `state`, `op`, ghosts |
| `Segments` | segments, their contacts and counts, a campaign that uses one | `segment`, `members`, `contact`, `campaign`, `op`, ghosts `stale`, `dirty`, `crossed` |
| `CampaignsProofs` | theorems about `Campaigns`: the accounting, the sends, the end of a campaign, the refinement of `CampaignLedger` | |
| `RateLimitProofs`, `SessionsProofs`, `SegmentsProofs`, `PagesProofs`, `SendingProofs`, `WebhooksProofs`, `JourneysProofs` | the theorems about the module each is named after | |
| `MC...` | small instances for TLC | |

### Common conventions

*One await, one step.* Node.js runs one callback at a time, so what happens between two
awaits is atomic and everything else interleaves. A request, a worker slot or a call is a
record with a program counter `pc`, whose value names what it does next, and the data it
carries over the await. A statement of Prisma or a command of Redis is one step. An operation
that its first read rejects changes nothing and is no step.

*Faults.* `Crash` is the death of the single backend process: whatever was under way is
forgotten, rows, jobs and keys stay. An error is a statement that rejects and was not
executed (where it may have been executed, the action says so). `MaxFaults` bounds both.

*Ghosts* (history variables) record what no code reads: that two operations overlapped, that
a count was overtaken. A property that holds but for a race names the race with one, so that
it still fails when the same loss happens in any other way.

*External parts* are BullMQ (job states, stalled jobs, ids), Redis expiry and the process.
BullMQ's job completion is one step with the worker's last statement. Delays, the limiter,
and a lock lost by a worker that is alive are left out: a waiting job, a delayed one and one
held by the limiter are alike for our properties, "waiting".

*Bounds*: the finite sets of requests, calls, operations and posts are all that are ever
made, so one-shot behaviours end; that is why every configuration sets
`CHECK_DEADLOCK FALSE` (a system nobody calls may stop). The other bounds are constants named
`Max...`: faults, refresh tokens, periods of a subscription, launches (`maxLaunches` of a plan), changes of contacts,
and in `Webhooks` retry jobs of an event at one time and expiries.

*Mutants* stand right before the definition they change, in a comment each.

### `Campaigns` and `CampaignLedger`

`Create` and `Duplicate` are one step; they write a new row. The other operations begin with
a step that reads the row and tests the status (`Launch`, `Schedule`, `Pause`, `Resume`,
`Cancel`, `Update`, `Delete`) and continue with their writes (`MarkRunning` and
`AddCampaignMessages`; `PauseQueue`/`ResumeQueue` and `WriteStatus`; `WriteTotal`;
`DeleteRow`), which do not look at the status again, as in the code. `RowGone` is the write
that finds no row. A worker goes `Take`, `SendAccepted` or `SendRefused`, `CountResult`,
`CheckComplete`, `CompleteCampaign`; an error anywhere in the try block leads to `CatchError`.
`Target` is the status an operation writes.

`CampaignLedger` is the abstract specification: a job enters the books of an opened campaign
once, is delivered at most once and is settled once, as sent if it was delivered and as failed
if not. `Campaigns` implements it while nothing fails (`ImplementsLedger`): a campaign's page
is drafted, opened when its status leaves DRAFT and struck when its row is deleted, pending
jobs are those not counted, delivered jobs those the Graph API accepted.

Abstractions: the audience is a set read at launch and its size at creation any number;
`SendApiService.sendMessage` is one step that the Graph API accepts or refuses; the batch id,
which contains `Date.now()`, is the request, so two launches in one millisecond are left out.
`incrementStats` has no caller.

### `RateLimit`

A call of a worker checks and consumes one counter, a call of `MessagesService.sendMessage`
those of page, workspace and contact. The *leg* of a call is what it does with one key:
`CheckRateLimit`, `Increment` (the MULTI), `SetExpiry`, `RollBack`. `Decide` is the point
where all checks are in; a worker goes on whatever they say, because it compares the status
object, not its field. The time to live is "absent", "none" (a key that never expires) or
"set"; `Expire` may happen at any moment.

Ghosts: `granted` counts increments found within the limit in the present life of a key,
`strays` the decrements that undo an increment of an earlier life.
`resetRateLimit` and `setRateLimitConfig` have no caller.

### `Webhooks`

`Answer` and `ProcessEntry` are the HTTP request; a worker goes `Take`, `CheckDuplicate`,
`MarkSeen` and then through the handler of its event: message (find contact, create it,
update the interaction, find, check and create the conversation, store the message, bump the
unread count), postback, or referral. `CreateContact`, `CreateConversation` and `StoreMessage`
fail where the unique key (`@@unique([pageId, psid])`, `@@unique([pageId, contactId])`,
`fbMessageId`) finds a row. `CatchError` swallows the error and queues the retry job.
`RedisFails` is the error outside of the try block, after which BullMQ tries the job again.
`SetStatus`, `MarkAsRead` and `EnsureConversation` are the users and the outgoing messages;
each is one step, since only its write matters to the workers.

Abstractions: one page; an event is its sender and timestamp, as in the code; PENDING is
OPEN, since the code only asks whether a conversation is RESOLVED; a name of a retry job that
has ended is used again; the profile-fetch job, which the worker takes for an event and which
always fails, is left out, as are previews and timestamps, reactions, thread control and
policy events. `handleEchoMessage` looks for a message by an id that is stored by then, or for
a row that is never there, and changes nothing.

### `Sending`

A send is of one of five kinds: `api` (`SendApiService.sendMessage`), `inbox`
(`MessagesService.sendMessage`, whose own row is `note`), `otn` (`useOtnToken`), `recurring`
(`sendRecurringMessage`) and `request` (the two invitations to opt in). It goes through
`ask` or `note` where its kind stores a row first, `expire` where a lapsed subscription is
closed, `prepare` (the row), `graph` (the call), `sent` (the row again), `spend` (token or
subscription), `also` (the subscription of a request that names both, after its token) and
`report`. An error leaves the inbox's own row PENDING when it comes before its try block, and
FAILED after that (`OnFailure`). Receipts, by id and up to a watermark, opt-ins, opt-outs, lapses and
the passing of `nextAllowedAt` happen in between. A watermark reaches the rows stamped by
then, so `sentAt` is the order of the stamps.

Which window or tag lets a message out, and a missing page, are left open (`Refused`).
`handleOtnOptIn`, `handleOptIn`, `handleOptOut`, `handleIncomingMessage` and the `markAs...`
of `MessagesService` have no caller.

### `Journeys`

One campaign whose `plan` is any of those in `Plans` (A/B percentages, a drip sequence, a
trigger with or without limit and cooldown). `LaunchAbTest` shuffles the audience; `NextVariant`
cuts the next slice off what is left (`Slice`: the rounded share, and for the last variant all
of it), and `QueueVariant` hands its contacts over one after another.
`LaunchDrip` enrolls contact by contact; `OnStepCompleted` advances one, and
`CheckCompletion` scans the keys one by one. `WriteMeta` writes the key that an advance and
the completion need, and `MetaExpires` ends it: an advance returns then, the completion throws.
`Activate`, `Deactivate` and `EvaluateContactEvent` are the triggers, a Redis command at a
time. A contact may be deleted at any moment (`ContactDeleted`; only triggers look a contact up
again): `TriggerForContact` then queues nothing and leaves `sentCount` alone, and the caller
writes the cooldown and the count as for any other.

Ghosts: `merged` (two jobs of a contact got the same id, which is the contact and the
millisecond), `clobbered` (progress written back from a stale copy), `overlapped` (two
evaluations of a contact at once), `skipped` (the firings of a contact that was gone).

Left out: `getAbTestResults`, `determineWinner` and `sendWinnerToRemaining` (the jobs of a test
carry no campaign to the message rows, so they find nobody); the delay of a step, which is
computed and not passed on; the thirty days a progress key lives, which every write begins
anew. The audience of a test is a set: a MANUAL audience that names a contact twice
(`audienceContactIds` is stored as it comes) would be handed over twice by one launch, and
`EachLaunchReachesAll` does not speak of it.

### `Sessions`

One account, whose status four operations of administrators change, logins, refreshes,
validations and logouts. A login creates the row, then its cache entry, then the browser
stores the tokens; a refresh reads the row, compares the token, rotates it by id and stores;
a rejected one clears the browser. `logoutAll` and `deleteAll` find, delete and clear entry by
entry. `Logout` is also the `terminateSession` of `AuthService`; `TerminateSession` and
`DeleteAll` are those of `UsersService` (and `resetPassword`), which delete rows and clear no
entry. `late` marks a session that was created when the user was not active, by a login that
had read the status before; `leftover` the sessions whose entry no logout is going to clear.
Admin sessions behave alike and are not kept apart.

### `Pages`

One Facebook page. `delivers` says whether Facebook sends its messages to the application.
`InitiateOAuth`, `SetState`, `HandleCallback`, `DeleteState` and `CreateAccount` are the OAuth
flow, `ConnectPage`, `SubscribePage` and `StorePage` connect the page, `StartOnPage` begins
disconnect, deactivate, reactivate and repair, which end in `WritePage`; `UpdatePage` sets
`isActive` alone. The two reads of `ConnectPage` and of `UpdatePage` are one step each.

### `Segments`

`CreateSegment`, `AddContacts` and `RemoveContacts` lead through `FindExisting`, `Insert` or
`DeleteMembers` to `Count` and `WriteCount` (`updateContactCount`); `UpdateFilters`,
`Recalculate` and `RecalculateAll` through `ReadSegment` to the same two. `Delete` asks
(`CheckUse`) and deletes (`DeleteRow`, which empties the segment and the campaign's reference,
as the schema's `onDelete` says). `TakeAudience`, `CountAudience` and `WriteCampaign` are
`create` and `update` of a draft with a segment that they look up. `TakeOther` and
`ChangeAudience` are the writes that look none up: an audience of another type, which may keep
or name a segment all the same (the foreign key asks that it exists), and
`audienceSegmentId: null`, which clears it. The ghost `named` is whether the last write named
a segment. `ContactChanges` creates, changes or deletes a contact, after which no count follows.

A filter is the trait it asks for: what the query builder makes of groups, operators and
negations is evaluated by the database. One campaign is modelled (a duplicate, which copies the
id of the segment, would be a second one), and validating and reading the audience begin in one
step.

## 3. Runs

| run | instance | what it shows |
|---|---|---|
| `campaigns_core` | 2 campaigns, 2 contacts, 3 requests, 2 slots, no fault, symmetry | `ExactAccounting`, `LastWorkerCompletes`, `CompletedIsDrained`; the whole implements `CampaignLedger` (`ImplementsLedger`) |
| `campaigns_faults` | 1 campaign, 1 contact, 3 requests, 1 slot, 2 faults, fair | `IInv` (the inductive invariant), `OneSendPerRun`, `SentNeverOverstated`, `EveryJobEnds`, `CampaignEnds` |
| `limits_core` | 2 keys, 3 calls, 1 fault, fair | `CounterIsExact`, `EndlessCounterIsNegative`, `GrantsBounded`, `QuotaComesBack` |
| `webhooks_core` | 2 messages, a postback and a referral of a new contact, 2 posts, 2 slots, 2 faults, symmetry | `AtMostOnce`, `UnreadAccounted` |
| `webhooks_progress` | 2 messages of a new contact, 2 posts, 2 slots, 1 fault, fair | `EveryJobEnds`, `NewcomerIsInInbox` |
| `sending_core` | 2 sends of one right or of a token and a subscription, 1 token, 2 subscriptions, 2 periods, 1 fault, symmetry | `IInv`, `RowTellsOutcome`, `SpendingIsExact`, `StatusMovesForward`, `SpentIsRefused` |
| `sessions_core` | 2 sessions, 3 operations, 3 refresh tokens, 1 fault, fair | `UnapprovedHasNoSession`, `DeactivationEndsSessions`, `StoredIsCurrent`, `LogoutForgets`, `EndedIsForgotten` |
| `journeys_core` | 2 contacts, 4 operations, 1 fault; 4 splits launched up to twice, drips of 1 step (launched up to twice), 2 and 3 steps, 4 triggers; deleted contacts, an expiring meta key; symmetry | `IInv`, `EachLaunchReachesAll`, `CompletedDripIsOver`, `LastContactCompletes`, `FiringsAreCounted`, `MaxTriggersKept` |
| `pages_core` | 2 workspaces, 2 Facebook users, 2 accounts, 2 rows, 2 operations at a time, symmetry | `OneAccountUnlessFlowsCross`, `OneRowUnlessConnectsRace`, `PageBelongsToItsAccount`, `SubscribedPageHears` |
| `segments_core` | 2 segments, 2 contacts, 3 operations, 1 change, 1 fault, symmetry | `CountIsExact`, `CampaignKeepsSegment`, `AudienceIsCounted` |
| `webhooks_retry` | 2 messages, 2 posts, no fault | violated: `RetryRecovers` |
| `sending_inbox` | 1 send, no fault | violated: `AcceptedIsNotFailed` |

Why these bounds. In `Campaigns` the races are between a launch and one or two other
requests, or between two workers on the last two jobs; two campaigns are needed to share the
queue and to duplicate. `campaigns_faults` is small in campaigns and slots because it checks
liveness and allows two faults, the second of which crashes a job that BullMQ already took
back (`MaxStalls` is 1); what it says of safety under faults is proved for every instance. In `RateLimit`
limits of 1 and 2 with three calls overrun each limit and let an old decrement meet a new life
of the key; its safety is proved for every instance as well. In `Webhooks` two events are a
race at each unique key; two posts are one repeated event; two faults exhaust a retry's
attempts and the stalled count. One person is enough, since people share nothing but the
worker slots, and the safety of any number of people is proved.

In `Sending` two sends overlap on one right, or share a watermark, and two subscriptions
tell which of them a send was counted on; two periods let a subscription be used, become
ready and be used again. In `Sessions` three operations are an administrator against a login
that another refresh, logout or validation follows, and three tokens two rotations; its safety
is proved for every instance. In `Journeys` two contacts are the last two of a drip campaign,
and the splits round evenly, up, and past the audience; two launches queue a contact twice,
and a step, a removal and the next step of one contact are the stale writes. In `Pages` two operations are a race
and everything before and after them is a sequence of any length, since operations are not
used up. In `Segments` three operations are two changes of a segment and a third that
counts, deletes or takes it, or a deletion and a campaign that is written and written again. The safety of `Sending`, `Journeys`, `Pages` and `Segments` is
proved for every instance, too.

Symmetry is used in runs of safety properties only, over sets whose elements no formula names.

### Fairness

Weak fairness of the steps of a request, worker slot, call or operation that is under way
(`RequestStep`, `WorkerStep`, `CallStep`, `OpStep`: the event loop resumes what awaits), of
BullMQ's stalled-job check (`Stalled`, on a timer), and of the expiry of keys (`Expire`,
`EntryExpires`). Nobody is obliged to make a request, to resume a queue, to post an event, to
log in or to fail. `EveryJobEnds` and `CampaignEnds` of `Campaigns` assume that the queue is in
the end not paused, since a queue may stay paused for good. `QuotaComesBack`, `CampaignEnds`
and `NewcomerIsInInbox` promise nothing after a fault: a crash may leave a counter without an
expiry, a campaign without jobs, or an event that is marked as seen and not handled.
`EndedIsForgotten` rests on the expiry of the entry: a logout deletes it, but a validation that
read the row before may write it again after. `Sending`, `Journeys`, `Pages` and `Segments`
state safety only: what should happen eventually there depends on callers that do not exist,
or on users.

### What the violated properties say

* `RetryRecovers`: the key that makes an event a duplicate is set before the handler runs and
  stays when it throws (`webhooks.service.ts:261`), so the retry that the catch block queues
  does nothing. Two first messages of a new contact suffice to lose one; so does a message to
  a resolved conversation, which the code means to reopen (line 392) but does not find.
* `AcceptedIsNotFailed`: `MessagesService.sendMessage` writes the `fbMessageId` into its own row
  after `SendApiService` has written it into another; the column is unique, so the update
  throws and the catch block marks the row FAILED (`messages.service.ts:118`), although the
  message went out. The testing guide says that it shows as "Sent".

Others were met while modelling and are visible in the actions; they are not runs of their
own, because each follows from one guard that is missing:

* A cancelled or paused campaign becomes COMPLETED when its last job is counted
  (`message-worker.service.ts:226`).
* Two launches that both read DRAFT send to everybody twice (`campaigns.service.ts:302`).
* The worker compares an object with `false` and drops the answer of the increment, so a
  page's limit does not hold back a campaign (`message-worker.service.ts:181`).
* Cancelling a paused campaign leaves the shared queue paused, although a comment says that
  its jobs will complete (`campaigns.service.ts:470`).
* `consumeMessageQuota` answers "allowed" whatever its increments said, although its comment
  says that it "only succeeds if all pass" (`rate-limit.service.ts:239`).
* A campaign on a dynamic segment counts 0 recipients (`campaigns.service.ts:614`) and cannot
  be launched; `src/docs/Manual_Testing_Guide.md:237` says "Audience count shows segment's
  contact count".
* Nothing recalculates a dynamic segment when contacts change;
  `src/docs/SRS_Document.md:405` (FR-5.4.2) says that dynamic segments update automatically.
* `scheduleStep` writes back the whole progress it read before it queued its job
  (`drip-campaign.service.ts:191`), and a removal alike. `LastContactCompletes` says "unless a
  stale write came in between" because of this: in a sequence of three steps two stale writes
  make a contact that has completed active again while the last scan passes it, and completed
  again afterwards, and the campaign stays RUNNING.
* The delay of a drip step is computed and not passed on to the queue, although the comment
  at `drip-campaign.service.ts:168` says so; and no step after the first one is ever reached,
  since nothing calls `onStepCompleted`.
* Page tokens are never refreshed: `refreshPageToken` needs a `tokenExpiresAt` that only it
  sets (`page-sync.service.ts:182`).

## 4. Proofs

| module | theorem | statement |
|---|---|---|
| `CampaignsProofs` | `TypeCorrect` | `Spec => []TypeOK` |
| | `Invariance` | `Spec => []IInv` |
| | `AccountingIsExact` | `Spec => []ExactAccounting` |
| | `DraftsAreQuiet` | `Spec => []DraftIsQuiet` |
| | `SendsAreBounded` | `Spec => []OneSendPerRun` |
| | `CompletionInvariance` | `Spec => []CInv` |
| | `LastWorkerClosesCampaign` | `Spec => []LastWorkerCompletes` |
| | `CompletedCampaignIsDrained` | `Spec => []CompletedIsDrained` |
| | `CampaignsKeepTheLedger` | `Spec /\ [](faults = 0) => ImplementsLedger` |
| | `SentCountIsCovered` | `Spec => []SentNeverOverstated` |
| `RateLimitProofs` | `TypeCorrect` | `Spec => []TypeOK` |
| | `Invariance` | `Spec => []IInv` |
| | `CountersAreExact` | `Spec => []CounterIsExact` |
| | `GrantsAreBounded` | `Spec => []GrantsBounded` |
| | `NoCounterIsEndless` | `Spec => []EndlessCounterIsNegative` |
| `SessionsProofs` | `TypeCorrect` | `Spec => [](TypeOK /\ Named)` |
| | `DeactivationsEndSessions` | `Spec => []DeactivationEndsSessions` |
| | `UnapprovedHaveNoSession` | `Spec => []UnapprovedHasNoSession` |
| | `StoredTokenIsCurrent` | `Spec => []StoredIsCurrent` |
| | `LogoutsForget` | `Spec => []LogoutForgets` |
| `SegmentsProofs` | `TypeCorrect` | `Spec => []TypeOK` |
| | `SegmentInvariance` | `Spec => []IInv` |
| | `SegmentCountIsExact` | `Spec => []CountIsExact` |
| | `CampaignsKeepTheirSegment` | `Spec => []CampaignKeepsSegment` |
| | `AudienceCounted` | `Spec => AudienceIsCounted` |
| `PagesProofs` | `TypeCorrect` | `Spec => []TypeOK` |
| | `PagesInvariance` | `Spec => []IInv` |
| | `PagesBelong` | `Spec => []PageBelongsToItsAccount` |
| | `OneAccount` | `Spec => []OneAccountUnlessFlowsCross` |
| | `OneRow` | `Spec => []OneRowUnlessConnectsRace` |
| | `SubscribedPagesHear` | `Spec => []SubscribedPageHears` |
| `SendingProofs` | `TypeCorrect` | `Spec => []TypeOK` |
| | `SendingInvariance` | `Spec => []IInv` |
| | `RowsTellTheOutcome` | `Spec => []RowTellsOutcome` |
| | `SpendingExact` | `Spec => []SpendingIsExact` |
| | `StatusNeverGoesBack` | `Spec => StatusMovesForward` |
| | `SpentStaysSpent` | `Spec => SpentIsRefused` |
| `WebhooksProofs` | `TypeCorrect` | `Spec => []TypeOK` |
| | `WebhooksInvariance` | `Spec => []IInv` |
| | `CountedAtMostOnce` | `Spec => []AtMostOnce` |
| | `UnreadIsAccounted` | `Spec => []UnreadAccounted` |
| `JourneysProofs` | `TypeCorrect` | `Spec => []TypeOK` |
| | `JourneysInvariance` | `Spec => []IInv` |
| | `EveryLaunchReachesAll` | `Spec => []EachLaunchReachesAll` |
| | `CompletedDripsAreOver` | `Spec => []CompletedDripIsOver` |
| | `LastContactClosesDrip` | `Spec => []LastContactCompletes` |
| | `FiringsCounted` | `Spec => []FiringsAreCounted` |
| | `TriggersStayWithinMax` | `Spec => []MaxTriggersKept` |

They hold for any values of the constants that satisfy the modules' assumptions, all
evaluated by TLC in the passing runs: what is counted is finite (`FiniteSets`,
`CallsAreFinite`, `SendsAreFinite`, `ContactsAreFinite`), null values are none of the ids
(`NullsAreFresh`, `NoneIsNoSession`, `NoneIsNoSegment`, `NoneIsNoId`), tokens are not
subscriptions (`RightsDiffer`), every event has a sender and a kind (`EventsHaveKinds`), there
is a trait to filter by (`SomeTrait`), an audience is not empty (`SomeContact`), a campaign's
plan is one of the three types and a test has two variants (`PlansAreSound`), bounds are naturals (`MaxFaultsIsNat`, `BoundsAreNats`,
`BoundsAreNat`), limits are positive (`LimitIsPositive`) and routes consist of keys
(`RoutesAreKeys`). The proofs of each module start from frame lemmas that say what a step
leaves alone; only then come the steps that touch a conjunct.

### Campaigns

`ExactAccounting` is not inductive: a state in which two slots hold the same job satisfies it
and the next step breaks it. The invariant

    IInv == TypeOK /\ SlotsHoldJobs /\ JobsAreLaunched /\ DraftCountsNothing
            /\ SendBudget /\ OneSendPerRun /\ Unharmed /\ ExactAccounting

adds that a busy slot holds an active job and no other slot has it (`SlotsHoldJobs`), that
jobs belong to launches which are over and to rows that are marked (`JobsAreLaunched`), that
a job which still has to send has a send left (`SendBudget`), and what is known while nothing
has failed (`Unharmed`): no job was taken back, the slot that will count remembers what the
Graph API said, and a worker throws only for a deleted row. TLC checks `IInv` in
`campaigns_faults`. In the proof each conjunct has a lemma of its own (`TypeStep`, `SlotsStep`,
`JobsStep`, `DraftStep`, `BudgetStep`, `UnharmedStep`, `AccountingStep`), with the steps of
`Next` as cases and the writes of rows, requests and slots described once (`RowLife`,
`SlotMoves`, `CountedMoves`). For the counters, `AccountKept` and `AccountGrows` say that a
step which counts no job leaves both sets of counted jobs alone, and that one which counts
job j adds exactly j to one of them; `FS_AddElement` turns this into cardinalities.

### The end of a campaign, and the ledger

That the last worker completes the campaign is about counters that are compared with
`totalRecipients`, so the invariant relates the two:

    CInv == IInv /\ RequestShapes /\ TotalIsPlanned /\ LastWorkerCompletes /\ ClosingIsDrained

`TotalIsPlanned` says that the total of a campaign with jobs is the size of what one of its
launches planned; since `IInv` makes the counters the number of counted jobs, a counter that
reaches the total covers at least that launch, and when all jobs are counted the counters
have reached it. `ClosingIsDrained` is `CompletedIsDrained` from the moment a worker's check
succeeds, when with one launch all planned jobs are counted. `RequestShapes` says that jobs
are of launches and that no campaign completes without jobs.

`CampaignsKeepTheLedger` maps each step of `Campaigns` to a step of `CampaignLedger` or a
stutter, from `IInv`: a launch's jobs are entered, an accepted send delivers, a count or a
catch settles, as sent exactly where the worker's slot remembers that the Graph API accepted
(`Unharmed`). It assumes `[](faults = 0)` because a crash between sending and counting settles a
delivered job as failed, which the ledger excludes.

`SentCountIsCovered` holds whatever fails. `sentCount` is not compared with a sum over the jobs but
with the *acceptances* of a campaign, the pairs of a job and a number up to how often it was
accepted: that is a finite set, and a step adds pairs of one job only. `SentCovered` says that it
is at least the counter and the slots that are still to count a success (`ToCount`); a step that
accepts adds to both sides, one that counts moves a slot to the counter, and a fault only
takes slots away.

### Rate limits

A counter is related to what is *pending*: the increments of its present life that were
refused and are still to be rolled back. The invariant adds to the three properties that an
absent key counts nothing (`AbsentIsZero`), that only a refused increment is rolled back
(`RefusedRollsBack`), that a call which has not begun has sent no command (`IdleCallsRest`),
and the inequality that survives faults (`CountCovers`): a counter is at least its grants and
pending refusals less its strays. `CounterIsExact` is the same as an equation without
faults; `GrantsBounded` follows at an increment, which grants only where the counter after
it is within the limit. `PendingMoves` and `PendingShrinks` describe how a leg's step changes
the pending set, `LegCount`, `LegKeepsGrants` and `LegKeepsExpiry` the three counters, and
`CountersKept` covers every step that leaves them alone.

### Sessions

Each property has its own strengthening.

* `DeactivationEndsSessions` follows from `Ended`: once the account is inactive, either every
  live session is `late` or a deactivation has not yet ended the sessions. A deactivation
  that is on its way stays so until its deletion, after which no row is live.
* `UnapprovedHasNoSession` follows from `NotYet`: before an approval no operation is past a
  point it reaches only for an active user, and there is no row and no entry.
* `LogoutForgets` follows from `Covered`. Its three parts are about the two statements of
  `logoutAllSessions` and the clearing after them: what a logout found is a session that was
  created, and gone by the time it is cleared (`FoundKnown`); a live session that a logout is
  about to delete was found by it or is `leftover` (`RowsCovered`); and the entry of a session
  that is gone is being cleared or is `leftover` (`EntriesCovered`). All of it is
  stated while nothing has failed: a logout that is cut short may leave an entry behind.
* `StoredIsCurrent` follows from `KindAt` (which kinds of operation stand at which step) and
  `Orderly`, which holds while refreshes do not overlap and nothing fails: at most one
  refresh is under way, an operation about to answer carries the token of its row, logins
  that are under way have sessions of their own, and the browser's session was created.

### Segments

`CountIsExact` speaks of the moments when nobody owes a count; the next step of an operation
that holds a number decides whether it stays true. `IInv` says so of the number
(`FreshOp`: unless the operation is `stale`, the number it counted is the number of contacts
and the filter it read is the segment's), of the kinds of segment each operation works on
(`KnownOp`), and of a deletion past its check (`AskedOp`: no campaign is on the segment, unless one was
written in between, which is `crossed`).

### Pages

`IInv == Shapes /\ Flows /\ Rows`. `Flows` follows a workspace's OAuth flow from request to
Redis to callback: unless flows crossed there is one, and while it is under way the workspace
has no account. `OneConnect` is the same for connects and the page's row. `Undisturbed` finds
for each row that claims a subscription Facebook does not have the operation that is about to
take it down (`TakesDown`). `OpShape` and `TypeOK` are the ground for all of these.

### Sending

For each send `SendShape` and `RowShape` say what its row holds at each of its awaits, so no
receipt can reach a row before its `fbMessageId` is there; `StatusNeverGoesBack` follows, since
a sender writes a status only into a row that no receipt has moved. `stamps` is the number of
stamped rows, and `PastSpend` bounds what a subscription has counted, whatever failed; a
subscription counts the sends that name it first and those that name it after a token.
`PeriodClosed` says that a counted recurring message left its subscription not ready in its
period: `SpentStaysSpent` needs it, because the read that refuses asks only `nextAllowedAt`.

### Webhooks

`AtMostOnce` rests on two uniqueness arguments. A job is held by one worker slot and taken
only while it has attempts left (`JobsHeld`). Before the key of an event is set only its first
job exists, so one slot at most works on it; after that the slot that set the key is the only
one that handles the event, and every other finds the key (`HandledOnce`). `UnreadAccounted` is
inductive on top of that: a stored message is counted by the slot that stored it, and a
message stored twice is refused by its unique key.

### A/B tests, drip and trigger campaigns

    IInv == Shapes /\ Deals /\ DripCourse /\ TriggerCourse /\ FiringsAreCounted

`Shapes` is `TypeOK` and, for each kind of operation, the type of campaign it belongs to and
the awaits it stops at. The others are each about one type.

* `Deals`: an A/B launch holds the contacts it has not handed over yet in two sequences, the
  slice under way and the rest, without repetition (`Dealing`), and for each contact the jobs
  queued and the launches that still hold it add up to the number of launches (`Promise`).
  Cutting a slice keeps the union of the two sequences and taking its head removes just that
  contact, so the shares may be any numbers: rounding cannot lose anybody, because the last
  variant takes what is left. That a shuffled audience is a sequence with every contact once is
  the pigeonhole lemma behind `SetToSeqs`.
* `DripCourse`: while the one launch enrolls, the campaign is a draft and nobody completes
  (`Launching`, `Drafted`), and once it is running its meta key was written (`MetaKept`). A scan that is still idle has passed no active contact, but for
  stale writes (`Looking`); since a contact becomes active again only by its own step or by a
  stale write, what was passed stays so, and the campaign is COMPLETED only over contacts that
  are not active. `Noticed` is the other direction: once all have completed, there is a scan on
  its way that is idle, the one that began after the last completion, or it is over.
* `TriggerCourse`: a contact without overlapping evaluations has one at most (`Served`), and its
  queued messages are ahead of its count by that one; it goes on to queue only below the limit.
* `FiringsAreCounted` is inductive by itself: a firing adds to `sentCount` or, for a contact that
  is gone, to `skipped`, and to the evaluations that are about to count. Its sums are the sizes of
  sets of pairs of a contact and a number up to its count, so one more firing adds one pair.

### Only model-checked

* All liveness (`EveryJobEnds`, `CampaignEnds`, `QuotaComesBack`, `NewcomerIsInInbox`,
  `EndedIsForgotten`), which needs fairness and ENABLED.

Every safety property that a passing run checks is proved. `TypeOK` of each module is proved, and
in no run of its own: it is a conjunct of the invariants.

## 5. Not modelled

* *No state of their own, or single writes*: compliance texts, templates, sponsored messages,
  custom fields, engagement scores, notes and labels, workspaces, profiles. Each request is
  one statement after permission checks; there is nothing to interleave.
* *Queries and I/O*: analytics, reports, backup (shell commands), mail, system health, the
  WebSocket gateway, CSV import and export, the Graph API client but for subscriptions,
  encryption, Prisma and Redis clients.
* *Row for row*: `page-sync` copies names and counts; a workspace's deletion cascades in the
  database.
* *Never reached*: `incrementStats`, `resetRateLimit`, `setRateLimitConfig`, `handleOtnOptIn`,
  `handleOptIn`, `handleOptOut`, `MessagesService.markAs...`, `resubscribeWebhooks`; the
  winner of an A/B test, which looks for message rows that do not name the campaign.
* *Parts of modelled components*: the message and the scheduled queue with `processMessage`
  (a worker like the campaign worker, without counters); reactions, thread control and policy
  events of webhooks; signup of administrators, workspace access granted by an approval, and
  counters of failed logins; token refresh and the mock connection of Facebook accounts.
* *User interface*: shows what the API returns; only the api-client, which refreshes tokens,
  has a protocol of its own and is in `Sessions`.
* *Configuration, DTOs, controllers, shared types*: declarations and routing.

## 6. Plan

1. Safety and refinement: every module is proved.
2. An abstract specification of a message's life, of which `Sending` and the inbox half of
   `Webhooks` are two views, and the refinement proved like that of `CampaignLedger`.
3. Further models: approvals with the workspace access they grant and the signup of
   administrators (`auth.service.ts:229`, `:438`), and the two other queues.
