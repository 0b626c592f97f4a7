# Message in a Bottle: TLA+ models and proofs

TLA+ models of Message in a Bottle, a multi-channel notification platform written in Go,
translated from its source, checked with TLC on small instances and, where it matters most,
proved with TLAPS for instances of any size.

## 1. The system

Three binaries share a MongoDB database and a Redis server:

- **api** serves REST: triggers, broadcasts, transactional sends, and the CRUD of workflows,
  subscribers, topics, preferences, integrations, templates and announcements.
- **worker** runs asynq tasks from Redis: trigger, broadcast, delivery, delay, digest.
- **ws** keeps WebSocket connections and fans Redis messages out to them.

A notification goes through the system like this:

    POST /events/trigger ──insert notifications──> MongoDB (unique: env, transaction, subscriber)
          │ one trigger task per request
    POST /events/trigger/broadcast ──task──> BroadcastHandler ──one trigger task per page
          ▼
    TriggerHandler: evaluate the workflow, up to the first delay or digest step
          ├─ delivery task per planned channel step ─┐
          ├─ delay task ──> DelayHandler ────────────┤ (the channel steps behind it)
          └─ RPUSH on the digest list, digest task ──> DigestHandler ─┘
                                                     ▼
    DeliveryHandler: rate limit, preferences, integration, provider, retry, channel status
          └─ in_app: notification document + Redis pub/sub ──> ws hub ──> sockets

The components, the state they keep and what makes them correct:

| Component (source) | State | Operations | Hard behaviour | Correct when |
|---|---|---|---|---|
| Ingestion (`service/trigger_service.go`, `worker/broadcast_handler.go`) | notifications, trigger tasks | trigger, bulk trigger, broadcast | partial failure between N inserts and one enqueue, re-runs, same transaction id twice | nobody is dispatched twice; an accepted request is dispatched whole; a broadcast reaches everybody and ends |
| Planning (`worker/trigger_handler.go`, `tasks.go`, `delay_handler.go`) | delivery, delay tasks | plan, resume | redelivery, workflow edits while a notification waits | nothing behind a wait goes early; conditions are honoured |
| Digest (`trigger_handler.go`, `digest_handler.go`) | Redis list, digest tasks | push, schedule, collect | non-atomic Redis sequences in two handlers | one collector per window; nobody digested twice or lost; windows close |
| Delivery (`worker/delivery_handler.go`) | channel rows, retry attempts | one task run | crashes after the send, retries, opt-outs in between | attempts bounded; opt-outs respected; status truthful, final, never left open |
| Rate limiter (`repository/rate_limit_repo.go`) | counter per subscriber, channel, window | increment and check | concurrent workers, fail-open | the limit holds per window |
| Preferences (`repository/preference_repo.go`, `handler/preference_handler.go`, `engine/preference_resolver.go`, `model/channel_prefs.go`) | workflow rows, global row | update, resolve, list, backfill | seed read before the upsert, first writes that race, rows of older releases | no write is lost; no opt-out is lost; what is shown is what routes |
| Conditions (`engine/workflow_engine.go`) | none | evaluate | types that change in JSON and BSON, numbers looked for in texts | a step is planned exactly if its conditions, as posted, mean so |
| Administration (`handler/workflow_handler.go`, `integration_handler.go`, `template_handler.go` and their repositories) | documents | create, replace, set a flag, delete, promote | read-modify-replace, three-call promotion | an edit leaves alone what it does not name; a promotion leaves one primary; what is offered can be delivered |
| Announcements (`announcement_handler.go`, `announcement_repo.go`) | Redis keys that end | create, update, delete, show | two looks at the clock, late writes | what has expired is not shown |
| Topics and subscribers (`topic_handler.go`, `subscriber_handler.go`, their repositories) | topics, subscribers, rows | add, remove, delete, upsert | cascades against concurrent adds, upserts beside devices and presence | no rows of what is gone; a post keeps what it does not name |
| Feed (`notification_repo.go`, `notification_handler.go`) | seen, read, archived marks | mark, bulk mark, count | marks by several devices, counts that are read and sent later | badge equals what is unseen in the feed |
| WebSocket (`ws/`) | rooms, send buffers, online flag | connect, fan-out, disconnect, timers | full buffers, two pumps, reconnects, restarts | no push falls between feed and socket; whoever is gone is reaped and ends offline |
| SDK socket (`packages/sdk/src/ws.ts`) | socket, timer, attempts | connect, disconnect, callbacks | late callbacks of old sockets | one live socket at most |

Providers, middleware, encryption, configuration and the activity log have no state that a
model could relate to anything; PROJECT.json says so component by component. It also lists, at
their lines, the hazards the properties are about.

How the components meet: ingestion hands trigger tasks to the pipeline; the pipeline reads
preferences, integrations and workflows, which the API changes under it, and ends, for in-app
steps, in the writes and publications that the WebSocket server and the feed live on; topics and
subscribers are what ingestion resolves recipients from, and the WebSocket server writes presence
into the documents that callers upsert.

asynq, Redis and MongoDB are external. They are modelled by what the code relies on: a single
document operation is atomic; a task is delivered at least once, a handler that returns nil
ends it, `SkipRetry` dead-letters it, and an error or a crash makes it run again from the
beginning. That the task queue may run a redelivered task any number of times is bounded by
the fault bounds only; asynq's own limit on retries is not modelled (it can only end tasks
earlier).

## 2. The modules

| Module | What it is |
|---|---|
| `Ingest` | from a request to the trigger tasks: `TriggerService.Trigger`, `BroadcastHandler`, the unique index |
| `Dispatch` | the abstract specification of ingestion: disjoint batches |
| `DeliveryPipeline` | from a trigger task to the recorded status: trigger, delay, digest and delivery handlers, limiter, preferences, integrations, edits |
| `DigestWindow` | one digest key, every Redis call and enqueue a step |
| `Digest` | the abstract specification of a digest window: joined until it closes, at once |
| `Preferences` | the preference store: both update paths, the settings page, the backfill |
| `Documents` | integrations, workflows and templates: read-modify-replace, promotion, what is offered |
| `Announcements` | announcements as Redis keys that end, against a clock |
| `Administration` | `Documents` and `Announcements` composed: one set of handlers, one clock, faults |
| `Membership` | topics, subscribers and the rows that join them |
| `Realtime` | in-app delivery, feed, Redis Pub/Sub, hub, both goroutines of each connection, presence |
| `Conditions` | the condition evaluator, on workflows and subscribers as MongoDB gives them back |
| `MC...` | instances for TLC |
| `..._proofs` | TLAPS proofs |

`Ingest` ends where `DeliveryPipeline` starts: with a trigger task in the queue. `Ingest`
knows how the batch of a trigger task comes about; `DeliveryPipeline` accepts any batch of new
notifications (`AcceptTrigger`), which is what `Dispatch` promises. `Digest`
stands between `DigestWindow` and the pipeline in the same way: `DigestWindow` implements it until a call
fails or a worker crashes (`ImplementsDigest`), and the pipeline's push and its one step for the whole
digest handler (`RunDigest`) are `Digest`'s `Join` and `Close`, for every subscriber and digest step.

### Ingest

A request's handler (`req`, `todo`) resolves its recipients (`Resolve`: each once, in the
order first named), inserts one notification per step and then enqueues one trigger task. A
broadcast's handler (`job`) reads a page of `BatchSize` subscribers behind the last _id, inserts,
enqueues, reads the next page. `notifs` is the notifications collection, kept unique by the
index on transaction and subscriber; `planned` counts, per transaction and subscriber, the
trigger tasks that carry it. Failed calls may have taken effect all the same (`MayFail`). A
duplicate ends a request with 409 and is passed over by a broadcast. `reached`, `recipients`
and a job's `audience` are history that no action reads.

Left out: reads that fail while a request resolves its recipients (the request ends without
an effect), the deletion of the workflow or of a topic, and BulkTrigger as a whole: it is
several requests one after the other, and independent requests do more.

### DeliveryPipeline

One workflow of one environment. `steps` are the workflow's steps with the data planning looks
at: the type, `defaultEnabled`, the set of conditions, and whether a delay or digest step has
its configuration. A condition is a name whose truth per notification (`holds`) may change
between any two steps, as subscriber data does. A delivery task passes
`Begin → CheckRate → ReadWorkflowPref → ReadGlobalPref → Accepted | Rejected | NoIntegration | … → Record → Ack`,
which are the database and provider calls of `DeliveryHandler.ProcessTask` in their order; a
transactional send starts behind the limiter and preferences, as in the code. `rows` is the
notification's `channels` array, one row per step; `WithStatus` is the positional `channels.$`
update, which writes the first row of a channel.

Abstractions: message content, templates, activity log entries and the Redis publication of
in-app messages are left out; the calls to several push tokens are one call; a digest closes in
one step, which leaves out of it some of those that wait, as a push between LRANGE and DEL is; a plan's
enqueues are one step of which a fault leaves any subset; the deletion of a subscriber or workflow is not
modelled (the handlers then return an error, and the task is retried until asynq gives up). A preference
request names one channel. One for the workflow's row reads both rows (`ReadForWorkflow`) and writes in a later
step (`WriteWorkflowPref`) what it read then: `upserts` holds the requests in between, which may go stale
(`Stale`) or never finish. The workflow's defaults do not change in this module; in `Preferences` they do, and
there the upsert is two steps with the race for the unique index. The limiter's
window turns at any moment, for all counters at once; a provider call is charged to the
window its worker was counted in, and one made after a turn is not charged to the new one
(`fresh`).

### DigestWindow

`list` and `ttl` are the Redis key, `digests` the digest tasks, `job` the handlers between two
of their calls. A key that expires while its task is still due is a fault, because the key
outlives the task's time by five minutes; so is any failed call and any redelivery.

Under the refinement mapping to `Digest`, `waiting` is what the list holds, `missed` is `slipped`, and
`digested` is what was sent or is with a handler behind its DEL (`Digested`). So a window closes at
the DEL, with what the LRANGE before it has read.

### Preferences

One subscriber. `rows` is the preference collection, by scope: a row holds the channels its `on`
and `off` name, so a row of an older release is one that holds fewer, and a workflow without a row
is `NoRow`. A request (`req`) passes `Accept → LookupGlobal → Match`, or
`Accept → LookupWorkflow → ReadRows → Match`: the defaults come from the workflow read
first, both rows from one query after it, the seed from all three. `Match` is the upsert that
finds a row; one that finds none inserts in a later step, `InsertRow`, where the unique index may
refuse it and `AfterDuplicate` grants the second try. `Stored` is `$set` over `$setOnInsert`.
`BeginList → ListRows → Answer` is GetAll. `Backfill` is the loop of `UpdateMany` calls at the start
of a binary. `said` (what was last written by name), `moved` (requests that hold something that has
changed) and `seen` are history.

### Documents, Announcements, Administration

`Documents` has one shape for three collections: a handler (`job`) that edits holds a copy
(`BeginEdit`) and replaces the document by it (`Replace`) if one of its _id is still there (`Hit`).
`SetStatus` and `Delete` are single writes; `BeginPromote → Unset → SetNew` are the three calls of
SetPrimary. Of a document, the model keeps the _id and the flags `active` and `primary`; what else it says
travels with the copy and is told apart by nothing. `AvailableChannels` is GET /channels, `Deliverable` what
the delivery handler looks up. `Announcements` has keys with the expiry the value states
(`expires`) and the one Redis keeps (`end`); `Checked` and `WriteKey` are the handler's two
looks at the clock, `Amend` the edit in between, `Tick` the clock and Redis. `Administration`
composes the two: a handler serves one request at a time, of either module, while time passes.

### Membership

`topic` and `sub` map the callers' names to documents with _ids; `members` holds pairs of _ids, as
`topic_subscribers` does. A removal passes `FindTopic → Collect* → RemoveRows`, an addition
`FindTopic (→ CreateTopic → FindAgain) → Collect* → (MatchRow → InsertRow)*`: its bulk write is one upsert per row,
and of two that insert the same row at once the unique index refuses the second, which ends that bulk with
an error (500), unless MongoDB runs the upsert again by itself; the model has both. A lookup that fails is taken for a
stranger, and the request goes on (`Overlook`).
Deletions pass `→ Cascade → DropDocument`, by _id and then by name, as in the code.
Posts (`Match`, `InsertSub`) are upserts, one name after the other for a bulk; `Merged` is
`buildSubscriberUpdate`. Devices and presence write the same documents at any time
(`RemovePushTokens`, `Update`, `SetOnlineStatus`). A bulk write of rows that fails leaves any part.
`crossed` and `twins` record which handlers ran side by side: a deletion beside an addition or another deletion, and
two inserts of one subscriber or row.

### Realtime

One subscriber's inbox. A worker's `deliverInApp` is `SetRenderedContent → UpdateChannelStatus →
Publish → Tally → PublishCount`; each may fail, and its error is ignored where the code ignores
it. A worker that dies leaves its task to another one, which starts with the limiter and the preference check:
`Skip` is their refusal, which writes "skipped" whatever the row says, and `withdrawn` notes which
notifications lost a "sent" in that way. `wire` is what Redis has not handed to the hub; `Send` gives a message to every client of the room with
room in its channel and drops it for the others. A connection goes `Accept → Register →
SetOnline`, then has a reader (`ReadMessage → Handle → Count → Reply`, which waits for room) and a writer
(`Write`, `Ping`). `End` is what readPump defers: unregister, close, and the 30-second timer,
`Offline`. `Restart` ends the server with its timers. `known`, `fetched`, `gap`, `missed` are
history: what a client was told, whether it has fetched a feed, what was lost to it, which delivery lost a
write. A ping gets no answer in time when the peer is gone or silent, but also when the reader, which has to
take the pong, is busy (`Pinged`). Counts are sets of notifications instead of numbers, so that a badge can be compared with the
feed.

Assumed here: a workflow has at most one in-app step. A second one would write the same row and the same
`content` of the notification, so that the text of the first push is replaced before a client may have read it, and a
refusal of the second ("skipped") hides what the first has pushed. The code supports such workflows without an
error; the properties of this module say nothing about them. Also assumed: a text rendered again after a crash is
the same text (an edit of the template or the subscriber's locale in between would change it), and the WebSocket
library closes a connection whose write or ping timed out.

The worker's steps here are one outcome of `DeliveryPipeline`'s provider call for an in-app step; the
pipeline takes them as one, because no handler of its own looks at them in between.

### Conditions

The trigger handler reads a workflow and a subscriber that were posted as JSON (`StoredSteps`,
`StoredSubscriber`: nested objects and lists change their Go type), and `EvaluateWorkflow` plans one step
after the other (`PlanStep`). `resolveField`, `compareEqual` and `compareValues` are the functions of the same
names. Texts are members of a small set; what `Sscanf` finds at their start, what a scalar prints as, which
text holds which and which texts the print of a list or an object holds (`Shows`) are constants. `Means` is the reference: it compares what was posted, and takes for a number
a number or a text that is one from end to end; a list contains its items; `isNotEmpty`, which
DEPLOYMENT.md uses and the evaluator has not, holds of what is there and not the empty text. In the pipeline a
condition is a truth value that may change from step to step; this module is what decides it. The brackets and keys
that Go prints around lists and objects keep them apart from every scalar.

## 3. What is checked

All runs use breadth-first TLC without depth bounds; each reaches the end of its state space.
`CHECK_DEADLOCK FALSE` is set because all systems end: requests, notifications and faults are
bounded and nothing is left to do.

| Run | Instance | Shows |
|---|---|---|
| `pipeline_workers` | 1 notification, 1 transactional send, 2 workers, 3 workflow shapes of up to 3 steps, 3 channels (push off by default), limit 1, 1 event | `TypeOK`, `AttemptsBounded`, `StatusTruthful`, `WithinRateLimit`, `SettledWhenQuiet`, `StatusFinal` |
| `pipeline_preferences` | 1 notification, 1 worker, 2 workflow shapes, 3 channels (push off by default), 2 preference requests and 1 event | `OptOutRespected` |
| `pipeline_batch` | 2 notifications of one subscriber, 1 worker, delay and digest workflows, limit 1, 1 event, fair | `DelayRespected`, `QueueDrains` |
| `pipeline_conditions` | 1 notification, 1 worker, 4 workflow shapes, no event | `ConditionsHonoured` is violated |
| `ingest` | 2 requests, 2 broadcasts, 2 workers, one transaction id, pages of 2 over 4 subscribers, a topic, 1 change, 1 fault, fair | `TypeOK`, `DispatchedOnce`, `AcceptedIsDispatched`, `DuplicateHasRival`, `BroadcastReachesAll`, `ImplementsDispatch`, `BroadcastsEnd` |
| `ingest_rerun` | 1 broadcast, 1 worker, 1 fault | `RerunIsIdempotent` is violated |
| `digest` | 3 notifications, 2 workers, 2 faults, fair | `TypeOK`, `OneCollector`, `EachDigestedOnce` (`DigestedOnce`, `AccountedFor`), `WindowCloses` |
| `preferences` | 3 requests of any kind, 1 workflow, 2 channels, rows absent or of an older release, 1 start of a binary, 1 edit, 1 fault | `TypeOK`, `NamedWritesStand`, `OnlyFaultsFail`, `MaskComplete`, `SilencedStays`, `ListIsTruth` |
| `administration` | 2 handlers, 4 integrations of 2 channels, 1 workflow, 1 template, 1 announcement, time 0..3, 4 requests, 1 fault | `TypeOK`, `AvailableMirrorsDelivery`, `ExpiryHonoured`, `EditKeepsRest`, `PromotionIsWhole` |
| `membership` | 2 handlers, 1 topic key, 2 subscribers, 2 tokens, 4 requests, 1 fault | `TypeOK`, `OrphanNeedsOverlap`, `ErrorsHaveCause`, `PostKeepsRest` |
| `conditions` | 9 fields that lead to scalars and 3 to lists and objects, 10 operators, 11 values and a list, payloads and subscribers that hold each or nothing, 3 sets of marks | `PlanIsMeant` |
| `realtime` | 2 connections, 1 notification, send channels of 1, 1 message or request, 1 fault, fair | `TypeOK`, `PushAgreesWithFeed` (`PushedIsStored`, `CountsCanBeCleared`, `FetchClosesGap`), `PresenceSettles`, `Reaped` |

Bounds. Pipeline: the workflow shapes of the runs together hold each thing planning distinguishes (a channel
before and behind a delay, a conditional step or a conditional wait, a digest in front, two control steps,
an unconfigured control step, a disabled step, push, two steps of one channel), and edits between different ones. One event (`MaxEvents`) is enough for
every single fault, edit or window turn at every point; two preference requests (`MaxWrites`) are
enough for an opt-out that overtakes a seed, and for a row and a mask that change between the two reads of one
check; the theorem has any number of them. Two workers suffice for two checks that count in one window at the same
time (two e-mails of one notification under a limit of one), and for a redelivered task that overlaps with
another. `MaxRetries` is 1 instead of 3: first attempt,
retry, and giving up all happen. Ingest: three founders of four subscribers and pages of two give a
full page, a partial page and the empty one, and a subscriber may join or leave before, in and
after the current page; the "to" lists include a subscriber named twice, through a topic and
directly, and one that does not exist. One transaction id, because handlers of different
ones do not meet. Digest: with three notifications a window can open, collect a second entry, lose
its race with a third and open again; two workers put a push between any two calls of a digest
handler.

Preferences: three requests are two writes that race for the unique index and a third
request that overtakes them or lists the rows; two channels tell a named one from an unnamed one; the row of an older
release lacks one of them, so that the backfill has something to do. Administration: two e-mail
integrations make a promotion a choice, of two push ones only one has a provider that delivery knows;
four requests are, say, an edit, the change that overtakes it, a promotion and its rival; times 0
to 3 put an expiry before, between and after the two looks at the clock. Membership: one key
suffices, as deletion and re-creation make it several topics; four requests are an addition, a deletion, a
re-creation and one more. Realtime: two connections can overlap, the second reconnecting for the first; a
channel of one message is full after one; the one fault may be the crash after which a task meets the limiter
or the preferences again. Conditions: the fields reach every root and kind of value, absent ones
included; texts are a word, numbers from end to end and at the start only, and one that begins like NaN.

Fairness. The specifications with liveness assume what `asynq.Server.Run` does
(`cmd/worker/main.go`): waiting tasks are handed to idle workers and handlers run to their end
(weak fairness of a worker's own steps), and digest windows close because their task is
scheduled. No fairness is assumed of callers, administrators, faults, or the API's requests.
`Realtime` assumes that the goroutines of a connection run (weak fairness of opening, reading and
writing, each of which waits only on its own connection; that a ping is due is the writer's own ticker) and
nothing of peers, workers, Redis or the timers.
`QueueDrains` holds in spite of retries since attempts are counted and faults are bounded.
`WindowCloses` is stated for runs without faults; after a fault it is false (below).

Some properties carry conditions, which come from the code:

- `DelayRespected` and `StatusFinal` speak of workflows that have not been edited, and
  `StatusFinal` and `SettledWhenQuiet` of workflows without two steps of one channel: such
  steps share the first row of that channel.
- `OptOutRespected` counts the subscriber's own writes during the task as consent: the check reads
  the workflow's row and then the global one, and a row created off between the two, followed by a lifted
  global opt-out, lets a message through that was off throughout. It excepts two ways in which a channel that is off
  and that nobody asks for is sent on all the same. When reading a row fails, the handler discards the error and goes
  on with what it has, the workflow's defaults at worst. And the first write of a workflow row, naming
  another channel, may store a seed that was looked up before the opt-out (`Stale`): the row then says that the
  channel is on, and it wins over the global mask. The jobs note both; nothing else lets a
  message through, as long as the workflow's defaults, which this module holds constant, do not change.
- `WithinRateLimit` allows one call per limiter error: the limiter fails open. It is checked with two workers, which
  may count in one window side by side.
- `OneCollector` and `EachDigestedOnce` hold without faults; the second excepts what `slipped` through the gap below.
- `SilencedStays` and `ListIsTruth` except requests that were overtaken (`moved`): a seed
  or a list is put together from several reads, and what one of them found may have changed by the time it is
  used. `SilencedStays` names the other ways in which a channel may come on.
- `EditKeepsRest` and `PromotionIsWhole` except handlers whose document, or channel, was written by
  another meanwhile (`moved`). Nothing in the code prevents that; the properties say that nothing else is
  needed.
- `ExpiryHonoured` excepts a value that was checked before its expiry and written after it: that one never ends.
- `OrphanNeedsOverlap` excepts deletions that ran beside an addition or another deletion
  (`crossed`), `ErrorsHaveCause` those, failed calls, and two first posts of one subscriber or two additions of one
  row that met in the insert (`twins`).
- `PushedIsStored` and `CountsCanBeCleared` except deliveries of which a write failed (`missed`) and those whose
  task ran again after a crash and was stopped by the limiter or a preference, which wrote "skipped" over "sent"
  (`withdrawn`). Without a crash nothing that was pushed leaves the feed but by an archive.
- `FetchClosesGap` excepts what was lost: a publication that failed, a message the hub dropped for
  want of room, a feed that could not be read (`gap`), a delivery one of whose writes failed (`missed`).
- `PresenceSettles` holds without faults; a restart of the WebSocket server leaves its subscribers
  online. It says where presence ends when everyone has left, and deliberately not that who is connected is
  online: the timer of an earlier connection marks them offline (below).
- `PlanIsMeant` excepts conditions with a list and paths into objects of the subscriber's data, which storing
  changes, comparisons in which a text that only begins like a number is taken for one, a "contains" that finds in
  the print of a list or an object what is no item, and an `isNotEmpty` that should hold. Each exception is needed:
  without any one of them the run fails.
- `Reaped` names `Stuck`: a reader that waits for room behind a writer that has ended.

### What the violated properties show

- `ConditionsHonoured`. DEPLOYMENT.md describes a workflow that waits and "then sends an SMS
  only if the subscriber has a phone number". `enqueueFollowingDeliveries` evaluates neither the
  conditions nor the defaults of the steps behind a wait.
- `RerunIsIdempotent`. A broadcast passes over subscribers that have a notification as
  "Already processed". If the previous run stopped between the page's inserts and its enqueue, they
  were not, and nothing will ever process them.

Further observations made while modelling, without a run of their own:

- A push between the digest handler's LRANGE and DEL is told "a digest task is already scheduled for this
  window"; the task has already read the list, and the notification is deleted unread. It takes two workers and no
  fault. `EachDigestedOnce` shows that this gap is the only way to lose a notification without faults.
- A text is a number for the condition evaluator if it begins with one: "5" equals "5 Main", and "Nancy", which
  begins like NaN, does not equal itself, though the comments say "Fall back to string representation for
  everything else". `Misreads` in `PlanIsMeant` is exactly this.
- The unit test of "in" builds its workflow in memory. A workflow that was stored comes back with its list as
  `bson.A`, which is not the `[]any` the evaluator asks for: "in" is never met, "nin" always (`LosesList`).
- A trigger request that fails after its first insert leaves notifications that no task carries, and
  repeating it gets 409 (`trigger_service.go`, 82-107). Two concurrent requests of one
  transaction that name the same two recipients in different order can both get 409 with
  nothing dispatched. `AcceptedIsDispatched` and `DuplicateHasRival` are what does hold.
- If RPUSH succeeds and scheduling fails, the key keeps entries without a task, and every later push
  sees a count above one. If EXPIRE failed too, that digest never works again.
- A digest goes on in the name of its first notification. The rows of the others, for the steps
  behind the digest, stay "pending".
- A condition on `subscriber.data.a.b` finds nothing, because a nested object comes back as `bson.D`; on
  `payload.a.b` it does. The operator `isNotEmpty` of DEPLOYMENT.md:951 does not exist and is never met, so that the
  SMS that goes out "only if the subscriber has a phone number" never does (unless it is behind a wait, as
  there, where no condition is looked at).
- "contains" looks into what `%v` prints: in a list `[pro team]` it finds "ro" and "o t", in an object its keys.
- `scheduleRetry` ignores the error of its Enqueue.
- A first write of a workflow preference may store a seed that no longer holds: a global opt-out, or a
  change of the defaults, between its reads and its insert is not in the row, which then governs alone. The comment
  in `preference_handler.go` (197-203) has it seeded "from the state that governs this workflow right now". In
  `DeliveryPipeline` such a row lets a delivery through that runs after the opt-out.
- A workflow's Update writes back the `isActive` it read: a SetStatus(false) in between is lost
  (`workflow_handler.go:146`). In the same way an update of an integration brings back `isPrimary`. The update of an
  announcement sets a key that was deleted or has ended meanwhile.
- Integrations are created with the `isPrimary` of the request, and promotions are not atomic: a channel can
  have two primaries, or none after a failure. Delivery takes whichever MongoDB finds first.
- GET /channels offers push for an active push integration of any provider; delivery knows fcm and apns.
- An announcement whose expiry passes between the check and the SET has a time to live that is not
  positive, which go-redis sends as none: it is shown for ever.
- Two first posts of one subscriber, or two additions of one subscriber to a topic, can end in an error for one of
  them; the upsert of preferences has a second try, those of subscribers and rows have none.
- Adding or removing subscribers takes a failed lookup for a subscriber that does not exist and answers 200.
- A worker that dies behind the publication of an in-app notification leaves its task to a run that meets the
  limiter and the preferences again; a refusal hides what was pushed. Two in-app steps of one workflow share a row
  and a text, so that the second overwrites what the first has pushed, or hides it.
- The 30-second timer of a connection is never cancelled: whoever reconnects in time is marked offline
  anyway, and stays so while connected.
- A writer that ends on a timeout leaves a reader that waits for room in the send channel waiting for good
  (`Stuck`): the client stays in its room and no timer is armed.
- Marking as seen or read answers with the count on the same connection only, and archiving answers with none.
- The limiter counts per subscriber; DEPLOYMENT.md says per environment. `cmd/worker/README.md`
  lists queues and backoff times that the code does not use.

## 4. What is proved

Every safety invariant and every action property that a passing run checks is also a theorem, and so are
the refinements of `Dispatch` and `Digest`. The proofs hold for any constants that satisfy the modules' named assumptions
(which TLC evaluates in the runs): any number of notifications, subscribers, workflows, workers, channels,
retries, faults. There are no further assumptions and no unproved leaves. The assumptions say what the
code's types and configuration say (a workflow is a finite list of steps, a channel is not named like a
control step, bounds are numbers, pages are not empty), and of the data:

- `TargetsAssumption` (`Ingest`): a "to" list and a topic's members are finite lists; what they name is free.
- `WorkflowsAssumption` (`Conditions`): a condition is posted with a scalar or a list of scalars. Objects as
  values, and lists in lists, have no meaning in any operator of the evaluator; they are not modelled.
- `FieldsAssumption` (`Conditions`): a list is not compared with a list, nor looked for in an object. What
  Go prints of two lists is layout, which the module abstracts.
- `ShowsAssumption` (`Conditions`): the print of a list holds what its items print.
- `PrintAssumption` (`Conditions`): a number prints as a text that reads back as that number.

| Theorem | Statement | Argument |
|---|---|---|
| `DeliveryPipeline_proofs!TypeCorrect` | `Spec => []TypeOK` | `TypeOK` is not inductive: a worker about to write a status must hold a delivery of a notification. `PhaseOK` ties a worker's phase to its task; the two are proved together |
| `DeliveryPipeline_proofs!OptOut` | `Spec => []OptOutRespected` | `ConsentNoted`: whoever runs a delivery whose channel is on, or would be on by the row that is read next, has its consent noted, at the start, at the subscriber's write, or at the write of a seed that was overtaken; `OnlyWhenAsked`: no other write turns on a channel it does not name |
| `DeliveryPipeline_proofs!Truthful` | `Spec => []StatusTruthful` | `SentBacked`: whoever is about to write "sent" holds an acceptance; acceptances and faults never go away |
| `DeliveryPipeline_proofs!Waits` | `Spec => []DelayRespected` | `DelayInv`: every task, queued or running, every pair in a digest and every retry is either before the gates of its workflow or cleared by them; held tasks are never created otherwise |
| `DeliveryPipeline_proofs!RateLimited` | `Spec => []WithinRateLimit` | `RateInv`: the calls made in this window plus the workers that were counted in it and have not called yet (`Flight`, a finite set of workers) are at most what the limiter admitted (`Admitted`) plus its failures. A worker leaves the set when it calls, so that the sum stays |
| `DeliveryPipeline_proofs!Settles` | `Spec => []SettledWhenQuiet` | `Settled`: without faults and edits whatever was launched is in asynq or with a worker that has yet to decide it (`Live`), or has its outcome; `Decided`: who writes has something else than "pending" to write; `Placed`: a delivery is for a channel step on that step's channel, so that with distinct channels the positional update writes its own row (`OwnRow`) |
| `DeliveryPipeline_proofs!Attempts` | `Spec => []AttemptsBounded` | `AllPaid`: every copy in asynq (`Waiting`) and every worker that has yet to call (`Working`) may still make the calls from its attempt to the last. Counted as finite sets and added to the calls made, they never exceed what the launches paid for: a launch pays for a whole series, a call spends one, a retry or a crash passes on what is left |
| `DeliveryPipeline_proofs!Final` | `Spec => StatusFinal` | `Sourced`: what may still start steps of a notification is one thing in one place (a trigger task, a delay task, an entry of a digest window; in asynq or with one worker), and nothing behind it was launched. So a step is started once, and (`Single`) its delivery is one copy in asynq or one worker, whose row is pending until that worker writes it |
| `Ingest_proofs!TypeCorrect` | `Spec => []TypeOK` | inductive, with `Started`; that `Resolve` gives every named subscriber once follows by induction along its list (below) |
| `Ingest_proofs!Accepted` | `Spec => []AcceptedIsDispatched` | `Accounts`: the recipients of a running request are those still listed and those it is custodian of; it answers 201 behind the enqueue of the latter |
| `Ingest_proofs!Rival` | `Spec => []DuplicateHasRival` | `Origin`: every notification of a transaction was inserted by a request that has passed it or by a broadcast, and a request's list has no repetition, so that what it meets is not its own |
| `Ingest_proofs!ReachesAll` | `Spec => []BroadcastReachesAll` | `Walk`, `Kept`: who was in the audience all along and is behind the last _id of a page has a trigger task, or is in the page in hand; a page by _id leaves nobody out between its ends |
| `Ingest_proofs!Once` | `Spec => []DispatchedOnce` | custody: a transaction's subscriber has at most one handler between its insert and its enqueue, and none afterwards |
| `Ingest_proofs!Implements` | `Spec => ImplementsDispatch` | the same invariant: what a handler enqueues was never enqueued; every other step is a stutter |
| `Conditions_proofs!Meant` | `Spec => []PlanIsMeant` | a lemma on the comparison of two values (`compareEqual`, `compareValues` against the reference), by kinds of values outside `LosesList`, `LosesData`, `Misreads`, `FindsInPrint` and `Unknown`; then one per operator, one per condition, and the invariant that a plan so far is the meaning of the steps so far |
| `DigestWindow_proofs!TypeCorrect` | `Spec => []TypeOK` | inductive |
| `DigestWindow_proofs!Collects` | `Spec => []OneCollector` | inductive with the types: only a push on an empty list opens, only the collector empties |
| `DigestWindow_proofs!EachOnce` | `Spec => []EachDigestedOnce` | `Custody`: without faults a notification is in one place: not yet pushed, on its way to the list, in it, with one worker, or digested (or slipped between the read and the deletion of the list) |
| `DigestWindow_proofs!Implements` | `Spec => ImplementsDigest` | `Slips`, on top of `Custody`: what a handler about to delete the list has read is a part of the list, and not empty; what slipped does not come back. So an RPUSH is a `Join`, the DEL a `Close`, all else a stutter, until a fault. Stated by no run: the proof holds for the run's instance too |
| `Preferences_proofs!TypeCorrect` | `Spec => []TypeOK` | inductive; `Over` keeps on and off apart |
| `Preferences_proofs!NamedStand` | `Spec => []NamedWritesStand` | with `Said` (a row holds what was said of it, and who is answered has written), `Filling` and the handlers' phases |
| `Preferences_proofs!OnlyFaults` | `Spec => []OnlyFaultsFail` | `Handlers`: who tries again does so on a row that exists, and rows are never deleted |
| `Preferences_proofs!Complete` | `Spec => []MaskComplete` | `Filling`: every channel that a start has behind it is held by the row, or there is no row; a first row is seeded with all channels |
| `Preferences_proofs!Silenced` | `Spec => SilencedStays` | `Seeds`: the seed of a request that was not overtaken is what governs the workflow at this moment; `Stored` then changes named channels only |
| `Preferences_proofs!Listed` | `Spec => ListIsTruth` | the rows a request has copied are the rows, unless it was overtaken |
| `Administration_proofs!TypeCorrect` | `Spec => []TypeOK` | inductive, with `Held`: what a handler's copy says in each of its phases |
| `Administration_proofs!EditKept` | `Spec => EditKeepsRest` | `Held`: a copy that was not overtaken is the document |
| `Administration_proofs!Promoted` | `Spec => PromotionIsWhole` | `Held`: behind its unset, a handler that was not overtaken has a channel without primaries |
| `Administration_proofs!Mirrored` | `Spec => []AvailableMirrorsDelivery` | from the definitions and the types |
| `Administration_proofs!Expired` | `Spec => []ExpiryHonoured` | `Expiries`: a key ends when its value says, or never if it was written late, which the statement excepts; the clock takes away what ends |
| `Membership_proofs!TypeCorrect` | `Spec => []TypeOK` | with `StoreOK`: _ids are given once, to one document |
| `Membership_proofs!Orphans` | `Spec => []OrphanNeedsOverlap` | `LiveRows` and `Current`: without an overlap the _ids a handler holds are those of live documents, and behind the cascade no row of the _id is left |
| `Membership_proofs!Causes` | `Spec => []ErrorsHaveCause` | `Apart`, `NoTwins`: without an overlap a topic that was found to exist exists when it is read again, and an insert meets no document and no row |
| `Membership_proofs!PostsKeep` | `Spec => PostKeepsRest` | `Merged` keeps what a post does not supply; only a handler's own step takes a name off its post |
| `Realtime_proofs!TypeCorrect` | `Spec => []TypeOK` | with `ConnOK`: what a connection holds in each of its phases |
| `Realtime_proofs!Agrees` | `Spec => []PushAgreesWithFeed` | `Correct`: a message is true of the feed when it is sent, marks are never taken back, and a "sent" that is goes into `withdrawn`; `Behind`: a worker publishes behind its writes; `Told`: a published notification has reached the client, or is in every feed on its way, or its push is on its way or lost |
| `Realtime_proofs!Settles` | `Spec => []PresenceSettles` | who is online has a running connection or a timer |

Where a theorem excepts overtaken handlers, the history variable is part of the argument: the
invariant says of every other handler that what it holds is still true, and each step either leaves that
alone or enters the handler in `moved` or `crossed`.

Two techniques carry the proofs that were out of reach at first. Sums over sets of workers and queued
copies are cardinalities of finite sets, changed by one element at a time (`FS_AddElement`, `FS_RemoveElement`;
`Exchange` and `Spend`). And what a recursive function computes is shown without the library's induction
theorems, whose operator parameters no installed prover instantiates: a recursive function on an interval exists
(`RecursionExists`, from the function set of its approximations) and a set of indices that holds 0 and the successor of each of its members holds
them all (`AlongInterval`, from the least counterexample, `LeastNat`). `Resolve` is written as an explicit recursive
function for that reason.

Only model-checked: liveness, that is `QueueDrains`, `BroadcastsEnd`, `WindowCloses` and `Reaped`. They rest on weak
fairness, hence on ENABLED, which the prover does not handle. The two violated properties are counterexamples and
belong to TLC.

## 5. Plan and limits

Next, in this order: a lemma module of its own for what several proofs repeat (finite sets that change by one
element, recursion along an interval); the safety halves of the liveness properties, such as that a
broadcast's pages only move forward and that attempts only grow, as action properties with a theorem.

Not modelled, and why:

- The SDK. Its modules are single requests; the reconnecting socket depends on a browser's order of
  events and on timers, which the server does not see. A model would rest on how browsers behave, not on this code.
- The template renderer is a pure function of text with tests of its own.
- Providers are stateless calls; the pipeline has their possible answers.
- Authentication, permissions and middleware are checks of one request; encryption is a pure function;
  configuration is read once; activity log entries are read by no handler.
- Of the modelled components: the renaming of topics, the paging of lists, texts and metadata of documents, and
  the expiry of old notifications (a TTL index), because nothing that is checked depends on them.
