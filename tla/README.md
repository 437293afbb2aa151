# Delivery logistics: models, checks and proofs

TLA+ models of the delivery-logistics backend (NestJS, Prisma on PostgreSQL,
BullMQ on Redis, Supabase Storage, Socket.IO), the TLC configurations that
check them and the TLAPS proofs about them. Paths such as
`shipments.service.ts` are those of `src/src/modules/...`.

Run everything from this directory: `tlc -config X.cfg MCModule` for a run of
`PROJECT.json`, `tlapm XProofs.tla` for a proof module.

## 1. The system

| component | state it keeps | operations | talks to |
|---|---|---|---|
| Shipment state machine (`shipment-state-machine.ts`) | none | `assertValidTransition`, `assertDriverTransition`, `assertTransitionContext` | called by the service |
| Shipments (`shipments.service.ts`, controller) | `Shipment`, `ShipmentStatusHistory` | create, list, track, update of the status | database; notifications |
| Notifications, producer (`notifications.service.ts`) | `Notification`; the BullMQ queue | `create` (row, then job), list | database, Redis |
| Notifications, worker (`notifications.processor.ts`, `notification-delivery.service.ts`) | the job in hand | `deliver`: mail and push | BullMQ, SMTP, Socket.IO |
| Attachments (`shipment-attachments.service.ts`, `storage.service.ts`) | `ShipmentAttachment`; the bucket | upload, list with signed URLs, remove | database, Supabase |
| Cursor pagination (`pagination.util.ts`) | none on the server; the client's cursor | `getPaginationArgs`, `buildCursorPaginatedResult` | shipments, drivers and notifications lists |
| Authentication (`auth.service.ts`, `users.service.ts`, `jwt.strategy.ts`) | `User` with its two tokens and their expiry | register, login, verify, resend, forgot, reset | database, mail |
| Live tracking (`tracking.gateway.ts`, `tracking.service.ts`) | `LocationUpdate`, `Driver.currentLat/Lng`; rooms | join, record a location, broadcast | database, Socket.IO |
| WebSocket adapter (`redis-io.adapter.ts`, `main.ts`) | two Redis clients, the adapter | connect, fall back to one instance, serve | Redis |
| Analytics (`analytics.service.ts`) | none | overview, trend, driver performance | database |
| Guard of the routes (`roles.guard.ts`) | none | `canActivate` | every route |
| Drivers, companies, health, filters, configuration, seed | none of their own, or rows no code changes | reads, wiring | |

How they interact: an HTTP request is one asynchronous function. It runs to its
next `await` without interruption; between two awaits the same process, and
any other instance of the server, runs other requests. There is no transaction
around the calls of a request (the location update of the tracking service is
the one exception), no optimistic version column, and no code that undoes an
earlier call when a later one fails. The database, the queue and the bucket are
written one after the other. The worker of the queue runs in the same
processes, so it dies and restarts with them; and BullMQ may take a job from a
worker that is alive but could not renew its lock.

What is hard here, and what would make each part correct:

- **Shipments.** Every check of a status update is made on a row read before
  several awaits, and the write is keyed by the id alone. Two updates may
  overlap: which facts about the driver, the dates and the history survive
  that? Does the lifecycle? And does every committed change reach the queue?
- **Notification delivery.** A worker may die between the push, the mail and
  the end of the job, or lose the lock on it and go on; BullMQ then starts the
  job again, beside the late handler in the second case. How often can a user be
  told, can a job be lost, and does a rejected mail cost the push?
- **Attachments.** A row and an object that have to agree, written by requests
  that race or fail in the middle, under a path made from a millisecond.
- **Pagination.** A list that grows while a client walks it, rows that share a
  millisecond, rows that become visible out of order.
- **Authentication.** Tokens that are used, replaced by a newer one or expire,
  each behind a check made on a row read before the password is hashed; the
  mail sent after the row was changed; two registrations of one address.
- **Tracking.** A report is committed and only then emitted, on any of several
  instances, and Redis carries it to the others at its own pace; the client that
  publishes repeats after an outage what had no reply. Does a map ever show what
  was rolled back, and when can it jump back from the later of two reports? And
  does every tracker in the room hear, wherever it sits?
- **WebSocket adapter.** An instance decides once, while it starts, whether its
  broadcasts leave it; two clients connect, and one may fail.
- **Analytics.** Six queries without a snapshot make one answer, over tables
  that are being written; days that two clocks count.
- **The whole path.** The parts are tested apart: a commit, a row, a job, a
  worker that may lose it, a push. Is every change told, and in which order?

Every hazard is listed at its line, with the properties that watch it, under
`hazards` of `PROJECT.json`.

## 2. The modules

`ShipmentStateMachine` — the three tables and the three assertions, each a
predicate that is false exactly when the source throws. JavaScript's truth of
an optional string (`Truthy`) and its `??` (`Coalesce`) are modelled by what
they do, because the empty string passes the DTO's `IsString` and is told apart
from an absent id by one of them and not by the other.

`ShipmentLifecycle` — the abstract specification: the README's lifecycle
diagram, with no request and no database.

`NotificationsService` — the two awaits of `NotificationsService.create`, as the
two actions that its callers take: the row, and the job. Extended by both sides
of the queue.

`Shipments` — the core. State: the `Shipment` table, the history, and for each
request in flight what it holds between its awaits. One action per step of
`updateStatus`:

| action | code |
|---|---|
| `BeginUpdate` | `findById` and all the checks, on the row it read (130–161) |
| `WriteStatus` | `prisma.shipment.update` with the nested history row (163–183); a transaction of its own |
| `Notify`, `Enqueue` | the two calls of each `notificationsService.create` of `dispatchStatusNotifications` |
| `Abort` | an awaited call rejects, or the process dies: nothing is undone |
| `Create` | `POST /shipments` |

A request refused by a check changes nothing and is a stuttering step. The
driver look-ups between the read and the write belong to `BeginUpdate`: they
read `Driver.userId` and `Driver.companyId`, which no code writes. `WriteStatus`
takes each column from the request or from the row the request *read*, never
from the row as it now is, which is what the source does.

The date of an assignment or a delivery is the number of the history row written
in the same update, and 0 is null. It tells apart exactly what the properties
ask for, an order and an equality. `changedAt` is another matter: it is a
default that is fixed before the write has its lock and commits, and
`GET /shipments/:id` sorts by it. The model's `changedAt` is the number of rows of
the shipment that had been committed when it was fixed, anything from what it
was when the update was sent (`since`) to what it is at the commit. Two rows
whose updates overlapped may thus be shown in either order, whatever the order
in which they were committed. One clock stamps all rows: an update sent after
another one's answer has the later `changedAt`.

`NotificationDelivery` — the other side of the queue. `Deliver` is one step,
since `deliver()` awaits nothing between the result of the user look-up and
`Promise.all`: the push is emitted and the mail is under way. `MailSent`,
`MailRejected` and `Return` follow. Two branches end a job without a push and are
only logged: `UserNotFound`, and a `deliverPush` whose emit throws; `skipped` keeps
the jobs they happened to. `Take`, `Crash`, `Lapse` and `Recover` are BullMQ, modelled
from how the source uses it: a queue without job options (one attempt), a
worker with the default concurrency of one, and the stalled-job check with
BullMQ's default limit. A lock is lost in two ways: the worker dies (`Crash`), or
it lives and could not renew it, with the event loop blocked or Redis away
(`Lapse`). In the second case the handler goes on (`lapsed`), and the job may be
started beside it; what the late handler returns or throws no longer counts for
BullMQ.

`Attachments` — rows, bucket and requests; a path is the shipment, the
millisecond and the sanitized name, as `buildShipmentStoragePath` makes it. The
content of a file is the number of its upload.

`Auth` — the rows of `User`, the mailbox, the access tokens signed, and the
requests of `AuthService`, one action per awaited write or mail (the header of
the module lists them). What a request writes goes by the id alone here too:
`MarkEmailVerified`, `SetVerificationToken` and `UpdatePassword` clear or replace
whatever the row holds by then. `forgotPassword` on an unverified account reads
the row a second time (`ResendForForgot`), as `resendVerification` does. A token
and its SHA-256 are one value, the number of the request that made it; a client
presents tokens from mails only, since one of 256 random bits is not guessed.
An access token carries what `payloadOf` signs and its `exp`, and is `Accepted` before
that and while its account is confirmed.
A company id in the body that names no company is refused by the foreign key
and is one of the rejections of `Abort`. A step of the clock is an hour.
Two marks serve the properties: `callFailed`, and `overlapped`, set when a
request about an address arrives while another one is at work on it.

`Pagination` — the table with the rows that were stamped and have not
committed, and a client that walks it. `Fetch` is one list request: DTO
validation, clamp, filter, order, one row more than the limit, next cursor.

`Platform` — `Shipments` and `NotificationDelivery` composed over the two things
they share, the `Notification` table and the queue: the jobs of the one are the
notifications of the other (`Delivery == INSTANCE ...`). It adds what a
notification says (`contentOf`) and a record of which change was answered before
which request arrived, for the property about order. A step of the composition
is a step of one side; the Add of a producer is the `Enqueue` of a request.

`RedisIoAdapter` — `bootstrap` of `main.ts` with the adapter, one process per
instance: the two clients of `connect()`, `Promise.all`, the `catch` block that
disconnects, then `app.listen` and the connection of `RedisService`, which ends
the process if it is refused.

`Tracking` — extends it with rooms, reports, the location transaction, the
broadcast, and what Redis carries between two instances. A report has two
fields that the gateway never compares: the shipment whose record it joins
(`shipmentId`) and the tracking code whose room hears of it (`room`).
`recordLocation` is one step because it is a transaction, with a rollback
(`recordFails`) as the other outcome; `emit` is the rest of the handler.
`unfulfilled` is what a `pubClient` has published and has had no `Reply` to; it is an
ioredis with `maxRetriesPerRequest: null`, so that after an outage (`Reconnect`) it
publishes all of that again, and what was asked of it meanwhile. What a
subscriber misses while it has no connection is gone (`LostOnTheWire`). A
tracker's `shown` is what its present connection received.

`Analytics` — the queries of the service as operators over the table, four of
the six of an overview as steps of their own (by status, created, delivered,
timings; the two about drivers read rows that no code adds, and a column that
none writes), and the computations on them. The table is
written by `Change`, which stores any row that has the facts proved of the
rows of `Shipments`, and not by a copy of that module.

`RolesGuard` — `canActivate`, used by the actions of `Shipments` and `Attachments`.

`MC...` modules give TLC its instances; `...Proofs` modules hold the theorems.

Definitions marked *Fault* are no part of a model. Each is the wrong version of
the definition that follows it, the way the code could plausibly have been
written; for every property, `mutants` of `PROJECT.json` names one that breaks it.

## 3. The runs

| run | instance | question |
|---|---|---|
| `ShipmentsConcurrent` | 1 shipment, 2 requests, 2 companies with an admin each, 3 drivers (one of the other company), 1 customer, 4 history rows, calls may fail | What survives overlapping updates? |
| `ShipmentsSerial` | the same with 1 request | Does the service implement the lifecycle? Do drivers touch only their shipments? |
| `ShipmentsTerminal` | 2 requests | *violated:* a final status is left |
| `ShipmentsLostNotice` | 1 request, calls may fail | *violated:* a change nobody hears of |
| `ShipmentsSilentSwap` | 1 request, no failures | *violated:* a driver who is never told |
| `Platform` | 1 shipment, 2 requests, an admin, a driver, a customer, 3 history rows, 1 worker, which loses one lock, no mail, no failing calls | Is every change told, and in which order? Do the two sides of the queue fit? |
| `DeliverySafety` | 2 workers, 2 jobs, 2 users, 3 lost locks, look-ups, emits and mails may fail, users may be gone | Who owns a job, how often is a user told, and does every job end? |
| `AttachmentsRaces` | 3 requests, 2 uploads, 2 names that are equal once sanitized, 2 milliseconds, calls may fail | Do rows and objects agree? |
| `AuthRaces` | 2 addresses, 2 requests, 2 passwords, 3 numbered requests, links and access tokens of 1 hour, 2 hours, 2 access tokens before a login is refused, calls may fail | Do links, passwords, confirmations, companies and sessions stay right? |
| `PaginationWalk` | 5 rows, 2 milliseconds, pages of 1 and 2 | Is anything skipped or repeated? |
| `Tracking` | 2 instances, 1 tracker, 1 shipment, 1 tracking code, 2 reports, 1 crash, 1 outage of Redis | Do maps follow the record, on either instance? |
| `Analytics` | 2 shipments, 2 companies, 2 drivers, days of 2 hours, a week of 1 day, a ranking of 1, 1 write during an overview | Do the figures of one answer agree? |

Why the bounds are enough to be of interest:

- Two requests are the least that overlap, and a third could only overwrite
  with a row that one of two could have read as well. Four history rows reach
  every status, and a stale write after any of them. One shipment is enough:
  no code relates two. `MaxHistory` bounds the history, so no update begins on a
  longer one; an update already in flight still writes.
- Three drivers are the current one, another one of the company, and one of
  another company. The body's `driverId` ranges over these, null and the empty
  string.
- `Platform` has three history rows: creation and two changes, with one more by
  the request that was in flight, are the least with an order between changes.
  Mails are left to `DeliverySafety`, and so is a second worker, with which
  pushes have no order.
- `MaxStalledCount` is 1, BullMQ's default; three lost locks (`MaxLosses`) exceed
  it for one job and leave one for the other. Two jobs for two workers is every
  worker busy, and the second worker is the one that starts a job again while
  the first is still at it.
- Two uploads that may share a path and a third request that removes are the
  least for every race of the two stores. `MaxUploads`, `MaxClock` bound them.
- `MaxNumber` bounds the requests that make a token: three are a registration
  and two links of an account, or two accounts and a link. The clock makes two
  steps and a link lasts for one, so that each link is followed in time, at its
  last hour and too late; access tokens too are used before and after their
  date. `MaxSessions` stops logins only, not the session that a confirmation
  opens. Addresses, passwords and requests are interchangeable
  (`AuthSymmetry`; the run has no liveness property).
- Pages of one and two over five rows, spread in every way over two
  milliseconds, meet every position of a page boundary inside and
  between milliseconds, exactly full pages, and refused limits.
- Two instances are the least with a wire between them. One tracker is enough,
  since nothing relates two; two reports, from one driver, are a pair with an
  order. The instances boot in every order, with and without Redis. A second
  shipment or tracking code makes the run longer than a few minutes, and no
  guard relates them; the theorems are about any number of both.
- An overview spans a midnight and a write at any point of its four queries.
  Two drivers for a ranking of one are a tie. A week of one day and days of two
  hours have the same edges as seven of twenty-four. `LastWrite` lets the table
  grow older than the week.

`CHECK_DEADLOCK FALSE` is set everywhere: a system without requests, or whose
bounds are used up, rests.

What the passing runs show of the code:

- However stale the row an update was checked on, the shipment it writes is
  consistent in itself: an active one has a driver of its own company, both
  dates agree with the status and with the history, and the history is a
  record of moves out of statuses the shipment really had and that
  `GET /shipments/:id` shows before the move. Its last row is that of the current
  status in the order of the commits; in the order *shown*, by `changedAt`, only
  if updates did not overlap. That is so because
  *all* the columns come from one row that was consistent; a fault that leaves
  one column to the current row (`UpdatedRow_KeepDates`) breaks it at once.
- The one thing an update can take away is the assignment, driver and date
  together, and only a cancellation does (`OnlyCancellingUnassigns`).
- A notification never precedes the commit it reports, and a job of the queue
  always has its row.
- If no call fails, no emit throws and users stay, every change is pushed to the
  customer and every assignment to a driver, although the worker may die with the
  job or lose its lock, once; and two changes that did not overlap are told in
  order by one worker that never lost a lock.
- BullMQ has a job in one place at a time. Two handlers of one job do run side
  by side when the first has lost its lock and lives on, never more of them than
  one and one for each time the job stalled. A user is told at most once per
  start of the job, so a second mail or push needs a lost lock. Every job ends,
  and one that ends as completed was pushed, whatever became of its mail,
  unless the user was not found or the emit threw, which the code only logs.
- Objects are never overwritten, and at a path that no two uploads share a row
  never appears without its object.
- A password changes, and an address is confirmed, only by a link mailed to that
  address; a link that finds no account any more, used or replaced, finds none
  again. It is not used once only: two requests that have both looked it up
  both take effect, and a token that a resend leaves on an account confirmed
  meanwhile opens a session each time (`auth.service.ts:106`). No overlap of
  resend and confirmation takes a confirmation back, and access tokens are good
  until they expire. The
  newest link works unless requests of the address overlapped, and a company
  without an account takes such an overlap or a failed call.
- A map shows committed positions only, of rooms it has joined. From its own
  instance they come each once and never jump back from the later of two
  reports; from another instance this holds until Redis has an outage, after
  which a marker may be shown twice and jump back. The position kept with the
  driver never falls back behind the history; an instance serves with both Redis
  clients or with none.
- The figures of an overview differ by no more than the writes that fell
  between its queries, and the trend and the ranking count the deliveries that
  the overview counts.

What the violated runs show is listed under `findings`. `ShipmentsTerminal` comes
from the update being keyed by the id alone; a condition on the status it read, in
its `where`, would repair it, and with it `DriversUpdateOnlyTheirs`, which holds in
`ShipmentsSerial` and not when two requests overlap. `ShipmentsLostNotice` comes
from notifications following the commit outside any transaction.

### Fairness

- `Platform`: weak fairness of each request's next step, since Node's event loop
  resumes a request whose awaited call has settled, and the database and Redis
  clients settle every call; and of the workers' part as a whole, without the
  loss of a lock. Clients are under no fairness, nor is failure. Failing calls are
  excluded, since with them `EveryChangeIsPushed` is false
  (`ShipmentsLostNotice`). `Shipments` alone states no liveness.
- `NotificationDelivery`: weak fairness of each worker's step (a mail settles,
  by acceptance, rejection or nodemailer's time-out) and of the stalled-job
  check, which BullMQ repeats on a timer. Nothing makes a producer add a job,
  an address be verified, or a lock be lost.
- `Attachments`: weak fairness of each request's next step, as for shipments.
- `Tracking`: weak fairness of a boot's next step, of the calls in flight, and of
  what Redis carries while it is up. Nobody has to start, connect, report, fail
  or come back.
- `Pagination`: the client asks again for a page of the default size as long as
  it has a cursor, as the README's example does.
- `Auth` and `Analytics` state none: their properties are about safety.

`RemovalCompletes`, `RowsShowTheirFiles`, `NoOrphans`, `LinksAreInTheMailbox` and
`CompaniesHaveAnAccount` speak of behaviours up to the first failed call, and
`EveryTrackerIsShown` of those without a crash or an outage.

## 4. The proofs

TLC checks the instances above; the following hold for all values of the
constants that meet the named assumptions. These say what the schema and the
configuration say: relations point to rows, nulls differ from ids and from
rows, roles are roles, limits, bounds and lifetimes are numbers.

**`ShipmentsProofs`.** For any number of shipments, users, drivers, companies and
overlapping requests: `TypeOK`, `ActiveShipmentHasDriver`, `TimestampsMatchStatus`,
`HistoryIsTheRecord` and `OnlyCancellingUnassigns`.

None of these is inductive: a write stores what its request once read, so the
argument needs to know that the row read was consistent *and still is of use*.
`ShipmentsInv` says so in three parts. `RowFacts(s, row)` are facts of a row that
mention only the row and history rows that exist already, hence stay true of a
copy while others append to the history. The invariant claims them for every
current row, claims them and the outcome of the checks for the row of every
pending update (`UpdateFacts`), and keeps the last history row equal to the
current status. About the order in which the history is shown, `RowFacts` and
`UpdateFacts` say that the move into the status that was read had been committed
before the update was sent, and the invariant that no row has a `changedAt` as late
as its own commit: so the update is shown after the move it follows, and nothing
is claimed of two that overlapped. `WriteStatus` then turns the facts of the pending update into
those of the new row; `BeginUpdate` copies the facts of the row into the request;
the other actions touch neither.

`SerialRequestsFollowTheLifecycle` is the refinement: if there is one request
slot (`OneAtATime`), a pending update's row is the current one, so each write is
an arrow of `ShipmentLifecycle` and every other step stutters.

`DriversKeepToTheirs` is `DriversUpdateOnlyTheirs` under the same hypothesis, which
it needs: of two overlapping updates one may take the shipment away while the
other, checked before, still writes it (section 3).

`NotificationsNeverLie` proves `NotificationsFollowCommits`, on top of
`ShipmentsInv`. What a notification says refers to a history row by its position.
`NoticeInv` claims for every notification, saved or still in a request's hands,
that the row is there and says so (`GoodNotice`), and that it belongs to one
request until its job is added; `QueueInv` that the queue holds only jobs of saved
notifications. Two notifications of different requests differ because their
changes have different positions in the history.

**`NotificationDeliveryProofs`.** `TypeOK`, `OneOwner`, `AtMostOncePerStart`, and that no
notification is pushed more than `MaxStalledCount + 1` times, for any number of
jobs, workers and lost locks. `HandsInv` says that the queue, the jobs of workers
that have their lock, the orphans, the completed and the failed are disjoint and
together are what was added. `StartsInv` counts: for each job the handlers at
work, late ones included, and the start that is still to come without a further
stall are at most one more than the times it stalled, and so are its pushes, and
its mails, together with those that these handlers can still add. A lost lock
leaves the handler in the count; only `Recover` makes room for one more.

**`PlatformProofs`.** The two sides of the queue together, for any number of
shipments, users, requests and workers:

- `DeliveryIsImplemented`: `PlatformSpec` implements `NotificationDelivery`. Each
  action is a step of the delivery or leaves its variables alone; a step of a
  request is a `Save` or an `Add`, whose guards (the row is there, the job is new)
  need the invariant. What `NotificationDeliveryProofs` says of any use of the
  queue thus holds of this one. (That last inference is not a theorem here:
  tlapm 1.4.5 cannot cite a theorem through a named `INSTANCE`.)
- `PushesAreInOrder`: one worker that has lost no lock tells two changes of requests
  that did not overlap in their order. TLC had checked it with one worker; the
  proof asked for the hypothesis in `ToldInOrder` itself.
- `PushesTellTheTruth`: whatever was pushed, once or again, reports the status of
  a committed change, to its customer or, of an assignment, to a driver of the
  company. It is no property of a run.

`PlatformInv` adds four parts to those of `Shipments`. `HistoryBound` counts the
rows that requests in flight may still write, so that each change is one a job
can name (`Changes`). `AddedInv`: the jobs in the queue, in hand, orphaned or
pushed were added once by a finished step of a request. `OrderInv`: what one
request has still to tell is of one change, which is its own and not answered
yet. `LineInv`, for one worker that has lost no lock: what was pushed, the job in hand and the
queue are one line, in which nothing stands before a job that had to precede it.
A job that is added goes to the end, and its change is unanswered, hence before
no other.

**`AttachmentsProofs`.** `TypeOK`, `RowsShowTheirFiles`, `NoOrphans`, `NoOverwrite` and
`RowOnlyWithObject`. `KeptInv`: all the copies of a row, in the table and in
requests that have read it, carry the number and the path of one upload.
`BucketInv`: what is stored at a path that no two uploads share follows from
where its request is.

**`AuthProofs`.** All six properties of the run. Its steps are first sorted into
seven forms (a request arrives, follows a link, goes on, stores a token, uses a
link, sends a mail, rests), and the invariants are proved form by form.
`LinksInv` is the heart of it: a token belongs to one link, made by one request
for one address, so no row takes on a token that a mail has carried
(`TokensAreFresh`), and the request that uses one takes it off the only row it
can be on (`TokensUsedUp`): a dead link stays dead. `SignedInv` says of every
access token that its account is still confirmed and has the role and the
company that were signed, so its date alone ends a session. `CameByLinkInv`
keeps the mail of who confirms or resets; `WaitInv` keeps, until a call fails,
the link a row waits for in the mailbox or in the hands of a request; `AloneInv`
says that until requests overlap a request is alone with its address and makes
the newest link.

**`PaginationProofs`.** For every table, limit and order of inserts: `PaginationInv`,
`NothingSkipped` and `NoRepeats`. The invariant is that the cursor splits the list:
what was shown is at the cursor or before it, what was visible at the start and
not yet shown comes after it. The lemmas below it say that the order is total
(two rows of one millisecond differ in their id), that a page therefore has a
last row, and that a page without a next one holds all that matched.

**`TrackingProofs`.** `AllOrNothing`, `PositionKeepsUp` and `MarkersFollowTheRecord`, for
any number of instances, trackers, reports, crashes and outages. `BootInv` lists
what an instance has at each point of its start. `CallsInv`: a report being
handled is not answered yet, and knows of answered ones only, so it may come
after whatever has been emitted. `WireInv` and `ShownInv`: what was emitted is in
the history; a link between two instances carries the reports of one of them,
in an order a tracker may see, and all of it may follow what the trackers at its
far end were shown. The last part is what makes a `Receive` preserve the order.
What a client may publish again, it has emitted (`UnfulfilledInv`), so whatever an
outage repeats is still the record; the order across instances is claimed while
there has been none. `QuietInv` makes that useful: before its first outage Redis
is down only if it has not been up since the start, and then no instance
serves and nothing waits to be sent again. What a tracker is shown by its own
instance does not come by Redis and is in order always (`OrderedFrom`).

**`AnalyticsProofs`.** All three properties of the run, for any table, number of
companies, drivers and writes, width of the day and length of the ranking. The
invariant (`AnalyticsInv`) has a part about the table (`TableInv`: finitely many
rows, no date to come, a delivery with its driver and both dates in order) and
one about the overview at work (`Near`, `Agree`): each answer is as far from the
table of now, and from the status counts if those have been read, as there were
writes since. A write moves each count by one at most (`WriteMovesByOne`), and a
query read now agrees with the table of now (`NearWhenRead`).

The figures are sums, and `MapThenSumSet` is recursive. `SumIs` pins it down all
the same: a closed form that satisfies the recursion is its value, because a
smallest set on which they differ cannot exist. The closed form of a count by
parts is the cardinality of the union (`SumOfDisjoint`), from which the trend and
the ranking follow: the days, or the drivers, split the deliveries. The proof
found one thing wrong, in the property: a rate of 100.0 was said to mean that
nothing is open, which holds for fewer than 2000 shipments only, since the rate
is rounded to tenths (`analytics.service.ts:70`; 1999 of 2000 read 100.0). TLC's
two shipments do not show it. The property now says what rounding allows.

Every invariant and every action property that a run checks is thus a theorem.
Only model-checked: the liveness properties, since the prover has no rule for
fairness and `ENABLED`; the three violated properties are refuted by TLC.

## 5. What is not modelled

- Texts, addresses, tracking codes (a collision is a rejected `create`), the
  contents of mails beyond the status they name, logging, Swagger, the shape of
  responses.
- The database beyond: a call is atomic and its effects are visible when it
  commits. Rows of users, drivers and companies are constants of `Shipments`, as
  no code changes the columns it reads. One clock stamps `changedAt`, fine enough
  that an update sent after the answer to another one has a later one.
- BullMQ, Supabase, SMTP and Socket.IO beyond what the source relies on. In
  particular whether a notification that was pushed finds a connected client.
- Shutdown: `RedisIoAdapter.disconnect` at the end of a process is reached from
  an `app.close` that no code calls.
- A list of attachments after a removal that failed half-way
  (`shipment-attachments.service.ts:100`): the row without an object makes the
  signing of the whole list fail, a 503, until the row is gone. The properties
  about rows and objects stop at the first failed call.
- The log of the fallback (`redis-io.adapter.ts:53`) speaks of serving without
  Redis; as the model has it, `RedisService` then ends the process unless Redis
  has come back. Validation of the environment requires a Redis host, so
  "not configured" means that `WEBSOCKET_REDIS_ADAPTER` is false.
- Time zones and the shift to summer time in the SQL of the trend; the two
  queries of an overview about drivers, their number and their number by
  availability.
- `getShipmentHistory` of the tracking service, which has no caller.
- Health, filters, configuration and seed: no state of their own.

## 6. Plan

Done: every module of section 2, with proofs of all safety properties.

Next: the properties of `NotificationDelivery` for the jobs of `Platform`, proved
there rather than inferred from the refinement; larger instances of `Analytics`.
