# Verification of face2go-server

`face2go-server` is a NestJS service that manages facial access control for condominiums and
schools: registrations and members with a face, the readers (Intelbras, Hikvision) and cameras at
the doors, the synchronisation of the faces and plates with those devices, and the accesses the
devices report.  This directory holds TLA+ models of the parts whose correctness depends on the
order of things: what runs concurrently, what is retried, what a crash leaves behind.

Paths below are relative to the repository.

## 1. The system and its parts

### State, operations and interactions

| Part (under `src/`) | State it keeps | Operations | Talks to |
|---|---|---|---|
| `device-sync-queue` | table `device_sync_jobs` (Postgres): status, dedupe key, lease (`locked_by`, `heartbeat_at`), attempts, cancel flag | enqueue (find, merge, insert), claim, heartbeat, checkpoint, finish, reaper, shutdown release, cancel, retry, clear, retention | handlers run `face-sync` and `lpr-plate-sync`; `persist` writes the person's `device_sync_status` |
| `common/concurrency` | in memory: `globalActive`, `globalWaiters`, `readerTail` | `withReaderSyncGate`, `mapReadersWithSyncGate` | every sync of a face or plate with a device goes through it |
| `face-sync` | `person_reader_sync` (what each reader holds), in-memory `persistHooks` | sync a person on its readers, rebuild of a reader, removal of a face, periodic re-enqueue of what is pending | queue, gate, device clients, approval policy |
| `lpr-plate-sync` | `vehicle_camera_sync` | sync a plate on cameras, sync all vehicles to a camera | queue, gate, camera clients |
| `child-approvals` | `child_approval_requests` (outbox of e-mails with a lease), consents, flags of the registration (`required`, `removal_pending`), tracked faces; DB triggers of `drizzle/0090`, `0093` | request e-mails, accept, revoke, regularise, maintenance tick, delivery | `face-sync` through events and `withFaceAccess` (advisory lock per face); queue (`face.remove` jobs) |
| `visitor-approvals` | the same shape for visitors and the residents who answer for them | the same | the same |
| `registrations`, `members`, `students`, `responsibles`, `managed-responsibles`, `people` | people, their face, status and schedule | invite, register, approve, reject, block, replace the photo, delete | enqueue a sync, ask for an approval |
| `client-invites`, `client-invite-links`, `pickup-authorizations` | invitations with an expiry, a use count or a single use | create, redeem, expire, revoke | registrations, face-sync |
| `face-listener`, `lpr-listener`, `hikvision-push`, `intelbras-push` | in memory, per device: stream, connection generation, reconnect and offline timers, partial multipart event | connect, reconnect, poll, parse, report offline | `accesses`, `lpr-accesses`, notifications |
| `accesses`, `lpr-accesses` | Mongo documents; in memory: recent event keys, a promise chain per device | record an access once | presence, arrivals, alerts (events) |
| `presence`, `arrivals`, `alerts`, `emergency-events`, `panic-events`, `notifications`, `telegram-alerts`, `realtime` | daily presence, open emergencies, subscriptions | react to accesses, answer the operator, push | browsers, phones |
| `auth`, `permissions`, `company-*`, `client-*`, `companies`, `clients`, `readers`, `cameras`, `vehicles`, `shifts`, `school-*`, `legal-documents`, `email`, `storage`, `geocoding`, `reports`, `dashboard`, `health`, ... | rows of their tables | CRUD, queries, delivery of mail and files | |

Two processes of the server may run at a time (a deployment overlaps the old and the new one), and
each of them runs `WORKER_CONCURRENCY` loops of the job worker, the maintenance timers and the HTTP
handlers.  All of them share Postgres; nothing else is shared.

### What is hard here, and what makes each part correct

* **Job queue.**  Claims, heartbeats, late finishes, the reaper, shutdown and crash interleave
  statement by statement; an enqueue meets a row that is claimed or canceled under its hands.
  Correct: one queued row per dedupe key, one running row per person/reader/camera, what waits can
  be run, what ended stays ended, every accepted job ends, the reader ends with the last requested
  state, and a person is never left pending for ever.
* **Gate.**  Correct: never two syncs on one reader, at most two syncs in flight, in the order of
  arrival for each reader, and nobody waits for ever.
* **Batch jobs** (`face.reader`, `face.school`, `lpr.camera`): long loops that are interrupted and
  resumed.  Correct: progress survives a resume, a forced rebuild restarts once, no person is
  skipped, the age policy is reported applied only when everyone was reconciled.
* **Approvals of minors and visitors.**  Correct: the face of a person whose consent is missing or
  was revoked is not on a reader unless its removal is still owed; a consent is recorded at most
  once per adult; an e-mail is sent once per lease and a lost sender is replaced.
* **Listeners.**  Correct: one live stream per device, a late callback of an old connection has no
  effect, an outage is notified once and not when the device is back.
* **Accesses.**  Correct: a retransmitted event is recorded once and its effects happen once.
* **Invitations and pickups.**  Correct: never used more often than allowed, never after expiry.

## 2. Plan

Each module is written to be proved about as well as checked: parameters as CONSTANTS with named
assumptions, one action per operation (one SQL statement or one stretch of code between two
awaits), invariants as conjunctions of named parts, no RECURSIVE operator.

1. `DeviceSyncJobs` + `DeviceSyncQueue` (done, safety proved): the job table and everyone who writes
   it, and the order in which the states of a person reach the reader.
2. `ReaderTickets` + `ReaderSyncGate` (done, safety proved): the gate, which implements a ticket lock per
   reader.
3. `FaceAccess` (done, safety proved): consents, the face on the readers, the removal job, the
   maintenance tick and the administrator.  The removal job is the one job kind with a safety
   obligation.
4. `ApprovalRequests` (done, safety proved): the requests for consent and the outbox that mails
   them (lease, attempts, expiry).
5. `ReaderLedger` (done, safety proved): the jobs of people and the rebuild of a reader, over
   the part of the queue a handler sees.
6. `DeviceStream` (done, safety proved): connection generations, timers and the
   offline alarm of the listeners.
7. `AccessLog` (done, safety proved): how the copies of an access become one document.
8. An abstract specification of the queue (a set of requests per person of which the last one
   wins), with `DeviceSyncQueue` shown to implement it under the restrictions section 5 explains
   (not done; `ReaderNeverGoesBack` and `SyncedHoldsLastRequest` are what it would rest on).

## 3. Modules

| Module | Models | Code |
|---|---|---|
| `DeviceSyncJobs` | the table and its SQL statements, each an atomic action | `src/database/queries/device-sync-jobs*.ts`, `src/database/schema/device-sync-jobs.ts` |
| `DeviceSyncQueue` | the calls that enqueue, the timer that asks again, the worker loops, reaper, shutdown, crash, administration, and the person and reader a job is about | `src/device-sync-queue/*.ts`, `src/face-sync/face-sync.service.ts` (enqueue), `src/face-sync/face-sync.listener.ts` (timer) |
| `ReaderTickets` | what the gate promises: at each reader, syncs go in one by one in the order in which they arrived | |
| `ReaderSyncGate` | the gate, the microtasks between its awaits, and the batches that feed it | `src/common/concurrency/*.ts` |
| `FaceAccess` | the face of one registration on the readers, and everyone who may put it there or take it away | `src/child-approvals`, `src/visitor-approvals` (policy, revocation, listener), `src/face-sync/child-approval-removal.service.ts`, `src/registrations/registrations-admin.service.ts`, `drizzle/0090`, `drizzle/0093` |
| `ApprovalRequests` | the requests for consent, the outbox that mails them, acceptance, expiry, revocation | `src/child-approvals/child-approvals.service.ts` and its queries, the visitor twins, `drizzle/0090`, `drizzle/0093` |
| `ReaderLedger` | what a reader holds and what `person_reader_sync` says it holds, the jobs of people and of the reader, the age policy | `src/face-sync/*.ts`, `src/device-sync-queue/device-sync-handlers.service.ts`, `src/readers/readers.service.ts`, `src/database/queries/person-reader-sync.queries.ts` |
| `DeviceStream` | the stream (or poll) kept open to a reader or camera, its timers, its alarm | `src/face-listener/face-listener.service.ts`, `src/lpr-listener/lpr-listener.service.ts` |
| `AccessLog` | the accesses at one device on their way from stream, poll and push into a document | `src/face-listener/face-listener.service.ts`, `src/lpr-listener/lpr-listener.service.ts`, `src/accesses/accesses.service.ts`, `src/lpr-accesses/lpr-accesses.service.ts`, the push receivers |
| `DeviceSyncOrderProofs` | theorems about `DeviceSyncQueue`: what reaches the reader, and when | |
| `DeviceSyncQueueProofs`, `ReaderSyncGateProofs`, `FaceAccessProofs`, `ReaderLedgerProofs`, `AccessLogProofs`, `ApprovalRequestsProofs`, `DeviceStreamProofs` | theorems about the module of the name | |
| `MCDeviceSyncQueue`, `MCReaderSyncGate`, `MCFaceAccess`, `MCApprovalRequests`, `MCDeviceStream`, `MCReaderLedger`, `MCAccessLog` | instances for TLC | |

How they fit together.  `DeviceSyncQueue` extends `DeviceSyncJobs`; `ReaderSyncGate` implements
`ReaderTickets`.  The other five look at the system from one person, one reader or one device, and
keep of their neighbours what they need of them: `ReaderLedger` keeps of the queue that jobs of a
target run one by one in the order of their rows and that a job whose process died is queued again
(what `DeviceSyncQueue` checks), and of the gate that a reader serves one call at a time (what
`ReaderSyncGate` proves); `ApprovalRequests` keeps of the registration in which of four stages it
is; `FaceAccess` keeps of the requests that an adult may consent; `AccessLog` keeps of `DeviceStream`
whether there is an open stream, a poll or nothing.

### DeviceSyncQueue: state and actions

* `job` is the table, `claims` counts first claims so that `started` orders them as `started_at`.
  Ids are taken in increasing order, so `j < i` means an earlier `created_at`.  `fresh` abstracts
  `heartbeat_at`: it says whether the last heartbeat is younger than `STALE_AFTER_SEC`.  `ver`
  abstracts the payload: the number of the request whose state of the person it carries.
* `proc`, `worker`, `abandoned` are the processes: `draining` is a process after SIGTERM,
  `released` one whose grace period is over and which has given its jobs back but still runs.
  `worker[w].pc` is where `runJob` is between two awaits; `polling` is a claim in flight when the
  process was told to stop.  `abandoned` holds the rows `maintain()` ended and has yet to persist.
* `req` and `admin` are the HTTP calls in progress.
* `entity` is `device_sync_status` of the person, `wanted` the number of its last request, `device`
  the request whose state the reader holds, `eligible` whether the person is still active with the
  same face (the handler skips the others).
* `Reconciled` are the dedupe keys of persons who are approved registrations: for them
  `FaceSyncListener` asks again, at boot and every five minutes, as long as somebody of the client is
  `pending_sync` (`ReconcileReads`, `ReconcileAsks`, which reads the person again).  Members,
  students, responsibles, guests and registrations that are blocked have no such timer: their keys
  are outside `Reconciled`.
* Jobs are of kind `face.person`, the only kind whose end is written back on a person.  The other
  kinds share every statement on the table and differ in their handlers.

An action is one SQL statement together with the code up to the next await.  `Ask` is
`enqueueApprovedRegistrationJob` up to its first query; `FindActive`, `MergeQueued`,
`InsertOrCatch`, `FindRaced`, `MergeRaced` are `enqueue()`; `ReconcileReads` and `ReconcileAsks` are the
list the timer reads and one registration of it; `Claim` to `Settle` are `loop()` and
`runJob()`; `Reap` and `PersistAbandoned` are `maintain()`; `Stop`, `Drained`, `GraceOver`, `Exit`
are `onModuleDestroy()` and the end of the process; `CancelRead` to `ClearFailed` are the
administrator's endpoints.  `Faults` selects what the environment may do in an instance.

Each statement is atomic.  For the claim this holds because its sub-select takes the oldest
claimable row of a target with `FOR UPDATE SKIP LOCKED`: another loop that runs at the same moment
either skips the locked row or still sees it as an older queued row, and both keep it from claiming
a younger row of the target.  Recovery re-checks `status = 'running'` in its WHERE and its rows are
evaluated against one snapshot; an enqueue that commits between that snapshot and the update would
make the statement fail on the unique index, be logged, and be tried again at the next tick.  Two
inserts whose `created_at` order differs from their commit order are not modelled.

### ReaderSyncGate: state and actions

* A task is an item of a batch, that is one call of `withReaderSyncGate`; a batch is one
  `mapReadersWithSyncGate`, a `Promise.all` over the gate (as many loops as items), or a loop that
  calls it for one person after the other (one loop).
* The gate has no database and no lock: what interleaves are promise callbacks.  `micro` is the
  queue of microtasks, first in, first out; `Begin` and `Answer` are inputs and only happen when it
  is empty, as the event loop has it.  `ticks` counts the promises between a settled one and the
  `await` that goes on: one for an async function that returned, two for `prev.catch(...)` on a
  settled promise, four through `tail = prev.then(() => current).catch(...)`.  Who sees a freed slot
  first depends on these numbers.
* `pc` says where each call is: `behind` another call of its reader (which one is `prev`),
  `waiting` for a slot or about to look for one, `holding` a slot, `running` fn, `settled`, `done`.
  `globalActive`, `globalWaiters`, `readerTail` are the variables of the code.
* `FailEarly` is a sync that settles without input or output, as `syncPersonOnReaders` does when a
  password cannot be deciphered or the image is missing; `ReleaseAndThrow` one whose fn throws.
* `calls`, `rank` (the order of the calls) and `early` (did any sync fail early) are history.

`Tickets` is the refinement mapping: a call takes its ticket in `Call`, goes in when fn begins,
and is gone after the finally block.

### FaceAccess: state and actions

* `status` to `intent` are the columns of the registration, `enable` and `subject` say for whom the
  policy of the client is meant, `consents` are the adults whose consent stands.  `Domain` says
  which of the two policies, for minors and for visitors, the instance has; their services are twins
  (`VisitorAccept` and its siblings map the visitor's code).
* `faceLock` is the advisory lock of the face.  A transaction that waits for nothing but locks is one
  action, enabled when its locks are free.  Two transactions keep a lock while they talk to readers:
  a sync (`sync`, from `SyncStart` to `SyncEnd`) and the removal job (`removal`, which also locks the
  row of the registration).  `job` says that a `face.remove` job is queued.
* `approver` is a call of `approveShared`, which reads, writes and enqueues in four steps; `admin` a
  rejection or deletion by an administrator, which takes no lock.
* `onReader` are the readers that hold the face.  A sync of a person whom no policy touches takes no
  lock (`Tracked`): its pc is `open`.
* `TickReject`, `Complete`, `Resync`, `RemovalEnqueue` are the maintenance tick, every minute, and the
  listeners of the events it makes up for.
* `Overlap` names the edits that may be made while a sync is in flight, see section 5.

### ApprovalRequests: state and actions

* `req` are the rows of `child_approval_requests` of one person (or the visitors' table), `consent`
  the consent given through each of them, `rowLock` the acceptance that holds the row of the person
  while it waits for the face.
* `asker` is a call of `requestEmails`: it reads the open requests once (`Ask`), then goes through
  the adults one by one (`Look`, `Replace`, `PassOver` when the recipient's limit is reached).
* `sender` is a loop of `dispatch`: `Claim` takes a lease, `Send` mails, `Finish` writes.  A mail may
  be reported as failed although it arrived.  A lease lapses whether or not its sender lives.
* `link` are the links that reached their adult; `AcceptCheck` and `AcceptCommit` are the two halves
  of an acceptance.

### ReaderLedger: state and actions

* `device` is the photo the reader holds of each person, `rows` the people of whom
  `person_reader_sync` says `synced`.  `Rekeyed` are people whose every photo has a key of its own
  (registrations); the others overwrite the object under one key.
* `asked` is the payload of the queued job of each person, `jobs` the queued jobs of the reader,
  `sync` the call of `syncPersonOnReaders` each running job makes, `rebuild` the job of the reader:
  the purge of the people the age policy excludes, the reset of a forced rebuild, the list, and one
  sync per person of it.
* `reader.ver` and `reader.st` are the version and the state of the age policy; `tick` is the
  listener between its read and its enqueue; `desk` an operator's request between two awaits.
* `lost` and `corrected` are history: the reader was emptied and nobody has written that down; the
  person became a minor by a correction of the birth date and has not been taken off since.
* `Races` names what an instance allows beyond the rest, see section 5.

### DeviceStream: state and actions

* Between two awaits the service runs alone, so each callback, timer and continuation is an action.
  `conn` is the connection of the newest generation; `stale` are older streams whose callbacks are
  still to come and are told apart by whether anybody can still abort them.
* `timer` is the reconnection timer, `call` what each `subscribeFromDb` in flight has read, `refresh`
  what the refresh of every minute has read, `stagger` a start still to come.
* A Hikvision reader whose alertStream fails `Threshold` times, or has none, is polled: `polling`,
  `busy` (one flag for all generations), `polls` (how many are in flight: a teardown frees the flag and
  forgets nothing of the poll that waits), `answered` (how many of them handle their answer: the status
  follows the answer at once, the flag falls when the last access has been handled), `pollFails`.
* `alarm` is the offline timer, `notified` says that the outage has been told.
* The module is about readers the service connects to.  Readers that connect to the server
  (`auto_register`) and the process with `skipIntelbrasPersistentStream` take the branches of the
  refresh that only keep a status; a reader switched from direct to `auto_register` keeps its stream
  until that ends by itself.
* A camera has neither poll nor alarm; its service is a twin of the Intelbras part (`Camera...`).

### AccessLog: state and actions

* Accesses are numbered as they happen.  The number stands for what all copies of an access have in
  common: the serial number of a Hikvision reader, the correlation id or EventID under which the
  document is stored and the key under which `persistedEventKeys` remembers it.
* `device` is the brand and two habits: `bare`, some accesses come without a picture; `stray`,
  pictures of other events come too.  `wire` are the parts of the stream, `pend` the data that wait
  for their picture (`TextPart`, `ImagePart`, `FlushTimer`, and what `AtStreamEnd` keeps).
* `done` are the keys of `processedHikvisionEventKeys`, forgotten after five minutes (`TimePasses`).
* A search asks the reader for the last ten minutes and gets `maxResults` events, which are filtered
  to accesses afterwards: `Newest`.  `old` are accesses older than the keys remember, `beyond` the last
  access out of a search's reach: too old (`TimePasses`), or behind a page of other events of the door
  (`DoorEvents`).
* A poll is asked, answered, and hands its accesses on one by one, awaiting each (`PollAsks` to
  `PollEnds`); `busy` is one flag for all polls of a reader, and a teardown frees it while one is in
  flight.
* `chain` are the calls of `recordSnapManagerAccess` or `recordLprReading`, each of which begins when
  the one before it has returned; `Begins` is the look at the keys, `Writes` the upload, the upsert,
  the key and the event, `Drops` every way to end without a document.
* `docs` says whose picture the document of an access shows; `told` and `lost` are history.

## 4. Runs

| Run | Instance | Shows |
|---|---|---|
| `queue_safety` | two processes, one loop each; two jobs, two requests for a registration and its timer; crash, shutdown, cancel, deletion | the safety of the table and of the reader |
| `queue_races` | two concurrent calls for a person without a timer, one process; stalls, cancels, withdrawals; fairness | `EndedIsFinal`, `PendingIsSettled` |
| `queue_faults` | a registration, its request and its timer, two processes, two attempts; crash, shutdown, dropped call, retry, database error; fairness | `EveryJobEnds`, `QueuedIsRunnable`, `RegistrationIsSettled` |
| `gate` | three batches of three, three and one syncs over five readers, all meeting at one; limit 2; fairness | the gate keeps the order of `ReaderTickets`, counts its slots, loses nobody, serves every call |
| `face_access` | both policies, one adult, one reader, one sync, one approver, two edits; fairness | an unauthorized face is owed a removal and leaves, a removal never hits who is authorized, flags and intentions are kept, an answered approval is completed |
| `approval_requests` | one adult, two requests, one asker, two senders, two attempts; fairness | a link revokes, consents are of eligible adults, everybody is asked |
| `device_stream` | a reader of each brand or a camera, two addresses, two calls in flight, the code's threshold of three | the device is tended, followed, and its outage told |
| `reader_ledger` | one person, two events; fairness | the ledger is true, the age policy shown as applied is applied, the reader settles |
| `access_log` | an Intelbras reader, a Hikvision reader (two kinds) or a camera, two accesses, two polls in flight, one result per poll, two faults; fairness | an access is told once, no document shows another's picture, what was handed over is recorded |
| `finding_shutdown_cancel` | shutdown and cancel of one job | violation, section 5 |
| `finding_two_keys` | two dedupe keys of one person, no fault | violation, section 5 |
| `finding_ceiling` | the instance of `gate` | violation, section 5 |

Bounds of the queue.  `Job` bounds the rows ever inserted, `MaxRequests` the requests for one person.
Two rows are what it takes for a queued twin beside a running row, for a successor and for a
reordering; three attempts is the code's own bound (`queue_faults` has two, which a crash and a
shutdown can use up); two processes are one that leaves and one that takes over.  The number of
claims needs no bound since attempts are bounded.  `RowLeft` lets a call begin only when the table has
a row for it; it bounds the timer, which has no bound of its own.  `RegistrationIsSettled` therefore
speaks of registrations for whom a row is left: in `queue_faults`, of one whose request used one row
at most, so that one outcome was lost or none.  Each fault is in at least one of the three runs, not
every pair of them: `queue_safety` has neither a stall nor a retry (the table of section 5), `queue_races`
no crash, since what a dead process owed a member nobody gives (section 5).

In the instance of the gate one reader gets a line of three, which is what it takes to forget the
end of a line too early, and five syncs compete for two slots: two that hold them, two that wait and
one that arrives.

The bounds `MaxEdits` and `MaxEvents` of the other modules count what people and faults do; what the
program does is never bounded by them.  Two edits are a change and a second one that meets it; every
mutant of section 4's properties needs at most that many.

`FaceAccess` runs small, one adult and one reader, because its four properties about access are proved
for every value of the constants.  Its safety was also checked once with two adults and two readers
(458 thousand states up to symmetry), its liveness with the policy for minors, two adults and three
edits, and the whole with four edits and two adults of that policy (2.4 million).

`AccessLog`: two accesses are one and the next one that takes its place in `pend` or moves the
cursor past it; one result per poll makes an access that falls out of the answer possible; two polls
are one left over from before a teardown and the one beside it.  It was also checked with Intelbras
readers that send accesses without a picture (334 thousand states).

`ApprovalRequests` keeps one adult since nothing relates the rows of two adults but the count of
consents; two adults with two requests and one sender were checked exhaustively for safety (4.2 million states), two
adults with three requests over the first 11 million states.  `MaxTries` is 8 in the code: the
second attempt is the first that can meet the lease of an earlier one.

`DeviceStream` has two addresses (the old and the new one) and two calls of `subscribeFromDb`, since
a timer may fire while the call of an earlier one still reads; three edits are a move, an outage and
a recovery.  `MaxPolls` is two, one left over from before a teardown and the one beside it, and below
the threshold: a poll gives up after 12 seconds (`hikvision-isapi-request.ts:16`) and the refresh that
tears down runs every 60, so that three of one reader are not left over at once.

`ReaderLedger` runs with one person whose photos have keys of their own.  Its safety was also checked
exhaustively with three events for that person (3.9 million states), and in an instance that bounds
edits and faults apart (three edits, one fault) for both kinds of person (13 and 15 million); with
two people and two events over the first 10 million states; its liveness with two people and one
event.

Fairness of the gate: microtasks run, and a device answers; the HTTP clients of the devices have
timeouts of 8 to 30 seconds and the pool has a `statement_timeout`, so fn settles one way or the
other.

Fairness of the queue (`FairSpec`): an accepted call continues, a loop polls and runs its job, time passes for a
lease nobody renews, the maintenance timer fires and persists what it recovered, the shutdown clock
runs, the administrator's call continues.  `TimerSpec` adds two things for registrations: the timer of
`FaceSyncListener` fires and gets to the registration (`ReconcileReads`), and the process that serves a
call does not die every time (from some moment on no call is dropped).  The first one takes that the
enqueue of no other registration of the client throws, see section 5.  No fairness on faults, on new requests, on heartbeats:
a stall may last for ever.  `SomeoneElseUp` keeps one process up, as a deployment does: with no
process nothing could end.

Fairness of `FaceAccess` and `ApprovalRequests`: the tick is a timer, workers run their jobs, and who
waits for a lock of Postgres waits in a queue and gets it (strong fairness, for the lock is free
again and again).  A reader may fail again and again, but one that is asked for ever answers in the
end (strong fairness of `RemoveReader`): without it no program could take a face off.  Nothing is
assumed of people: the adults may never answer, an administrator may never come back.  In
`ApprovalRequests` leases lapse, mail that failed is due again after its delay, and a call of
`requestEmails` ends.

Fairness of `DeviceStream`: timers fire, reads of the database and polls come back, an attempt to
connect succeeds or fails, the stream of a reader that is down breaks (TCP keep-alive), and of the
attempts at a reader that answers one succeeds in the end.

Fairness of `AccessLog`: a call of the chain goes on, an accepted picture is fetched or given up, the
interval of the poll fires, and of the polls of a reader that is there one is answered (strong
fairness: a poll may fail again and again).  Nothing on the device, on pushes or on faults; a stream
that is silent may stay so.

Fairness of `ReaderLedger`: jobs run, an operator's call continues, the listener's timer fires, days
pass.  Nothing on people and faults.

`CHECK_DEADLOCK FALSE` where the system may rest: when everything asked for is done and the edits
are used up, nothing is left to do.

## 5. What the checks show

The table's invariants hold through every combination of crash, stall, shutdown and cancel.

The gate keeps its promise for each reader in every interleaving of microtasks, and loses neither a
slot nor a waiter when syncs fail or throw.

Three disagreements have a run each:

* `finding_shutdown_cancel`: a comment of the administration service says a registration must not
  stay pending for ever after a cancel.  When a cancel request meets the end of the shutdown grace
  period, `recoverRunning` ends the row as canceled and `onModuleDestroy` ignores what it returns;
  nobody tells the person, and the row is no longer there for the reaper.  An approved registration is
  found by the timer within five minutes (`RegistrationIsSettled`; the `PendingWillSettle` of this run
  leaves registrations out).  The comment stands in `persistCanceled`, which serves every kind of
  person, and for the others it is not so: members, students, responsibles, guests of invitations and
  pickups (`enqueuePersonSync`, `face-sync.service.ts:1165`) have no timer, and the timer lists only
  registrations whose status is `approved`, so that one that is blocked is left as well.
* `finding_two_keys`: the queue promises that the last state wins while a job has not started.  One
  person has several dedupe keys (plain, forced, photo only); the newest state is merged into the
  oldest row, which runs first, and the younger row then writes its older state.

* `finding_ceiling`: the gate says it limits the concurrency over all readers to 2.  A sync that
  fails before any input or output frees its slot in the same drain of the microtask queue in which
  a new call is about to look at `globalActive`; the call takes the slot, and the waiter, already
  resolved, counts itself in without looking.  As long as every sync reaches its device the limit
  holds (`CeilingUntilEarlyEnd`).

Found with TLC while modelling, without a run of their own:

* `docs/device-sync-queue.md:29` says the dedupe key is unique while queued or running; the index
  (`drizzle/0079`) only covers queued rows, on purpose: a request made during a run must not be lost.
* `cancel()` may answer "Este job já terminou." for a row that was requeued between its read and
  its statement.
* `locked_by` is the process, not the loop: a loop that lost its lease to a sibling of its own
  process keeps renewing and may finish the sibling's lease.
* `retry` enqueues the old payload, and the merge writes it over a newer one that waits.
* A crash between `finish(failed)` and `persistFailedFacePerson` leaves the person pending, or with the
  outcome of an earlier run; a pending registration is asked for again by the timer, a member is not.
* A failed row that is cleared between its recovery and `persistAbandoned` leaves a member pending.
* An administrator's cancel shows a registration as `sync_failed`, which the timer lists too as long as
  somebody of the client is pending: it is then asked for again within five minutes.
* An error thrown by the enqueue of one registration ends the timer's pass over that client: the
  registrations behind it, which are the older ones, are not asked for as long as it is thrown.

The properties about the person are stated with what the code can promise: `SyncedIsCurrent` when
no process was lost and the person's newest job was done, `DeviceNeverGoesBack` except while a
process that gave its jobs back has not exited yet.  Both need more, and TLC shows what, by adding it
to the instance of `queue_safety` alone:

| Added | `DeviceNeverGoesBack` | `SyncedIsCurrent` |
|---|---|---|
| a second call for the person while one is in progress, the timer's own being one from when it has read the person | violated: the call that read the older state writes the payload last | violated |
| a loop that stalls | violated: it goes on after its row ran again | violated |
| a retry of an ended job | violated: it enqueues the old payload | violated |
| a second dedupe key of the person | violated (`finding_two_keys`) | not with two jobs |
| a database error in the handler, a dropped call, a person withdrawn meanwhile | holds | violated, by each |
| a crash, a shutdown, a cancel, a deletion | holds | holds |

### Restrictions of the instances, and what lies behind them

Some modules have a constant that widens the model by what the code does and a property does not
survive.  The runs leave it empty; each name below, put into it, gives TLC a violation in the number
of steps shown.  The theorems state which of them they exclude.

`FaceAccess`, `Overlap`: edits while a sync is in flight.

* `"protect"` (11 steps): a person enters a policy while a sync that took no lock, since no policy
  touched the person when it started, still writes.  The removal job meets no lock, takes the face
  off and clears its flag; the sync then writes it again.  `Serialized` and `FlagFallsWhenDone`
  fail, against `child-approval-policy.service.ts:105`, "Serialize sync and consent changes across
  API/worker instances."
* `"lift"`: a policy is lifted while a sync is in flight (it is switched off, the person comes of age
  or is no visitor any more); what the sync was allowed to do is judged by what holds later, and
  `AccessIsOwed` fails when the policy comes back.
* `"remove"`: an administrator's rejection or deletion takes no lock; a sync that started before it
  writes after it, and no flag is set.
* Two approvers: `ApproveClear` wipes whatever intention there is by then, also one that a later
  rejection and renewal has set (compare `revocation.service.ts:54`).

`ApprovalRequests`, `Overlap = {"expire"}` or two askers: a link that expires between the check and
its use, or a request that is replaced while its acceptance waits for the face, ends accepted and
canceled at once, or accepted without a consent: `LinkRevokes` fails, against
`child-approval.util.ts:73`, "Posso revogar meu aceite pelo mesmo link".

`ReaderLedger`, `Races`: each breaks `LedgerIsTrue` (`docs/device-sync-queue.md:34`, "Progresso por
dispositivo (fonte de verdade)").

| Race | Steps | What happens |
|---|---|---|
| `"policy"` | 14 | an operator edits the age policy or the activation of the reader while a purge and a sync are at work: purge and sync go by different limits, and a row stays for a face that was removed, or goes while the face stays |
| `"birth"` | 14 | the same through a corrected birth date |
| `"photo"` | 8 | the object under a person's one key is replaced while a sync or a listed rebuild is at work, and the job of the change is cancelled or fails |
| `"empty"` | 10 | the reader is wiped while a sync writes; the rows are deleted afterwards or not |
| `"resync"` | 7 | a request to go on replaces, or follows, a request to start over whose job had not run: the rows of the old photo stay (`device-sync-queue.service.ts:37`, "Último estado vence enquanto o job ainda não começou.") |
| `"crash"` | 8 | the process dies between the removal from the reader and the removal of the row |
| `"seed"` | 6 | a forced sync of a person without rows takes every reader the last partial error does not name as synced, without writing (contrary to the test `face-sync.service.spec.ts:737`) |

`DeviceStream`, `Faults`.

* `"credential"` (6 steps): a password that cannot be deciphered at the moment of a reconnection ends
  the chain: no timer is left, and `Tended` fails.  The refresh finds the address unchanged and does
  nothing; the safety net for Intelbras readers needs `streamAbortByReader` to be empty, which it is
  not.
* `"crowd"`: with more Hikvision readers than start within the first minute (staggered by half a
  second) a start that comes after the first refresh uses the address read at boot; `ShownIsUsed`
  fails.

`DeviceStream`, `MaxPolls` not below `Threshold`: `subscribeHikvisionPoll` does not look at the
generation after its await, so polls left over from teardowns count their failures against the reader.
As many of them as the threshold, failing while a new alertStream is open, show that reader as
disconnected; `ShownIsUsed` fails.

`AccessLog`, `Devices`: `PhotoIsOwn` holds for a device that sends either accesses without a picture
or pictures without an access.  For one that does both, the picture of another event completes the
access that waits: after 8 steps for a Hikvision reader (within the 800 ms of the timer), 9 for an
Intelbras reader (at any time), 10 for a camera, whose pending reading survives the end of the stream
and the teardown (`lpr-listener.service.ts:280`, `:515`, `:257`) and takes the first picture of the
next stream.

`AccessIsRecorded` speaks of polls only while none is left over from before a teardown
(`NoLeftover`).  `teardownReader` frees `hikvisionPollInFlight` and forgets the cursor while a poll
waits for its answer; a first poll of the old connection that is answered late places the cursor of
the new one behind accesses nobody has handled (`face-listener.service.ts:907`, `:1477`).

### Further observations

* A database error in `subscribeFromDb` is not caught and ends the process (`Restart`).
* A reader that was never up since the start is never reported; a polled reader counts as connected
  before its first poll has come back; nobody is told of the outage of a camera; a camera that moved
  is shown as connected until its next connection, and keeps its timer.
* The rebuild of one reader persists the person's summary as `synced` without an error, over a
  partial error of another reader (`docs/device-sync-queue.md:42`).  A person whose photo cannot be
  read stops the rebuild for everyone after it.  A rebuild that runs while a person's new photo
  waits shows the person as synced for a while.
* A photo changed while a reader is inactive leaves the row of that reader as it was; a rebuild that
  does not start over passes the person over when the reader is back.
* An edit of a plate (`vehicles.service.ts`) takes the old plate off the cameras, leaves
  `vehicle_camera_sync` as it is and asks for a sync without a reset: the new plate is never written
  and yet shown as synced.
* Lock-order deadlocks between transactions are retried by `retryTransaction`; the models cannot
  show them since a transaction is one action.
* Accesses.  A poll asks for the last ten minutes (`face-listener.service.ts:1455`) and takes 30 events
  of the door, accesses or not (`hikvision-events.client.ts:293`): of a reader that is only polled, an
  access whose polls fail for ten minutes, or that 30 other events follow before the next poll, is
  lost.  `AccessIsRecorded` promises nothing for it (it is not in `Newest`).  The first poll of a
  connection swallows what it finds.  The serial number that the cursor compares starts
  again when a reader is reset.  A clock that is not plausible gives each copy of an access another
  key.  A failure of Mongo loses the access: the key of a Hikvision event is set before it is
  persisted, and a push is answered with 200 first; a failed lookup of the person drops a blocked
  attempt.  After a restart a copy without a picture overwrites `snapR2Key`.  The maps of keys are
  never pruned, and a second process tells of an access again.
* The unique index of accesses is sparse (`access.schema.ts:97`), but compound: it admits one
  document without a correlation id per reader, so that of the remote openings of a reader (and of
  accesses without a key) the second insert fails and is only logged.
* Invitations and pickups.  The faces of guests are approved, rejected and cancelled by a read and
  an unconditional write.  A cancelled pass has its face removed only if its sync had ended as
  `synced`; the deletion of an active pass removes the face and then answers 400; a renewal after a
  cancel gives a valid pass without a face; a renewal does not renew the validity on the reader.

## 6. Proofs

`DeviceSyncQueueProofs` proves, for any number of jobs, keys, targets, processes, loops, callers,
attempts and any set of faults, type correctness, the three invariants of the table
(`OneQueuedPerDedupe`, `OneRunningPerTarget`, `QueuedIsRunnable`) and the two action
properties `EndedIsFinal` and `SupersededHasSuccessor`.

The argument: every action performs at most one statement on the table (`StepIsTableStep`), and
every statement keeps `TableInv` (`TableInvStep`).  The inductive invariant `IInv` is `TypeOK` with
`TableInv`, whose parts need each other: recovery keeps the queued keys apart because two rows of a
key never run at once (`OneRunningPerTarget`) and because a waiting twin ends the row as
superseded; the claim stays within `MaxAttempts` because what waits has an attempt left
(`QueuedIsRunnable`); a retry has a key because a row that was ever inserted has one
(`LiveHasKey`).  A by-product: the `rn > 1` clause of `recoverRunningJobs` is never what ends a row,
since two rows of one key never run at once.

`DeviceSyncOrderProofs` proves, for any number of jobs, targets, processes, loops and callers, the two
properties about the reader, under hypotheses that the table of section 5 shows to be needed: one
dedupe key per target (`OneKeyPerTarget`), one call per target at a time (`OneCallPerTarget`, an
assumption about the behaviour, since it is about who asks; the timer's call counts from when it has
read the person, not while its registration is only on the list), and no stall or retry.
`ReaderNeverGoesBack` then holds through every other fault.  `RaceInv` adds four parts to `IInv`.
`OwnInv`: a loop of a process that has not given its rows back holds the lease of its row, and nobody
else does.  `AskInv`: a call holds the last request of its target.  `KnownInv`: nothing is newer than
the last request.  `OrderInv`: the reader and every loop that may still write it, also one left over
from a process that died, are behind the live rows of the target, and the loop that owns the row is
ahead of the reader and of the leftovers.  The step that needs them all is the claim: the row claimed
is the only live row of its target, so what it holds is ahead of all that ran.

`SyncedHoldsLastRequest` proves `SyncedIsCurrent` with no database error, dropped call or withdrawal
besides.  Until a process is lost, `Tidy` holds: rows of a target are used in the order of their ids
and nothing older than one that runs or is done is live (`RowInv`), every running row is executed
with the payload it holds (`LoopInv`), what a call found is what is there (`CallInv`), the newest row
holds the last request unless a call is on its way to it (`LastInv`), and whoever shows the person as
synced left that payload in the reader (`LoopShows`, `RowShows`).  Once a process is lost it stays
lost, and the property promises nothing.

`ReaderSyncGateProofs` proves, for any batches, readers, concurrency and limit, that the gate
implements `ReaderTickets` (`GateKeepsOrder`), that two syncs never run at one reader
(`ReadersRunAlone`), that `globalActive` is the number of calls that hold a slot (`SlotsAreCounted`),
that it stays within the limit until a sync ends early (`CeilingHolds`) and type correctness.  `GateInv` has four parts beside the types.  `Consistent`: the microtask
queue and the waiters mention a call at most once and only with what it waits for, so that no call
goes on twice.  `LineInv`: a call that others of its reader precede awaits one that has not left
(`InLine`), and `readerTail` is the last of the line or empty (`TailIsLast`), which is why forgetting
it in the finally block lets nobody overtake.  `SlotInv`: the count.  `CeilingInv`: until a sync ends
early, a finally block is alone in the queue of microtasks, and the waiter it wakes is the next to run
and finds its slot free, so that nobody looks at `globalActive` between the two.  The step of the
refinement has one lemma for each abstract action (`MapsToArrive`, `MapsToEnter`, `MapsToLeave`) and
one for the steps inside the gate.

`FaceAccessProofs` proves, for any adults, readers, syncs, approvers and number of edits, type
correctness and, under `Overlap = {}`, the four safety properties about access: `AccessIsOwed`
(`RemovalIsOwed`), `ValidAccessKept` (`AccessIsKept`), `Serialized` (`SyncAndRemovalExclude`) and
`FlagFallsWhenDone` (`FlagIsKept`).  The inductive invariant `AccessInv` has nine parts.  `LockHeld`: who
writes or removes holds the lock.  `TodoIsOwn`: only who writes has readers left.  `RemovalInv`: the
face can only be on readers the removal still has to do.  `AdminInv`: an administrator's removal
excludes syncs.  `FlightInv` and `WriteInv`: a sync in flight still has what allowed it, or a flag is
set.  `ConsentInv`, `PresentInv`: what must hold of the flags while the face is somewhere.  They need
each other: `AccessIsOwed` survives the commit of the removal job only because nobody else could
have written meanwhile.  `IntentKept` (`IntentionsAreKept`) is proved for any `Overlap` when at most one
call of `approveShared` is in progress for a registration: a call past its commit finds no intention
to wipe once the registration is rejected (`WipeInv`).

`ReaderLedgerProofs` proves type correctness for any constants and, with neither `"policy"` nor
`"birth"` in `Races`, `AppliedIsClean` (`AppliedPolicyHolds`): a minimum age shown as applied is
applied, for any number of people and jobs, through crashes, failures, cancelled jobs and the five
remaining races.  `LedgerInv` says that no job is of a later version than the reader
(`VersionInv`), that a write in flight is of somebody the policy allows (`WriteInv`), that past the
purge of a job of the current version nobody excluded is left (`PurgeInv`), and the property
(`CleanInv`).  With `Races` empty it proves `LedgerIsTrue` (`LedgerHolds`); each of the seven races
alone breaks it, so nothing weaker would do.  `TrueInv` says that everybody who is busy with a person
carries the current photo (`SyncPhotoInv`, `AskedPhotoInv`, `ListInv`) and agrees with the policy
(`WriteInv`, `OffInv`), that a sync records what it wrote (`RecordInv`), and that a row whose photo is
not on the reader waits for a reset (`LateInv`): its person is not shown as synced, no rebuild has
listed the current photo, and whatever job or sync there is will delete the rows before it reads
them.

`AccessLogProofs` proves type correctness and `ToldOnce` (`AccessToldOnce`) for any devices, accesses,
polls, results and faults, and `PhotoIsOwn` (`PicturesAreOwn`) for devices as in the run
(`StraysAreKept`).  Types need to know that a poll in flight waits for at most one access
(`AwaitInv`) and where it began (`PollInv`).  `ToldOnce` holds because only the first call of the
chain writes, and of an access not yet known (`WriterInv`), and because what was told is known
(`ToldInv`).  `PhotoIsOwn` rests on the order of the parts on the wire (`PairInv`): a picture follows
the data of its access, a strange one follows a picture; and on `RestInv`: when the stream of a
reader with strange pictures is silent, nothing waits.

`ApprovalRequestsProofs` proves, for any adults, requests, loops of the outbox, attempts and edits,
type correctness and `ConsentsAreEligible` (`ConsentsStayEligible`), whatever overlaps: an acceptance
that waits for the face is of an open request of an adult of the unit (`LockInv`), since whoever takes
the adult away or cancels the request waits for the row.  `LinkRevokes` (`AcceptanceCanBeRevoked`) is
proved under `Alone`: one call of `requestEmails` at a time, and no expiry or change of policy between
a check and its use, the conditions of the run.  The invariant `Linked` relates what each part has
read to what is in the rows by then: whom `requestEmails` is about to ask has neither a good request
nor a consent (`SeenInv`), so the request it cancels was never accepted or is revoked; an adult has
one open request, and none beside a consent (`OneOpenInv`), so an acceptance finds no other consent
in its way; and a request accepted while its mail is prepared was good (`SenderInv`), so the outbox
does not cancel it as stale.  Without either half of `Alone` the property fails (section 5).

`DeviceStreamProofs` proves, for any addresses, calls of `subscribeFromDb`, thresholds, edits and
faults, type correctness, `OutageIsMarked` (`OutagesAreMarked`) and `NoLeak` (`StreamsAreAborted`: what
is opening or open can be aborted, whichever way it began), and `Tended` (`ReadersAreTended`) unless
passwords become undecipherable.  Whatever a callback or a refresh shows of a reader is a view that
may be shown (`Fine`, kept by `Seen`): connected without an alarm, or down with an alarm, a notice or no
history.  `ShownIsUsed` (`StatusIsTrue`) is proved without `"crowd"` and with fewer polls in flight than
the threshold; its half about the address (`AddressIsTrue`) for any number of them.  `ShownInv` says
that before the first refresh a staggered start finds nothing under way and the address it was given
(`StaggerInv`), that of a reader which is not polled each failure counted was a leftover poll
(`LeftInv`), of which there are then too few to darken a stream that is open (`OpenInv`).

Assumptions: `GateAssumption`, `JobsAssumption`, `QueueAssumption`, `FaceAccessAssumption`,
`LedgerAssumption`, `AccessLogAssumption`, `ApprovalRequestsAssumption`, `DeviceStreamAssumption`, all
about the types of the constants (and at least one attempt); `DeviceStreamAssumption` also says that
`None` is neither a row nor a status.

Every invariant and every action property the passing runs check is thereby proved, under the
conditions named.  What a theorem excludes by a hypothesis is excluded from the runs too, or is shown
in section 5 to be a violation.

Only model-checked: everything temporal under fairness, since liveness is out of the prover's reach,
and so is ENABLED: `EveryJobEnds`, `PendingIsSettled`, `RegistrationIsSettled`, `EveryCallLeaves`, `UnauthorizedFaceLeaves`,
`AnsweredIsApproved`, `EveryAdultIsAsked`, `FollowsRow`, `OutageIsTold`, `ReaderSettles`,
`AccessIsRecorded`.

## 7. Not modelled

* Of the modelled parts: the results of a batch of the gate; several processes at one reader (the
  gate lives in one of them); the progress counters, `createdBy`, the in-memory persist hooks (their
  effect is that of `persistFacePerson`) and the SSE views of the queue; the failure of the enqueue
  in `ReadersService.update`; the image variants and the duplicate faces of a sync; the check of the
  CPF with its lockout, a change of the e-mail address, an inactive client, the preview and the
  history of approvals; the fields of an access, the presence of gateways, remote openings.
* The jobs `lpr.vehicle`, `lpr.camera` and `face.school`: their handlers follow `face.person` and
  `face.reader` without consent, age or photo.
* Presence and arrivals: upserts of a day, which take an access as it comes.
* Invitations and pickups: every operation is a read and a write of one row; the observations above
  come from reading them.
* Everything else in the table of section 1, with the reason in `PROJECT.json`, `components`: most of
  the source is CRUD with its DTOs and queries, the protocols and the decoding of the devices,
  parsing and formatting.  What can go wrong there is found by tests, and a model would repeat the
  code line by line; the models cover the smaller part where order and failure matter.
