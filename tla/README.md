# blank-one in TLA+

blank-one is one Go process that stands between browsers, worker processes and
MongoDB-backed stores.  It serves HTTP and WAMP to browsers, hands work to
worker processes over a second WAMP endpoint, and holds what used to be a
separate service registry: sessions, configuration, named locks, local storage.
This directory models its concurrent core in TLA+, model-checks it with TLC and
proves its main invariants with TLAPS.

## 1. The system

| Component | Source | State | Operations |
|---|---|---|---|
| Task queue | `vendor/.../blank-router/taskq` | `mainQueue`, `extraQueue`, `shiftQueue`, `resultChans`, `rotten` per task | `Push`, `PushAndGetResult`, `Shift`, `UnShift`, `Done`, goroutine `queuing` |
| Worker server | `intranet/server.go` | `workerTasks` (local to `taskWatcher`), `taskWatchChan`, two callback channels | `task.get/done/error`, `cron.run`, `publish`, `com.stores`, connect and disconnect callbacks, `taskWatcher` |
| Named locks | `vendor/.../blank-sr/sync/mutex.go`, `sr/srserver.go` | `lockers`, `lockersCounters`, `owners2Lockers`, `mutexLocker` | `sync.lock`, `sync.unlock` (`UnlockForOwner` has no caller) |
| Once | `vendor/.../blank-sr/sync/once.go` | ids with an expiry | `sync.once` |
| Scheduler | `scheduler/scheduler.go` | `storeSchedulers` (cron per store), `runningTasks` | configuration update, cron tick, end of a run |
| Sessions | `sessions`, `vendor/.../blank-sr/sessionstore` | map of sessions, copy in bolt, connections and subscriptions of each | new, check, delete, subscribe, unsubscribe, lose a connection, expiry, load at start |
| WAMP hub | `vendor/.../wango` | connections, subscribers under `subscribersLocker`, a bounded send channel per connection | connect, call, subscribe, publish, event, disconnect |
| Configuration | `vendor/.../blank-sr/config`, `intranet/intranet.go` | the configuration, list of update handlers, versions whose migration ran | init, reload, register a handler, run migrations |
| Assets | `appconfig` | `lib.zip`, `assets.zip`, the file systems made of them | upload, make, serve |
| HTTP server | `internet` | the router, the stores mounted in it | login, logout, JWT check, REST, actions, hooks, files, redirects |
| Browser WAMP | `internet/wamp.go`, `internet/subhandlers.go` | subscriptions recorded in sessions | subscribe, call, close callback |
| Registry | `vendor/.../blank-sr/registry` | services and their ports | register, list |
| Local storage | `vendor/.../blank-sr/localstorage`, `bdb` | a bolt bucket | get, set, remove, clear |
| Start, logging | `main.go`, `logging` | none | start |

How they meet.  Every request that needs user code becomes a *task*: the HTTP
handlers, the browser WAMP handlers, the scheduler, the migrations and `cron.run`
all call `taskq.Push` or `PushAndGetResult` and wait.  A worker calls `task.get`
on its connection; the handler blocks in `Shift`, tests that the connection is
still there, tells `taskWatcher` and answers.  `task.done` calls `Done`, which
wakes the submitter, and tells `taskWatcher` too.  If the connection is lost,
`taskWatcher` answers its tasks with "connection with worker lost".  Workers also
call `sync.lock`, `session.*`, `register` and `publish` on the same endpoint, and
each call is a goroutine of its own (`wango handleRPCCall`), so every pair of
handlers interleaves.  A configuration update runs the registered handlers one
after the other (scheduler, routes, migrations, subscribers).

Where it is hard, and what makes each part correct:

* *Task queue*: a task moves between two channels, one goroutine and many
  callers.  Correct when no task is copied or dropped, when one `Done` at most
  answers, and when a timed-out task that is still queued is never run.
* *Worker server*: `taskWatcher` learns things late and out of order.  Correct
  when it knows of every task somebody waits for, answers the tasks of a lost
  worker, answers no others, and does not die.
* *Locks*: `Unlock` waits for a token with `mutexLocker` locked, and channels are
  dropped from the map by a count.  Correct when a lock has one holder, no
  request is left on a dropped channel, and `mutexLocker` always comes back.
* *Scheduler*: updates replace marks while runs go on.  Correct when a task that
  does not allow concurrency has one run at a time.
* *Sessions*: pointers into the map outlive a delete, and a save may follow it.
  Correct when a deleted session is not valid again, after a restart either.
* *Hub*: a handler that waits under `subscribersLocker` holds up the disconnects
  of the same hub.  Correct when a disconnect is always handled in the end.
* *Configuration*: versions are tested and recorded in two steps.  Correct when
  a migration runs once for a version.
* *Assets*: uploads and readers share files.  Correct when what is served is one
  archive, and when the workers end up with what is served.
* *HTTP server*: each handler is a chain of checks, a task and a reply, and many of
  them meet in sessions and files.  Correct when a session that is over lets nobody
  in, when a reply tells what was done, and when a request is answered in the end.

`PROJECT.json` lists the hazards at their lines with the properties that cover
them.

## 2. Modules

| Module | What it is |
|---|---|
| `TaskService` | abstract: what the queue promises to a submitter |
| `TaskQ` | the task queue; `ImplementsService` is the refinement |
| `TaskQProofs` | theorems about `TaskQ` |
| `Intranet` | `EXTENDS TaskQ`: workers, handlers and `taskWatcher` |
| `Hub` | `EXTENDS Intranet`: the message loops of the WAMP hub and its lock |
| `IntranetProofs` | theorems about `Intranet` and `Hub`, reusing those of `TaskQ` |
| `SyncMutex`, `SyncMutexProofs` | the named locks |
| `Scheduler`, `SchedulerProofs` | the scheduled tasks, over `TaskService` |
| `SessionService` | abstract: what the session store promises |
| `Sessions`, `SessionsProofs` | user sessions, their bucket and the browsers that use them; they implement `SessionService` |
| `Endpoints` | the table of all handlers: who is let in, which task, which reply |
| `Internet`, `InternetProofs` | `EXTENDS Endpoints`: requests, over `TaskService` and `SessionService` |
| `Config`, `ConfigProofs` | configuration updates and migrations, over `TaskService` |
| `AppConfig`, `AppConfigProofs` | uploads of the library |
| `MC*` | instances for TLC |

### TaskQ

A step is what runs between two points where a goroutine can block or be seen: a
channel operation or a section under a mutex.  `submitter` is where each
submitting goroutine is (`pushing` before `mainQueue <- t`, `waiting` in the
receive, `expired` between the timer and the mark, `timedOut` after it).
`queuing` is the place of the one goroutine of that name: it may offer a returned
task (first select), then takes from either channel (second select) and offers
that.  Both offers meet a `Shift` in `ShiftReceive`, the rendezvous on the
unbuffered `shiftQueue`.  `ShiftCheck` is the test of `rotten`.  `HandOut` is the
caller's use of the task.  `UnShift`/`UnShiftSend` put it back: the code waits for
room in `extraQueue` with the mutex of the task locked, hence `TaskLocked` in
`MarkRotten`.  `DoneTake` is the lookup and the delete under `resultLocker`,
`DoneSend` the send on the unbuffered result channel, which needs the submitter
in its receive.  Not modelled: the contents of a task and the numbers of the IDs
(`nextID` is atomic; a task of the model is its ID).

### Intranet

`conn` follows a connection through `opening` (connected, callback not yet met by
`taskWatcher`), `open`, `closing` (`connected` cleared, callback not yet met) and
`closed`.  `getter` is one `task.get` call: `GetConnected` reads `Connected()`, the
answer is kept and used by a later step.  `GetRecord` is the send of the keeper
and the hand-out; `GetUnShift` the other branch.  `DoneRequest`, `DoneTake`/`DoneSend`,
`DoneRecord` are `task.done` (and `task.error`, whose effect on the queue is the
same).  `WatchTask`, `CloseCallback`, `WatchClose`, `WatchClosed` are the select
cases of `taskWatcher`.  `entries` is the key set of `workerTasks`: a keeper for a
worker without an entry is a write to a nil map, which is the end of the process
(`panicked`).  A worker closes only tasks it was given, on the connection it got
them on or, once that one is lost, on any other; it may close one twice.

### Hub

`Intranet` lets a worker send at any time and lets the callback of a lost
connection come at any time.  `Hub` adds what decides when: `loop` is where the one
goroutine of each connection is (`wango receive`), `subscribersLocker` who holds the
lock of that name.  A call is read when the loop is `reading` and runs in a
goroutine of its own; a subscription is handled in the loop, under the lock
(`HandleSubscribe`, then `Subscribed`, or `SubStores` and `SubStoresDone` for
`com.stores`, whose handler pushes a task and waits for it with the lock held).  A
connection ends only in `reading`; `deleteConnection` is `LoopEnds` (`connected` is
cleared), `DeleteSubscriber` (needs the lock) and `CloseCB` (the callback, met by
`taskWatcher`).  `handleUnSubscribe` takes the lock as a subscription without a task
does.  Who is subscribed to what matters to events only and is left out, and so are
the send channels: a send is taken as a step that ends.

### SyncMutex

A lock is a Go channel of capacity 1.  The model keeps a channel as the sequence
of calls whose token is in it: the head is in the buffer, the others are blocked
senders, which Go serves in order.  `Register` is the section of `Lock` under
`mutexLocker`, `Send` the moment the token is offered, `Locked` the return.
`UnlockEnter` takes `mutexLocker` and keeps it until `UnlockReceive` finds a token.
Nothing checks that the caller of `sync.unlock` holds the lock; clients may do that
to the ids of `Misused` (`UnlockUnheld`), so exclusion is claimed for the other ids
and the rest for all ids.  `Disconnect` releases nothing, as in the code.

### Scheduler

A member of `Runs` is a goroutine in `runTask`, and the task it submits is the same
member in an instance of `TaskService`: the scheduler is checked against the promise
of the queue, not against its channels.  `updater` is one announcement of a
configuration, which visits its stores one by one; `UpdateScheduler` is the whole of
`updateScheduler`, which runs under `locker`.  `CanRunTask` and `CheckAndMark` are the
two looks at the marks, under two different locks.  `Tick` is a cron entry that is
due: schedules are abstracted to "at any time".  `CronRun` is the RPC of that name
(`intranet/server.go`), which does not look at the marks.  The code announces one
configuration at its start and one for each upload, which the worker server accepts
in development mode only.

### Sessions

`sessions` is the map, `saved` the bolt bucket, `connections` what each session
records.  Handlers look a session up under `locker` and then work on the pointer, so
`Subscribe` (lookup) and `AddSubscription` (change and save, under the lock of the
session) are two steps, and so are the two halves of `Delete`: `DeleteSaved`, without
a lock, and `DeleteSession`, under `locker`.  The object outlives its removal from the
map: `AddSubscription` does not test that the session is still there.  A connection is
served by one goroutine, which handles its subscriptions in turn and runs the close
callback last (`wango receive`), hence one state `conn[c]`.  `logout` follows
`logoutHandler`; the result of its `signOut` task is success or error, which includes
the timeout.  `Restart` is a crash or a restart at any point, followed by
`loadSessions`.  `Valid` is what `extractClaimsFromJWT` and `CheckSession` let pass.
The URIs of subscriptions and tokens are left out; writes to bolt are assumed to
succeed (`bdb.Save` drops their errors).

`SessionService` is what the rest of the program may rely on: an identifier belongs
to one session, a session is valid until it ends, and what has ended comes back over a
restart only.  `ImplementsService` maps `valid` to the sessions of the map that are not
past their TTL; `Internet` is built on this promise.

### Endpoints and Internet

Nearly every handler of `internet` checks its request, pushes one task, waits, and
makes a reply of the outcome.  `Endpoints` keeps each handler as a record: the replies
of its own refusals, the type of its task and whose it is, a reply for each kind of
error text (`notFound`, `unauthorized`, one that begins with a number, any other) and
for each shape of result.  The replies are those of the code, with its surprises: the
number of an error text becomes the status, and what is no status code is a panic in
`net/http`, answered by the Recoverer with 500.  `Route` is the table of all routes,
WAMP calls and subscriptions with the check in front of them (`access`).

`Internet` runs requests over the table: `Arrive` with any token a client can hold,
`Admit` (the JWT middleware, the session check of a call, the upgrade, the handlers
that check by themselves), `Handle` (refuse, answer or push the task), the worker's
`Start` and `Finish`, `Respond`, and what some handlers do after their task: login makes
a session, logout checks, deletes and sends `didSignOut`, `getFile` fetches and
`postFile` stores the content.  `result` is what the worker said; `record` and `file` say
which upload the record and the content of one file are of.  The file store is
external: it may keep a content, refuse it, or keep it and fail to answer.  A session is
checked where the code does, once, and used later.

### Config

`PostConfigHandler` is an upload; `TruncateFile` and `WriteFile` are the two halves of
`ioutil.WriteFile` on `config.json`, `SetConfig` the section under the lock, `Updated` the
second read of the variable, without the lock.  Then the handlers of `OnUpdate` run in
the order of the slice: the scheduler, and the two servers in the order in which they
came to append themselves, which they do without a lock (`ReadHandlers`, `OnUpdate`), so
that one may be lost.  `InternetHandler` has the router: to mount a store that is
mounted is a panic in chi (`httproutes.go:62` and `65` do it on every update for every
store that was there before), which ends the upload's goroutine after its reply was
written, and the handlers that follow do not run.  The hooks and actions of the
configurations are the same, so this is the only difference between a first and a
later update.  `Migrate`, `SetProcessed` are the migrations of a store: the test and the
record of a version are two steps with a task in between.

### AppConfig

A file is a sequence of blocks, and a block says which upload wrote it.  `Create`
truncates, `CopyBlock` writes at the writer's own offset (so two writers mix, and a
truncation under a writer leaves a hole), `ReadFile` reads back block by block, `Serve`
replaces the copy in memory if it parses: `zip.NewReader` looks for the directory at the
end of the file.  A failure at any step does not stop the handler from reading back,
serving and publishing.

## 3. Runs

| Run | Instance | What it shows |
|---|---|---|
| `taskq` | 3 tasks, one with a timeout; 2 shifters; 2 closers; queues of 1 | custody, delivery, one answer, rotten tasks; the queue implements `TaskService` |
| `intranet` | 2 connections, one of which subscribes to stores; 2 tasks, one with a timeout, the other also that of the subscription; 1 `task.get`, 1 `task.done`, `taskWatcher`; all channels of 1 | entries, no false "lost", no forgotten task, lost tasks are answered |
| `intranet_closed` | 1 connection, 1 task | a violation, see findings |
| `hub_callback` | 2 connections, 1 task, 1 subscription to a store at a time | a violation, see findings |
| `sync_mutex` | 2 connections, 3 calls, 2 ids (one misused), 3 requests | exclusion, the counts, no lost request, `mutexLocker` and every lock come back |
| `scheduler` | 2 updates of 3 configurations, 3 runs, 2 stores | as many runs of a task as updates, refusals only next to a run, marks are cleared |
| `scheduler_concurrent` | the same configuration twice, 2 runs | a violation, see findings |
| `sessions` | 2 sessions, 2 connections, 2 logouts, 1 restart | live sessions are saved, logouts are final, no dead connection; the store implements `SessionService` |
| `sessions_deleted` | 1 of each | a violation, see findings |
| `internet` | a request of any route next to an upload or a logout; 2 sessions, one of which workers may ask for | who is logged out is locked out, replies tell what was done, record and content of a file, every request is replied to |
| `config` | 2 uploads, 2 stores, 1 with migrations, 1 restart | an upload that ran alone is installed everywhere, migrations are done twice only by overlapping uploads |
| `appconfig` | 3 uploads with archives of 2, 2 and 1 blocks, 1 restart | mixtures only of overlapping uploads, what an upload that ran alone has left on disk is what is served, the workers catch up |

Why these bounds.

* Channels of length 1 instead of 1000 make "full" happen all the time; a longer
  queue only adds orders in which nothing blocks.  Two shifters with three tasks let
  one put a task back while the other takes it, with a third task at the limit of both
  queues.  Two closers are a race of `Done`.
* One connection that is lost while another goes on is what `LostOnlyIfDisconnected`
  needs.  The intranet run has one `task.get` at a time and one connection that
  subscribes (`Subscribing`, `SubTasks`) to keep its liveness check short; the theorems
  of `IntranetProofs` cover any number.
* `MaxRequests` is the number of `sync.lock` calls and, as a channel is named after the
  request that makes it, the number of channels; three suffice for a channel to be
  dropped and made again while a request is in between.
* Two updates and three runs are what it takes to lose a mark and to have the old run
  clear the mark of the new one; the configurations have a startup task, a task that
  allows concurrent runs, one that does not, one that cannot be scheduled, a store
  without tasks and a store that is not mentioned.
* Two logouts of one session race with each other and with two of its connections,
  while the second session must be left alone; a second restart would start from a
  state that one restart can already reach.
* `Offers` lets one request take any route while the other is an upload of the same file
  or a logout, the two kinds that change what others see.  An upgrade that was answered
  with 101 makes room for a request on the connection, so a third request is had where
  it matters.  The numbers 12 and 200 at the start of an error text are one that is no
  status code and one that says success; the worker's code 404 is one that looks like a
  refusal.  `WorkerKeys` leaves one identifier for logins.
* The configurations of the `config` run bring a store with a migration, once next to
  the store that is mounted (a panic) and once without it (none); both have the same
  version of that store, so that it may be migrated twice.  `Empty` and `Torn` are what
  is left of `config.json` when its write is cut off or mixed.
* Archives of two blocks can be mixed so that they parse, and a shorter one can be
  copied over a longer one; a third upload reads what two have left.

`CHECK_DEADLOCK FALSE` is there because all of these systems may stop: no task, no
worker, a lock that is never released, no more uploads.

Fairness.  Weak fairness of each goroutine's steps: the Go scheduler runs them.  In
`Hub` these are the submitters, the queue's goroutine, each `task.get` and `task.done`,
each connection's loop and `taskWatcher`; the `intranet` run needs only the last three
(`Watching`), and assumes that subscriptions to stores get their answers, which is up to
workers.  Weak fairness is enough for the subscribers' lock, because a task is pushed
once and so the lock is held for one a few times only.  In `Internet` the goroutine of each request,
and the timers of tasks that have one.  Nothing is assumed of workers (they may never
ask, answer or leave), of clients, of the expiry of sessions, of timers in `Hub`, or of
ticks and updates in `Scheduler`.  In `SyncMutex`, `mutexLocker` gets strong fairness,
because a Go `sync.Mutex` hands itself to a waiter that starves, and a client that is
connected unlocks what it holds, without which no lock is ever granted twice.

## 4. Theorems

All hold for every value of the constants under the ASSUMEs of the modules.

* **TaskQ.** The inductive invariant is `TypeOK` with the custody of tasks (a task
  is in one of the channels, the queuing goroutine, a shifter or `out`, in one
  place only, and a new one in none), their journey (a submitter that waits has
  its task in a place) and `OneResolver`.  Custody and journey need each other: a
  step that moves a task keeps the first only if the task was nowhere else.  From
  it: `TypeCorrect`, `OneCustodian`, `Delivered`, `ResolvedOnce`, `BlockedByTimeout`.
  `RottenStopped` is a temporal theorem: the set of rotten tasks that are behind
  the test of `Shift` is closed under steps.  `Implements` proves every step a step
  or a stutter of `TaskService`.
* **Intranet.** `QueueInside` shows that each step is a step of the queue or leaves
  it alone, so every theorem above holds with workers too;
  `LiveConnectionsHaveEntries` proves `EntryWhileConnected`.  `Served` is the invariant
  below the rest: what `taskWatcher` has recorded, will read or is closing was handed
  out to that worker, and the worker it is closing is gone.  `NoFalseLoss` adds that
  "lost" is carried only by a closer whose task was handed to a closed connection.
  `NothingForgotten` adds that a task whose `done` keeper is on its way is settled
  (its result channel is gone), and that every task that is out is settled, or
  recorded against a worker that has it.  `IntranetTypeCorrect` follows from `Served`.
  `NobodyWaitsInVain` puts the two together: when `taskWatcher` has nothing left to do,
  who waits for a task that was handed out waits for a worker that is there, or is
  `Stranded`.
* **Hub.** `HubInside` proves each step of the hub a step or a stutter of `Intranet`, so
  all theorems about the worker server hold behind the hub; `HubTypeCorrect` adds the
  message loops and the lock to its types, and `HubServes` composes `HubInside`,
  `QueueInside` and `Implements`: hub, worker server and queue together implement
  `TaskService`.
* **SyncMutex.** The invariant adds to the types: requests are fresh names, channels
  in the map belong to one id, every token in a channel is of a call that is past
  its send, a call that holds a lock nobody misuses has its token at the head of the
  channel, and the count of an id is the number of registered calls plus tokens.
  The last one is what makes the dropping of a channel safe, and needs cardinalities
  of sets that change by one.  From it: `TypeCorrect`, `CountersAccount`, `Exclusion`,
  `NobodyLost`, and `ReceiveFed`: an `Unlock` that waits with `mutexLocker` locked waits
  for no request that needs `mutexLocker` first.
* **Scheduler.** The invariant says that a mark stands for a run in progress, that
  only configured stores have runs, and how many runs are without a mark (`Slack`): a
  marked task has as many runs as its store had updates at most, an unmarked one
  fewer.  An update moves a run from the first case to the second and raises the
  bound; the end of a run always takes the mark of its task away.  From it:
  `TypeCorrect`, `RunsBounded` (while a store is configured once, two runs of a task
  never overlap), `RefusedNextToARun` and `MarksHaveRuns`.
* **Sessions.** The invariant adds to the properties that a connection is recorded
  only in its own session, which is what makes the end of a connection remove it.
  `TypeCorrect`, `Durable`, `LogoutIsFinal` and `OnlyLiveConnections` follow; the second
  is inductive because a logout erases the bucket first and keeps `deleteSession` until
  the map follows.  `Implements` proves that the store implements `SessionService`.
* **Internet.** First the table: lemmas about its rows show that every error gets a
  reply, that with named exceptions no error gets a success and no result a refusal.
  The invariant ties a request to its task (`Progress`: where the request is and what
  became of the task go together), a token to a session that was issued (`Holder`), the
  sessions that were logged out of to those that are not valid, and the file to its
  changes (`FilesOK`: a change that was accepted and is not over has the record, or one
  that ran next to it has).  From it: `TypeCorrect`, `LockedOutForGood`,
  `RepliesTellTheTruth`, `ContentHasRecord` and `MixedByOverlap`.
* **Config.** The invariant says where each upload is and what it waits for
  (`Progress`), that uploads that run next to each other are known as `overlapped`, that a
  handler is missing from the slice only if the other server's was appended after it
  (`BootOK`), that what was migrated is recorded or its upload is about to record it
  (`Recorded`), that what an upload waits to have migrated was not migrated by another
  but one it overlaps (`AwaitedIsUndone`), and what the last upload has reached, step by
  step, when it ran alone (`Settled`).  `AwaitedIsUndone` is what makes the third property
  inductive: the test of a version and its migration are different steps, and `Recorded`
  is needed to see at the test that nobody has done it.  `BootOK` is needed for the end
  of an upload: a configuration that was not announced found no handler of the worker
  server in the slice.  From it: `TypeCorrect`, `AloneInstalled`, `MigratedByOverlap`.
  `OneHandlerStays` says that of the two handlers appended without a lock one stays.
* **AppConfig.** The invariant follows the blocks of uploads that ran alone: such a
  block stands in a file of that upload's blocks only, in their order, and nobody
  else writes there (`DiskOK`); what an upload reads while there is one is a prefix of
  the file (`SeenOK`).  From it: `TypeCorrect`, `TornByOverlap`, `WorkersCatchUp`, for
  archives of any size.  `ServedAlone` adds that an upload that runs alone has read the
  file as it is (`ReadsOK`), so that it serves the file if it serves anything, and that
  an archive which such an upload left on disk is served until the file is created again:
  what an upload that fails reads back then is that archive or does not parse
  (`WholeIfParses`).
* **Who relies on whom.** `Scheduler`, `Internet` and `Config` are built on `TaskService`
  instead of the queue.  `Implements` and `HubServes` prove the queue's side.  The
  abstract service takes a task once, a guard the code does not have; `SubmitsOnce`, in
  each of the three modules, proves that its callers never meet that guard, so the
  abstraction cuts off no behaviour of theirs.  In the same way `Implements` of
  `SessionsProofs` is the store's side of `SessionService`.

Model-checked only: `LostTasksAnswered`, `MutexLockerReturns`, `LockGranted`,
`MarkIsCleared` and `RequestReplied`, since liveness under fairness and ENABLED are out
of the prover's reach.  For `LostTasksAnswered`, `MutexLockerReturns` and
`MarkIsCleared` the part without time is proved (`NobodyWaitsInVain`, `ReceiveFed`,
`MarksHaveRuns`): what the waiting party needs is there, and fairness has only to bring
it.  The refutations (`AllTasksClosed`, `CloseCallbackCalled`, `ConcurrentIsNotAllowed`,
`DeletedStaysDeleted`) are runs of TLC.  No induction over data and no RECURSIVE
operator is used.

## 5. Findings

* `intranet_closed`: at a lost connection `taskWatcher` is to "close all proccessing
  tasks by this worker with error" (`intranet/server.go:256`) and ends with "All workers
  %s tasks closed." (line 265).  A `task.get` that read `Connected()` before the loss may
  send its keeper after the loss was handled.  If no task of the worker was recorded by
  then, the handling left by the `continue` of lines 253-255, with neither message and
  with the entry kept; the keeper is recorded for a connection that is gone, and a
  submitter without a timeout waits for ever.
* `hub_callback`: "SetSessionCloseCallback sets callback that will called when
  connection will closed" (`wango/wamp.go:163`).  The handler of a subscription to a
  store waits for a task without a timeout, with `subscribersLocker` held (line 626).  If
  the worker that has the task is lost, its close callback waits for that lock (line
  754), and the subscription for the answer that only the callback would bring.  No
  worker can then subscribe, nor be seen to leave.  One worker alone is enough: its
  message loop, which would read its `task.done`, is the one that waits.
* `LostTasksAnswered` holds but for these two (`Stranded`; the subscribers' lock must be
  free again and again), for a watcher blocked in `Done` on a task whose submitter timed
  out (`WatcherBlocked`) and for the write to a nil map (`panicked`).
* `scheduler_concurrent`: `runTask` says "Concurrent is not allowed. Prev task is not
  completed" when it refuses (`scheduler/scheduler.go:73`), but a configuration update
  replaces the marks of a store (line 41), and the next tick starts a second run of a
  task that does not allow one.  `RunsBoundedByUpdates` is what does hold.  It also says
  that a task with `allowConcurrent` gets no concurrent run: `checkAndMarkTaskRunning`
  refuses it all the same.
* `sessions_deleted`: "Delete removes Session from store" (`sessionstore.go:251`).  A
  subscription that looked the session up before the logout and records it after
  saves the session again; the next start loads it and its token is good once more.
  Within one life of the process the logout is final (`LogoutEndsSession`).
* Seen while modelling, and allowed for in the properties rather than refuted by a run:
  an update with a store that is already mounted panics in the router (`AloneIsInstalled`
  lets an upload end so); an error text of a worker that begins with "200 " makes a REST
  action answer 200 (`SuccessMeansDone` leaves REST actions out); an upload of the library
  that fails after the file was created leaves what is served, but the next start finds a
  file that does not parse and serves nothing.
* What a property allows because the code does it is not caught by that property.  This
  holds for the goroutine that a late `Done` costs (`DoneBlocksOnlyOnTimeout` bounds it to
  tasks with a timeout), the blocked watcher, the late keeper and the write to a nil map
  (`EntryWhileConnected`, `AwaitedTaskRecorded`, `LostTasksAnswered`), and for overlapping
  uploads, a lost handler and an upload cut off by a stop (`AloneIsInstalled`, which says
  that the next upload that runs alone mends it).

## 6. Not modelled

Contents of tasks, requests and answers; formatting; logging; MongoDB, which only
workers talk to; TLS and cookies as bytes.  Of the components:

* *WAMP hub*: the bounded send channel of a connection, `Publish` and events, heartbeats
  and the client side.  A full send channel delays a goroutine that answers; the
  modelled handlers take a send as a step that ends, so what a slow reader holds up is
  not checked.
* *`sync.once`*: one section of one lock; the timer that forgets an id after a minute is
  the only other actor, and there is no order of the two that breaks what its comment
  promises.
* *Service registry*: a list that is only returned; nothing here unregisters a service.
* *Local storage and the bolt wrapper*: no other part reads the local storage.  The
  bucket of the sessions is in `Sessions`.
* *Configuration*: what `Validate` makes of a configuration, settings, and the text of
  the configuration sent to clients are data.
* *Worker server*: `publish`, which hands an event to the two hubs and changes nothing.
* *Sessions*: `GetAll`, which only reads, the RSA keys, and functions without a caller.
* *Start and logging*: what the order of the start does to configuration updates is in
  `Config`.

## 7. Plan

1. The send channel of a connection in `Hub`, with the goroutine that empties it and a
   reader that may stop, and what `Publish` then holds up.
2. `sync.once`, the registry and local storage with its asynchronous clear, should
   another part come to depend on them.
