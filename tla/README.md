# Verification of the concurrent components

TLA+ specifications of this repository's own logic, checked with TLC on small
instances, and theorems about them checked with TLAPS for every value of the
constants. Every definition is translated from the code; `PROJECT.json` maps it
to its lines.

## The system

The repository is a C++17 project template: a set of header-only concurrent
components under `src/subModules`, and a program whose `main` parses its
arguments, starts asynchronous logging to console, text file and sqlite, logs,
and returns.

| component | state | operations | uses |
|---|---|---|---|
| `thread_pool` (`messageDistributor/thread_pool.h`) | FIFO `tasks_`, `stop_`, mutex, condition variable, workers | constructor, `enqueue`, `enqueue_future`, `pending_tasks`, destructor | - |
| `messageDistribute` (`messageDistribute.h`) | `callbackList`, `listLock`, `pool_` | `addUpdateCallback`, `removeUpdateCallback`, `distribute`, `clear`, `callbackCount`, destructor | thread_pool |
| `counting_semaphore` (`periodic_work/counting_semaphore.h`) | atomics `count_`, `stopped_`; mutex, condition variable | `acquire`, `try_release`, `stop` | - |
| `periodicWork` (`periodicWork.h`) | `task`, `periodMs`, `threadQuit`, `periodChanged_`, two threads, `sem_`, `tickObservers_` | `start`, `stop`, `setPeriod`, `setCallback`, `addCallback`, `removeCallback`, `connectPipeline`, destructor | counting_semaphore, messageDistribute, pipeline |
| `pipeline` (`pipeline/pipeline.hpp`) | `queue_process`, `queue_output`, `outputCallback`, two lists of workers, three mutexes | `addJob`, `getProduct`, `getQueueCount`, `setCallback`, `setProcessWorkerCount`, `setCallbackWorkerCount`, destructor | threadInfo |
| `threadInfo` (`threadInfo.h`) | a thread, its `quit` and `status` | destructor: ask to quit until it has | - |
| sqlite log sink (`spdlog_sqlite3_sink/`) | connection, statements, table name, level | open, `log` (insert), `set_level`, close | spdlog, sqlite3 |
| logging start-up (`spdlog_init.cpp`) | the sinks, the global asynchronous logger | `spdlog_init`; the destruction of spdlog's registry | spdlog, the sink |
| spdlog's asynchronous part (vendored) | blocking ring of messages, backing threads, periodic flusher, registry | `enqueue`, `dequeue`, worker loop, flush, destructors | - |
| `main`, arguments (`main.cpp`, `argProcessing.h`) | the log path | parse, start logging, return | logging start-up |
| `build_info`, `project_archieve`, helpers | - | straight-line code | - |

What is hard in each of them, and what makes them correct:

- **thread_pool**: `enqueue` notifies after the unlock; the destructor sets
  `stop_`, notifies and joins while tasks are queued, run and enqueue more.
  Correct: every accepted task runs once, in order; no wakeup is lost; the
  destructor drains the queue and returns.
- **messageDistribute**: the list changes between the copy in `distribute` and
  the run of the callbacks, callbacks call the distributor, and the order of the
  members decides what still exists when a callback runs. Correct: the callbacks
  called for a message are those registered at its `distribute`.
- **counting_semaphore**: counter and flag change without the mutex, and
  notifications come afterwards. Correct: 0 <= count <= max; nobody sleeps beside
  a token or on a stopped semaphore.
- **periodicWork**: timer, worker, `stop` and the lock-free `setPeriod`
  interleave; observers run behind the worker, and a connected pipeline is held
  by a raw pointer. Correct: `stop` always returns, takes no tick any more, and
  when it has returned no callback runs; a released tick is executed unless
  stopped, a new period is heard and used, a replaced callback is begun at most
  once more, and the observers of every executed tick run before the object is
  gone.
- **pipeline**: workers are hired and fired while they sleep, are about to sleep
  or work; notifications are sent without the mutex, callbacks are exchanged, and
  the list of workers has no lock. Correct: no job is lost or doubled, none is
  left to sleeping workers, the counts mean what callers take them for, and the
  destructor leaves no worker behind.
- **logging**: a logging thread and the flusher block on a full ring, backing
  threads on an empty one; as many threads as the machine has are inside
  `sqlite_sink::log`, which declares a lock it never takes; the database may fail
  to open, to create its table and to insert; at exit flusher, pool and sinks must
  go in an order that the member declarations of the registry decide. Correct: a
  message reaches every sink once or is given up by it, everything is destroyed
  after its last user, the exit ends.

`PROJECT.json` lists the hazards at their lines, each with the properties that
cover it or the reason why none does.

## The modules

```
TaskService <-implements- ThreadPool <-INSTANCE- MessageDistribute -implements-> PubSub
                                                       ^
                                                       | EXTENDS, implements
BoundedSemaphore <-implements- CountingSemaphore       |
                                      ^                |
                                      | INSTANCE       |
                                 PeriodicWork        Ticker
                                      |                |
                                 implements         INSTANCE
                                      +-> PeriodicTask <+

LogQueue <-INSTANCE- Logging -implements-> LogService
                    Pipeline -implements-> Factory
```

`TaskService`, `PubSub`, `BoundedSemaphore`, `PeriodicTask`, `LogService` and
`Factory` say what a component promises, without threads, mutexes or
notifications. `Ticker` composes the promise of `PeriodicWork` with the concrete
distributor, so that the composition stays small enough to check. The module
`XProofs` holds the theorems about `X`. `MC*` modules and their `.cfg` files are
the instances TLC checks.

Conventions: definitions like `PipelineMayGoAfterStop` beside `PipelineMayGo`
are altered forms, used to test that a property notices the alteration; nothing
in the specifications refers to them. A mutex does not have a variable of its own
where every critical section is one step; a critical section becomes several
steps only where the code lets others act inside it, which is a waiter between a
false predicate and its sleep (`"decided"`). What a waiter does when it is woken
is lock again (`"ready"`, `"lock"`). Every wait can also end spuriously. History
variables (`accepted`, `done`, `sent`, `stale`, `unheard`, `added`, ...) are marked `history`
and never read by a guard except to bound a run.

### ThreadPool

`tasks`, `stop` are the fields; `pc` and `job` are where each worker is and what
it holds; `notifying` are the threads between a push and its `notify_one`; `owner`
is the destructor. `Sleep`, `Take`, `Return` are the critical section of lines
29-38, `Finish` the return of line 39; `Enqueue` and `EnqueueFuture` push or
refuse; `NotifyOne` is lines 54 and 74; `DestroyBegin`, `DestroyNotifyAll`,
`DestroyJoin` are the destructor. Clients stop calling before the destructor, as
C++ demands, but running tasks may go on to enqueue. Assumed: tasks return, and a
task given to the plain `enqueue` does not throw.

### MessageDistribute

Instantiates `ThreadPool` with pairs (message, callback) as tasks. `todo` is the
rest of each thread's loop in `distribute`; `DistributeCopy` is the copy under
`listLock`, `DistributeEnqueue` one turn of the loop, which skips an empty
function. Clients and running callbacks call every operation. `DestroyPool` and
`DestroyList` follow the reverse order of the members.

### CountingSemaphore

One step per atomic access: `AcquireTake` is the successful compare-exchange of
the fast path, `AcquireZero`/`AcquireLook` the two loads before the slow path,
`AcquireLock` the predicate under the mutex, `AcquireSleep` the release of the
mutex. `ReleaseCheck`, `ReleaseCas`, `ReleaseRetry`, `ReleaseNotify` are
`try_release` with the value it loaded in `seen`; a weak compare-exchange may
fail at any time. `StopSet` and `StopWake` are `stop`. Memory is sequentially
consistent.

### PeriodicWork, PeriodicTask and Ticker

`PeriodicWork` instantiates `CountingSemaphore` with the worker as its acquirer,
the timer as its releaser and the owners as its stoppers. `timer`, `worker`,
`own`, `setter` are the threads' places in `timerJob`, `workerJob`,
`start`/`stop` and `setPeriod`. Time is abstract: a sleeping timer's deadline may
come at any moment, and `inUse` is the period the deadline was computed from. A
callback does not call back into the object. `stop` is a step per line that tests
or uses a pointer: `StopSem` looks at `sem_`, `StopSeeTimer` and `StopSeeWorker`
at the threads when it comes to them (lines 84, 88, 92), since with two owners a
`start` can come between. The history `unheard` says that `setPeriod` notified the
timer between its predicate and its sleep, where a notification without `workLock`
is lost; `ChangeIsHeard` says that this is the only way to sleep beside a flagged
change. How long it then sleeps is a matter of time, which is not modelled; that
the deadline it sleeps for gives no tick is part of `PeriodTakesEffect`.

`PeriodicTask` is what that amounts to for an owner: ticks fall due, at most
`MaxLag` wait for an execution under way and one more when none is, each is taken,
its callback called and its observers told, and stopping drops what waits and
takes nothing more. The mapping counts a tick that the worker has acquired and not
yet checked against `threadQuit` as still waiting; the check of line 167 is `Take`,
the call of line 180 `Call`, with the copy under the lock between them. So a `stop`
that sets `threadQuit` between the two is followed by one more callback, and it
waits for that one at its join. `setCallback` and `setPeriod` are stutters.

`Ticker` is the object as a whole: `PeriodicTask` for the two threads,
`MessageDistribute`, which it extends, for `tickObservers_` with the worker thread
and the user as its clients and the ticks as its messages, and a pipeline of which
only its existence and the jobs it was given are modelled. What is the
composition's own begins with `Ticker` or `ticker` where the distributor has a
definition of that name. `StartTick` takes a tick, `CallCallback` calls the
callback, `Distribute`, `Enqueue`, `Distributed` are line 185 step by step;
`AddCallback`, `RemoveCallback`, `ConnectPipeline` may be called by the user, by
the callback and by running observers; `Destroy` is `stop` in the destructor and
`DestroyObservers` the destruction of the member. The pipeline may be destroyed
once the observers are: the property shows that this is early enough, and the
altered form shows that "after `stop`" is not.

### Pipeline

`place` is where each worker's thread is, `staff` maps the two kinds to their
lists, `mgr` is the one thread that hires and fires, `phase` the destructor,
`writer` a `setCallback` that holds `mutex_outputCallback`. `LoopHead`,
`ProcessWait`, `PushProduct`, `LookForCallback`, `NotifyFinish` are
`processWorkerJob`; `CallbackWait`, `Call`, `Returned`, `CallbackFail` are
`callbackJob`; `Hire`, `Enlist`, `HireDone`, `FireNext` are `hireFireWorker` and
`FireQuit`, `FireNotify`, `FireJoin` are `~threadInfo`. `getQueueCount` is
`NothingPending`, `NothingProcessing` at `Queried`. `outputCallback` is read
without its lock in line 219; the step may then see either value.

`Factory` is what that amounts to for a user: jobs are begun in order, each
becomes one product, which is offered to the callback, given, or taken back, or
fetched; closing throws away first the jobs nobody began and then, with nothing in
the making, the products nobody took. A product is being made while a process
worker holds it, being offered while a callback worker does; hiring, firing,
waiting, notifying and `setCallback` are stutters.

`DelayCoversSleep` is a timing assumption with a name: the 100 ms that
`~threadInfo` waits between quit flag and notification are enough for a worker
that had found its predicate false to fall asleep. With `FALSE`, TLC violates
`JobsReachAWorker`: the worker being fired misses the notification, then falls
asleep, swallows the notification of an `addJob` and exits, and the job waits
for the next one. So `pipeline` assumes `TRUE`. `pipeline_live` does not: the
worker is fired all the same (`StaffingEnds`), and as it is the only one of its
kind, it takes nobody's notification with it (`OneOfEachKind` in `JobsComeOut`).
Among callback workers that can happen even with `TRUE`: while `setCallback` holds
the lock the predicate of line 239 is false, so a worker being fired falls asleep
in spite of its quit flag, then swallows the notification of the next product and
exits, and a colleague sleeps beside the product until the next one.

### LogQueue and Logging

`LogQueue` is spdlog's `mpmc_blocking_queue` for any producers and consumers: a
critical section is a step (`Push`, `Pop`, or going to sleep), and the
notification after the unlock another (`NotifyPush`, `NotifyPop`). A full ring
would overrun its oldest item in `push_back`, which is why `Push` is written with
`PushedBack`.

`Logging` is the program. `main` is the place of the main thread: arguments,
choice of the sinks by the kind of path (`MakeSinks`, with the ways to throw out of
`main`), `StartBackend` with as many backing threads as the machine has, `run`,
and, when main has returned, the destruction of the registry: flusher, pool, then
the sinks. `Log` is a logging call down to the queue; `FlusherTimeout` and
`FlusherPosted` the periodic worker, which holds its mutex while it posts.
`BackendTook`, `WriteConsole`, `WriteFile`, `Prepare`, `Step`, `Finalize` are one
message on a backing thread, one step per sink and per sqlite call, any number of
threads at once; `CloseDB` refuses while a statement is open, as sqlite3 does.
`written` and `missed` say what became of each message at each sink. `LogService`
is the promise: settled with every sink exactly once, given up only by the file
and the database, and nothing left when logging has ended.

## The runs

| run | instance | shows |
|---|---|---|
| `pool` | 2 workers, 2 clients, 3 tasks | type, no lost wakeup, drained destructor; order and uniqueness as part of `ServiceLiveSpec` |
| `distribute` | pool of size 0, so 1 worker; 1 client, 2 messages, 3 callbacks, one empty | order of starts, lifetimes, what is left after the destructor, `PubSubLiveSpec` |
| `semaphore` | max 2, 1 acquirer, 2 releasers, 2 stoppers | bounds, tokens reach somebody, stop reaches everybody, `SemaphoreLiveSpec` |
| `periodic` | lag 2, 1 owner, 1 setter, 1 replacer, 2 periods, 3 callbacks | stop and new periods heard by the timer, stop and ticks by the worker, one stale call, `TaskSpec` |
| `periodic_live` | lag 1, no replacer | `TaskLiveSpec` (due ticks are executed, stop ends), new period used |
| `periodic_owners` | 2 owners | *violated*: `OneThreadJoins` |
| `ticker` | lag 1, pool of 2, 2 ticks, 2 observers and 1 connected pipeline | observers of every tick run, the pipeline is fed in time, the destructor ends |
| `pipeline` | 2 + 2 workers, 2 jobs | nothing lost, idle means produced, jobs reach a worker, all fired, `FactorySpec` |
| `pipeline_live` | 1 + 1 workers, counts 0 and 1, 2 jobs; notifications of `~threadInfo` may be missed | hiring and firing end; jobs come out, also those finished before the last `setCallback` |
| `pipeline_leak` | 2 + 1 workers, counts 0 and 1 | *violated*: `AllFiredWhenDestroyed` |
| `log` | queue of 2, up to 2 backing threads, 1 logging thread, 2 messages | no lost wakeup on either side of the queue, each message once, clean exit, `LogServiceSpec` |
| `log_live` | queue of 1, 1 message | `LogServiceLiveSpec`: messages are settled, the exit ends |

**Bounds.** Two workers and three tasks are the least with which one worker can
take what another was notified for while a third task is queued; two clients give
concurrent pushes. Tasks, messages, callbacks and jobs are used once each, which
bounds the histories. In `distribute` the second caller is the running callback;
the pool is asked for no thread at all, which must give it one. `ticker` has the
same distributor on two workers. The semaphore has one acquirer, as in
`periodicWork`: with two, `SemaphoreLiveSpec` does not hold (see below), while its
safety is proved for any number. A maximum of 2 separates "0 -> 1" from "raised".
Two periods are enough to be replaced and replaced back; three callbacks are a
first, a second and the empty one. In `pipeline`, firing a process worker while
another stays needs two of each kind, since line 150 makes
`setProcessWorkerCount(1)` do nothing beside a single callback worker; workers of
a kind and jobs are alike, so the run uses their symmetry; two jobs can be begun
and put back in each other's place. `pipeline_live` needs two jobs, one to be left
behind by a late `setCallback` and one to take it along. Line 150 is also why the
`Counts` of `pipeline` excludes 0: `pipeline_leak` shows what happens with it. `SetWorkerCount`
asks for no more workers than the instance names. The queue of `log` has 2 places
for 8192: a logging call and a flush can block on it at the same time, and at
the exit a terminate message behind what is still queued. The number of backing
threads is any subset of the named ones, the empty one included, with which
`init_thread_pool` throws. `StartTick` stops after `Ticks` ticks.

A specification checked with its liveness (`ServiceLiveSpec`, `PubSubLiveSpec`,
`SemaphoreLiveSpec`) is checked with its safety part, which is the one proved.

**Deadlock** is checked in every run: a destroyed object or an ended program
stutters explicitly, and the other states all have a step.

**Fairness.** Threads are scheduled, and a call that began goes on; tasks,
callbacks and `process` return. Nobody is obliged to call anything, and no
spurious wakeup is counted on. Weak fairness is used where a step once enabled
stays so. Strong fairness is used where a thread competes for a mutex that others
take and release for ever, or for a compare-exchange that others disturb: the
code relies on neither mutex nor atomic starving a thread. Three assumptions go
further, and each is needed:

- `StaffingEnds` holds if calls of `setCallback` end, since each makes the wait
  predicate of line 239 false while it lasts.
- A condition variable passes over no waiter for ever (`Wakes`): with a full ring
  a logging thread is one waiter of several.
- The flusher posts once a second, not without end while a logging call waits for
  room: `<>[][FlusherTimeout => \A c \in Clients : put[c] = "out"]_vars`.

## Where code and documentation differ

Two runs are expected to end in a violation; `findings` in `PROJECT.json` quotes
the sentence each one refutes.

1. A `stop` that another thread's `start` overtakes finds the new timer thread;
   with the other thread's next `stop` both are in `join` of the same `std::thread`
   (`periodic_owners`), where `detial.md:403` calls all public methods thread-safe.
   Its deletes are as unprotected. The theorems about
   `PeriodicWork` that need it assume one owner, by name (`OneOwner`).
2. `hireFireWorker` returns early on the size of the wrong list, so after
   `setCallbackWorkerCount(0)` the destructor leaves the process workers running
   (`pipeline_leak`). For the same reason `setProcessWorkerCount(1)` beside one
   callback worker fires nobody. The theorem about the destructor assumes that no
   call asks for 0 workers, by name (`SomebodyKept`).

Weaker disagreements, without a run of their own:

- `distribute` is asynchronous, and
  `test_message_distributor_gtest.cpp:224` asserts the sum right after the callers
  are joined.
- The semaphore notifies only on 0 -> 1, so with two acquirers one may sleep
  beside a token (`detial.md:397`: "Block until count > 0 or stopped").
  `periodicWork` has one acquirer.
- `setCallback` notifies nobody (`pipeline.hpp:122`): products finished before it
  wait for the next product. `JobsComeOut` says that this one takes them along.
- `maxLag` 1 is documented as "drop when busy" (`detial.md:383`,
  `periodicWork.h:23`); one tick is buffered while the worker is busy.
- "Detached threads" (`detial.md:405`) are a pool whose destructor waits for
  them; its backlog has no bound. `connectPipeline`'s factory runs on several of
  them at once, so the `tick++` of `detial.md:353` races and ticks may reach the
  pipeline out of order.
- `test/callback.cpp:62` takes three zeros from `getQueueCount` for an empty
  factory, while a callback worker may still hold a product, since only busy
  process workers are counted. What the counts do promise is `IdleMeansProduced`.
- `setCallback` from the callback waits for the shared lock of its own thread
  (`pipeline.hpp:121`), and `stop` from the callback joins its own thread
  (`periodicWork.h:94`).
- `enable_backtrace` (`spdlog_init.cpp:85`) applies to the default logger of that
  moment, which line 97 replaces: the `dump_backtrace` of the comment prints nothing.
- `tableInit.cpp:8` names the table by the time, so two processes that start
  in the same second share one; `insertLog.cpp:24` and `:51` print
  `sqlite3_errmsg`, which may be another thread's.

## The proofs

TLAPS checks these for every value of the constants under the stated assumptions.

`ThreadPoolProofs` (`PoolAssumption`: the size is a natural number, clients are
finitely many and are not workers, `NoTask` is no task):

- `TypeCorrect`: `TypeOK` is inductive.
- `OnceInOrder`: `AcceptedOnceInOrder`, the history behind the order and
  uniqueness of `TaskService`, which TLC checks there. The queue is what was accepted and not
  started (`TakeKeepsOrder`, `PushKeepsOrder`), and since a task is enqueued once
  its head is fresh (`HeadIsFresh`): no worker holds it and it has not run. The
  inductive invariant adds that the accepted sequence has no repetitions.
- `BacklogCovered`: `BacklogIsCovered`, a counting argument with finite sets: each
  push adds a notifier, each `notify_one` turns one into a ready worker or finds
  nobody asleep, and a worker sleeps only on an empty queue.
- `StopWakesEverybody`, `DestructorDrains`: the destructor's phases. An exited
  worker proves that the queue was empty after `stop`; a worker that still runs
  empties what its task enqueues; when all have exited, what was accepted has run.
- `ImplementsService`: initial states and every step map to `TaskService`.

`MessageDistributeProofs` (`DistributeAssumption`: the pool's assumptions for tasks
that are pairs of a message and a callback):

- `CallbacksEndFirst`: from `LifeInv`, the phases of the destructor, and the part
  of `TypeOK` that only a running worker is inside a distribute.
- `BegunInOrder`: `SentInv` (a message is distributed once, and a copy has no
  callback twice), `LoopInv` (a thread's `todo` is a suffix of its latest copy, and
  nothing of that suffix was passed to the pool), `FifoInv` and `OrderInv` (of one
  sender, an earlier entry of the pool's history has an earlier place).
- `OnlyATailIsRefused`: `DrainInv` (what was taken is done or held, and the last
  worker leaves an empty queue) and `CompleteInv` (an entry of a copy was passed,
  is empty, or is still in `todo`; a client is never refused; what follows a
  refusal of the same loop is refused).
- `ImplementsPubSub`: every step maps to `PubSub`. Why it needs the invariants: a
  delivery takes exactly one entry out of what is owed, so an entry may not be in
  two places (`EntryLeaves`, `AcceptedOnce`, `WaitingOrTaken`, `OneHolder`).

`CountingSemaphoreProofs` (`SemaphoreAssumption`: the maximum is a natural number,
there is an acquirer): `TypeCorrect` (the loaded value in `seen` is below the
maximum whenever it can still be used, hence the bound), `NoLostToken`,
`StopWakesEverybody`, and `ImplementsSemaphore`. `TokensReachSomebody` and
`StopReachesEverybody` are inductive with the type invariant: who changes the
count from 0 or the flag is the one who notifies, and a notification needs the
mutex that a waiter holds from its predicate to its sleep.

`PeriodicWorkProofs` (`PeriodicAssumption`: the lag is a natural number, the first
period and callback are periods and callbacks):

- `StopIsHeard`, `ChangeHeard` and `OneStaleCall` hold for any number of owners:
  `QuitInv` adds that the flag cannot be set while a timer stands between its look
  at it and its sleep, `ChangeInv` includes a timer that stands there, since a
  change flagged at that moment is still to be notified, and `StaleInv` says that a
  worker about to call has called nothing else since the replacement.
- `TypeCorrect`, `NewPeriodHeard`, `WorkerIsTold` and `ImplementsTask` assume
  `OneOwner`. The inductive `OwnerInv` ties each place of the owner to the threads
  that still exist and to the semaphore's stop; with two owners it fails, as the
  run `periodic_owners` shows.
- `NewPeriodHeard`: `PeriodInv` begins where the period was loaded, so that the
  flag and the period in use agree up to the tick.
- `WorkerIsTold` is what the semaphore's two wakeup properties amount to here, over
  any number of starts, each with a new semaphore: `HearInv` adds where the owner
  can be while the threads live and `threadQuit` is set, and that it joins them
  only after it has stopped the semaphore.
- `ImplementsTask`: no tick is taken once `threadQuit` is set, while an execution
  that took its tick before goes on, its callback included; the task is stopped
  when `stop` has joined the worker, which `OwnerInv` says has then ended.

`PipelineProofs` (`PipelineAssumption`: the kinds of worker are disjoint, `NoJob`
is no job, counts are natural numbers):

- `StaffInv`: the lists name the hired workers, each once, except one that is just
  being hired; only the one being fired leaves. `TypeCorrect` adds `HandInv`: a
  worker holds a job exactly between taking and passing on, which gives
  `IdleIsProduced`.
- `NoWorkerLeftBehind` assumes `SomebodyKept`. `PhaseInv` carries what that
  buys: the list of callback workers is never empty before its turn, so the early
  return on its size does not hit the process workers.
- `JobsWakeAWorker` assumes `DelayCoversSleep`. `WakeInv`: a worker decides to sleep
  on an empty queue, and one being fired does not sleep once its `notify_all` has
  been sent, so that no `notify_one` is lost to it.
- `NoJobLostOrDoubled`: `JobInv`, that the places of a job are apart and its jobs
  counted, with finite sets.
- `ImplementsFactory`: every step maps to `Factory`. It assumes `SomebodyKept`: the
  destructor may clear the output because no process worker is left to add to it
  (`NobodyLeft`, from `StaffInv` and `PhaseInv`) and none can begin a job again
  (`InputClosed`). Without the assumption it is false, as `pipeline_leak` shows. That
  a worker passes on its own product and nobody else's is `GivingOf`, from the part
  of `JobInv` that no job is held twice.

`LoggingProofs` (`LoggingAssumption`: the queue has room for one item, threads are
finitely many, the three kinds of message differ):

- `UsesQueue`: every step is a step of `LogQueue`, whose two wakeup properties are
  then proved by counting (`ItemsFound`, `RoomFound`).
- `EachMessageOnce`: `PlacesInv` (a backing thread's place agrees with its place in
  the queue and with the sinks) and `MessageInv` (a message has at most one site,
  and its outcomes are those of the sinks already passed there).
- `ExitIsClean`: `CallersInv` (who may still be in a call in each phase of the
  exit), `StatementsInv` (open statements are those between prepare and finalize),
  `TerminateInv` (terminate messages are behind everything else, and those posted,
  queued, taken and still to post are as many as the threads) and `ExitInv`.
- `ImplementsLogService`: every step maps to `LogService`.

`TickerProofs` (`TickerAssumption`: the clients of the distributor are the worker
thread and the user, its messages the numbered ticks, feeders are observers that
can be called):

- `ImplementsDistribute`: a step of `Ticker` is a step of the distributor or leaves
  it alone, because the worker's tick numbers are fresh (`SentByWorker`) and its
  threads keep to their turns. So every theorem of `MessageDistributeProofs` holds
  of the observers.
- `TickerTypeCorrect`: the types of the composition's own variables.
- `ObserversRun`: `ObserversDrained`, from `QuietInv`: the pool of observers is told
  to stop only after the worker has been joined, so nothing is being distributed
  and nothing is refused; what was accepted is drained when the list goes.
- `FedInTime`: `PipelineFedInTime`, from `FedInv` (the jobs given are the runs of
  the feeders that are done, each once) and `GoneInv` (a list of
  observers that is gone is empty, and a pipeline goes after it).

Only model-checked is all liveness under fairness, which is out of the prover's
reach: `ServiceLiveSpec`, `PubSubLiveSpec`, `SemaphoreLiveSpec`, `TaskLiveSpec`,
`NewPeriodIsUsed`, `StaffingEnds`, `JobsComeOut`, `LogServiceLiveSpec` and
`TickerEnds`. The safety part of each of these abstract specifications is proved.

## Not modelled

- Relaxed memory orders: atomics are sequentially consistent.
- Time: a timed wait may end at any moment, so drift, swallowed ticks and periods
  that `setPeriod` restarts again and again are not told apart.
- Failure to create a thread, and a task of the plain `enqueue` that throws: both
  end the program.
- Callbacks that call `stop` or `setCallback` on their own object (deadlock or
  throw by inspection); the derived class of a `pipeline`; several threads that
  hire and fire at once; undefined behaviour on the unlocked list of workers.
- What a log message holds: formatters, levels, pattern functions, the table's
  name. sqlite3 is taken as serialized, its default, and spdlog's file sink as
  locked; so the lock that `sqlite_sink::log` declares and never takes makes no
  difference here.
- `project_archieve` (sequential output of an embedded archive that nothing
  calls), `build_info`, option texts, string helpers.
- The vendored libraries except the parts of spdlog that the asynchronous logger
  runs: sqlite3, googletest, args and the rest of spdlog and fmt are more than 99%
  of the lines under `src` and are used through their interfaces.

## What a next version would add

- A `Pipeline` with a derived class, to see a job taken just before `~pipeline`
  call a pure virtual `process`, and with two managers.
- `Ticker` composed with `Factory` in place of the list of fed jobs.
