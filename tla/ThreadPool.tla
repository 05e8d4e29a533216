----------------------------- MODULE ThreadPool -----------------------------
(***************************************************************************)
(* thread_pool (subModules/messageDistributor/thread_pool.h): a fixed set  *)
(* of workers that share one FIFO of tasks, a mutex and a condition        *)
(* variable.  tasks_ and stop_ are touched under queue_mutex_ only, so a   *)
(* critical section is one step here; condition_.wait, the notifications   *)
(* (sent after the mutex is released), the run of a task and the steps of  *)
(* the destructor are steps of their own.                                  *)
(***************************************************************************)
EXTENDS Integers, Sequences, FiniteSets

CONSTANTS PoolSize,   \* argument of the constructor
          Clients,    \* threads outside the pool that enqueue tasks
          Tasks,      \* tasks that may be enqueued, each at most once
          NoTask      \* a worker that holds no task

\* The constructor never makes an empty pool.
WorkerCount(threads) == IF threads = 0 THEN 1 ELSE threads

Workers == 1 .. WorkerCount(PoolSize)

ASSUME PoolAssumption == /\ PoolSize \in Nat
                         /\ IsFiniteSet(Clients)
                         /\ Clients \cap Workers = {}
                         /\ NoTask \notin Tasks

VARIABLES
  tasks,      \* tasks_: the FIFO
  stop,       \* stop_
  pc,         \* worker -> "ready" (to lock), "asleep" (in wait), "running", "exited"
  job,        \* worker -> the task it took from the queue
  notifying,  \* threads between their push and their notify_one
  owner,      \* destructor: "alive", "notify", "join", "destroyed"
  futures,    \* tasks whose std::future was handed to the caller
  refused,    \* tasks turned away because the pool was stopped
  accepted,   \* history: tasks in the order they were pushed
  started,    \* history: tasks in the order they were taken
  done        \* history: tasks that ran to their end

queueVars == <<tasks, stop, futures, refused, accepted>>
vars == <<tasks, stop, pc, job, notifying, owner, futures, refused,
          accepted, started, done>>

SeqRange(s) == {s[i] : i \in DOMAIN s}

Asleep == {w \in Workers : pc[w] = "asleep"}
Ready  == {w \in Workers : pc[w] = "ready"}
Held   == {job[w] : w \in {v \in Workers : pc[v] = "running"}}

TypeOK ==
  /\ tasks \in Seq(Tasks)
  /\ stop \in BOOLEAN
  /\ pc \in [Workers -> {"ready", "asleep", "running", "exited"}]
  /\ job \in [Workers -> Tasks \cup {NoTask}]
  /\ \A w \in Workers : job[w] # NoTask <=> pc[w] = "running"
  /\ notifying \subseteq Clients \cup Workers
  /\ owner \in {"alive", "notify", "join", "destroyed"}
  /\ futures \subseteq Tasks
  /\ refused \subseteq Tasks
  /\ accepted \in Seq(Tasks)
  /\ started \in Seq(Tasks)
  /\ done \subseteq Tasks

Init ==
  /\ tasks = <<>>
  /\ stop = FALSE
  /\ pc = [w \in Workers |-> "ready"]
  /\ job = [w \in Workers |-> NoTask]
  /\ notifying = {}
  /\ owner = "alive"
  /\ futures = {} /\ refused = {}
  /\ accepted = <<>> /\ started = <<>> /\ done = {}
-----------------------------------------------------------------------------
(* The worker loop.                                                        *)

WaitPredicateNoStop == tasks # <<>>
WaitPredicate == stop \/ tasks # <<>>

MayReturnEarly == stop
MayReturn == stop /\ tasks = <<>>

PopFront(q) == Tail(q)

Sleep(w) ==
  /\ pc[w] = "ready"
  /\ ~WaitPredicate
  /\ pc' = [pc EXCEPT ![w] = "asleep"]
  /\ UNCHANGED <<queueVars, job, notifying, owner, started, done>>

\* A condition variable may wake its waiter for no reason.
SpuriousWakeup(w) ==
  /\ pc[w] = "asleep"
  /\ pc' = [pc EXCEPT ![w] = "ready"]
  /\ UNCHANGED <<queueVars, job, notifying, owner, started, done>>

Take(w) ==
  /\ pc[w] = "ready"
  /\ tasks # <<>>
  /\ pc' = [pc EXCEPT ![w] = "running"]
  /\ job' = [job EXCEPT ![w] = Head(tasks)]
  /\ tasks' = PopFront(tasks)
  /\ started' = Append(started, Head(tasks))
  /\ UNCHANGED <<stop, notifying, owner, futures, refused, accepted, done>>

Return(w) ==
  /\ pc[w] = "ready"
  /\ MayReturn
  /\ pc' = [pc EXCEPT ![w] = "exited"]
  /\ UNCHANGED <<queueVars, job, notifying, owner, started, done>>

FinishedJobKept(w) == job
FinishedJob(w) == [job EXCEPT ![w] = NoTask]

\* task() returned; it is not in the middle of an enqueue of its own.
Finish(w) ==
  /\ pc[w] = "running"
  /\ w \notin notifying
  /\ pc' = [pc EXCEPT ![w] = "ready"]
  /\ job' = FinishedJob(w)
  /\ done' = done \cup {job[w]}
  /\ UNCHANGED <<queueVars, notifying, owner, started>>
-----------------------------------------------------------------------------
(* enqueue and enqueue_future, by a client or by a running task.           *)

MayCall(t) ==
  /\ t \notin notifying
  /\ \/ t \in Clients /\ owner = "alive"
     \/ t \in Workers /\ pc[t] = "running"

Unused(k) == k \notin SeqRange(accepted) \cup refused

NotifierIfWasEmpty(t) == IF tasks = <<>> THEN {t} ELSE {}
Notifier(t) == {t}

Push(t, k) ==
  /\ ~stop
  /\ tasks' = Append(tasks, k)
  /\ accepted' = Append(accepted, k)
  /\ notifying' = notifying \cup Notifier(t)
  /\ UNCHANGED <<stop, pc, job, owner, refused, started, done>>

\* enqueue returns silently, enqueue_future throws std::runtime_error.
Refuse(t, k) ==
  /\ stop
  /\ refused' = refused \cup {k}
  /\ UNCHANGED <<tasks, stop, pc, job, notifying, owner, futures, accepted,
                 started, done>>

Enqueue(t, k) ==
  /\ MayCall(t) /\ Unused(k)
  /\ (Push(t, k) /\ UNCHANGED futures) \/ Refuse(t, k)

EnqueueFuture(t, k) ==
  /\ MayCall(t) /\ Unused(k)
  /\ (Push(t, k) /\ futures' = futures \cup {k}) \/ Refuse(t, k)

NotifyOne(t) ==
  /\ t \in notifying
  /\ notifying' = notifying \ {t}
  /\ IF Asleep = {}
     THEN pc' = pc
     ELSE \E w \in Asleep : pc' = [pc EXCEPT ![w] = "ready"]
  /\ UNCHANGED <<queueVars, job, owner, started, done>>
-----------------------------------------------------------------------------
(* The destructor.  Its caller guarantees that no client is inside a call  *)
(* and that none calls afterwards; tasks that still run may call.          *)

DestroyBegin ==
  /\ owner = "alive"
  /\ notifying \cap Clients = {}
  /\ owner' = "notify"
  /\ stop' = TRUE
  /\ UNCHANGED <<tasks, pc, job, notifying, futures, refused, accepted,
                 started, done>>

WokenByOne(S) == IF S = {} THEN {} ELSE {CHOOSE w \in S : TRUE}
WokenByAll(S) == S

DestroyNotifyAll ==
  /\ owner = "notify"
  /\ owner' = "join"
  /\ pc' = [w \in Workers |-> IF w \in WokenByAll(Asleep) THEN "ready" ELSE pc[w]]
  /\ UNCHANGED <<queueVars, job, notifying, started, done>>

DestroyJoin ==
  /\ owner = "join"
  /\ \A w \in Workers : pc[w] = "exited"
  /\ owner' = "destroyed"
  /\ UNCHANGED <<queueVars, pc, job, notifying, started, done>>

Destroyed == owner = "destroyed" /\ UNCHANGED vars
-----------------------------------------------------------------------------
WorkerStep(w) == Sleep(w) \/ Take(w) \/ Return(w) \/ Finish(w)

Next ==
  \/ \E w \in Workers : WorkerStep(w) \/ SpuriousWakeup(w)
  \/ \E t \in Clients \cup Workers :
       \/ NotifyOne(t)
       \/ \E k \in Tasks : Enqueue(t, k) \/ EnqueueFuture(t, k)
  \/ DestroyBegin \/ DestroyNotifyAll \/ DestroyJoin
  \/ Destroyed

Spec == Init /\ [][Next]_vars

(* Threads that can run do run, and tasks return.  Nobody has to enqueue   *)
(* or to destroy the pool, and no spurious wakeup may be counted on.       *)
Fairness ==
  /\ \A w \in Workers : WF_vars(WorkerStep(w))
  /\ \A t \in Clients \cup Workers : WF_vars(NotifyOne(t))
  /\ WF_vars(DestroyNotifyAll) /\ WF_vars(DestroyJoin)

LiveSpec == Spec /\ Fairness
-----------------------------------------------------------------------------
(* Between push and take nothing is lost, repeated or overtaken, and what  *)
(* was taken is either held by exactly one worker or done (lines 36-39).   *)
AcceptedOnceInOrder ==
  /\ accepted = started \o tasks
  /\ SeqRange(started) = done \cup Held
  /\ \A v, w \in Workers : job[v] = job[w] /\ v # w => job[v] = NoTask

(* No lost wakeup: as long as a worker sleeps, every queued task has a     *)
(* notification on its way or a worker that is about to look at the queue  *)
(* (the notify_one of line 54 comes after the unlock).                     *)
BacklogIsCovered ==
  Asleep # {} => Len(tasks) <= Cardinality(notifying) + Cardinality(Ready)

(* A worker sleeps on a stopped pool only until the notify_all of the      *)
(* destructor (line 90), so the join of line 92 cannot wait for a sleeper. *)
NobodySleepsThroughStop ==
  stop /\ Asleep # {} => owner = "notify"

(* ~thread_pool returns with the queue drained: every accepted task ran to *)
(* its end, and every future that was handed out is ready.                 *)
DrainedWhenDestroyed ==
  owner = "destroyed" => /\ tasks = <<>>
                         /\ done = SeqRange(accepted)
                         /\ futures \subseteq done

(* The pool implements the abstract task service.                          *)
Service == INSTANCE TaskService WITH
  pending  <- tasks,
  active   <- Held,
  finished <- done,
  phase    <- IF ~stop THEN "open"
              ELSE IF owner = "destroyed" THEN "closed" ELSE "closing"

ServiceSpec == Service!Spec
ServiceLiveSpec == Service!LiveSpec
=============================================================================
