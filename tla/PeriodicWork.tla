---------------------------- MODULE PeriodicWork ----------------------------
(***************************************************************************)
(* periodicWork (subModules/periodic_work/periodicWork.h): a timer thread  *)
(* that releases a counting_semaphore at every deadline, a worker thread   *)
(* that acquires it and runs the callback, and the threads that call       *)
(* start, stop, setPeriod and setCallback.  threadQuit, periodMs and       *)
(* periodChanged_ are atomics; workLock is held across steps only by a     *)
(* timer that has found its wait predicate false and is not yet asleep.    *)
(* Time is the choice of when a sleeping timer's deadline comes.           *)
(***************************************************************************)
EXTENDS Integers, FiniteSets

CONSTANTS MaxLag,        \* maxLag_, the capacity of the semaphore
          Owners,        \* threads that call start and stop
          Setters,       \* threads that call setPeriod
          Replacers,     \* threads that call setCallback
          Periods, FirstPeriod,
          Callbacks, FirstCallback,
          NoCallback     \* the empty std::function, one of Callbacks

ASSUME PeriodicAssumption == /\ MaxLag \in Nat
                             /\ FirstPeriod \in Periods
                             /\ {FirstCallback, NoCallback} \subseteq Callbacks

Timer == "timer"
Worker == "worker"

VARIABLES
  threadQuit, periodMs, periodChanged, task,  \* the fields of these names
  live,       \* sem_ is not null
  timer,      \* where the timer thread is; "exited", or "none" (null or joined)
  inUse,      \* the period the timer loaded for its current deadline
  worker,     \* where the worker thread is, in the same way
  localTask,  \* the worker's copy of task
  unheard,    \* history: setPeriod notified a timer on its way into the wait
  stale,      \* history: calls of a replaced callback since setCallback
  own,        \* owner -> where it is in start or stop
  starting,   \* owners that are in start
  setter,     \* setter -> where it is in setPeriod
  count, stopped, acq, rel, seen, stp  \* *sem_, see CountingSemaphore

Sem == INSTANCE CountingSemaphore WITH
  MaxCount <- MaxLag, Acquirers <- {Worker}, Releasers <- {Timer}, Stoppers <- Owners

semVars    == <<count, stopped, acq, rel, seen, stp>>
timerVars  == <<timer, inUse, unheard>>
workerVars == <<worker, localTask, stale>>
ownerVars  == <<own, starting, live>>
fieldVars  == <<threadQuit, periodMs, periodChanged, task>>
vars == <<semVars, timerVars, workerVars, ownerVars, fieldVars, setter>>

TimerPlaces == {"none", "tick", "releasing", "loop", "lock", "decided",
                "asleep", "timeout", "due", "clear", "exited"}
WorkerPlaces == {"none", "loop", "acquire", "check", "copy", "call", "run",
                 "observe", "exited"}
OwnPlaces == {"out", "quit", "notify", "sem", "wake", "seeTimer", "joinTimer",
              "seeWorker", "joinWorker", "clean", "reset", "timer", "worker"}

TypeOK ==
  /\ threadQuit \in BOOLEAN /\ periodChanged \in BOOLEAN /\ live \in BOOLEAN
  /\ unheard \in BOOLEAN
  /\ periodMs \in Periods /\ inUse \in Periods
  /\ task \in Callbacks /\ localTask \in Callbacks
  /\ timer \in TimerPlaces
  /\ worker \in WorkerPlaces
  /\ stale \in 0 .. 2
  /\ own \in [Owners -> OwnPlaces]
  /\ starting \subseteq Owners
  /\ setter \in [Setters -> {"out", "flag", "notify"}]
  /\ acq[Worker] # "out" <=> worker = "acquire"
  /\ rel[Timer] # "out" <=> timer = "releasing"
  /\ Sem!TypeOK

Init ==
  /\ threadQuit = FALSE /\ periodChanged = FALSE /\ live = FALSE
  /\ periodMs = FirstPeriod /\ inUse = FirstPeriod
  /\ task = FirstCallback /\ localTask = NoCallback
  /\ timer = "none" /\ worker = "none"
  /\ stale = 0 /\ unheard = FALSE
  /\ own = [o \in Owners |-> "out"] /\ starting = {}
  /\ setter = [s \in Setters |-> "out"]
  /\ Sem!Init

WorkLockFree == timer # "decided"
Notified == IF timer = "asleep" THEN "lock" ELSE timer  \* workCv.notify_one
-----------------------------------------------------------------------------
(* timerJob                                                                *)

TimerGo(from, to) == timer = from /\ timer' = to

TimerTick ==
  /\ \/ TimerGo("tick", "releasing") /\ Sem!TryRelease(Timer)
     \/ TimerGo("tick", "loop") /\ ~Sem!MayRelease(count) /\ UNCHANGED semVars
  /\ UNCHANGED <<inUse, unheard, workerVars, ownerVars, fieldVars, setter>>

TimerRelease(Step(_)) ==
  /\ timer = "releasing"
  /\ Step(Timer)
  /\ timer' = IF rel'[Timer] = "out" THEN "loop" ELSE "releasing"
  /\ UNCHANGED <<inUse, unheard, workerVars, ownerVars, fieldVars, setter>>

LoadedPeriodHoisted == inUse
LoadedPeriod == periodMs

TimerLoop ==
  /\ timer = "loop"
  /\ IF threadQuit
     THEN timer' = "exited" /\ UNCHANGED inUse
     ELSE timer' = "lock" /\ inUse' = LoadedPeriod
  /\ UNCHANGED <<unheard, semVars, workerVars, ownerVars, fieldVars, setter>>

\* Entering the wait, or back in it after a wakeup or after the deadline.
TimerLock ==
  /\ timer \in {"lock", "timeout"}
  /\ timer' = IF threadQuit THEN "exited"
              ELSE IF periodChanged \/ timer = "timeout" THEN "due"
              ELSE "decided"
  /\ unheard' = FALSE
  /\ UNCHANGED <<inUse, semVars, workerVars, ownerVars, fieldVars, setter>>

TimerSleep ==
  /\ TimerGo("decided", "asleep")
  /\ UNCHANGED <<inUse, unheard, semVars, workerVars, ownerVars, fieldVars, setter>>

TimerTimeout ==
  /\ TimerGo("asleep", "timeout")
  /\ UNCHANGED <<inUse, unheard, semVars, workerVars, ownerVars, fieldVars, setter>>

TimerSpurious ==
  /\ TimerGo("asleep", "lock")
  /\ UNCHANGED <<inUse, unheard, semVars, workerVars, ownerVars, fieldVars, setter>>

TimerDue ==
  /\ timer = "due"
  /\ timer' = IF periodChanged THEN "clear" ELSE "tick"
  /\ UNCHANGED <<inUse, unheard, semVars, workerVars, ownerVars, fieldVars, setter>>

AfterClearNoReload == "lock"
AfterClear == "loop"

TimerClear ==
  /\ TimerGo("clear", AfterClear)
  /\ periodChanged' = FALSE
  /\ UNCHANGED <<inUse, unheard, semVars, workerVars, ownerVars, threadQuit, periodMs, task, setter>>

TimerCas == TimerRelease(Sem!ReleaseCas)

TimerStep == \/ TimerTick \/ TimerLoop \/ TimerLock \/ TimerSleep
             \/ TimerTimeout \/ TimerDue \/ TimerClear \/ TimerCas
             \/ TimerRelease(Sem!ReleaseCheck) \/ TimerRelease(Sem!ReleaseNotify)
             \/ TimerRelease(Sem!ReleaseRetry)
-----------------------------------------------------------------------------
(* workerJob                                                               *)

WorkerGo(from, to) == worker = from /\ worker' = to

WorkerLoop ==
  /\ worker = "loop"
  /\ IF threadQuit
     THEN worker' = "exited" /\ UNCHANGED semVars
     ELSE worker' = "acquire" /\ Sem!Acquire(Worker)
  /\ UNCHANGED <<localTask, stale, timerVars, ownerVars, fieldVars, setter>>

WorkerAcquire ==
  /\ worker = "acquire"
  /\ Sem!AcquireStep(Worker)
  /\ worker' = IF acq'[Worker] = "out" THEN "check" ELSE "acquire"
  /\ UNCHANGED <<localTask, stale, timerVars, ownerVars, fieldVars, setter>>

WorkerSpurious ==
  /\ Sem!SpuriousWakeup(Worker)
  /\ UNCHANGED <<workerVars, timerVars, ownerVars, fieldVars, setter>>

MayExecuteAlways == TRUE
MayExecute == ~threadQuit

WorkerCheck ==
  /\ worker = "check"
  /\ worker' = IF MayExecute THEN "copy" ELSE "exited"
  /\ UNCHANGED <<localTask, stale, semVars, timerVars, ownerVars, fieldVars, setter>>

CopyOfTaskOnce == IF localTask = NoCallback THEN task ELSE localTask
CopyOfTask == task

WorkerCopy ==
  /\ worker = "copy"
  /\ WorkLockFree
  /\ localTask' = CopyOfTask
  /\ worker' = IF CopyOfTask = NoCallback THEN "observe" ELSE "call"
  /\ UNCHANGED <<stale, semVars, timerVars, ownerVars, fieldVars, setter>>

WorkerCall ==
  /\ WorkerGo("call", "run")
  /\ stale' = IF localTask # task /\ stale < 2 THEN stale + 1 ELSE stale
  /\ UNCHANGED <<localTask, semVars, timerVars, ownerVars, fieldVars, setter>>

\* The callback returns; then tickObservers_.distribute() (MessageDistribute).
WorkerReturn ==
  /\ WorkerGo("run", "observe") \/ WorkerGo("observe", "loop")
  /\ UNCHANGED <<localTask, stale, semVars, timerVars, ownerVars, fieldVars, setter>>

WorkerStep == \/ WorkerLoop \/ WorkerAcquire \/ WorkerCheck \/ WorkerCopy
              \/ WorkerCall \/ WorkerReturn
-----------------------------------------------------------------------------
(* stop, and start, which begins with it.  Each pointer is tested where it *)
(* is used; null are they before the first start and after a stop.         *)

OwnGo(o, from, to) == own[o] = from /\ own' = [own EXCEPT ![o] = to]

Stop(o) ==
  /\ OwnGo(o, "out", "quit")
  /\ UNCHANGED <<starting, live, semVars, timerVars, workerVars, fieldVars, setter>>

Start(o) ==
  /\ OwnGo(o, "out", "quit")
  /\ starting' = starting \cup {o}
  /\ UNCHANGED <<live, semVars, timerVars, workerVars, fieldVars, setter>>

StopMayQuitUnlocked == TRUE
StopMayQuit == WorkLockFree

StopQuit(o) ==
  /\ OwnGo(o, "quit", "notify")
  /\ StopMayQuit
  /\ threadQuit' = TRUE
  /\ UNCHANGED <<starting, live, semVars, timerVars, workerVars, periodMs,
                 periodChanged, task, setter>>

StopNotify(o) ==
  /\ OwnGo(o, "notify", "sem")
  /\ timer' = Notified
  /\ UNCHANGED <<starting, live, inUse, unheard, semVars, workerVars, fieldVars, setter>>

StopSem(o) ==
  /\ IF live
     THEN OwnGo(o, "sem", "wake") /\ Sem!StopSet(o)
     ELSE OwnGo(o, "sem", "seeTimer") /\ UNCHANGED semVars
  /\ UNCHANGED <<starting, live, timerVars, workerVars, fieldVars, setter>>

StopWake(o) ==
  /\ OwnGo(o, "wake", "seeTimer")
  /\ Sem!StopWake(o)
  /\ UNCHANGED <<starting, live, timerVars, workerVars, fieldVars, setter>>

\* A thread that is joined is not joinable any more.
StopSeeTimer(o) ==
  /\ OwnGo(o, "seeTimer", IF timer # "none" THEN "joinTimer" ELSE "seeWorker")
  /\ UNCHANGED <<starting, live, semVars, timerVars, workerVars, fieldVars, setter>>

StopJoinTimer(o) ==
  /\ OwnGo(o, "joinTimer", "seeWorker")
  /\ TimerGo("exited", "none")
  /\ UNCHANGED <<starting, live, inUse, unheard, semVars, workerVars, fieldVars, setter>>

WorkerNotJoined == FALSE
WorkerJoinable == worker # "none"

StopSeeWorker(o) ==
  /\ OwnGo(o, "seeWorker", IF WorkerJoinable THEN "joinWorker" ELSE "clean")
  /\ UNCHANGED <<starting, live, semVars, timerVars, workerVars, fieldVars, setter>>

StopJoinWorker(o) ==
  /\ OwnGo(o, "joinWorker", "clean")
  /\ WorkerGo("exited", "none")
  /\ UNCHANGED <<starting, live, localTask, stale, semVars, timerVars, fieldVars, setter>>

StopClean(o) ==
  /\ OwnGo(o, "clean", IF o \in starting THEN "reset" ELSE "out")
  /\ live' = FALSE
  /\ UNCHANGED <<starting, semVars, timerVars, workerVars, fieldVars, setter>>

StartReset(o) ==
  /\ OwnGo(o, "reset", "timer")
  /\ threadQuit' = FALSE
  /\ periodChanged' = FALSE
  /\ UNCHANGED <<starting, live, semVars, timerVars, workerVars, periodMs, task, setter>>

StartTimer(o) ==
  /\ OwnGo(o, "timer", "worker")
  /\ live' = TRUE
  /\ timer' = "tick"
  /\ count' = 0 /\ stopped' = FALSE /\ seen' = [r \in {Timer} |-> 0]
  /\ UNCHANGED <<acq, rel, stp, starting, inUse, unheard, workerVars, fieldVars, setter>>

StartWorker(o) ==
  /\ OwnGo(o, "worker", "out")
  /\ starting' = starting \ {o}
  /\ worker' = "loop" /\ localTask' = NoCallback
  /\ UNCHANGED <<live, stale, semVars, timerVars, fieldVars, setter>>

OwnerStep(o) == \/ StopQuit(o) \/ StopNotify(o) \/ StopSem(o) \/ StopWake(o)
                \/ StopSeeTimer(o) \/ StopJoinTimer(o) \/ StopSeeWorker(o)
                \/ StopJoinWorker(o) \/ StopClean(o)
                \/ StartReset(o) \/ StartTimer(o) \/ StartWorker(o)
-----------------------------------------------------------------------------
(* setPeriod: two stores and a notification, without workLock; and         *)
(* setCallback.                                                            *)

SetterGo(s, from, to) == setter[s] = from /\ setter' = [setter EXCEPT ![s] = to]

SetPeriod(s, p) ==
  /\ SetterGo(s, "out", "flag")
  /\ periodMs' = p
  /\ UNCHANGED <<threadQuit, periodChanged, task, semVars, timerVars, workerVars, ownerVars>>

SetPeriodFlag(s) ==
  /\ SetterGo(s, "flag", "notify")
  /\ periodChanged' = TRUE
  /\ UNCHANGED <<threadQuit, periodMs, task, semVars, timerVars, workerVars, ownerVars>>

NotifiedByNobody == timer
NotifiedBySetter == Notified

SetPeriodNotify(s) ==
  /\ SetterGo(s, "notify", "out")
  /\ timer' = NotifiedBySetter
  /\ unheard' = (unheard \/ timer = "decided")
  /\ UNCHANGED <<inUse, fieldVars, semVars, workerVars, ownerVars>>

\* A critical section of its own, whoever the caller is.
SetCallback(f) ==
  /\ WorkLockFree
  /\ task' = f
  /\ stale' = 0
  /\ UNCHANGED <<threadQuit, periodMs, periodChanged, semVars, timerVars, worker,
                 localTask, ownerVars, setter>>
-----------------------------------------------------------------------------
Next ==
  \/ TimerStep \/ TimerSpurious
  \/ WorkerStep \/ WorkerSpurious
  \/ \E o \in Owners : Stop(o) \/ Start(o) \/ OwnerStep(o)
  \/ \E s \in Setters :
       \/ SetPeriodFlag(s) \/ SetPeriodNotify(s)
       \/ \E p \in Periods : SetPeriod(s, p)
  \/ \E r \in Replacers, f \in Callbacks : SetCallback(f)

Spec == Init /\ [][Next]_vars

(* The two threads run, deadlines come, callbacks return, and a call that  *)
(* began goes on; who waits for a mutex that is free again and again gets  *)
(* it, and a compare-exchange that can succeed does not fail forever.      *)
(* Nobody has to call anything.                                            *)
Fairness ==
  /\ SF_vars(TimerStep) /\ SF_vars(TimerCas)
  /\ SF_vars(WorkerStep)
  /\ \A o \in Owners : SF_vars(OwnerStep(o))
  /\ \A s \in Setters : WF_vars(SetPeriodFlag(s)) /\ WF_vars(SetPeriodNotify(s))

LiveSpec == Spec /\ Fairness
-----------------------------------------------------------------------------
(* stop never waits for a deadline: when it has set threadQuit, a timer    *)
(* that waits is about to be notified (threadQuit is set under workLock,   *)
(* lines 79-83, and the notification cannot fall between the timer's look  *)
(* at it and its sleep).                                                   *)
TimerHearsStop ==
  threadQuit /\ timer \in {"decided", "asleep"} => \E o \in Owners : own[o] = "notify"

(* Nor does stop wait for a tick, or a tick for the next one: a worker     *)
(* that waits in acquire is about to be told by stop when threadQuit is    *)
(* set, and by the timer when there is a tick; also right after a start,   *)
(* which makes the semaphore anew.                                         *)
WorkerMissesNothing ==
  acq[Worker] \in {"decided", "asleep"} =>
    /\ threadQuit => \E o \in Owners : own[o] \in {"notify", "sem", "wake"}
    /\ count > 0 => rel[Timer] = "notify"

(* A timer never waits on a period that setPeriod has replaced unless the  *)
(* change is still flagged for it, although setPeriod stores and the timer *)
(* clears and loads in separate steps without a lock (lines 72-73, 130,    *)
(* 142-146); and where the wait of a replaced period ran out, its deadline *)
(* gives no tick.                                                          *)
PeriodTakesEffect ==
  /\ timer \in {"decided", "asleep", "timeout", "due"}
  /\ ~periodChanged
  /\ \A s \in Setters : setter[s] # "flag"
  => inUse = periodMs

(* A timer that sleeps beside a flagged change is about to be notified,    *)
(* except in the one window that line 74 leaves open by notifying without  *)
(* workLock: the notification found it between predicate and sleep.        *)
ChangeIsHeard ==
  timer = "asleep" /\ periodChanged /\ ~unheard => \E s \in Setters : setter[s] = "notify"

(* A callback that setCallback replaced is begun at most once more: by a   *)
(* worker that had copied it before (lines 173-181).                       *)
AtMostOneStaleCall == stale <= 1

(* periodicWork implements the abstract periodic task: ticks are executed  *)
(* one by one, no more than maxLag wait for a busy worker, and one more    *)
(* for a worker that is about to look at threadQuit.  Once stop has set    *)
(* that flag no tick is taken (line 167); the callback of the tick taken   *)
(* before may still begin after it (lines 173-180), and stop returns only  *)
(* when it has ended.  With fair threads a due tick is executed and stop   *)
(* ends.                                                                   *)
TaskOfOwner == INSTANCE PeriodicTask WITH
  mode <- IF ~live THEN "stopped" ELSE IF threadQuit THEN "stopping" ELSE "running",
  due  <- IF ~live \/ threadQuit THEN 0 ELSE count + (IF worker = "check" THEN 1 ELSE 0),
  busy <- CASE worker \in {"copy", "call"} -> "taken"
            [] worker = "run"     -> "callback"
            [] worker = "observe" -> "observers"
            [] OTHER              -> "no"

TaskSpec == TaskOfOwner!Spec
TaskLiveSpec == TaskOfOwner!LiveSpec

(* A running timer comes to use the period that was set last.              *)
NewPeriodIsUsed ==
  \A p \in Periods : timer # "none" /\ periodMs = p ~> inUse = p \/ periodMs # p \/ threadQuit

(* All public methods are thread-safe (detial.md): no two threads are in   *)
(* join of the same std::thread.                                           *)
OneThreadJoins ==
  \A place \in {"joinTimer", "joinWorker"} : Cardinality({o \in Owners : own[o] = place}) <= 1
=============================================================================
