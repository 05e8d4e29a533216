------------------------- MODULE PeriodicWorkProofs -------------------------
(***************************************************************************)
(* Theorems about PeriodicWork, for every capacity, all sets of periods,   *)
(* callbacks, setters and replacers.  Where a theorem needs that start and *)
(* stop are called by one thread (two may join the same std::thread), it   *)
(* says so.                                                                *)
(***************************************************************************)
EXTENDS PeriodicWork, TLAPS

OneOwner == \E o : Owners = {o}

-----------------------------------------------------------------------------
(* What holds whoever calls start and stop.                                *)

(* The types of the variables, without what ties them to the semaphore.    *)
PlainTypes ==
  /\ threadQuit \in BOOLEAN /\ periodChanged \in BOOLEAN /\ live \in BOOLEAN
  /\ unheard \in BOOLEAN
  /\ periodMs \in Periods /\ inUse \in Periods
  /\ task \in Callbacks /\ localTask \in Callbacks
  /\ timer \in TimerPlaces
  /\ worker \in WorkerPlaces
  /\ stale \in 0 .. 2
  /\ own \in [Owners -> OwnPlaces]
  /\ starting \subseteq Owners
  /\ setter \in [Setters -> {"out", "flag", "notify"}]

(* These types need no argument about the order of steps.                    *)
LEMMA PlainTypesCorrect == Spec => []PlainTypes
<1>1. Init => PlainTypes
  <2> SUFFICES ASSUME Init PROVE PlainTypes
    OBVIOUS
  <2>1. /\ threadQuit \in BOOLEAN /\ periodChanged \in BOOLEAN
        /\ live \in BOOLEAN /\ unheard \in BOOLEAN
    BY DEF Init
  <2> QED
    BY <2>1, PeriodicAssumption
    DEF Init, PlainTypes, TimerPlaces, WorkerPlaces, OwnPlaces
<1>2. PlainTypes /\ [Next]_vars => PlainTypes'
  <2> SUFFICES ASSUME PlainTypes, [Next]_vars PROVE PlainTypes'
    OBVIOUS
  <2> USE DEF PlainTypes, timerVars, workerVars, ownerVars, fieldVars
  <2>1. CASE TimerStep \/ TimerSpurious
    <3>1. CASE TimerTick
      BY <3>1 DEF TimerTick, TimerGo, TimerPlaces
    <3>2. CASE TimerLoop
      BY <3>2 DEF TimerLoop, LoadedPeriod, TimerPlaces
    <3>3. CASE TimerLock \/ TimerSleep \/ TimerTimeout \/ TimerDue \/ TimerSpurious
      BY <3>3 DEF TimerLock, TimerSleep, TimerTimeout, TimerDue, TimerSpurious,
                  TimerGo, TimerPlaces
    <3>4. CASE TimerClear
      BY <3>4 DEF TimerClear, TimerGo, AfterClear, TimerPlaces
    <3>5. CASE \/ TimerCas \/ TimerRelease(Sem!ReleaseCheck)
               \/ TimerRelease(Sem!ReleaseNotify) \/ TimerRelease(Sem!ReleaseRetry)
      BY <3>5 DEF TimerCas, TimerRelease, TimerPlaces
    <3> QED
      BY <2>1, <3>1, <3>2, <3>3, <3>4, <3>5 DEF TimerStep
  <2>2. CASE WorkerStep \/ WorkerSpurious
    BY <2>2 DEF WorkerStep, WorkerSpurious, WorkerLoop, WorkerAcquire, WorkerCheck,
                WorkerCopy, CopyOfTask, WorkerCall, WorkerReturn, WorkerGo, WorkerPlaces
  <2>3. ASSUME NEW o \in Owners, Stop(o) \/ Start(o) \/ OwnerStep(o)
        PROVE  PlainTypes'
    <3>1. CASE Stop(o) \/ Start(o) \/ StopQuit(o) \/ StopSem(o) \/ StopWake(o)
      BY <3>1 DEF Stop, Start, StopQuit, StopSem, StopWake, OwnGo, OwnPlaces
    <3>2. CASE StopNotify(o)
      BY <3>2 DEF StopNotify, Notified, OwnGo, OwnPlaces, TimerPlaces
    <3>3. CASE StopSeeTimer(o) \/ StopSeeWorker(o) \/ StopClean(o) \/ StartReset(o)
      BY <3>3 DEF StopSeeTimer, StopSeeWorker, StopClean, StartReset, OwnGo, OwnPlaces
    <3>5. CASE StopJoinTimer(o) \/ StopJoinWorker(o)
      BY <3>5 DEF StopJoinTimer, StopJoinWorker, TimerGo, WorkerGo, OwnGo, OwnPlaces,
                  TimerPlaces, WorkerPlaces
    <3>4. CASE StartTimer(o) \/ StartWorker(o)
      BY <3>4, PeriodicAssumption
      DEF StartTimer, StartWorker, OwnGo, OwnPlaces, TimerPlaces, WorkerPlaces
    <3> QED
      BY <2>3, <3>1, <3>2, <3>3, <3>4, <3>5 DEF OwnerStep
  <2>4. ASSUME NEW s \in Setters, NEW p \in Periods,
               SetPeriodFlag(s) \/ SetPeriodNotify(s) \/ SetPeriod(s, p)
        PROVE  PlainTypes'
    BY <2>4 DEF SetPeriodFlag, SetPeriodNotify, SetPeriod, SetterGo, NotifiedBySetter,
                Notified, TimerPlaces
  <2>5. ASSUME NEW f \in Callbacks, SetCallback(f) PROVE PlainTypes'
    BY <2>5 DEF SetCallback
  <2>6. CASE UNCHANGED vars
    BY <2>6 DEF vars
  <2> QED
    BY <2>1, <2>2, <2>3, <2>4, <2>5, <2>6, PeriodicAssumption DEF Next
<1> QED
  BY <1>1, <1>2, PTL DEF Spec

(* stop is heard: a timer that waits while threadQuit is set is about to   *)
(* be notified.  The invariant adds that the flag cannot be set while a    *)
(* timer stands between its look at it and its sleep.                      *)
QuitInv ==
  /\ threadQuit => timer # "decided"
  /\ threadQuit /\ timer = "asleep" => \E o \in Owners : own[o] = "notify"

(* When stop has set threadQuit, a timer that waits is about to be           *)
(* notified: the join of line 92 does not wait for a deadline.               *)
THEOREM StopIsHeard == Spec => []TimerHearsStop
<1>1. Init => QuitInv
  BY DEF Init, QuitInv
<1>2. PlainTypes /\ QuitInv /\ [Next]_vars => QuitInv'
  <2> SUFFICES ASSUME PlainTypes, QuitInv, [Next]_vars PROVE QuitInv'
    OBVIOUS
  <2> USE DEF QuitInv, timerVars, workerVars, ownerVars, fieldVars
  <2>1. CASE TimerStep \/ TimerSpurious
    BY <2>1 DEF TimerStep, TimerSpurious, TimerTick, TimerLoop, TimerLock, TimerSleep,
                TimerTimeout, TimerDue, TimerClear, AfterClear, TimerCas,
                TimerRelease, TimerGo
  <2>2. CASE WorkerStep \/ WorkerSpurious
    BY <2>2 DEF WorkerStep, WorkerSpurious, WorkerLoop, WorkerAcquire, WorkerCheck,
                WorkerCopy, WorkerCall, WorkerReturn
  <2>3. ASSUME NEW o \in Owners, Stop(o) \/ Start(o) \/ OwnerStep(o)
        PROVE  QuitInv'
    <3>1. own[o] # "notify" => \A p \in Owners : own[p] = "notify" => own'[p] = "notify"
      BY <2>3 DEF Stop, Start, OwnerStep, StopQuit, StopNotify, StopSem, StopWake,
                  StopSeeTimer, StopJoinTimer, StopSeeWorker, StopJoinWorker, StopClean,
                  StartReset, StartTimer, StartWorker, OwnGo, PlainTypes
    <3>2. CASE StopQuit(o)
      BY <3>2 DEF StopQuit, StopMayQuit, WorkLockFree, OwnGo, PlainTypes
    <3>3. CASE StopNotify(o)
      BY <3>3 DEF StopNotify, Notified
    <3>4. CASE ~StopQuit(o) /\ ~StopNotify(o)
      BY <2>3, <3>1, <3>4
      DEF Stop, Start, OwnerStep, StopSem, StopWake, StopSeeTimer, StopJoinTimer,
          StopSeeWorker, StopJoinWorker, StopClean, StartReset, StartTimer, StartWorker,
          OwnGo, TimerGo
    <3> QED
      BY <3>2, <3>3, <3>4
  <2>4. ASSUME NEW s \in Setters, NEW p \in Periods,
               SetPeriodFlag(s) \/ SetPeriodNotify(s) \/ SetPeriod(s, p)
        PROVE  QuitInv'
    BY <2>4 DEF SetPeriodFlag, SetPeriodNotify, SetPeriod, NotifiedBySetter, Notified
  <2>5. ASSUME NEW f \in Callbacks, SetCallback(f) PROVE QuitInv'
    BY <2>5 DEF SetCallback
  <2>6. CASE UNCHANGED vars
    BY <2>6 DEF vars
  <2> QED
    BY <2>1, <2>2, <2>3, <2>4, <2>5, <2>6, PeriodicAssumption DEF Next
<1>3. QuitInv => TimerHearsStop
  BY DEF QuitInv, TimerHearsStop
<1> QED
  BY <1>1, <1>2, <1>3, PlainTypesCorrect, PTL DEF Spec

(* A flagged change is heard: the invariant begins between the timer's     *)
(* look at the flag and its sleep, where only a notification that comes    *)
(* too early can be lost.                                                  *)
ChangeInv ==
  timer \in {"decided", "asleep"} /\ periodChanged /\ ~unheard =>
    \E s \in Setters : setter[s] = "notify"

(* A timer that sleeps beside a change that setPeriod has flagged is about   *)
(* to be notified, unless that notification came between its predicate and   *)
(* its sleep (line 74, which does not take workLock).                        *)
THEOREM ChangeHeard == Spec => []ChangeIsHeard
<1>1. Init => ChangeInv
  BY DEF Init, ChangeInv
<1>2. PlainTypes /\ ChangeInv /\ [Next]_vars => ChangeInv'
  <2> SUFFICES ASSUME PlainTypes, ChangeInv, [Next]_vars PROVE ChangeInv'
    OBVIOUS
  <2> USE DEF ChangeInv, timerVars, workerVars, ownerVars, fieldVars
  <2>1. CASE TimerStep \/ TimerSpurious
    BY <2>1 DEF TimerStep, TimerSpurious, TimerTick, TimerLoop, TimerLock, TimerSleep,
                TimerTimeout, TimerDue, TimerClear, AfterClear, TimerCas,
                TimerRelease, TimerGo
  <2>2. CASE WorkerStep \/ WorkerSpurious
    BY <2>2 DEF WorkerStep, WorkerSpurious, WorkerLoop, WorkerAcquire, WorkerCheck,
                WorkerCopy, WorkerCall, WorkerReturn
  <2>3. ASSUME NEW o \in Owners, Stop(o) \/ Start(o) \/ OwnerStep(o)
        PROVE  ChangeInv'
    BY <2>3 DEF Stop, Start, OwnerStep, StopQuit, StopNotify, Notified, StopSem, StopWake,
                StopSeeTimer, StopJoinTimer, StopSeeWorker, StopJoinWorker, StopClean,
                StartReset, StartTimer, StartWorker, TimerGo
  <2>4. ASSUME NEW s \in Setters, NEW p \in Periods, SetPeriod(s, p)
        PROVE  ChangeInv'
    BY <2>4 DEF SetPeriod, SetterGo, PlainTypes
  <2>5. ASSUME NEW s \in Setters, SetPeriodFlag(s) PROVE ChangeInv'
    BY <2>5 DEF SetPeriodFlag, SetterGo, PlainTypes
  <2>6. ASSUME NEW s \in Setters, SetPeriodNotify(s) PROVE ChangeInv'
    BY <2>6 DEF SetPeriodNotify, NotifiedBySetter, Notified
  <2>7. ASSUME NEW f \in Callbacks, SetCallback(f) PROVE ChangeInv'
    BY <2>7 DEF SetCallback
  <2>8. CASE UNCHANGED vars
    BY <2>8 DEF vars
  <2> QED
    BY <2>1, <2>2, <2>3, <2>4, <2>5, <2>6, <2>7, <2>8 DEF Next
<1>3. ChangeInv => ChangeIsHeard
  BY DEF ChangeInv, ChangeIsHeard
<1> QED
  BY <1>1, <1>2, <1>3, PlainTypesCorrect, PTL DEF Spec

(* A replaced callback is called at most once more: a worker about to call *)
(* one has not called another since the replacement.                       *)
StaleInv ==
  /\ stale \in 0 .. 1
  /\ worker = "call" /\ localTask # task => stale = 0

(* A callback that setCallback replaced is begun at most once more (lines    *)
(* 173-181).                                                                 *)
THEOREM OneStaleCall == Spec => []AtMostOneStaleCall
<1>1. Init => StaleInv
  BY DEF Init, StaleInv
<1>2. StaleInv /\ [Next]_vars => StaleInv'
  <2> SUFFICES ASSUME StaleInv, [Next]_vars PROVE StaleInv'
    OBVIOUS
  <2> USE DEF StaleInv, timerVars, workerVars, ownerVars, fieldVars
  <2>1. CASE TimerStep \/ TimerSpurious
    BY <2>1 DEF TimerStep, TimerSpurious, TimerTick, TimerLoop, TimerLock, TimerSleep,
                TimerTimeout, TimerDue, TimerClear, TimerCas, TimerRelease
  <2>2. CASE WorkerStep \/ WorkerSpurious
    BY <2>2 DEF WorkerStep, WorkerSpurious, WorkerLoop, WorkerAcquire, WorkerCheck,
                WorkerCopy, CopyOfTask, WorkerCall, WorkerReturn, WorkerGo
  <2>3. ASSUME NEW o \in Owners, Stop(o) \/ Start(o) \/ OwnerStep(o)
        PROVE  StaleInv'
    BY <2>3 DEF Stop, Start, OwnerStep, StopQuit, StopNotify, StopSem, StopWake,
                StopSeeTimer, StopJoinTimer, StopSeeWorker, StopJoinWorker, StopClean,
                StartReset, StartTimer, StartWorker, WorkerGo
  <2>4. ASSUME NEW s \in Setters, NEW p \in Periods,
               SetPeriodFlag(s) \/ SetPeriodNotify(s) \/ SetPeriod(s, p)
        PROVE  StaleInv'
    BY <2>4 DEF SetPeriodFlag, SetPeriodNotify, SetPeriod
  <2>5. ASSUME NEW f \in Callbacks, SetCallback(f) PROVE StaleInv'
    BY <2>5 DEF SetCallback
  <2>6. CASE UNCHANGED vars
    BY <2>6 DEF vars
  <2> QED
    BY <2>1, <2>2, <2>3, <2>4, <2>5, <2>6, PeriodicAssumption DEF Next
<1>3. StaleInv => AtMostOneStaleCall
  BY DEF StaleInv, AtMostOneStaleCall
<1> QED
  BY <1>1, <1>2, <1>3, PTL DEF Spec
-----------------------------------------------------------------------------
(* With one owner.                                                         *)

(* What start and stop rely on at each of their steps: both threads are    *)
(* joined before anything is deleted or made anew, and the semaphore is    *)
(* stopped only when threadQuit is set.                                    *)
Lifecycle(o) ==
  /\ ~live => timer = "none" /\ worker = "none"
  /\ own[o] \in {"wake", "joinTimer", "joinWorker", "worker"} => live
  /\ own[o] \in {"reset", "timer"} => ~live
  /\ own[o] \in {"seeWorker", "joinWorker", "clean", "reset", "timer"} => timer = "none"
  /\ own[o] \in {"clean", "reset", "timer", "worker"} => worker = "none"
  /\ own[o] \in {"notify", "sem", "wake", "seeTimer", "joinTimer", "seeWorker",
                  "joinWorker", "clean"} => threadQuit
  /\ own[o] \in {"timer", "worker"} => ~threadQuit
  /\ stopped /\ live => threadQuit

OwnerInv == TypeOK /\ \A o \in Owners : Lifecycle(o)

(* OwnerInv is inductive when one thread calls start and stop.             *)
LEMMA OwnerInvCorrect == ASSUME OneOwner PROVE Spec => []OwnerInv
<1> PICK o : Owners = {o}
  BY DEF OneOwner
<1> USE DEF Lifecycle, timerVars, workerVars, ownerVars, fieldVars, semVars
<1>1. Init => OwnerInv
  <2> SUFFICES ASSUME Init PROVE OwnerInv
    OBVIOUS
  <2>1. /\ threadQuit \in BOOLEAN /\ periodChanged \in BOOLEAN
        /\ live \in BOOLEAN /\ unheard \in BOOLEAN /\ stopped \in BOOLEAN
    BY DEF Init, Sem!Init
  <2> QED
    BY <2>1, PeriodicAssumption
    DEF Init, Sem!Init, OwnerInv, TypeOK, Sem!TypeOK, TimerPlaces, WorkerPlaces,
        OwnPlaces, Sem!AcqPlaces, Sem!RelPlaces
<1>2. PlainTypes' /\ OwnerInv /\ [Next]_vars => OwnerInv'
  <2> SUFFICES ASSUME PlainTypes', OwnerInv, [Next]_vars PROVE OwnerInv'
    OBVIOUS
  <2> USE DEF OwnerInv, TypeOK, PlainTypes, Sem!TypeOK, Sem!AcqPlaces, Sem!RelPlaces
  <2>1. CASE \/ TimerLoop \/ TimerLock \/ TimerSleep \/ TimerTimeout \/ TimerDue
             \/ TimerClear \/ TimerSpurious
    BY <2>1 DEF TimerLoop, TimerLock, TimerSleep, TimerTimeout, TimerDue, TimerClear,
                AfterClear, TimerSpurious, TimerGo
  <2>2. CASE TimerTick
    BY <2>2 DEF TimerTick, TimerGo, Sem!TryRelease, Sem!ReleaseGo, Sem!MayRelease
  <2>3. CASE TimerCas
    BY <2>3, PeriodicAssumption
    DEF TimerCas, TimerRelease, Sem!ReleaseCas, Sem!ReleaseGo, Sem!CasHit
  <2>4. CASE TimerRelease(Sem!ReleaseCheck) \/ TimerRelease(Sem!ReleaseRetry)
    BY <2>4 DEF TimerRelease, Sem!ReleaseCheck, Sem!ReleaseRetry, Sem!ReleaseGo,
                Sem!MayRelease
  <2>5. CASE TimerRelease(Sem!ReleaseNotify)
    BY <2>5 DEF TimerRelease, Sem!ReleaseNotify, Sem!ReleaseGo, Sem!Asleep
  <2>6. CASE WorkerLoop \/ WorkerCheck \/ WorkerCopy \/ WorkerCall \/ WorkerReturn
    BY <2>6 DEF WorkerLoop, WorkerCheck, WorkerCopy, WorkerCall, WorkerReturn,
                WorkerGo, Sem!Acquire, Sem!AcquireGo
  <2>7. CASE WorkerAcquire \/ WorkerSpurious
    BY <2>7, PeriodicAssumption
    DEF WorkerAcquire, WorkerSpurious, Sem!SpuriousWakeup, Sem!AcquireStep,
        Sem!AcquireTake, Sem!AcquireZero, Sem!AcquireLook, Sem!AcquireLock,
        Sem!AcquireSleep, Sem!AcquireGo
  <2>8. CASE Stop(o) \/ Start(o) \/ OwnerStep(o)
    <3>1. CASE Stop(o) \/ Start(o) \/ StopQuit(o)
      BY <3>1 DEF Stop, Start, StopQuit, OwnGo
    <3>2. CASE StopNotify(o)
      BY <3>2 DEF StopNotify, Notified, OwnGo
    <3>3. CASE StopSem(o)
      <4>1. /\ own[o] = "sem" /\ UNCHANGED <<count, acq, rel, seen, live, starting>>
            /\ UNCHANGED <<timerVars, workerVars, fieldVars, setter>>
        BY <3>3 DEF StopSem, OwnGo, Sem!StopSet
      <4>2. CASE live
        <5>1. stopped' = TRUE /\ stp' = [stp EXCEPT ![o] = "wake"]
          BY <3>3, <4>2 DEF StopSem, Sem!StopSet
        <5>2. own' = [own EXCEPT ![o] = "wake"]
          BY <3>3, <4>2 DEF StopSem, OwnGo
        <5>3. Lifecycle(o)'
          BY <4>1, <4>2, <5>2
        <5> QED
          BY <4>1, <5>1, <5>2, <5>3 DEF OwnPlaces
      <4>3. CASE ~live
        <5>1. UNCHANGED semVars /\ own' = [own EXCEPT ![o] = "seeTimer"]
          BY <3>3, <4>3 DEF StopSem, OwnGo
        <5>2. Lifecycle(o)'
          BY <4>1, <4>3, <5>1
        <5> QED
          BY <4>1, <5>1, <5>2 DEF OwnPlaces
      <4> QED
        BY <4>2, <4>3
    <3>7. CASE StopWake(o)
      <4>1. /\ acq'[Worker] # "out" <=> acq[Worker] # "out"
            /\ acq' \in [{Worker} -> Sem!AcqPlaces]
        BY <3>7 DEF StopWake, Sem!StopWake
      <4>2. Lifecycle(o)'
        BY <3>7 DEF StopWake, Sem!StopWake, OwnGo
      <4> QED
        BY <3>7, <4>1, <4>2 DEF StopWake, Sem!StopWake
    <3>4. CASE StopJoinTimer(o) \/ StopJoinWorker(o) \/ StopClean(o) \/ StartReset(o)
      BY <3>4 DEF StopJoinTimer, StopJoinWorker, TimerGo, WorkerGo, StopClean,
                  StartReset, OwnGo
    <3>8. CASE StopSeeTimer(o) \/ StopSeeWorker(o)
      BY <3>8 DEF StopSeeTimer, StopSeeWorker, WorkerJoinable, OwnGo
    <3>5. CASE StartTimer(o)
      <4>1. rel[Timer] = "out" /\ timer' = "tick" /\ UNCHANGED <<rel, acq, stp, worker>>
        BY <3>5 DEF StartTimer, OwnGo
      <4>2. Lifecycle(o)'
        BY <3>5, <4>1 DEF StartTimer, OwnGo
      <4>3. Sem!TypeOK'
        <5>1. count' = 0 /\ stopped' = FALSE /\ seen' = [r \in {Timer} |-> 0]
          BY <3>5 DEF StartTimer
        <5>2. 0 \in 0 .. MaxLag
          BY PeriodicAssumption
        <5>3. seen' \in [{Timer} -> 0 .. MaxLag]
          BY <5>1, <5>2
        <5> QED
          BY <4>1, <5>1, <5>2, <5>3
      <4> QED
        BY <4>1, <4>2, <4>3
    <3>6. CASE StartWorker(o)
      BY <3>6 DEF StartWorker, OwnGo
    <3> QED
      BY <2>8, <3>1, <3>2, <3>3, <3>4, <3>5, <3>6, <3>7, <3>8 DEF OwnerStep
  <2>9. ASSUME NEW s \in Setters, NEW p \in Periods,
               SetPeriodFlag(s) \/ SetPeriodNotify(s) \/ SetPeriod(s, p)
        PROVE  OwnerInv'
    BY <2>9 DEF SetPeriodFlag, SetPeriodNotify, SetPeriod, NotifiedBySetter, Notified
  <2>10. ASSUME NEW f \in Callbacks, SetCallback(f) PROVE OwnerInv'
    BY <2>10 DEF SetCallback
  <2>11. CASE UNCHANGED vars
    BY <2>11 DEF vars
  <2> QED
    BY <2>1, <2>2, <2>3, <2>4, <2>5, <2>6, <2>7, <2>8, <2>9, <2>10, <2>11,
       PeriodicAssumption
    DEF Next, TimerStep, WorkerStep
<1> QED
  BY <1>1, <1>2, PlainTypesCorrect, PTL DEF Spec

(* Every variable keeps its type, and the threads' places agree with their *)
(* places in the semaphore.                                                *)
THEOREM TypeCorrect == ASSUME OneOwner PROVE Spec => []TypeOK
<1>1. OwnerInv => TypeOK
  BY DEF OwnerInv
<1> QED
  BY <1>1, OwnerInvCorrect, PTL
-----------------------------------------------------------------------------
(* A timer never waits on a replaced period unless the change is flagged.  *)
(* The invariant begins where the period was loaded; that start, which     *)
(* clears the flag too, finds no timer needs one owner.                    *)
PeriodInv ==
  /\ timer \in {"lock", "decided", "asleep", "timeout", "due"}
  /\ ~periodChanged
  /\ \A s \in Setters : setter[s] # "flag"
  => inUse = periodMs

(* A timer never waits on a period that setPeriod replaced unless the        *)
(* change is still flagged for it, and a wait on a replaced period that      *)
(* runs out gives no tick (lines 72-73, 142-146).                            *)
THEOREM NewPeriodHeard == ASSUME OneOwner PROVE Spec => []PeriodTakesEffect
<1>1. Init => PeriodInv
  BY DEF Init, PeriodInv
<1>2. PlainTypes /\ OwnerInv /\ PeriodInv /\ [Next]_vars => PeriodInv'
  <2> SUFFICES ASSUME PlainTypes, OwnerInv, PeriodInv, [Next]_vars PROVE PeriodInv'
    OBVIOUS
  <2> USE DEF PeriodInv, timerVars, workerVars, ownerVars, fieldVars
  <2>1. CASE TimerStep \/ TimerSpurious
    BY <2>1 DEF TimerStep, TimerSpurious, TimerTick, TimerLoop, LoadedPeriod, TimerLock,
                TimerSleep, TimerTimeout, TimerDue, TimerClear, AfterClear, TimerCas,
                TimerRelease, TimerGo
  <2>2. CASE WorkerStep \/ WorkerSpurious
    BY <2>2 DEF WorkerStep, WorkerSpurious, WorkerLoop, WorkerAcquire, WorkerCheck,
                WorkerCopy, WorkerCall, WorkerReturn
  <2>3. ASSUME NEW o \in Owners, Stop(o) \/ Start(o) \/ OwnerStep(o)
        PROVE  PeriodInv'
    <3>1. CASE StartReset(o)
      BY <3>1 DEF StartReset, OwnGo, OwnerInv, Lifecycle
    <3>2. CASE StopNotify(o)
      BY <3>2 DEF StopNotify, Notified
    <3>3. CASE StartTimer(o)
      BY <3>3 DEF StartTimer
    <3>4. CASE ~StartReset(o) /\ ~StopNotify(o) /\ ~StartTimer(o)
      BY <2>3, <3>4
      DEF Stop, Start, OwnerStep, StopQuit, StopSem, StopWake, StopSeeTimer,
          StopJoinTimer, StopSeeWorker, StopJoinWorker, StopClean, StartWorker, TimerGo
    <3> QED
      BY <3>1, <3>2, <3>3, <3>4
  <2>4. ASSUME NEW s \in Setters, SetPeriodFlag(s) \/ SetPeriodNotify(s)
        PROVE  PeriodInv'
    BY <2>4 DEF SetPeriodFlag, SetPeriodNotify, SetterGo, NotifiedBySetter,
                Notified, PlainTypes
  <2>5. ASSUME NEW s \in Setters, NEW p \in Periods, SetPeriod(s, p)
        PROVE  PeriodInv'
    BY <2>5 DEF SetPeriod, SetterGo, PlainTypes
  <2>6. ASSUME NEW f \in Callbacks, SetCallback(f) PROVE PeriodInv'
    BY <2>6 DEF SetCallback
  <2>7. CASE UNCHANGED vars
    BY <2>7 DEF vars
  <2> QED
    BY <2>1, <2>2, <2>3, <2>4, <2>5, <2>6, <2>7 DEF Next
<1>3. PeriodInv => PeriodTakesEffect
  BY DEF PeriodInv, PeriodTakesEffect
<1> QED
  BY <1>1, <1>2, <1>3, PlainTypesCorrect, OwnerInvCorrect, PTL DEF Spec
-----------------------------------------------------------------------------
(* Neither stop nor a tick is slept through by the worker.  The invariant  *)
(* adds where the owner can be while threads live and threadQuit is set,   *)
(* and that it joins them after it has stopped the semaphore.              *)
HearInv ==
  /\ WorkerMissesNothing
  /\ \A o \in Owners :
       /\ threadQuit /\ live =>
            own[o] \in {"notify", "sem", "wake", "seeTimer", "joinTimer", "seeWorker",
                        "joinWorker", "clean"}
       /\ live /\ own[o] \in {"wake", "seeTimer", "joinTimer", "seeWorker", "joinWorker"} =>
            stopped

(* A worker that waits in acquire is about to be told of a stop and of a   *)
(* tick, also after a start, which makes the semaphore anew.               *)
THEOREM WorkerIsTold == ASSUME OneOwner PROVE Spec => []WorkerMissesNothing
<1> PICK o : Owners = {o}
  BY DEF OneOwner
<1>1. Init => HearInv
  BY DEF Init, Sem!Init, HearInv, WorkerMissesNothing
<1>2. OwnerInv /\ HearInv /\ [Next]_vars => HearInv'
  <2> SUFFICES ASSUME OwnerInv, HearInv, [Next]_vars PROVE HearInv'
    OBVIOUS
  <2> USE DEF timerVars, workerVars, ownerVars, fieldVars, semVars
  <2>0. /\ own \in [Owners -> OwnPlaces]
        /\ acq \in [{Worker} -> Sem!AcqPlaces] /\ rel \in [{Timer} -> Sem!RelPlaces]
        /\ count \in Nat /\ MaxLag \in Nat
        /\ threadQuit \in BOOLEAN /\ live \in BOOLEAN /\ stopped \in BOOLEAN
        /\ acq[Worker] # "out" <=> worker = "acquire"
        /\ rel[Timer] # "out" <=> timer = "releasing"
        /\ Lifecycle(o)
    BY PeriodicAssumption DEF OwnerInv, TypeOK, Sem!TypeOK
  <2>1. ASSUME UNCHANGED <<threadQuit, live, own, stopped, acq, count>>,
               rel[Timer] = "notify" => rel'[Timer] = "notify"
        PROVE  HearInv'
    BY <2>1 DEF HearInv, WorkerMissesNothing
  <2>2. ASSUME UNCHANGED <<threadQuit, live, own, stopped>>,
               acq'[Worker] \notin {"decided", "asleep"}
        PROVE  HearInv'
    BY <2>2 DEF HearInv, WorkerMissesNothing
  <2>3. CASE \/ TimerLoop \/ TimerLock \/ TimerSleep \/ TimerTimeout \/ TimerDue
             \/ TimerClear \/ TimerSpurious
    BY <2>1, <2>3 DEF TimerLoop, TimerLock, TimerSleep, TimerTimeout, TimerDue, TimerClear,
       TimerSpurious
  <2>4. CASE TimerTick
    BY <2>0, <2>1, <2>4 DEF TimerTick, TimerGo, Sem!TryRelease, Sem!ReleaseGo
  <2>5. CASE TimerRelease(Sem!ReleaseCheck) \/ TimerRelease(Sem!ReleaseRetry)
    BY <2>0, <2>1, <2>5 DEF TimerRelease, Sem!ReleaseCheck, Sem!ReleaseRetry, Sem!ReleaseGo
  <2>6. CASE TimerCas
    <3>1. /\ UNCHANGED <<threadQuit, live, own, stopped, acq>>
          /\ count' = count + 1 /\ rel[Timer] = "cas"
          /\ count = 0 => rel' = [rel EXCEPT ![Timer] = "notify"]
      BY <2>6 DEF TimerCas, TimerRelease, Sem!ReleaseCas, Sem!ReleaseGo, Sem!MustNotify
    <3>2. count = 0 => rel'[Timer] = "notify"
      BY <2>0, <3>1
    <3> QED
      BY <2>0, <3>1, <3>2 DEF HearInv, WorkerMissesNothing
  <2>7. CASE TimerRelease(Sem!ReleaseNotify)
    <3>1. /\ UNCHANGED <<threadQuit, live, own, stopped>>
          /\ acq[Worker] # "decided"
          /\ IF Sem!Asleep = {} THEN acq' = acq
             ELSE \E a \in Sem!Asleep : acq' = [acq EXCEPT ![a] = "lock"]
      BY <2>7 DEF TimerRelease, Sem!ReleaseNotify, Sem!MutexFree
    <3>2. acq'[Worker] \notin {"decided", "asleep"}
      <4>1. CASE Sem!Asleep = {}
        BY <2>0, <3>1, <4>1 DEF Sem!Asleep
      <4>2. CASE Sem!Asleep # {}
        <5>1. acq' = [acq EXCEPT ![Worker] = "lock"]
          BY <3>1, <4>2 DEF Sem!Asleep
        <5> QED
          BY <2>0, <5>1
      <4> QED
        BY <4>1, <4>2
    <3> QED
      BY <2>2, <3>1, <3>2
  <2>8. CASE WorkerLoop \/ WorkerCheck \/ WorkerCopy \/ WorkerCall \/ WorkerReturn
    <3>1. CASE WorkerLoop
      <4>1. UNCHANGED <<threadQuit, live, own, stopped>> /\ acq[Worker] = "out"
        BY <2>0, <3>1 DEF WorkerLoop, Sem!Acquire
      <4>2. acq'[Worker] \in {"out", "spin"}
        BY <2>0, <3>1, <4>1 DEF WorkerLoop, Sem!Acquire, Sem!AcquireGo
      <4> QED
        BY <2>2, <4>1, <4>2
    <3>2. CASE WorkerCheck \/ WorkerCopy \/ WorkerCall \/ WorkerReturn
      BY <2>1, <3>2 DEF WorkerCheck, WorkerCopy, WorkerCall, WorkerReturn
    <3> QED
      BY <2>8, <3>1, <3>2
  <2>9. CASE WorkerAcquire \/ WorkerSpurious
    <3>1. CASE Sem!AcquireTake(Worker) \/ Sem!AcquireZero(Worker) \/ Sem!AcquireLook(Worker)
               \/ Sem!SpuriousWakeup(Worker)
      <4>1. UNCHANGED <<threadQuit, live, own, stopped>>
        BY <2>9, <3>1 DEF WorkerAcquire, WorkerSpurious, Sem!AcquireTake, Sem!AcquireZero,
           Sem!AcquireLook, Sem!SpuriousWakeup
      <4>2. acq'[Worker] \in {"out", "zero", "lock"}
        BY <2>0, <3>1 DEF Sem!AcquireTake, Sem!AcquireZero, Sem!AcquireLook,
           Sem!SpuriousWakeup, Sem!AcquireGo
      <4> QED
        BY <2>2, <4>1, <4>2
    <3>2. CASE Sem!AcquireSleep(Worker) /\ WorkerAcquire
      <4>1. /\ UNCHANGED <<threadQuit, live, own, stopped, rel, count>>
            /\ acq[Worker] = "decided"
        BY <3>2 DEF WorkerAcquire, Sem!AcquireSleep, Sem!AcquireGo
      <4> QED
        BY <4>1 DEF HearInv, WorkerMissesNothing
    <3>3. CASE Sem!AcquireLock(Worker) /\ WorkerAcquire
      <4>1. UNCHANGED <<threadQuit, live, own, stopped, rel, count>>
        BY <3>3 DEF WorkerAcquire, Sem!AcquireLock
      <4>2. CASE count > 0 \/ stopped
        <5>1. acq'[Worker] = "spin"
          BY <2>0, <3>3, <4>2 DEF Sem!AcquireLock, Sem!WaitPredicate, Sem!AcquireGo
        <5> QED
          BY <2>2, <4>1, <5>1
      <4>3. CASE ~(count > 0) /\ ~stopped
        <5>1. live
          BY <2>0, <3>3 DEF WorkerAcquire, Lifecycle
        <5>2. threadQuit => own[o] \in {"notify", "sem", "wake"}
          <6>1. own[o] \notin {"wake", "seeTimer", "joinTimer", "seeWorker", "joinWorker"}
            BY <4>3, <5>1 DEF HearInv
          <6>2. own[o] # "clean"
            BY <2>0, <3>3 DEF WorkerAcquire, Lifecycle
          <6> QED
            BY <5>1, <6>1, <6>2 DEF HearInv
        <5> QED
          BY <4>1, <4>3, <5>2 DEF HearInv, WorkerMissesNothing
      <4> QED
        BY <4>2, <4>3
    <3> QED
      BY <2>9, <3>1, <3>2, <3>3 DEF WorkerAcquire, WorkerSpurious, Sem!AcquireStep
  <2>10. CASE Stop(o) \/ Start(o) \/ OwnerStep(o)
    <3>0. \/ acq[Worker] \notin {"decided", "asleep"}
          \/ /\ live
             /\ own[o] \notin {"clean", "reset", "timer", "worker"}
      BY <2>0 DEF Lifecycle
    <3>1. CASE Stop(o) \/ Start(o)
      <4>1. /\ UNCHANGED <<threadQuit, live, stopped, rel, count, acq>>
            /\ own[o] = "out" /\ own' = [own EXCEPT ![o] = "quit"]
        BY <3>1 DEF Stop, Start, OwnGo
      <4>2. own'[o] = "quit"
        BY <2>0, <4>1
      <4> QED
        BY <4>1, <4>2 DEF HearInv, WorkerMissesNothing
    <3>2. CASE StopQuit(o) \/ StopNotify(o)
      <4>1. UNCHANGED <<live, stopped, rel, count, acq>>
        BY <3>2 DEF StopQuit, StopNotify
      <4>2. own'[o] \in {"notify", "sem"}
        BY <2>0, <3>2 DEF StopQuit, StopNotify, OwnGo
      <4> QED
        BY <4>1, <4>2 DEF HearInv, WorkerMissesNothing
    <3>3. CASE StopSem(o)
      <4>1. CASE live
        <5>1. /\ UNCHANGED <<threadQuit, live, rel, count, acq>> /\ stopped'
          BY <3>3, <4>1 DEF StopSem, Sem!StopSet
        <5>2. own'[o] = "wake"
          BY <2>0, <3>3, <4>1 DEF StopSem, OwnGo
        <5> QED
          BY <5>1, <5>2 DEF HearInv, WorkerMissesNothing
      <4>2. CASE ~live
        <5>1. /\ UNCHANGED <<threadQuit, live, stopped, rel, count, acq>>
          BY <3>3, <4>2 DEF StopSem
        <5>2. own'[o] = "seeTimer"
          BY <2>0, <3>3, <4>2 DEF StopSem, OwnGo
        <5> QED
          BY <3>0, <4>2, <5>1, <5>2 DEF HearInv, WorkerMissesNothing
      <4> QED
        BY <4>1, <4>2
    <3>4. CASE StopWake(o)
      <4>1. /\ UNCHANGED <<threadQuit, live, stopped, rel, count>>
            /\ own[o] = "wake" /\ acq[Worker] # "decided"
            /\ acq' = [a \in {Worker} |-> IF acq[a] = "asleep" THEN "lock" ELSE acq[a]]
        BY <3>4 DEF StopWake, OwnGo, Sem!StopWake, Sem!StopMayNotify, Sem!MutexFree
      <4>2. own'[o] = "seeTimer"
        BY <2>0, <3>4 DEF StopWake, OwnGo
      <4>3. acq'[Worker] \notin {"decided", "asleep"}
        BY <2>0, <4>1
      <4> QED
        BY <4>1, <4>2, <4>3 DEF HearInv, WorkerMissesNothing
    <3>5. CASE \/ StopSeeTimer(o) \/ StopJoinTimer(o)
               \/ StopSeeWorker(o) \/ StopJoinWorker(o)
      <4>1. /\ UNCHANGED <<threadQuit, live, stopped, rel, count, acq>>
            /\ own[o] \in {"seeTimer", "joinTimer", "seeWorker", "joinWorker"}
        BY <3>5 DEF StopSeeTimer, StopJoinTimer, StopSeeWorker, StopJoinWorker, OwnGo
      <4>2. own'[o] \in {"joinTimer", "seeWorker", "joinWorker", "clean"}
        BY <2>0, <3>5 DEF StopSeeTimer, StopJoinTimer, StopSeeWorker, StopJoinWorker, OwnGo
      <4>3. own[o] \notin {"notify", "sem", "wake"}
        BY <4>1
      <4> QED
        BY <4>1, <4>2, <4>3 DEF HearInv, WorkerMissesNothing
    <3>6. CASE StopClean(o) \/ StartReset(o) \/ StartTimer(o) \/ StartWorker(o)
      <4>1. /\ own[o] \in {"clean", "reset", "timer", "worker"}
            /\ acq' = acq
            /\ live' => ~threadQuit'
        BY <2>0, <3>6 DEF StopClean, StartReset, StartTimer, StartWorker, OwnGo, Lifecycle
      <4>2. own'[o] \in {"out", "reset", "timer", "worker"}
        BY <2>0, <3>6 DEF StopClean, StartReset, StartTimer, StartWorker, OwnGo
      <4>3. acq'[Worker] \notin {"decided", "asleep"}
        BY <3>0, <4>1
      <4> QED
        BY <4>1, <4>2, <4>3 DEF HearInv, WorkerMissesNothing
    <3> QED
      BY <2>10, <3>1, <3>2, <3>3, <3>4, <3>5, <3>6 DEF OwnerStep
  <2>11. ASSUME NEW s \in Setters, NEW p \in Periods,
                SetPeriodFlag(s) \/ SetPeriodNotify(s) \/ SetPeriod(s, p)
         PROVE  HearInv'
    BY <2>1, <2>11 DEF SetPeriodFlag, SetPeriodNotify, SetPeriod
  <2>12. ASSUME NEW f \in Callbacks, SetCallback(f) PROVE HearInv'
    BY <2>1, <2>12 DEF SetCallback
  <2>13. CASE UNCHANGED vars
    BY <2>1, <2>13 DEF vars
  <2> QED
    BY <2>3, <2>4, <2>5, <2>6, <2>7, <2>8, <2>9, <2>10, <2>11, <2>12, <2>13,
       PeriodicAssumption
    DEF Next, TimerStep, WorkerStep
<1>3. HearInv => WorkerMissesNothing
  BY DEF HearInv
<1> QED
  BY <1>1, <1>2, <1>3, OwnerInvCorrect, PTL DEF Spec
-----------------------------------------------------------------------------
(* The object implements the abstract periodic task: a release of the      *)
(* semaphore is the task's Tick, the worker's look at threadQuit (line     *)
(* 167) its Take, the call of line 180 its Call.  So no tick is taken once *)
(* stop has set the flag; the callback of a tick taken before may still    *)
(* begin, and none runs once stop is past its joins.                       *)
THEOREM ImplementsTask == ASSUME OneOwner PROVE Spec => TaskSpec
<1> USE DEF timerVars, workerVars, ownerVars, fieldVars, semVars
<1>1. Init => TaskOfOwner!Init
  BY DEF Init, Sem!Init, TaskOfOwner!Init
<1>2. OwnerInv /\ OwnerInv' /\ [Next]_vars => [TaskOfOwner!Next]_(TaskOfOwner!vars)
  <2> SUFFICES ASSUME OwnerInv, OwnerInv', [Next]_vars
               PROVE  TaskOfOwner!Next \/ UNCHANGED TaskOfOwner!vars
    OBVIOUS
  <2> USE DEF TaskOfOwner!vars
  <2>0. /\ threadQuit \in BOOLEAN /\ live \in BOOLEAN /\ stopped \in BOOLEAN
        /\ count \in Nat /\ count' \in Nat /\ MaxLag \in Nat
    BY PeriodicAssumption DEF OwnerInv, TypeOK, Sem!TypeOK
  <2>1. CASE \/ TimerTick \/ TimerLoop \/ TimerLock \/ TimerSleep \/ TimerTimeout
             \/ TimerDue \/ TimerClear \/ TimerSpurious
             \/ TimerRelease(Sem!ReleaseCheck) \/ TimerRelease(Sem!ReleaseRetry)
             \/ TimerRelease(Sem!ReleaseNotify)
    BY <2>1 DEF TimerTick, TimerLoop, TimerLock, TimerSleep, TimerTimeout, TimerDue,
                TimerClear, TimerSpurious, TimerRelease, Sem!TryRelease,
                Sem!ReleaseCheck, Sem!ReleaseRetry, Sem!ReleaseNotify
  <2>2. CASE TimerCas
    <3>1. count < MaxLag /\ count' = count + 1 /\ UNCHANGED <<worker, live, threadQuit>>
      BY <2>2 DEF TimerCas, TimerRelease, Sem!ReleaseCas, Sem!ReleaseGo, Sem!CasHit,
                  OwnerInv, TypeOK, Sem!TypeOK
    <3>2. live /\ ~threadQuit => TaskOfOwner!Tick
      BY <2>0, <3>1 DEF TaskOfOwner!Tick
    <3> QED
      BY <3>1, <3>2 DEF TaskOfOwner!Next
  <2>3. CASE WorkerLoop \/ WorkerSpurious
    BY <2>3 DEF WorkerLoop, WorkerSpurious, Sem!Acquire, Sem!SpuriousWakeup
  <2>4. CASE WorkerAcquire
    <3>1. live /\ worker = "acquire" /\ UNCHANGED <<live, threadQuit>>
      BY <2>4 DEF WorkerAcquire, OwnerInv, Lifecycle, OneOwner
    <3>2. \/ count' = count - 1 /\ worker' = "check"
          \/ count' = count /\ worker' = "check" /\ stopped
          \/ count' = count /\ worker' = "acquire"
      BY <2>4 DEF WorkerAcquire, Sem!AcquireStep, Sem!AcquireTake, Sem!AcquireZero,
                  Sem!AcquireLook, Sem!AcquireLock, Sem!AcquireSleep, Sem!AcquireGo,
                  OwnerInv, TypeOK, Sem!TypeOK
    <3>3. stopped => threadQuit
      BY <3>1 DEF OwnerInv, Lifecycle, OneOwner
    <3>4. CASE threadQuit
      BY <3>1, <3>2, <3>4
    <3>5. CASE ~threadQuit /\ count' = count - 1 /\ worker' = "check"
      <4>1. count' + 1 = count + 0
        BY <2>0, <3>5
      <4> QED
        BY <3>1, <3>5, <4>1
    <3>6. CASE ~threadQuit /\ count' = count /\ worker' = "acquire"
      BY <3>1, <3>6
    <3> QED
      BY <3>2, <3>3, <3>4, <3>5, <3>6
  <2>5. CASE WorkerCheck
    <3>1. live /\ worker = "check" /\ UNCHANGED <<live, threadQuit, count>>
      BY <2>5 DEF WorkerCheck, OwnerInv, Lifecycle, OneOwner
    <3>2. CASE threadQuit
      BY <2>5, <3>1, <3>2 DEF WorkerCheck, MayExecute
    <3>3. CASE ~threadQuit
      <4>1. worker' = "copy"
        BY <2>5, <3>3 DEF WorkerCheck, MayExecute
      <4>2. TaskOfOwner!Take
        BY <2>0, <3>1, <3>3, <4>1 DEF TaskOfOwner!Take
      <4> QED
        BY <4>2 DEF TaskOfOwner!Next
    <3> QED
      BY <3>2, <3>3
  <2>6. CASE WorkerCopy \/ WorkerCall \/ WorkerReturn
    BY <2>6 DEF WorkerCopy, WorkerCall, WorkerReturn, WorkerGo, TaskOfOwner!Call,
                TaskOfOwner!Observe, TaskOfOwner!Finish, TaskOfOwner!Proceed,
                TaskOfOwner!Next
  <2>7. ASSUME NEW o \in Owners, Stop(o) \/ Start(o) \/ OwnerStep(o)
        PROVE  TaskOfOwner!Next \/ UNCHANGED TaskOfOwner!vars
    <3>1. Lifecycle(o)
      BY DEF OwnerInv
    <3>2. CASE StopQuit(o)
      <4>1. CASE live /\ ~threadQuit
        BY <3>2, <4>1 DEF StopQuit, TaskOfOwner!Stop, TaskOfOwner!Next
      <4>2. CASE ~live \/ threadQuit
        BY <3>2, <4>2 DEF StopQuit
      <4> QED
        BY <4>1, <4>2
    <3>3. CASE StopClean(o)
      BY <3>1, <3>3 DEF StopClean, OwnGo, Lifecycle, TaskOfOwner!Stopped,
                        TaskOfOwner!Next
    <3>4. CASE StartReset(o)
      BY <3>1, <3>4 DEF StartReset, OwnGo, Lifecycle
    <3>5. CASE StartTimer(o)
      BY <3>1, <3>5 DEF StartTimer, OwnGo, Lifecycle, TaskOfOwner!Start,
                        TaskOfOwner!Next
    <3>6. CASE StartWorker(o)
      BY <3>1, <3>6 DEF StartWorker, OwnGo, Lifecycle
    <3>7. CASE \/ Stop(o) \/ Start(o) \/ StopNotify(o) \/ StopSem(o) \/ StopWake(o)
               \/ StopSeeTimer(o) \/ StopJoinTimer(o)
               \/ StopSeeWorker(o) \/ StopJoinWorker(o)
      BY <3>7 DEF Stop, Start, StopNotify, StopSem, StopWake, StopSeeTimer, StopJoinTimer,
                  StopSeeWorker, StopJoinWorker, WorkerGo, Sem!StopSet, Sem!StopWake
    <3> QED
      BY <2>7, <3>2, <3>3, <3>4, <3>5, <3>6, <3>7 DEF OwnerStep
  <2>8. ASSUME NEW s \in Setters, SetPeriodFlag(s) \/ SetPeriodNotify(s)
        PROVE  UNCHANGED TaskOfOwner!vars
    BY <2>8 DEF SetPeriodFlag, SetPeriodNotify
  <2>9. ASSUME NEW s \in Setters, NEW p \in Periods, SetPeriod(s, p)
        PROVE  UNCHANGED TaskOfOwner!vars
    BY <2>9 DEF SetPeriod
  <2>10. ASSUME NEW f \in Callbacks, SetCallback(f)
         PROVE  UNCHANGED TaskOfOwner!vars
    BY <2>10 DEF SetCallback
  <2>11. CASE UNCHANGED vars
    BY <2>11 DEF vars
  <2> QED
    BY <2>1, <2>2, <2>3, <2>4, <2>5, <2>6, <2>7, <2>8, <2>9, <2>10, <2>11
    DEF Next, TimerStep, WorkerStep
<1> QED
  BY <1>1, <1>2, OwnerInvCorrect, PTL DEF Spec, TaskSpec, TaskOfOwner!Spec
=============================================================================
