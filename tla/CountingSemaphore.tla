------------------------- MODULE CountingSemaphore -------------------------
(***************************************************************************)
(* counting_semaphore (subModules/periodic_work/counting_semaphore.h).     *)
(* The counter and the stop flag are atomics that change without the       *)
(* mutex; the mutex only orders the wait predicate and the notifications.  *)
(* So each atomic access is a step of its own, and between a waiter's look *)
(* at the predicate and its going to sleep everything can happen but a     *)
(* notification.                                                           *)
(***************************************************************************)
EXTENDS Integers, FiniteSets

CONSTANTS MaxCount,    \* max_count_
          Acquirers, Releasers, Stoppers  \* threads that call each operation

ASSUME SemaphoreAssumption == MaxCount \in Nat /\ Acquirers # {}

VARIABLES
  count,    \* count_
  stopped,  \* stopped_
  acq,      \* acquirer -> where it is in acquire
  rel,      \* releaser -> where it is in try_release
  seen,     \* releaser -> the value of count_ it loaded
  stp       \* stopper -> where it is in stop

vars == <<count, stopped, acq, rel, seen, stp>>

AcqPlaces == {"out",      \* not in acquire
              "spin",     \* at the head of the loop
              "zero",     \* loaded 0
              "lock",     \* wants mtx_: before the wait, or woken in it
              "decided",  \* holds mtx_, predicate was false
              "asleep"}   \* in the wait, without mtx_

RelPlaces == {"out",
              "check",    \* loaded count_ below max
              "cas",      \* stopped_ was not set
              "notify"}   \* went from 0 to 1, wants mtx_

TypeOK ==
  /\ count \in 0 .. MaxCount
  /\ stopped \in BOOLEAN
  /\ acq \in [Acquirers -> AcqPlaces]
  /\ rel \in [Releasers -> RelPlaces]
  /\ seen \in [Releasers -> 0 .. MaxCount]
  /\ \A r \in Releasers : rel[r] \in {"check", "cas"} => seen[r] < MaxCount
  /\ stp \in [Stoppers -> {"out", "wake"}]

Init ==
  /\ count = 0
  /\ stopped = FALSE
  /\ acq = [a \in Acquirers |-> "out"]
  /\ rel = [r \in Releasers |-> "out"]
  /\ seen = [r \in Releasers |-> 0]
  /\ stp = [s \in Stoppers |-> "out"]

MutexFree == \A a \in Acquirers : acq[a] # "decided"
Asleep == {a \in Acquirers : acq[a] = "asleep"}
-----------------------------------------------------------------------------
(* acquire                                                                 *)

AcquireGo(a, from, to) == acq[a] = from /\ acq' = [acq EXCEPT ![a] = to]

Acquire(a) == AcquireGo(a, "out", "spin") /\ UNCHANGED <<count, stopped, rel, seen, stp>>

\* The load and a compare-exchange that found the same value.
AcquireTake(a) ==
  /\ AcquireGo(a, "spin", "out")
  /\ count > 0
  /\ count' = count - 1
  /\ UNCHANGED <<stopped, rel, seen, stp>>

AcquireZero(a) ==
  /\ AcquireGo(a, "spin", "zero")
  /\ count = 0
  /\ UNCHANGED <<count, stopped, rel, seen, stp>>

AcquireLook(a) ==
  /\ IF stopped THEN AcquireGo(a, "zero", "out") ELSE AcquireGo(a, "zero", "lock")
  /\ UNCHANGED <<count, stopped, rel, seen, stp>>

WaitPredicateNoStop == count > 0
WaitPredicateNoCount == stopped
WaitPredicate == count > 0 \/ stopped

AcquireLock(a) ==
  /\ MutexFree
  /\ IF WaitPredicate THEN AcquireGo(a, "lock", "spin") ELSE AcquireGo(a, "lock", "decided")
  /\ UNCHANGED <<count, stopped, rel, seen, stp>>

AcquireSleep(a) ==
  AcquireGo(a, "decided", "asleep") /\ UNCHANGED <<count, stopped, rel, seen, stp>>

SpuriousWakeup(a) ==
  AcquireGo(a, "asleep", "lock") /\ UNCHANGED <<count, stopped, rel, seen, stp>>

AcquireStep(a) == \/ AcquireTake(a) \/ AcquireZero(a) \/ AcquireLook(a)
                  \/ AcquireLock(a) \/ AcquireSleep(a)
-----------------------------------------------------------------------------
(* try_release                                                             *)

ReleaseGo(r, from, to) == rel[r] = from /\ rel' = [rel EXCEPT ![r] = to]

MayRelease(c) == c < MaxCount

\* The load of count_; a full semaphore drops the tick.  A call that will
\* be dropped changes nothing and is not a step.
TryRelease(r) ==
  /\ ReleaseGo(r, "out", "check")
  /\ MayRelease(count)
  /\ seen' = [seen EXCEPT ![r] = count]
  /\ UNCHANGED <<count, stopped, acq, stp>>

ReleaseCheck(r) ==
  /\ IF stopped THEN ReleaseGo(r, "check", "out") ELSE ReleaseGo(r, "check", "cas")
  /\ UNCHANGED <<count, stopped, acq, seen, stp>>

CasHitAlways(r) == TRUE
CasHit(r) == count = seen[r]

MustNotifyAtMax(c) == c + 1 = MaxCount
MustNotify(c) == c = 0

ReleaseCas(r) ==
  /\ CasHit(r)
  /\ count' = count + 1
  /\ IF MustNotify(count) THEN ReleaseGo(r, "cas", "notify") ELSE ReleaseGo(r, "cas", "out")
  /\ UNCHANGED <<stopped, acq, seen, stp>>

\* The compare-exchange fails, also for no reason, and the loop starts over.
ReleaseRetry(r) ==
  /\ \/ MayRelease(count) /\ ReleaseGo(r, "cas", "check") /\ seen' = [seen EXCEPT ![r] = count]
     \/ ~MayRelease(count) /\ ReleaseGo(r, "cas", "out") /\ UNCHANGED seen
  /\ UNCHANGED <<count, stopped, acq, stp>>


ReleaseNotify(r) ==
  /\ ReleaseGo(r, "notify", "out")
  /\ MutexFree
  /\ IF Asleep = {}
     THEN acq' = acq
     ELSE \E a \in Asleep : acq' = [acq EXCEPT ![a] = "lock"]
  /\ UNCHANGED <<count, stopped, seen, stp>>

ReleaseStep(r) == ReleaseCheck(r) \/ ReleaseCas(r) \/ ReleaseNotify(r)
-----------------------------------------------------------------------------
(* stop                                                                    *)

StopSet(s) ==
  /\ stp[s] = "out"
  /\ stopped' = TRUE
  /\ stp' = [stp EXCEPT ![s] = "wake"]
  /\ UNCHANGED <<count, acq, rel, seen>>

\* The lock_guard on mtx_ keeps the notification out of the window between
\* a waiter's predicate and its sleep.
StopMayNotifyAnytime == TRUE
StopMayNotify == MutexFree

StopWake(s) ==
  /\ stp[s] = "wake"
  /\ StopMayNotify
  /\ acq' = [a \in Acquirers |-> IF acq[a] = "asleep" THEN "lock" ELSE acq[a]]
  /\ stp' = [stp EXCEPT ![s] = "out"]
  /\ UNCHANGED <<count, stopped, rel, seen>>
-----------------------------------------------------------------------------
Next ==
  \/ \E a \in Acquirers : Acquire(a) \/ AcquireStep(a) \/ SpuriousWakeup(a)
  \/ \E r \in Releasers : TryRelease(r) \/ ReleaseStep(r) \/ ReleaseRetry(r)
  \/ \E s \in Stoppers : StopSet(s) \/ StopWake(s)

Spec == Init /\ [][Next]_vars

(* Threads inside an operation go on; nobody has to begin one, and no      *)
(* spurious wakeup or retry may be counted on.                             *)
Fairness ==
  /\ \A a \in Acquirers : WF_vars(AcquireStep(a))
  /\ \A r \in Releasers : WF_vars(ReleaseStep(r))
  /\ \A s \in Stoppers : WF_vars(StopWake(s))

LiveSpec == Spec /\ Fairness
-----------------------------------------------------------------------------
Blocked(a) == acq[a] \in {"decided", "asleep"}

(* Tokens never lie in the semaphore while every acquirer is blocked,      *)
(* unless the notification of lines 60-65 is on its way.                   *)
TokensReachSomebody ==
  count > 0 /\ (\A a \in Acquirers : Blocked(a))
    => \E r \in Releasers : rel[r] = "notify"

(* Nobody is blocked on a stopped semaphore, unless the notify_all of stop *)
(* is on its way (lines 73-75).                                            *)
StopReachesEverybody ==
  stopped /\ (\E a \in Acquirers : Blocked(a)) => \E s \in Stoppers : stp[s] = "wake"

(* The semaphore implements the abstract one.                              *)
Abstract == INSTANCE BoundedSemaphore WITH
  avail  <- count,
  inside <- {a \in Acquirers : acq[a] # "out"},
  closed <- stopped

SemaphoreSpec == Abstract!Spec
SemaphoreLiveSpec == Abstract!LiveSpec
=============================================================================
