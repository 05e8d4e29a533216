-------------------------- MODULE ThreadPoolProofs --------------------------
(***************************************************************************)
(* Theorems about ThreadPool, for every pool size, every finite set of     *)
(* clients and every set of tasks.                                         *)
(***************************************************************************)
EXTENDS ThreadPool, FiniteSetTheorems, TLAPS

-----------------------------------------------------------------------------
(* Lemmas about the pool's worker set and about its queue operators.       *)

(* The pool has a worker, and finitely many of them, whatever PoolSize is  *)
(* (line 22 of thread_pool.h).                                             *)
LEMMA PoolHasWorkers == 1 \in Workers /\ IsFiniteSet(Workers)
<1>1. WorkerCount(PoolSize) \in Nat /\ WorkerCount(PoolSize) >= 1
  BY PoolAssumption DEF WorkerCount
<1>2. IsFiniteSet(1 .. WorkerCount(PoolSize))
  BY <1>1, FS_Interval
<1> QED
  BY <1>1, <1>2 DEF Workers

(* Pushing adds one element to what the queue holds.                       *)
LEMMA RangeOfAppend ==
  ASSUME NEW S, NEW s \in Seq(S), NEW e \in S
  PROVE  SeqRange(Append(s, e)) = SeqRange(s) \cup {e}
<1>1. /\ DOMAIN Append(s, e) = 1 .. Len(s) + 1
      /\ DOMAIN s = 1 .. Len(s)
      /\ Len(s) \in Nat
      /\ \A i \in 1 .. Len(s) : Append(s, e)[i] = s[i]
      /\ Append(s, e)[Len(s) + 1] = e
  OBVIOUS
<1>2. 1 .. Len(s) + 1 = (1 .. Len(s)) \cup {Len(s) + 1}
  BY <1>1
<1> QED
  BY <1>1, <1>2, Zenon DEF SeqRange

(* Moving the head of the queue to the end of the taken tasks leaves their *)
(* concatenation as it was.                                                *)
LEMMA TakeKeepsOrder ==
  ASSUME NEW S, NEW s \in Seq(S), NEW q \in Seq(S), q # <<>>
  PROVE  Append(s, Head(q)) \o Tail(q) = s \o q
OBVIOUS

(* Appending to the queue appends to the concatenation.                    *)
LEMMA PushKeepsOrder ==
  ASSUME NEW S, NEW s \in Seq(S), NEW q \in Seq(S), NEW e \in S
  PROVE  s \o Append(q, e) = Append(s \o q, e)
OBVIOUS
-----------------------------------------------------------------------------
(* Every variable keeps its type, and a worker holds a task exactly while  *)
(* it runs one.                                                            *)
THEOREM TypeCorrect == Spec => []TypeOK
<1>1. Init => TypeOK
  <2> SUFFICES ASSUME Init PROVE TypeOK
    OBVIOUS
  <2>1. tasks \in Seq(Tasks) /\ accepted \in Seq(Tasks) /\ started \in Seq(Tasks)
    BY DEF Init
  <2>2. /\ pc \in [Workers -> {"ready", "asleep", "running", "exited"}]
        /\ job \in [Workers -> Tasks \cup {NoTask}]
        /\ \A w \in Workers : job[w] # NoTask <=> pc[w] = "running"
    BY DEF Init
  <2>3. stop \in BOOLEAN
    BY DEF Init
  <2> QED
    BY <2>1, <2>2, <2>3 DEF Init, TypeOK
<1>2. TypeOK /\ [Next]_vars => TypeOK'
  <2> SUFFICES ASSUME TypeOK, [Next]_vars PROVE TypeOK'
    OBVIOUS
  <2> USE PoolAssumption DEF TypeOK
  <2>1. ASSUME NEW w \in Workers, Sleep(w) \/ SpuriousWakeup(w) \/ Return(w)
        PROVE  TypeOK'
    BY <2>1 DEF Sleep, SpuriousWakeup, Return, queueVars
  <2>2. ASSUME NEW w \in Workers, Take(w) PROVE TypeOK'
    BY <2>2 DEF Take, PopFront
  <2>3. ASSUME NEW w \in Workers, Finish(w) PROVE TypeOK'
    BY <2>3 DEF Finish, FinishedJob, queueVars
  <2>4. ASSUME NEW t \in Clients \cup Workers, NEW k \in Tasks,
               Enqueue(t, k) \/ EnqueueFuture(t, k)
        PROVE  TypeOK'
    <3>1. CASE Push(t, k) /\ (UNCHANGED futures \/ futures' = futures \cup {k})
      BY <3>1 DEF Push, Notifier
    <3>2. CASE Refuse(t, k)
      BY <3>2 DEF Refuse
    <3> QED
      BY <2>4, <3>1, <3>2 DEF Enqueue, EnqueueFuture
  <2>5. ASSUME NEW t \in Clients \cup Workers, NotifyOne(t) PROVE TypeOK'
    BY <2>5 DEF NotifyOne, Asleep, queueVars
  <2>6. CASE DestroyBegin
    BY <2>6 DEF DestroyBegin
  <2>7. CASE DestroyNotifyAll
    BY <2>7 DEF DestroyNotifyAll, WokenByAll, Asleep, queueVars
  <2>8. CASE DestroyJoin
    BY <2>8 DEF DestroyJoin, queueVars
  <2>9. CASE UNCHANGED vars
    BY <2>9 DEF vars
  <2> QED
    BY <2>1, <2>2, <2>3, <2>4, <2>5, <2>6, <2>7, <2>8, <2>9
    DEF Next, WorkerStep, Destroyed
<1> QED
  BY <1>1, <1>2, PTL DEF Spec
-----------------------------------------------------------------------------
(* The histories.  That no task is taken twice rests on no task being      *)
(* pushed twice.                                                           *)
PushedOnce == \A i, j \in DOMAIN accepted : accepted[i] = accepted[j] => i = j

HistoryInv == AcceptedOnceInOrder /\ PushedOnce

(* The task at the head of the queue was never taken before.               *)
LEMMA HeadIsFresh ==
  ASSUME TypeOK, HistoryInv, tasks # <<>>
  PROVE  Head(tasks) \in Tasks /\ Head(tasks) \notin SeqRange(started)
<1>1. /\ tasks \in Seq(Tasks) /\ started \in Seq(Tasks)
      /\ accepted = started \o tasks
  BY DEF TypeOK, HistoryInv, AcceptedOnceInOrder
<1>2. /\ Len(started) + 1 \in DOMAIN accepted
      /\ accepted[Len(started) + 1] = Head(tasks)
      /\ Head(tasks) \in Tasks
      /\ Len(started) \in Nat
  BY <1>1
<1>3. \A i \in DOMAIN started : /\ i \in DOMAIN accepted
                               /\ accepted[i] = started[i]
                               /\ i < Len(started) + 1
  BY <1>1
<1>4. ASSUME NEW i \in DOMAIN started, started[i] = Head(tasks) PROVE FALSE
  <2>1. i = Len(started) + 1
    BY <1>2, <1>3, <1>4 DEF HistoryInv, PushedOnce
  <2> QED
    BY <1>3, <2>1, <1>2, <1>1
<1> QED
  BY <1>2, <1>4, Zenon DEF SeqRange

(* HistoryInv is inductive.                                                *)
LEMMA HistoryCorrect == Spec => []HistoryInv
<1>1. Init => HistoryInv
  <2> SUFFICES ASSUME Init PROVE HistoryInv
    OBVIOUS
  <2>1. started \o tasks = <<>> /\ accepted = <<>> /\ PushedOnce
    BY DEF Init, PushedOnce
  <2>2. SeqRange(started) = {} /\ done = {} /\ Held = {}
    BY DEF Init, SeqRange, Held
  <2>3. \A w \in Workers : job[w] = NoTask
    BY DEF Init
  <2> QED
    BY <2>1, <2>2, <2>3 DEF HistoryInv, AcceptedOnceInOrder
<1>2. TypeOK /\ TypeOK' /\ HistoryInv /\ [Next]_vars => HistoryInv'
  <2> SUFFICES ASSUME TypeOK, TypeOK', HistoryInv, [Next]_vars PROVE HistoryInv'
    OBVIOUS
  <2>1. ASSUME UNCHANGED <<tasks, accepted, started, done, job>>, Held' = Held
        PROVE  HistoryInv'
    BY <2>1 DEF HistoryInv, AcceptedOnceInOrder, PushedOnce, SeqRange
  <2>2. ASSUME NEW w \in Workers, Sleep(w) \/ SpuriousWakeup(w) \/ Return(w)
        PROVE  HistoryInv'
    BY <2>1, <2>2 DEF Sleep, SpuriousWakeup, Return, queueVars, Held, TypeOK
  <2>3. ASSUME NEW w \in Workers, Take(w) PROVE HistoryInv'
    <3> DEFINE k == Head(tasks)
    <3>1. k \in Tasks /\ k \notin SeqRange(started)
      BY <2>3, HeadIsFresh DEF Take
    <3>2. accepted' = started' \o tasks'
      BY <2>3, TakeKeepsOrder DEF Take, PopFront, TypeOK, HistoryInv, AcceptedOnceInOrder
    <3>3. SeqRange(started') = SeqRange(started) \cup {k}
      BY <2>3, <3>1, RangeOfAppend DEF Take, TypeOK
    <3>4. Held' = Held \cup {k}
      BY <2>3 DEF Take, Held, TypeOK
    <3>5. \A v \in Workers : v # w => job'[v] = job[v] /\ job[v] # k
      <4>1. ASSUME NEW v \in Workers, pc[v] = "running"
            PROVE  job[v] \in SeqRange(started)
        BY <4>1 DEF HistoryInv, AcceptedOnceInOrder, Held
      <4> QED
        BY <2>3, <3>1, <4>1, PoolAssumption DEF Take, TypeOK
    <3>6. job'[w] = k
      BY <2>3 DEF Take, TypeOK
    <3>7. SeqRange(started') = done' \cup Held'
      BY <2>3, <3>3, <3>4 DEF Take, HistoryInv, AcceptedOnceInOrder
    <3>8. \A u, v \in Workers : job'[u] = job'[v] /\ u # v => job'[u] = NoTask
      BY <3>5, <3>6 DEF HistoryInv, AcceptedOnceInOrder
    <3>9. PushedOnce'
      BY <2>3 DEF Take, HistoryInv, PushedOnce
    <3> QED
      BY <3>2, <3>7, <3>8, <3>9 DEF HistoryInv, AcceptedOnceInOrder
  <2>4. ASSUME NEW w \in Workers, Finish(w) PROVE HistoryInv'
    <3>1. /\ done' = done \cup {job[w]} /\ job' = [job EXCEPT ![w] = NoTask]
          /\ pc' = [pc EXCEPT ![w] = "ready"] /\ pc[w] = "running"
          /\ UNCHANGED <<tasks, accepted, started>>
      BY <2>4 DEF Finish, FinishedJob, queueVars
    <3>2. done' \cup Held' = done \cup Held
      BY <3>1 DEF Held, TypeOK
    <3>3. \A u, v \in Workers : job'[u] = job'[v] /\ u # v => job'[u] = NoTask
      BY <3>1 DEF HistoryInv, AcceptedOnceInOrder, TypeOK
    <3> QED
      BY <3>1, <3>2, <3>3 DEF HistoryInv, AcceptedOnceInOrder, PushedOnce, SeqRange
  <2>5. ASSUME NEW t \in Clients \cup Workers, NEW k \in Tasks,
               Enqueue(t, k) \/ EnqueueFuture(t, k)
        PROVE  HistoryInv'
    <3>1. CASE Push(t, k)
      <4>1. /\ tasks' = Append(tasks, k) /\ accepted' = Append(accepted, k)
            /\ UNCHANGED <<pc, job, started, done>>
        BY <3>1 DEF Push
      <4>2. k \notin SeqRange(accepted)
        BY <2>5 DEF Enqueue, EnqueueFuture, Unused
      <4>3. accepted' = started' \o tasks'
        <5>1. /\ tasks \in Seq(Tasks) /\ started \in Seq(Tasks)
              /\ accepted = started \o tasks /\ started' = started
          BY <4>1 DEF TypeOK, HistoryInv, AcceptedOnceInOrder
        <5>2. started \o Append(tasks, k) = Append(started \o tasks, k)
          BY <5>1, PushKeepsOrder
        <5> QED
          BY <4>1, <5>1, <5>2
      <4>4. PushedOnce'
        <5>1. /\ DOMAIN accepted' = (DOMAIN accepted) \cup {Len(accepted) + 1}
              /\ accepted'[Len(accepted) + 1] = k
              /\ \A i \in DOMAIN accepted : accepted'[i] = accepted[i]
          BY <4>1 DEF TypeOK
        <5>2. \A i \in DOMAIN accepted : accepted[i] # k
          BY <4>2 DEF SeqRange
        <5> QED
          BY <5>1, <5>2 DEF HistoryInv, PushedOnce
      <4>5. Held' = Held /\ SeqRange(started') = SeqRange(started)
        BY <4>1 DEF Held, SeqRange
      <4> QED
        BY <4>1, <4>3, <4>4, <4>5 DEF HistoryInv, AcceptedOnceInOrder
    <3>2. CASE Refuse(t, k)
      BY <2>1, <3>2 DEF Refuse, Held
    <3> QED
      BY <2>5, <3>1, <3>2 DEF Enqueue, EnqueueFuture
  <2>6. ASSUME NEW t \in Clients \cup Workers, NotifyOne(t) PROVE HistoryInv'
    BY <2>1, <2>6 DEF NotifyOne, Asleep, Held, queueVars, TypeOK
  <2>7. CASE DestroyBegin \/ DestroyJoin
    BY <2>1, <2>7 DEF DestroyBegin, DestroyJoin, Held, queueVars
  <2>8. CASE DestroyNotifyAll
    BY <2>1, <2>8 DEF DestroyNotifyAll, WokenByAll, Asleep, Held, queueVars, TypeOK
  <2>9. CASE UNCHANGED vars
    BY <2>1, <2>9 DEF vars, Held
  <2> QED
    BY <2>2, <2>3, <2>4, <2>5, <2>6, <2>7, <2>8, <2>9
    DEF Next, WorkerStep, Destroyed
<1> QED
  BY <1>1, <1>2, TypeCorrect, PTL DEF Spec

(* Nothing is lost, repeated or overtaken between push and take, and a     *)
(* task that was taken is with one worker or done.                         *)
THEOREM OnceInOrder == Spec => []AcceptedOnceInOrder
<1>1. HistoryInv => AcceptedOnceInOrder
  BY DEF HistoryInv
<1> QED
  BY <1>1, HistoryCorrect, PTL
-----------------------------------------------------------------------------
(* No lost wakeup.  The property is inductive with the types alone: the    *)
(* notification a push owes counts for the task it pushed until it turns   *)
(* into a ready worker.                                                    *)
THEOREM BacklogCovered == Spec => []BacklogIsCovered
<1>1. Init => BacklogIsCovered
  BY DEF Init, BacklogIsCovered, Asleep
<1>2. TypeOK /\ TypeOK' /\ BacklogIsCovered /\ [Next]_vars => BacklogIsCovered'
  <2> SUFFICES ASSUME TypeOK, TypeOK', BacklogIsCovered, [Next]_vars,
                      Asleep' # {}
               PROVE  (Len(tasks) <= Cardinality(notifying) + Cardinality(Ready))'
    BY DEF BacklogIsCovered
  <2>1. /\ IsFiniteSet(Ready) /\ IsFiniteSet(Ready')
        /\ IsFiniteSet(notifying) /\ IsFiniteSet(notifying')
    <3>1. IsFiniteSet(Clients \cup Workers)
      BY PoolHasWorkers, PoolAssumption, FS_Union
    <3>2. Ready \subseteq Workers /\ Ready' \subseteq Workers
      BY DEF Ready
    <3> QED
      BY <3>1, <3>2, PoolHasWorkers, FS_Subset DEF TypeOK
  <2>2. /\ Cardinality(Ready) \in Nat /\ Cardinality(Ready') \in Nat
        /\ Cardinality(notifying) \in Nat /\ Cardinality(notifying') \in Nat
        /\ Len(tasks) \in Nat
    BY <2>1, FS_CardinalityType DEF TypeOK
  <2>3. ASSUME tasks' = tasks, notifying' = notifying, Ready \subseteq Ready',
               Asleep # {}
        PROVE  (Len(tasks) <= Cardinality(notifying) + Cardinality(Ready))'
    <3>1. Cardinality(Ready) <= Cardinality(Ready')
      BY <2>1, <2>3, FS_Subset
    <3> QED
      BY <2>2, <2>3, <3>1 DEF BacklogIsCovered
  <2>4. ASSUME NEW w \in Workers, Sleep(w)
        PROVE  (Len(tasks) <= Cardinality(notifying) + Cardinality(Ready))'
    <3>1. tasks' = <<>>
      BY <2>4 DEF Sleep, WaitPredicate, queueVars
    <3> QED
      BY <2>2, <3>1
  <2>5. ASSUME NEW w \in Workers, SpuriousWakeup(w) \/ Finish(w)
        PROVE  (Len(tasks) <= Cardinality(notifying) + Cardinality(Ready))'
    BY <2>3, <2>5 DEF SpuriousWakeup, Finish, Ready, Asleep, queueVars, TypeOK
  <2>6. ASSUME NEW w \in Workers, Take(w)
        PROVE  (Len(tasks) <= Cardinality(notifying) + Cardinality(Ready))'
    <3>1. Ready' = Ready \ {w} /\ w \in Ready /\ Asleep # {}
      BY <2>6 DEF Take, Ready, Asleep, TypeOK
    <3>2. Len(tasks') = Len(tasks) - 1 /\ notifying' = notifying
      BY <2>6 DEF Take, PopFront, TypeOK
    <3>3. Cardinality(Ready') = Cardinality(Ready) - 1
      BY <2>1, <3>1, FS_RemoveElement
    <3> QED
      BY <2>2, <3>1, <3>2, <3>3 DEF BacklogIsCovered
  <2>7. ASSUME NEW w \in Workers, Return(w)
        PROVE  (Len(tasks) <= Cardinality(notifying) + Cardinality(Ready))'
    <3>1. tasks' = <<>>
      BY <2>7 DEF Return, MayReturn, queueVars
    <3> QED
      BY <2>2, <3>1
  <2>8. ASSUME NEW t \in Clients \cup Workers, NEW k \in Tasks,
               Enqueue(t, k) \/ EnqueueFuture(t, k)
        PROVE  (Len(tasks) <= Cardinality(notifying) + Cardinality(Ready))'
    <3>1. CASE Push(t, k)
      <4>1. Len(tasks') = Len(tasks) + 1 /\ Ready' = Ready /\ Asleep # {}
        BY <3>1 DEF Push, Ready, Asleep, TypeOK
      <4>2. notifying' = notifying \cup {t} /\ t \notin notifying
        BY <2>8, <3>1 DEF Enqueue, EnqueueFuture, MayCall, Push, Notifier
      <4>3. Cardinality(notifying') = Cardinality(notifying) + 1
        BY <2>1, <4>2, FS_AddElement
      <4> QED
        BY <2>2, <4>1, <4>3 DEF BacklogIsCovered
    <3>2. CASE Refuse(t, k)
      BY <2>3, <3>2 DEF Refuse, Ready, Asleep
    <3> QED
      BY <2>8, <3>1, <3>2 DEF Enqueue, EnqueueFuture
  <2>9. ASSUME NEW t \in Clients \cup Workers, NotifyOne(t)
        PROVE  (Len(tasks) <= Cardinality(notifying) + Cardinality(Ready))'
    <3>1. Asleep # {}
      BY <2>9 DEF NotifyOne, Asleep, TypeOK
    <3>2. PICK w \in Asleep : pc' = [pc EXCEPT ![w] = "ready"]
      BY <2>9, <3>1 DEF NotifyOne
    <3>3. Ready' = Ready \cup {w} /\ w \notin Ready
      BY <3>2 DEF Ready, Asleep, TypeOK
    <3>4. tasks' = tasks /\ notifying' = notifying \ {t} /\ t \in notifying
      BY <2>9 DEF NotifyOne, queueVars
    <3>5. /\ Cardinality(Ready') = Cardinality(Ready) + 1
          /\ Cardinality(notifying') = Cardinality(notifying) - 1
      BY <2>1, <3>3, <3>4, FS_AddElement, FS_RemoveElement
    <3> QED
      BY <2>2, <3>1, <3>4, <3>5 DEF BacklogIsCovered
  <2>10. CASE DestroyBegin \/ DestroyJoin \/ UNCHANGED vars
    BY <2>3, <2>10
    DEF DestroyBegin, DestroyJoin, vars, Ready, Asleep, queueVars
  <2>11. CASE DestroyNotifyAll
    BY <2>11 DEF DestroyNotifyAll, WokenByAll, Asleep, TypeOK
  <2> QED
    BY <2>4, <2>5, <2>6, <2>7, <2>8, <2>9, <2>10, <2>11
    DEF Next, WorkerStep, Destroyed
<1> QED
  BY <1>1, <1>2, TypeCorrect, PTL DEF Spec
-----------------------------------------------------------------------------
(* The life of the pool: a worker leaves only a stopped and empty pool,    *)
(* nobody sleeps once the destructor has notified, the destructor waits    *)
(* for every worker, and a future belongs to a task in the queue's history.*)
LifecycleInv ==
  /\ stop <=> owner # "alive"
  /\ NobodySleepsThroughStop
  /\ \A w \in Workers : pc[w] = "exited" => stop /\ tasks = <<>>
  /\ owner = "destroyed" => \A w \in Workers : pc[w] = "exited"
  /\ futures \subseteq SeqRange(accepted)

(* LifecycleInv is inductive.                                              *)
LEMMA LifecycleCorrect == Spec => []LifecycleInv
<1>1. Init => LifecycleInv
  BY DEF Init, LifecycleInv, NobodySleepsThroughStop
<1>2. TypeOK /\ LifecycleInv /\ [Next]_vars => LifecycleInv'
  <2> SUFFICES ASSUME TypeOK, LifecycleInv, [Next]_vars PROVE LifecycleInv'
    OBVIOUS
  <2> USE DEF LifecycleInv, NobodySleepsThroughStop, Asleep
  <2>1. ASSUME NEW w \in Workers, Sleep(w) PROVE LifecycleInv'
    BY <2>1 DEF Sleep, WaitPredicate, queueVars, TypeOK, SeqRange
  <2>2. ASSUME NEW w \in Workers, SpuriousWakeup(w) PROVE LifecycleInv'
    BY <2>2 DEF SpuriousWakeup, queueVars, TypeOK, SeqRange
  <2>3. ASSUME NEW w \in Workers, Take(w) PROVE LifecycleInv'
    BY <2>3 DEF Take, TypeOK, SeqRange
  <2>4. ASSUME NEW w \in Workers, Return(w) PROVE LifecycleInv'
    BY <2>4 DEF Return, MayReturn, queueVars, TypeOK, SeqRange
  <2>5. ASSUME NEW w \in Workers, Finish(w) PROVE LifecycleInv'
    BY <2>5 DEF Finish, queueVars, TypeOK, SeqRange
  <2>6. ASSUME NEW t \in Clients \cup Workers, NEW k \in Tasks,
               Enqueue(t, k) \/ EnqueueFuture(t, k)
        PROVE  LifecycleInv'
    <3>1. CASE Push(t, k)
      <4>1. SeqRange(accepted') = SeqRange(accepted) \cup {k}
        BY <3>1, RangeOfAppend DEF Push, TypeOK
      <4>2. futures' \subseteq SeqRange(accepted')
        BY <2>6, <3>1, <4>1 DEF Enqueue, EnqueueFuture, Refuse, Push
      <4> QED
        BY <3>1, <4>2 DEF Push
    <3>2. CASE Refuse(t, k)
      BY <3>2 DEF Refuse, SeqRange
    <3> QED
      BY <2>6, <3>1, <3>2 DEF Enqueue, EnqueueFuture
  <2>7. ASSUME NEW t \in Clients \cup Workers, NotifyOne(t) PROVE LifecycleInv'
    BY <2>7 DEF NotifyOne, queueVars, TypeOK, SeqRange
  <2>8. CASE DestroyBegin
    BY <2>8 DEF DestroyBegin, SeqRange
  <2>9. CASE DestroyNotifyAll
    BY <2>9 DEF DestroyNotifyAll, WokenByAll, queueVars, TypeOK, SeqRange
  <2>10. CASE DestroyJoin
    BY <2>10 DEF DestroyJoin, queueVars, SeqRange
  <2>11. CASE UNCHANGED vars
    BY <2>11 DEF vars, SeqRange
  <2> QED
    BY <2>1, <2>2, <2>3, <2>4, <2>5, <2>6, <2>7, <2>8, <2>9, <2>10, <2>11
    DEF Next, WorkerStep, Destroyed
<1> QED
  BY <1>1, <1>2, TypeCorrect, PTL DEF Spec

(* No worker sleeps on a stopped pool past the destructor's notify_all, so *)
(* the destructor never joins a sleeper.                                   *)
THEOREM StopWakesEverybody == Spec => []NobodySleepsThroughStop
<1>1. LifecycleInv => NobodySleepsThroughStop
  BY DEF LifecycleInv
<1> QED
  BY <1>1, LifecycleCorrect, PTL

(* The destructor leaves no accepted task unfinished and no future waiting.*)
THEOREM DestructorDrains == Spec => []DrainedWhenDestroyed
<1>1. TypeOK /\ AcceptedOnceInOrder /\ LifecycleInv => DrainedWhenDestroyed
  <2> SUFFICES ASSUME TypeOK, AcceptedOnceInOrder, LifecycleInv,
                      owner = "destroyed"
               PROVE  /\ tasks = <<>>
                      /\ done = SeqRange(accepted)
                      /\ futures \subseteq done
    BY DEF DrainedWhenDestroyed
  <2>1. tasks = <<>> /\ \A w \in Workers : pc[w] = "exited"
    BY PoolHasWorkers DEF LifecycleInv
  <2>2. accepted = started
    BY <2>1 DEF AcceptedOnceInOrder, TypeOK
  <2>3. Held = {}
    BY <2>1 DEF Held
  <2> QED
    BY <2>1, <2>2, <2>3 DEF AcceptedOnceInOrder, LifecycleInv
<1> QED
  BY <1>1, TypeCorrect, OnceInOrder, LifecycleCorrect, PTL
-----------------------------------------------------------------------------
(* The pool implements the task service: a worker's Take is the service's  *)
(* Begin, its Finish an End, a successful push a Submit, the destructor's  *)
(* first and last steps Close and Closed, and all else is a stutter.       *)
THEOREM ImplementsService == Spec => ServiceSpec
<1>1. Init => Service!Init
  BY DEF Init, Service!Init, Held
<1>2. /\ TypeOK /\ HistoryInv /\ LifecycleInv
      /\ [Next]_vars
      => [Service!Next]_(Service!vars)
  <2> SUFFICES ASSUME TypeOK, HistoryInv, LifecycleInv, [Next]_vars
               PROVE  Service!Next \/ UNCHANGED Service!vars
    OBVIOUS
  <2>1. ASSUME UNCHANGED <<tasks, done, stop, owner>>, Held' = Held
        PROVE  UNCHANGED Service!vars
    BY <2>1 DEF Service!vars
  <2>2. ASSUME NEW w \in Workers, Sleep(w) \/ SpuriousWakeup(w) \/ Return(w)
        PROVE  UNCHANGED Service!vars
    BY <2>1, <2>2 DEF Sleep, SpuriousWakeup, Return, queueVars, Held, TypeOK
  <2>3. ASSUME NEW w \in Workers, Take(w) PROVE Service!Begin
    <3>1. Head(tasks) \notin Held \cup done
      BY <2>3, HeadIsFresh DEF Take, HistoryInv, AcceptedOnceInOrder
    <3>2. Held' = Held \cup {Head(tasks)}
      BY <2>3 DEF Take, Held, TypeOK
    <3> QED
      BY <2>3, <3>1, <3>2 DEF Take, PopFront, Service!Begin, Service!Begun
  <2>4. ASSUME NEW w \in Workers, Finish(w) PROVE \E k \in Tasks : Service!End(k)
    <3>1. job[w] \in Held /\ job[w] \in Tasks /\ job[w] # NoTask
      BY <2>4, PoolAssumption DEF Finish, Held, TypeOK
    <3>2. Held' = Held \ {job[w]}
      <4>1. \A v \in Workers : v # w => job[v] # job[w]
        BY <3>1 DEF HistoryInv, AcceptedOnceInOrder
      <4> QED
        BY <2>4, <4>1 DEF Finish, FinishedJob, Held, TypeOK
    <3>3. Service!End(job[w])
      BY <2>4, <3>1, <3>2 DEF Finish, queueVars, Service!End
    <3> QED
      BY <3>1, <3>3
  <2>5. ASSUME NEW t \in Clients \cup Workers, NEW k \in Tasks,
               Enqueue(t, k) \/ EnqueueFuture(t, k)
        PROVE  Service!Submit(k) \/ UNCHANGED Service!vars
    <3>1. CASE Push(t, k)
      BY <3>1 DEF Push, Held, Service!Submit
    <3>2. CASE Refuse(t, k)
      BY <2>1, <3>2 DEF Refuse, Held
    <3> QED
      BY <2>5, <3>1, <3>2 DEF Enqueue, EnqueueFuture
  <2>6. ASSUME NEW t \in Clients \cup Workers, NotifyOne(t)
        PROVE  UNCHANGED Service!vars
    BY <2>1, <2>6 DEF NotifyOne, Asleep, Held, queueVars, TypeOK
  <2>7. ASSUME DestroyBegin PROVE Service!Close
    BY <2>7 DEF DestroyBegin, LifecycleInv, Held, Service!Close
  <2>8. ASSUME DestroyNotifyAll PROVE UNCHANGED Service!vars
    <3>1. Held' = Held
      BY <2>8 DEF DestroyNotifyAll, WokenByAll, Asleep, Held, queueVars, TypeOK
    <3> QED
      BY <2>8, <3>1 DEF DestroyNotifyAll, queueVars, Service!vars
  <2>9. ASSUME DestroyJoin PROVE Service!Closed
    <3>1. stop /\ tasks = <<>> /\ Held = {} /\ Held' = {}
      BY <2>9, PoolHasWorkers DEF DestroyJoin, LifecycleInv, Held, queueVars
    <3> QED
      BY <2>9, <3>1 DEF DestroyJoin, queueVars, Service!Closed
  <2>10. ASSUME UNCHANGED vars PROVE UNCHANGED Service!vars
    BY <2>1, <2>10 DEF vars, Held
  <2> QED
    BY <2>2, <2>3, <2>4, <2>5, <2>6, <2>7, <2>8, <2>9, <2>10
    DEF Next, WorkerStep, Destroyed, Service!Next
<1> QED
  BY <1>1, <1>2, TypeCorrect, HistoryCorrect, LifecycleCorrect, PTL
  DEF Spec, ServiceSpec, Service!Spec
=============================================================================
