---------------------------- MODULE TickerProofs ----------------------------
(***************************************************************************)
(* Theorems about Ticker, for every number of ticks, lag and pool size and *)
(* every set of observers.  Ticker extends the distributor, and its steps  *)
(* are steps of it: what MessageDistributeProofs shows holds here too.     *)
(***************************************************************************)
EXTENDS Ticker, MessageDistributeProofs, FiniteSetTheorems

-----------------------------------------------------------------------------
(* The composition uses the distributor as its contract allows.            *)

\* The worker has begun the tick it will distribute.
BegunInv ==
  /\ mode \in {"stopped", "running", "stopping"}
  /\ busy \in {"no", "taken", "callback", "observers"}
  /\ busy \in {"taken", "callback"} => Len(sent) < Ticks
  /\ \A i \in DOMAIN sent : sent[i].msg = i

(* Each step of the composition is a step of the distributor or none: the  *)
(* ticks are numbered, and no number is distributed twice.                 *)
LEMMA StepOfDistribute ==
  ASSUME TypeOK, BegunInv, [TickerNext]_tickerVars
  PROVE  [Next]_vars
<1>1. Len(sent) \in Nat /\ DOMAIN sent = 1 .. Len(sent)
  BY DEF TypeOK
<1>2. Worker \in Threads
  BY TickerAssumption DEF Threads
<1>3. CASE Distribute
  <2>1. Len(sent) + 1 \in Messages
    BY <1>1, <1>3, TickerAssumption DEF Distribute, Task!Observe, BegunInv
  <2> QED
    BY <1>2, <1>3, <2>1 DEF Distribute, Next
<1>4. CASE Enqueue
  BY <1>2, <1>4 DEF Enqueue, Next
<1>5. ASSUME NEW t \in Threads, NEW o \in Tokens,
             AddCallback(t, o) \/ RemoveCallback(t, o) \/ ConnectPipeline(t, o)
      PROVE  [Next]_vars
  BY <1>5 DEF AddCallback, RemoveCallback, ConnectPipeline, Next
<1>6. ASSUME NEW w \in Pool!Workers, ObserverStep(w) PROVE [Next]_vars
  BY <1>6 DEF ObserverStep, Next
<1>7. CASE DestroyObservers
  BY <1>7 DEF DestroyObservers, Next
<1>8. CASE StartStop \/ TimerTick \/ StartTick \/ Joined \/ CallCallback \/ Distributed \/ Destroy
             \/ DestroyPipeline \/ Gone \/ UNCHANGED tickerVars
  BY <1>8 DEF StartStop, TimerTick, StartTick, Joined, CallCallback, Distributed, Destroy, DestroyPipeline,
     Gone, tickerVars
<1> QED
  BY <1>3, <1>4, <1>5, <1>6, <1>7, <1>8 DEF TickerNext

(* The distributor's history of distributes grows with Distribute only.    *)
LEMMA SentByWorker ==
  ASSUME [TickerNext]_tickerVars
  PROVE  Distribute \/ UNCHANGED sent
<1>1. CASE Enqueue
  BY <1>1 DEF Enqueue, DistributeEnqueue, NotifyOne
<1>2. ASSUME NEW t \in Threads, NEW o \in Tokens,
             AddCallback(t, o) \/ RemoveCallback(t, o) \/ ConnectPipeline(t, o)
      PROVE  UNCHANGED sent
  BY <1>2 DEF AddCallback, RemoveCallback, ConnectPipeline, AddUpdateCallback, RemoveUpdateCallback
<1>3. ASSUME NEW w \in Pool!Workers, ObserverStep(w) PROVE UNCHANGED sent
  BY <1>3 DEF ObserverStep, WorkerStep, SpuriousWakeup
<1>4. CASE DestroyObservers
  BY <1>4 DEF DestroyObservers, DestroyPool, DestroyList
<1>5. CASE StartStop \/ TimerTick \/ StartTick \/ Joined \/ CallCallback \/ Distributed \/ Destroy
             \/ DestroyPipeline \/ Gone \/ UNCHANGED tickerVars
  BY <1>5 DEF StartStop, TimerTick, StartTick, Joined, CallCallback, Distributed, Destroy, DestroyPipeline,
     Gone, tickerVars, vars
<1> QED
  BY <1>1, <1>2, <1>3, <1>4, <1>5 DEF TickerNext

(* The thread side moves by these steps only.                              *)
LEMMA ThreadSide ==
  ASSUME [TickerNext]_tickerVars
  PROVE  \/ UserIsFree /\ Task!Start /\ UNCHANGED <<dying, vars>>
         \/ UserIsFree /\ Task!Stop /\ UNCHANGED vars
         \/ Task!Tick /\ UNCHANGED <<dying, vars>>
         \/ Len(sent) < Ticks /\ Task!Take /\ UNCHANGED <<dying, vars>>
         \/ Task!Call /\ UNCHANGED <<dying, vars>>
         \/ Task!Stopped /\ UNCHANGED <<dying, vars>>
         \/ Distribute
         \/ Distributed
         \/ UNCHANGED taskVars
<1>1. CASE Enqueue
  BY <1>1 DEF Enqueue
<1>2. ASSUME NEW t \in Threads, NEW o \in Tokens,
             AddCallback(t, o) \/ RemoveCallback(t, o) \/ ConnectPipeline(t, o)
      PROVE  UNCHANGED taskVars
  BY <1>2 DEF AddCallback, RemoveCallback, ConnectPipeline
<1>3. ASSUME NEW w \in Pool!Workers, ObserverStep(w) PROVE UNCHANGED taskVars
  BY <1>3 DEF ObserverStep
<1>4. CASE DestroyObservers \/ DestroyPipeline \/ Gone \/ UNCHANGED tickerVars
  BY <1>4 DEF DestroyObservers, DestroyPipeline, Gone, tickerVars
<1>5. CASE Destroy
  BY <1>5 DEF Destroy
<1>6. CASE StartStop \/ TimerTick \/ StartTick \/ Joined \/ CallCallback
  BY <1>6 DEF StartStop, TimerTick, StartTick, Joined, CallCallback
<1> QED
  BY <1>1, <1>2, <1>3, <1>4, <1>5, <1>6 DEF TickerNext

(* BegunInv is inductive, together with the distributor's types.           *)
LEMMA BegunCorrect == TickerSpec => [](TypeOK /\ BegunInv)
<1>1. TickerInit => TypeOK /\ BegunInv
  BY InitTypes DEF TickerInit, Task!Init, Init, BegunInv
<1>2. TypeOK /\ BegunInv /\ [TickerNext]_tickerVars => (TypeOK /\ BegunInv)'
  <2> SUFFICES ASSUME TypeOK, BegunInv, [TickerNext]_tickerVars PROVE TypeOK' /\ BegunInv'
    OBVIOUS
  <2>1. TypeOK'
    BY StepOfDistribute, TypeStep
  <2>2. sent \in Seq([msg : Messages, by : Threads, to : Seq(Tokens)])
    BY DEF TypeOK
  <2>3. CASE Distribute
    <3>1. /\ sent' = Append(sent, [msg |-> Len(sent) + 1, by |-> Worker, to |-> callbackList])
          /\ mode' = mode /\ busy' = "observers"
      BY <2>3 DEF Distribute, DistributeCopy, Task!Observe
    <3>2. /\ DOMAIN sent' = 1 .. Len(sent) + 1 /\ DOMAIN sent = 1 .. Len(sent) /\ Len(sent) \in Nat
          /\ \A i \in 1 .. Len(sent) : sent'[i] = sent[i]
          /\ sent'[Len(sent) + 1] = [msg |-> Len(sent) + 1, by |-> Worker, to |-> callbackList]
      BY <2>2, <3>1
    <3>3. ASSUME NEW i \in DOMAIN sent' PROVE sent'[i].msg = i
      BY <3>2 DEF BegunInv
    <3> QED
      BY <2>1, <3>1, <3>3 DEF BegunInv
  <2>4. CASE UNCHANGED sent
    <3>1. \/ UNCHANGED busy \/ busy' \in {"no", "observers"}
          \/ busy' \in {"taken", "callback"} /\ Len(sent) < Ticks
      BY ThreadSide DEF Task!Start, Task!Stop, Task!Tick, Task!Take, Task!Stopped, Task!Call,
         Task!Observe, Task!Finish, Distribute, Distributed, taskVars, BegunInv
    <3>2. mode' \in {"stopped", "running", "stopping"}
      BY ThreadSide DEF Task!Start, Task!Stop, Task!Tick, Task!Take, Task!Stopped, Task!Call,
         Task!Observe, Task!Finish, Distribute, Distributed, taskVars, BegunInv
    <3> QED
      BY <2>1, <2>4, <3>1, <3>2 DEF BegunInv
  <2> QED
    BY <2>3, <2>4, SentByWorker
<1> QED
  BY <1>1, <1>2, PTL DEF TickerSpec

(* The observers of a periodicWork are a distributor with two clients, and *)
(* whatever is true of every distributor is true of them.                  *)
THEOREM ImplementsDistribute == TickerSpec => Spec
<1>1. TickerInit => Init
  BY DEF TickerInit
<1>2. TypeOK /\ BegunInv /\ [TickerNext]_tickerVars => [Next]_vars
  BY StepOfDistribute
<1> QED
  BY <1>1, <1>2, BegunCorrect, PTL DEF TickerSpec, Spec
-----------------------------------------------------------------------------
(* Types.                                                                  *)

(* What was fed changes at the end of an observer's run only.              *)
LEMMA FedStep ==
  ASSUME TypeOK, [TickerNext]_tickerVars
  PROVE  \/ UNCHANGED <<fed, done>>
         \/ \E w \in Pool!Workers :
              /\ Pool!Finish(w)
              /\ fed' = IF job[w][2] \in Feeders THEN Append(fed, job[w]) ELSE fed
<1>1. CASE Enqueue
  BY <1>1 DEF Enqueue, DistributeEnqueue, NotifyOne, Pool!NotifyOne, Pool!Push, Pool!Refuse, poolVars
<1>2. ASSUME NEW t \in Threads, NEW o \in Tokens,
             AddCallback(t, o) \/ RemoveCallback(t, o) \/ ConnectPipeline(t, o)
      PROVE  UNCHANGED <<fed, done>>
  BY <1>2 DEF AddCallback, RemoveCallback, ConnectPipeline, AddUpdateCallback,
     RemoveUpdateCallback, poolVars
<1>3. ASSUME NEW w \in Pool!Workers, ObserverStep(w)
      PROVE  \/ UNCHANGED <<fed, done>>
             \/ /\ Pool!Finish(w)
                /\ fed' = IF job[w][2] \in Feeders THEN Append(fed, job[w]) ELSE fed
  <2>1. fed' = IF FedWhen(w) THEN Append(fed, job[w]) ELSE fed
    BY <1>3 DEF ObserverStep
  <2>2. CASE Pool!Finish(w)
    <3>1. FedWhen(w) <=> job[w][2] \in Feeders
      BY <2>2 DEF FedWhen, Pool!Finish, TypeOK, Pool!TypeOK
    <3> QED
      BY <2>1, <2>2, <3>1
  <2>3. CASE ~Pool!Finish(w)
    <3>1. done' = done /\ pc[w] # "running"
      BY <1>3, <2>3 DEF ObserverStep, WorkerStep, SpuriousWakeup, Pool!Sleep, Pool!Take,
         Pool!Return, Pool!SpuriousWakeup
    <3> QED
      BY <2>1, <3>1 DEF FedWhen
  <2> QED
    BY <2>2, <2>3
<1>4. CASE DestroyObservers
  BY <1>4 DEF DestroyObservers, DestroyPool, DestroyList, Pool!DestroyBegin,
     Pool!DestroyNotifyAll, Pool!DestroyJoin, poolVars
<1>5. CASE Distribute
  BY <1>5 DEF Distribute, DistributeCopy, poolVars
<1>6. CASE StartStop \/ TimerTick \/ StartTick \/ Joined \/ CallCallback \/ Distributed \/ Destroy
             \/ DestroyPipeline \/ Gone \/ UNCHANGED tickerVars
  BY <1>6 DEF StartStop, TimerTick, StartTick, Joined, CallCallback, Distributed, Destroy, DestroyPipeline,
     Gone, tickerVars, vars, poolVars
<1> QED
  BY <1>1, <1>2, <1>3, <1>4, <1>5, <1>6 DEF TickerNext

(* The lag is bounded by the capacity of the semaphore and the tick that   *)
(* the worker is about to take, and a feeder's run is a job of the pool.   *)
THEOREM TickerTypeCorrect == TickerSpec => []TickerTypeOK
<1>1. TickerInit => TickerTypeOK
  <2> SUFFICES ASSUME TickerInit PROVE TickerTypeOK
    OBVIOUS
  <2>1. TypeOK
    BY InitTypes DEF TickerInit
  <2>2. fed \in Seq(Tasks)
    BY DEF TickerInit
  <2>3. dying \in BOOLEAN /\ pipe \in BOOLEAN
    BY DEF TickerInit
  <2>4. mode = "stopped" /\ busy = "no" /\ due \in 0 .. MaxLag + 1
    BY TickerAssumption DEF TickerInit, Task!Init
  <2> QED
    BY <2>1, <2>2, <2>3, <2>4 DEF TickerTypeOK
<1>2. BegunInv /\ TickerTypeOK /\ [TickerNext]_tickerVars => TickerTypeOK'
  <2> SUFFICES ASSUME BegunInv, TickerTypeOK, [TickerNext]_tickerVars PROVE TickerTypeOK'
    OBVIOUS
  <2>1. TypeOK'
    BY StepOfDistribute, TypeStep DEF TickerTypeOK
  <2>2. /\ mode' \in {"stopped", "running", "stopping"} /\ due' \in 0 .. MaxLag + 1
        /\ busy' \in {"no", "taken", "callback", "observers"}
    BY ThreadSide, TickerAssumption DEF Task!Start, Task!Stop, Task!Tick, Task!Take, Task!Stopped,
       Task!Call, Task!Observe, Task!Finish, Distribute, Distributed, taskVars, TickerTypeOK
  <2>3. dying' \in BOOLEAN
    BY DEF TickerNext, tickerVars, vars, TickerTypeOK, StartStop, TimerTick, StartTick, Joined,
       CallCallback, Distributed, Distribute, Enqueue, AddCallback, RemoveCallback, ConnectPipeline,
       ObserverStep, Destroy, DestroyObservers, DestroyPipeline, Gone
  <2>4. pipe' \in BOOLEAN
    BY DEF TickerNext, tickerVars, vars, TickerTypeOK, StartStop, TimerTick, StartTick, Joined,
       CallCallback, Distributed, Distribute, Enqueue, AddCallback, RemoveCallback, ConnectPipeline,
       ObserverStep, Destroy, DestroyObservers, DestroyPipeline, Gone
  <2>5. fed' \in Seq(Tasks)
    <3>1. CASE UNCHANGED <<fed, done>>
      BY <3>1 DEF TickerTypeOK
    <3>2. ASSUME NEW w \in Pool!Workers, Pool!Finish(w),
                 fed' = IF job[w][2] \in Feeders THEN Append(fed, job[w]) ELSE fed
          PROVE  fed' \in Seq(Tasks)
      <4>1. job[w] \in Tasks
        BY <3>2 DEF Pool!Finish, TickerTypeOK, TypeOK, Pool!TypeOK
      <4> QED
        BY <3>2, <4>1 DEF TickerTypeOK
    <3> QED
      BY <3>1, <3>2, FedStep DEF TickerTypeOK
  <2> QED
    BY <2>1, <2>2, <2>3, <2>4, <2>5 DEF TickerTypeOK
<1> QED
  BY <1>1, <1>2, BegunCorrect, PTL DEF TickerSpec
-----------------------------------------------------------------------------
(* The worker is gone before the pool of the observers is stopped.         *)

QuietInv ==
  /\ dying => mode # "running"
  /\ owner # "alive" => dying /\ mode = "stopped"
  /\ mode = "stopped" => busy = "no"
  /\ busy # "observers" => todo[Worker] = <<>>
  /\ \A t \in Threads \ {Worker} : todo[t] = <<>>
  /\ refused = {}

(* QuietInv is inductive: only the worker distributes, it is joined in     *)
(* "stopped", and nothing is refused while the pool is not stopped.        *)
LEMMA QuietCorrect == TickerSpec => []QuietInv
<1>1. TickerInit => QuietInv
  BY TickerAssumption DEF TickerInit, Task!Init, Init, Pool!Init, QuietInv, Threads
<1>2. TypeOK /\ BegunInv /\ LifeInv /\ QuietInv /\ [TickerNext]_tickerVars => QuietInv'
  <2> SUFFICES ASSUME TypeOK, BegunInv, LifeInv, QuietInv, [TickerNext]_tickerVars
               PROVE  QuietInv'
    OBVIOUS
  <2>0. Worker \in Threads /\ todo \in [Threads -> Seq(Tasks)]
    BY TickerAssumption DEF TypeOK, Threads
  <2>1. ASSUME UNCHANGED <<dying, mode, busy, owner, todo, refused>> PROVE QuietInv'
    BY <2>1 DEF QuietInv
  <2>2. CASE StartStop
    <3>1. ~dying /\ owner = "alive" /\ UNCHANGED <<dying, owner, todo, refused, busy>>
      <4>1. ~dying /\ owner = "alive"
        BY <2>2 DEF StartStop, UserIsFree, QuietInv
      <4>2. UNCHANGED <<dying, owner, todo, refused, busy>>
        BY <2>2 DEF StartStop, Task!Start, Task!Stop, vars, poolVars
      <4> QED
        BY <4>1, <4>2
    <3>2. mode' # "stopped"
      BY <2>2 DEF StartStop, Task!Start, Task!Stop
    <3> QED
      BY <3>1, <3>2 DEF QuietInv
  <2>3. CASE TimerTick \/ StartTick \/ Joined \/ CallCallback
    <3>1. UNCHANGED <<dying, owner, todo, refused>>
      BY <2>3 DEF TimerTick, StartTick, Joined, CallCallback, vars, poolVars
    <3>2. \/ UNCHANGED <<mode, busy>>
          \/ mode = "running" /\ busy = "no" /\ mode' = mode /\ busy' = "taken"
          \/ busy = "taken" /\ mode' = mode /\ busy' = "callback"
          \/ mode = "stopping" /\ busy = "no" /\ busy' = busy /\ mode' = "stopped"
      BY <2>3 DEF TimerTick, StartTick, Joined, CallCallback, Task!Tick, Task!Take, Task!Call,
         Task!Stopped
    <3> QED
      BY <3>1, <3>2 DEF QuietInv
  <2>4. CASE Distribute
    <3>1. /\ busy \in {"taken", "callback"} /\ busy' = "observers"
          /\ UNCHANGED <<dying, mode, owner, refused>>
          /\ todo' = [todo EXCEPT ![Worker] = TasksFor(Len(sent) + 1, callbackList)]
      BY <2>4 DEF Distribute, DistributeCopy, Task!Observe, poolVars
    <3>2. \A t \in Threads \ {Worker} : todo'[t] = todo[t]
      BY <2>0, <3>1
    <3> QED
      BY <3>1, <3>2 DEF QuietInv
  <2>5. CASE Enqueue
    <3>1. CASE DistributeEnqueue(Worker)
      <4>1. todo[Worker] # <<>> /\ todo' = [todo EXCEPT ![Worker] = Tail(@)]
        BY <3>1 DEF DistributeEnqueue
      <4>2. busy = "observers" /\ owner = "alive" /\ ~stop
        BY <4>1 DEF QuietInv, LifeInv
      <4>3. UNCHANGED <<dying, mode, busy, owner, refused>>
        BY <2>5, <3>1, <4>2 DEF Enqueue, DistributeEnqueue, taskVars, poolVars, Pool!Push,
           Pool!Refuse
      <4>4. \A t \in Threads \ {Worker} : todo'[t] = todo[t]
        BY <2>0, <4>1
      <4> QED
        BY <4>2, <4>3, <4>4 DEF QuietInv
    <3>2. CASE NotifyOne(Worker)
      BY <2>1, <2>5, <3>2 DEF Enqueue, NotifyOne, Pool!NotifyOne, Pool!queueVars, taskVars
    <3> QED
      BY <2>5, <3>1, <3>2 DEF Enqueue
  <2>6. CASE Distributed
    <3>1. /\ busy = "observers" /\ busy' = "no" /\ todo[Worker] = <<>>
          /\ UNCHANGED <<dying, mode, owner, todo, refused>>
      BY <2>6 DEF Distributed, Task!Finish, vars, poolVars
    <3> QED
      BY <3>1 DEF QuietInv
  <2>7. ASSUME NEW t \in Threads, NEW o \in Tokens,
               AddCallback(t, o) \/ RemoveCallback(t, o) \/ ConnectPipeline(t, o)
        PROVE  QuietInv'
    BY <2>1, <2>7 DEF AddCallback, RemoveCallback, ConnectPipeline, AddUpdateCallback,
       RemoveUpdateCallback, taskVars, poolVars
  <2>8. ASSUME NEW w \in Pool!Workers, ObserverStep(w) PROVE QuietInv'
    BY <2>1, <2>8 DEF ObserverStep, WorkerStep, SpuriousWakeup, Pool!Sleep, Pool!Take, Pool!Return,
       Pool!Finish, Pool!SpuriousWakeup, Pool!queueVars, taskVars
  <2>9. CASE Destroy
    <3>1. ~dying /\ dying' /\ mode' # "running" /\ (mode' = "stopped" => mode = "stopped")
          /\ UNCHANGED <<busy, owner, todo, refused>>
      BY <2>9 DEF Destroy, UserIsFree, Task!Stop, taskVars, vars, poolVars
    <3>2. owner = "alive"
      BY <3>1 DEF QuietInv
    <3> QED
      BY <3>1, <3>2 DEF QuietInv
  <2>10. CASE DestroyObservers
    <3>1. dying /\ mode = "stopped" /\ UNCHANGED <<dying, mode, busy, todo, refused>>
      BY <2>10 DEF DestroyObservers, ObserversMayGo, DestroyPool, DestroyList, Pool!DestroyBegin,
         Pool!DestroyNotifyAll, Pool!DestroyJoin, Pool!queueVars, taskVars, poolVars
    <3> QED
      BY <3>1 DEF QuietInv
  <2>11. CASE DestroyPipeline \/ Gone \/ UNCHANGED tickerVars
    BY <2>1, <2>11 DEF DestroyPipeline, Gone, tickerVars, taskVars, vars, poolVars
  <2> QED
    BY <2>2, <2>3, <2>4, <2>5, <2>6, <2>7, <2>8, <2>9, <2>10, <2>11 DEF TickerNext
<1> QED
  BY <1>1, <1>2, BegunCorrect, ImplementsDistribute, LifeCorrect, PTL DEF TickerSpec

(* What the pool was given belongs to a tick, and is not refused: when the *)
(* list is gone, what has run is what was owed.                            *)
LEMMA DoneWhenGone ==
  ASSUME TypeOK, LifeInv, LoopInv, FifoInv, DrainInv, CompleteInv, CallableInv, QuietInv
  PROVE  /\ done \subseteq Owed
         /\ ~listAlive => done = Owed
<1>1. ASSUME NEW k \in done PROVE k \in Owed
  <2>1. k \in Passed
    <3>1. PICK x \in DOMAIN started : k = started[x]
      BY DEF DrainInv, SeqRange
    <3>2. x \in DOMAIN accepted /\ accepted[x] = started[x]
      BY <3>1 DEF FifoInv, TypeOK, Pool!TypeOK
    <3> QED
      BY <3>1, <3>2 DEF Passed, SeqRange
  <2>2. PICK i \in DOMAIN sent : \E j \in DOMAIN sent[i].to : k = TaskAt(i, j)
    BY <2>1 DEF LoopInv
  <2>3. PICK j \in DOMAIN sent[i].to : k = TaskAt(i, j)
    BY <2>2
  <2>4. sent[i].to[j] \notin EmptyTokens
    BY <2>1, <2>3 DEF CallableInv, Callable, TaskAt
  <2>5. k \in Of(i)
    BY <2>3, <2>4 DEF Of, TaskAt, SeqRange
  <2> QED
    BY <2>5 DEF Owed
<1>2. ASSUME ~listAlive, NEW k \in Owed PROVE k \in done
  <2>1. (\A w \in Pool!Workers : pc[w] = "exited") /\ \A t \in Threads : todo[t] = <<>>
    BY <1>2 DEF LifeInv, TypeOK, Threads
  <2>2. SeqRange(accepted) = done
    <3>1. Pool!Held = {} /\ tasks = <<>>
      BY <2>1 DEF DrainInv, Pool!Held
    <3>2. accepted = started
      BY <3>1 DEF FifoInv, TypeOK, Pool!TypeOK
    <3> QED
      BY <3>1, <3>2 DEF DrainInv
  <2>3. PICK i \in DOMAIN sent : k \in Of(i)
    BY <1>2 DEF Owed
  <2>4. PICK j \in DOMAIN sent[i].to : k = TaskAt(i, j) /\ sent[i].to[j] \notin EmptyTokens
    BY <2>3 DEF Of, TaskAt, SeqRange
  <2>5. TaskAt(i, j) \in Passed \cup SeqRange(todo[sent[i].by])
    BY <2>4 DEF CompleteInv, Callable
  <2>6. SeqRange(todo[sent[i].by]) = {}
    BY <2>1, CopyTypes DEF SeqRange
  <2> QED
    BY <2>2, <2>4, <2>5, <2>6 DEF Passed, QuietInv
<1> QED
  BY <1>1, <1>2

(* The observers of every executed tick run before the list of observers   *)
(* goes, none of them is refused, and the pool stops after the worker.     *)
THEOREM ObserversRun == TickerSpec => []ObserversDrained
<1>1. TypeOK /\ LifeInv /\ LoopInv /\ FifoInv /\ DrainInv /\ CompleteInv /\ CallableInv /\ QuietInv
        => ObserversDrained
  BY DoneWhenGone DEF QuietInv, ObserversDrained
<1> QED
  BY <1>1, BegunCorrect, QuietCorrect, ImplementsDistribute, LifeCorrect, LoopCorrect, FifoCorrect,
     DrainCorrect, CompleteCorrect, CallableCorrect, PTL
-----------------------------------------------------------------------------
(* The pipeline is fed in time.                                            *)

FedInv ==
  /\ SeqRange(fed) = Feeds(done)
  /\ IsFiniteSet(Feeds(done)) /\ Len(fed) = Cardinality(Feeds(done))

(* FedInv is inductive: a feeder's run is one job more, and no task runs   *)
(* twice.                                                                  *)
LEMMA FedCorrect == TickerSpec => []FedInv
<1>1. TickerInit => FedInv
  <2> SUFFICES ASSUME TickerInit PROVE FedInv
    OBVIOUS
  <2>1. fed = <<>> /\ done = {}
    BY DEF TickerInit, Init, Pool!Init
  <2>2. Feeds(done) = {} /\ SeqRange(fed) = {} /\ Len(fed) = 0
    BY <2>1 DEF Feeds, SeqRange
  <2> QED
    BY <2>2, FS_EmptySet DEF FedInv
<1>2. TickerTypeOK /\ HeldUndone /\ FedInv /\ [TickerNext]_tickerVars => FedInv'
  <2> SUFFICES ASSUME TickerTypeOK, HeldUndone, FedInv, [TickerNext]_tickerVars
               PROVE  FedInv'
    OBVIOUS
  <2>1. CASE UNCHANGED <<fed, done>>
    BY <2>1 DEF FedInv, Feeds
  <2>2. ASSUME NEW w \in Pool!Workers, Pool!Finish(w),
               fed' = IF job[w][2] \in Feeders THEN Append(fed, job[w]) ELSE fed
        PROVE  FedInv'
    <3>1. job[w] \in Tasks /\ job[w] # NoTask /\ done' = done \cup {job[w]}
      BY <2>2, DistributeAssumption DEF Pool!Finish, TickerTypeOK, TypeOK, Pool!TypeOK
    <3>2. job[w] \notin done
      BY <3>1 DEF HeldUndone
    <3>3. CASE job[w][2] \in Feeders
      <4>1. Feeds(done') = Feeds(done) \cup {job[w]} /\ job[w] \notin Feeds(done)
        BY <3>1, <3>2, <3>3 DEF Feeds
      <4>2. /\ IsFiniteSet(Feeds(done'))
            /\ Cardinality(Feeds(done')) = Cardinality(Feeds(done)) + 1
        BY <4>1, FS_AddElement DEF FedInv
      <4>3. fed' = Append(fed, job[w]) /\ fed \in Seq(Tasks)
        BY <2>2, <3>3 DEF TickerTypeOK
      <4>4. SeqRange(fed') = SeqRange(fed) \cup {job[w]} /\ Len(fed') = Len(fed) + 1
        BY <3>1, <4>3, RangeOfAppend
      <4> QED
        BY <4>1, <4>2, <4>4 DEF FedInv, Feeds
    <3>4. CASE job[w][2] \notin Feeders
      <4>1. Feeds(done') = Feeds(done) /\ fed' = fed
        BY <2>2, <3>1, <3>4 DEF Feeds
      <4> QED
        BY <4>1 DEF FedInv, Feeds
    <3> QED
      BY <3>3, <3>4
  <2> QED
    BY <2>1, <2>2, FedStep DEF TickerTypeOK
<1> QED
  BY <1>1, <1>2, TickerTypeCorrect, ImplementsDistribute, HeldCorrect, PTL DEF TickerSpec

GoneInv ==
  /\ ~listAlive => callbackList = <<>>
  /\ ~pipe => ~listAlive

(* GoneInv is inductive: a list that is gone has no caller any more, and a *)
(* pipeline goes after it.                                                 *)
LEMMA GoneCorrect == TickerSpec => []GoneInv
<1>1. TickerInit => GoneInv
  BY DEF TickerInit, Init, GoneInv
<1>2. TypeOK /\ LifeInv /\ GoneInv /\ [TickerNext]_tickerVars => GoneInv'
  <2> SUFFICES ASSUME TypeOK, LifeInv, GoneInv, [TickerNext]_tickerVars PROVE GoneInv'
    OBVIOUS
  <2>1. ASSUME UNCHANGED <<pipe, listAlive, callbackList>> PROVE GoneInv'
    BY <2>1 DEF GoneInv
  <2>2. ASSUME NEW t \in Threads, NEW o \in Tokens,
               AddCallback(t, o) \/ RemoveCallback(t, o) \/ ConnectPipeline(t, o)
        PROVE  GoneInv'
    <3>1. MayCall(t) /\ UNCHANGED <<pipe, listAlive>>
      BY <2>2 DEF AddCallback, RemoveCallback, ConnectPipeline, AddUpdateCallback,
         RemoveUpdateCallback
    <3>2. listAlive
      BY <3>1 DEF MayCall, Pool!MayCall, LifeInv
    <3> QED
      BY <3>1, <3>2 DEF GoneInv
  <2>3. CASE DestroyObservers
    <3>1. /\ pipe' = pipe
          /\ \/ UNCHANGED <<listAlive, callbackList>>
             \/ listAlive /\ ~listAlive' /\ callbackList' = <<>>
      BY <2>3 DEF DestroyObservers, DestroyPool, DestroyList, listVars
    <3> QED
      BY <3>1 DEF GoneInv
  <2>4. CASE DestroyPipeline
    BY <2>4 DEF DestroyPipeline, PipelineMayGo, GoneInv, vars, listVars
  <2>5. CASE Distribute \/ Enqueue
    BY <2>1, <2>5 DEF Distribute, Enqueue, DistributeCopy, DistributeEnqueue, NotifyOne, listVars
  <2>6. ASSUME NEW w \in Pool!Workers, ObserverStep(w) PROVE GoneInv'
    BY <2>1, <2>6 DEF ObserverStep, WorkerStep, SpuriousWakeup, listVars
  <2>7. CASE StartStop \/ TimerTick \/ StartTick \/ Joined \/ CallCallback \/ Distributed \/ Destroy
             \/ Gone \/ UNCHANGED tickerVars
    BY <2>1, <2>7 DEF StartStop, TimerTick, StartTick, Joined, CallCallback, Distributed, Destroy, Gone,
       tickerVars, vars, listVars
  <2> QED
    BY <2>2, <2>3, <2>4, <2>5, <2>6, <2>7 DEF TickerNext
<1> QED
  BY <1>1, <1>2, BegunCorrect, ImplementsDistribute, LifeCorrect, PTL DEF TickerSpec

(* The pipeline gets one job for each tick and connection, all of them     *)
(* before it is destroyed, and nobody is left that could give it another.  *)
THEOREM FedInTime == TickerSpec => []PipelineFedInTime
<1>1. TypeOK /\ LifeInv /\ LoopInv /\ FifoInv /\ DrainInv /\ CompleteInv /\ CallableInv /\ QuietInv
        /\ FedInv /\ GoneInv => PipelineFedInTime
  <2> SUFFICES ASSUME TypeOK, LifeInv, LoopInv, FifoInv, DrainInv, CompleteInv, CallableInv,
                      QuietInv, FedInv, GoneInv
               PROVE  PipelineFedInTime
    OBVIOUS
  <2>1. ~pipe => done = Owed /\ callbackList = <<>>
    BY DoneWhenGone DEF GoneInv
  <2>2. ~pipe => SeqRange(callbackList) = {}
    BY <2>1 DEF SeqRange
  <2> QED
    BY <2>1, <2>2 DEF FedInv, PipelineFedInTime
<1> QED
  BY <1>1, BegunCorrect, QuietCorrect, FedCorrect, GoneCorrect, ImplementsDistribute, LifeCorrect,
     LoopCorrect, FifoCorrect, DrainCorrect, CompleteCorrect, CallableCorrect, PTL
=============================================================================
