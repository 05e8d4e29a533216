---------------------------- MODULE LoggingProofs ----------------------------
(***************************************************************************)
(* Theorems about Logging, for every capacity of the queue, any finite     *)
(* sets of logging threads and processors, and any set of messages.        *)
(***************************************************************************)
EXTENDS Logging, FiniteSetTheorems, TLAPS

-----------------------------------------------------------------------------
(* The queue inside the logger: every step of the program is a step of the *)
(* queue or leaves it alone.                                               *)

QueueStep == Queue!Next \/ UNCHANGED queueVars

(* There are finitely many threads.                                        *)
LEMMA Finite == IsFiniteSet(Producers) /\ IsFiniteSet(Backends)
  BY LoggingAssumption DEF Queue!QueueConstants, Queue!IsFiniteSet, IsFiniteSet

(* The queue's Cardinality is the logger's.                                *)
LEMMA SameCardinality == \A S : Queue!Cardinality(S) = Cardinality(S)
  BY DEF Queue!Cardinality, Cardinality, Queue!IsFiniteSet, IsFiniteSet

(* No step of the logging does anything else to the queue.                 *)
LEMMA StepOfQueue == [Next]_vars => QueueStep
<1> SUFFICES ASSUME [Next]_vars PROVE QueueStep
  OBVIOUS
<1> USE DEF QueueStep, Queue!Next
<1>1. ASSUME NEW p \in Producers, NEW x \in Items, Queue!Enqueue(p, x) PROVE QueueStep
  BY <1>1
<1>2. ASSUME NEW b \in Backends, BackendStep(b) PROVE QueueStep
  BY <1>2 DEF BackendStep, BackendDequeue, BackendWait, BackendTook, WriteConsole,
              WriteFile, Prepare, Step, Finalize
<1>3. CASE LoadArgs \/ MakeSinks \/ StartBackend \/ FlusherPosted \/ FlusherExit
  BY <1>3 DEF LoadArgs, MakeSinks, StartBackend, FlusherPosted, FlusherExit
<1>4. CASE (\E c \in Clients, m \in Messages : Log(c, m)) \/ FlusherTimeout
  BY <1>1, <1>4 DEF Log, FlusherTimeout, Producers, Items
<1>5. CASE (\E p \in Producers : EnqueueStep(p)) \/ SpuriousWakeup
  BY <1>5 DEF EnqueueStep, SpuriousWakeup
<1>6. CASE MainReturns \/ Exit
  BY <1>1, <1>6 DEF MainReturns, Exit, StopFlusher, JoinFlusher, PostTerminate,
                    AllPosted, JoinPool, CloseDB, Producers, Items
<1>7. CASE Ended \/ UNCHANGED vars
  BY <1>7 DEF Ended, vars
<1> QED
  BY <1>2, <1>3, <1>4, <1>5, <1>6, <1>7 DEF Next

(* The logger's use of the queue is a use that mpmc_blocking_queue allows. *)
THEOREM UsesQueue == Spec => Queue!Spec
<1>1. Init => Queue!Init
  BY DEF Init
<1>2. [Next]_vars => [Queue!Next]_(Queue!vars)
  BY StepOfQueue DEF QueueStep, queueVars, Queue!vars
<1> QED
  BY <1>1, <1>2, PTL DEF Spec, Queue!Spec

(* A step keeps the queue well formed.                                     *)
LEMMA QueueTypes == Queue!TypeOK /\ [Next]_vars => Queue!TypeOK'
<1> SUFFICES ASSUME Queue!TypeOK, QueueStep PROVE Queue!TypeOK'
  BY StepOfQueue
<1> USE LoggingAssumption
    DEF Queue!TypeOK, Queue!Places, Queue!QueueConstants, Queue!PutAt, Queue!GetAt,
        Queue!PutGo, Queue!GetGo
<1>1. ASSUME NEW p \in Producers, Queue!Push(p) PROVE Queue!TypeOK'
  <2>1. /\ Len(queue) < Capacity
        /\ item[p] \in Items
        /\ queue' = Append(queue, item[p])
    BY <1>1 DEF Queue!Push, Queue!MayPush, Queue!Full, Queue!PushedBack
  <2>2. queue' \in Seq(Items) /\ Len(queue') <= Capacity
    BY <2>1
  <2> QED
    BY <1>1, <2>2 DEF Queue!Push, Queue!AfterPush
<1>2. ASSUME NEW p \in Producers, NEW x \in Items,
             \/ Queue!Enqueue(p, x) \/ Queue!EnqueueSleep(p) \/ Queue!NotifyPush(p)
      PROVE  Queue!TypeOK'
  BY <1>2 DEF Queue!Enqueue, Queue!EnqueueSleep, Queue!NotifyPush
<1>3. ASSUME NEW b \in Backends, Queue!Pop(b) PROVE Queue!TypeOK'
  <2>1. queue' \in Seq(Items) /\ Len(queue') <= Capacity /\ Head(queue) \in Items
    BY <1>3 DEF Queue!Pop
  <2> QED
    BY <1>3, <2>1 DEF Queue!Pop, Queue!AfterPop
<1>4. ASSUME NEW b \in Backends,
             Queue!Dequeue(b) \/ Queue!DequeueSleep(b) \/ Queue!NotifyPop(b)
      PROVE  Queue!TypeOK'
  BY <1>4 DEF Queue!Dequeue, Queue!DequeueSleep, Queue!NotifyPop
<1>5. CASE Queue!SpuriousWakeup \/ UNCHANGED queueVars
  BY <1>5 DEF Queue!SpuriousWakeup, queueVars
<1>6. \E x : x \in Items
  BY DEF Items
<1> QED
  BY <1>1, <1>2, <1>3, <1>4, <1>5, <1>6 DEF QueueStep, Queue!Next, Queue!EnqueueStep

(* The queue is always well formed: no item overruns another, and a        *)
(* blocked producer still has the item it brought.                         *)
LEMMA QueueTypesCorrect == Spec => []Queue!TypeOK
<1>1. Init => Queue!TypeOK
  <2> SUFFICES ASSUME Init PROVE Queue!TypeOK
    OBVIOUS
  <2>1. Queue!Init
    BY DEF Init
  <2> QED
    BY <2>1, LoggingAssumption
    DEF Queue!Init, Queue!TypeOK, Queue!Places, Queue!QueueConstants
<1> QED
  BY <1>1, QueueTypes, PTL DEF Spec

(* The threads at one place of the queue can be counted.                   *)
LEMMA PlacesFinite ==
  ASSUME Queue!TypeOK, NEW place
  PROVE  /\ IsFiniteSet(Queue!PutAt(place)) /\ IsFiniteSet(Queue!GetAt(place))
         /\ Cardinality(Queue!PutAt(place)) \in Nat
         /\ Cardinality(Queue!GetAt(place)) \in Nat
<1>1. Queue!PutAt(place) \subseteq Producers /\ Queue!GetAt(place) \subseteq Backends
  BY DEF Queue!PutAt, Queue!GetAt
<1>2. IsFiniteSet(Queue!PutAt(place)) /\ IsFiniteSet(Queue!GetAt(place))
  BY <1>1, Finite, FS_Subset
<1> QED
  BY <1>2, FS_CardinalityType

(* No lost wakeup of a backing thread: a push adds a notification, a       *)
(* notification turns a sleeper into a thread that looks, and a thread     *)
(* falls asleep on an empty queue only.                                    *)
THEOREM ItemsFound == Spec => []ItemsReachABackend
<1> DEFINE Notes == Queue!PutAt("notify")
           Looks == Queue!GetAt("lock")
           Sleepers == Queue!GetAt("asleep")
           Covered == Sleepers # {} => Len(queue) <= Cardinality(Notes) + Cardinality(Looks)
<1>1. Init => Covered
  BY DEF Init, Queue!Init, Queue!GetAt
<1>2. Queue!TypeOK /\ Queue!TypeOK' /\ Covered /\ [Next]_vars => Covered'
  <2> SUFFICES ASSUME Queue!TypeOK, Queue!TypeOK', Covered, QueueStep, Sleepers' # {}
               PROVE  (Len(queue) <= Cardinality(Notes) + Cardinality(Looks))'
    BY StepOfQueue
  <2>1. /\ IsFiniteSet(Notes) /\ IsFiniteSet(Looks) /\ IsFiniteSet(Notes') /\ IsFiniteSet(Looks')
        /\ Cardinality(Notes) \in Nat /\ Cardinality(Looks) \in Nat
        /\ Cardinality(Notes') \in Nat /\ Cardinality(Looks') \in Nat
        /\ Len(queue) \in Nat /\ Len(queue') \in Nat
    <3>1. Notes' \subseteq Producers /\ Looks' \subseteq Backends
      BY DEF Queue!PutAt, Queue!GetAt
    <3> QED
      BY <3>1, PlacesFinite, Finite, FS_Subset, FS_CardinalityType DEF Queue!TypeOK
  <2>2. ASSUME Len(queue') <= Len(queue), Notes' = Notes, Looks \subseteq Looks', Sleepers # {}
        PROVE  (Len(queue) <= Cardinality(Notes) + Cardinality(Looks))'
    <3>1. Cardinality(Looks) <= Cardinality(Looks')
      BY <2>1, <2>2, FS_Subset
    <3> QED
      BY <2>1, <2>2, <3>1
  <2>3. ASSUME NEW p \in Producers, NEW x \in Items,
               Queue!Enqueue(p, x) \/ Queue!EnqueueSleep(p)
        PROVE  (Len(queue) <= Cardinality(Notes) + Cardinality(Looks))'
    BY <2>1, <2>2, <2>3 DEF Queue!Enqueue, Queue!EnqueueSleep, Queue!PutGo,
                            Queue!PutAt, Queue!GetAt, Queue!TypeOK
  <2>4. ASSUME NEW p \in Producers, Queue!Push(p)
        PROVE  (Len(queue) <= Cardinality(Notes) + Cardinality(Looks))'
    <3>1. Notes' = Notes \cup {p} /\ p \notin Notes
      BY <2>4 DEF Queue!Push, Queue!PutGo, Queue!AfterPush, Queue!PutAt, Queue!TypeOK
    <3>2. Cardinality(Notes') = Cardinality(Notes) + 1
      BY <2>1, <3>1, FS_AddElement
    <3>3. Looks' = Looks /\ Sleepers' = Sleepers /\ Len(queue') = Len(queue) + 1
      BY <2>4 DEF Queue!Push, Queue!PutGo, Queue!MayPush, Queue!PushedBack, Queue!GetAt,
                  Queue!TypeOK
    <3> QED
      BY <2>1, <3>2, <3>3
  <2>5. ASSUME NEW p \in Producers, Queue!NotifyPush(p)
        PROVE  (Len(queue) <= Cardinality(Notes) + Cardinality(Looks))'
    <3>1. Sleepers # {}
      BY <2>5 DEF Queue!NotifyPush, Queue!GetAt, Queue!TypeOK
    <3>2. PICK b \in Sleepers : get' = [get EXCEPT ![b] = "lock"]
      BY <2>5, <3>1 DEF Queue!NotifyPush
    <3>3. Looks' = Looks \cup {b} /\ b \notin Looks
      BY <3>2 DEF Queue!GetAt, Queue!TypeOK
    <3>4. Notes' = Notes \ {p} /\ p \in Notes /\ queue' = queue
      BY <2>5 DEF Queue!NotifyPush, Queue!PutGo, Queue!PutAt, Queue!TypeOK
    <3>5. /\ Cardinality(Looks') = Cardinality(Looks) + 1
          /\ Cardinality(Notes') = Cardinality(Notes) - 1
      BY <2>1, <3>3, <3>4, FS_AddElement, FS_RemoveElement
    <3> QED
      BY <2>1, <3>1, <3>4, <3>5
  <2>6. ASSUME NEW b \in Backends, Queue!Dequeue(b) \/ Queue!NotifyPop(b)
        PROVE  (Len(queue) <= Cardinality(Notes) + Cardinality(Looks))'
    <3>1. Looks \subseteq Looks' /\ Sleepers' = Sleepers /\ queue' = queue
      BY <2>6 DEF Queue!Dequeue, Queue!NotifyPop, Queue!GetGo, Queue!GetAt, Queue!TypeOK
    <3>2. Notes' = Notes
      BY <2>6 DEF Queue!Dequeue, Queue!NotifyPop, Queue!PutAt, Queue!TypeOK
    <3> QED
      BY <2>1, <2>2, <3>1, <3>2
  <2>7. ASSUME NEW b \in Backends, Queue!DequeueSleep(b)
        PROVE  (Len(queue) <= Cardinality(Notes) + Cardinality(Looks))'
    <3>1. Len(queue') = 0
      BY <2>7 DEF Queue!DequeueSleep
    <3> QED
      BY <2>1, <3>1
  <2>8. ASSUME NEW b \in Backends, Queue!Pop(b)
        PROVE  (Len(queue) <= Cardinality(Notes) + Cardinality(Looks))'
    <3>1. Looks' = Looks \ {b} /\ b \in Looks /\ Sleepers' = Sleepers
      BY <2>8 DEF Queue!Pop, Queue!GetGo, Queue!AfterPop, Queue!GetAt, Queue!TypeOK
    <3>2. Notes' = Notes /\ Len(queue') = Len(queue) - 1
      BY <2>8 DEF Queue!Pop, Queue!PutAt, Queue!TypeOK
    <3>3. Cardinality(Looks') = Cardinality(Looks) - 1
      BY <2>1, <3>1, FS_RemoveElement
    <3> QED
      BY <2>1, <3>1, <3>2, <3>3
  <2>9. CASE Queue!SpuriousWakeup \/ UNCHANGED queueVars
    <3>1. Looks \subseteq Looks' /\ Sleepers # {} /\ queue' = queue
      BY <2>9 DEF Queue!SpuriousWakeup, queueVars, Queue!GetAt, Queue!TypeOK
    <3>2. Notes' = Notes
      BY <2>9 DEF Queue!SpuriousWakeup, queueVars, Queue!PutAt, Queue!TypeOK
    <3> QED
      BY <2>1, <2>2, <3>1, <3>2
  <2>10. \E x : x \in Items
    BY DEF Items
  <2> QED
    BY <2>3, <2>4, <2>5, <2>6, <2>7, <2>8, <2>9, <2>10
    DEF QueueStep, Queue!Next, Queue!EnqueueStep
<1>3. Covered => ItemsReachABackend
  BY SameCardinality DEF ItemsReachABackend, Queue!ItemsReachAConsumer
<1> QED
  BY <1>1, <1>2, <1>3, QueueTypesCorrect, PTL DEF Spec

(* No lost wakeup of a logging thread: the same with the parts exchanged,  *)
(* and a thread falls asleep on a full queue only.                         *)
THEOREM RoomFound == Spec => []RoomReachesALogger
<1> DEFINE Notes == Queue!GetAt("notify")
           Looks == Queue!PutAt("lock")
           Sleepers == Queue!PutAt("asleep")
           Room == Capacity - Len(queue)
           Covered == Sleepers # {} => Room <= Cardinality(Notes) + Cardinality(Looks)
<1>1. Init => Covered
  BY DEF Init, Queue!Init, Queue!PutAt
<1>2. Queue!TypeOK /\ Queue!TypeOK' /\ Covered /\ [Next]_vars => Covered'
  <2> SUFFICES ASSUME Queue!TypeOK, Queue!TypeOK', Covered, QueueStep, Sleepers' # {}
               PROVE  (Room <= Cardinality(Notes) + Cardinality(Looks))'
    BY StepOfQueue
  <2>1. /\ IsFiniteSet(Notes) /\ IsFiniteSet(Looks) /\ IsFiniteSet(Notes') /\ IsFiniteSet(Looks')
        /\ Cardinality(Notes) \in Nat /\ Cardinality(Looks) \in Nat
        /\ Cardinality(Notes') \in Nat /\ Cardinality(Looks') \in Nat
        /\ Len(queue) \in Nat /\ Len(queue') \in Nat /\ Capacity \in Nat
    <3>1. Notes' \subseteq Backends /\ Looks' \subseteq Producers
      BY DEF Queue!PutAt, Queue!GetAt
    <3> QED
      BY <3>1, PlacesFinite, Finite, FS_Subset, FS_CardinalityType, LoggingAssumption
      DEF Queue!TypeOK, Queue!QueueConstants
  <2>2. ASSUME Len(queue') >= Len(queue), Notes' = Notes, Looks \subseteq Looks', Sleepers # {}
        PROVE  (Room <= Cardinality(Notes) + Cardinality(Looks))'
    <3>1. Cardinality(Looks) <= Cardinality(Looks')
      BY <2>1, <2>2, FS_Subset
    <3> QED
      BY <2>1, <2>2, <3>1
  <2>3. ASSUME NEW p \in Producers, NEW x \in Items,
               Queue!Enqueue(p, x) \/ Queue!NotifyPush(p)
        PROVE  (Room <= Cardinality(Notes) + Cardinality(Looks))'
    <3>1. Looks \subseteq Looks' /\ Sleepers' = Sleepers /\ queue' = queue
      BY <2>3 DEF Queue!Enqueue, Queue!NotifyPush, Queue!PutGo, Queue!PutAt, Queue!TypeOK
    <3>2. Notes' = Notes
      BY <2>3 DEF Queue!Enqueue, Queue!NotifyPush, Queue!GetAt, Queue!TypeOK
    <3> QED
      BY <2>1, <2>2, <3>1, <3>2
  <2>4. ASSUME NEW p \in Producers, Queue!Push(p)
        PROVE  (Room <= Cardinality(Notes) + Cardinality(Looks))'
    <3>1. Looks' = Looks \ {p} /\ p \in Looks /\ Sleepers' = Sleepers
      BY <2>4 DEF Queue!Push, Queue!PutGo, Queue!AfterPush, Queue!PutAt, Queue!TypeOK
    <3>2. Cardinality(Looks') = Cardinality(Looks) - 1
      BY <2>1, <3>1, FS_RemoveElement
    <3>3. Notes' = Notes /\ Len(queue') = Len(queue) + 1
      BY <2>4 DEF Queue!Push, Queue!PutGo, Queue!MayPush, Queue!PushedBack, Queue!GetAt,
                  Queue!TypeOK
    <3> QED
      BY <2>1, <3>1, <3>2, <3>3
  <2>5. ASSUME NEW p \in Producers, Queue!EnqueueSleep(p)
        PROVE  (Room <= Cardinality(Notes) + Cardinality(Looks))'
    <3>1. Room' = 0
      BY <2>1, <2>5 DEF Queue!EnqueueSleep, Queue!MayPush, Queue!Full
    <3> QED
      BY <2>1, <3>1
  <2>6. ASSUME NEW b \in Backends, Queue!Dequeue(b) \/ Queue!DequeueSleep(b)
        PROVE  (Room <= Cardinality(Notes) + Cardinality(Looks))'
    BY <2>1, <2>2, <2>6 DEF Queue!Dequeue, Queue!DequeueSleep, Queue!GetGo,
                            Queue!PutAt, Queue!GetAt, Queue!TypeOK
  <2>7. ASSUME NEW b \in Backends, Queue!Pop(b)
        PROVE  (Room <= Cardinality(Notes) + Cardinality(Looks))'
    <3>1. Notes' = Notes \cup {b} /\ b \notin Notes
      BY <2>7 DEF Queue!Pop, Queue!GetGo, Queue!AfterPop, Queue!GetAt, Queue!TypeOK
    <3>2. Looks' = Looks /\ Sleepers' = Sleepers /\ Len(queue') = Len(queue) - 1
      BY <2>7 DEF Queue!Pop, Queue!PutAt, Queue!TypeOK
    <3>3. Cardinality(Notes') = Cardinality(Notes) + 1
      BY <2>1, <3>1, FS_AddElement
    <3> QED
      BY <2>1, <3>2, <3>3
  <2>8. ASSUME NEW b \in Backends, Queue!NotifyPop(b)
        PROVE  (Room <= Cardinality(Notes) + Cardinality(Looks))'
    <3>1. Sleepers # {}
      BY <2>8 DEF Queue!NotifyPop, Queue!PutAt, Queue!TypeOK
    <3>2. PICK p \in Sleepers : put' = [put EXCEPT ![p] = "lock"]
      BY <2>8, <3>1 DEF Queue!NotifyPop
    <3>3. Looks' = Looks \cup {p} /\ p \notin Looks
      BY <3>2 DEF Queue!PutAt, Queue!TypeOK
    <3>4. Notes' = Notes \ {b} /\ b \in Notes /\ queue' = queue
      BY <2>8 DEF Queue!NotifyPop, Queue!GetGo, Queue!GetAt, Queue!TypeOK
    <3>5. /\ Cardinality(Looks') = Cardinality(Looks) + 1
          /\ Cardinality(Notes') = Cardinality(Notes) - 1
      BY <2>1, <3>3, <3>4, FS_AddElement, FS_RemoveElement
    <3> QED
      BY <2>1, <3>1, <3>4, <3>5
  <2>9. CASE Queue!SpuriousWakeup \/ UNCHANGED queueVars
    <3>1. Looks \subseteq Looks' /\ Sleepers # {} /\ queue' = queue
      BY <2>9 DEF Queue!SpuriousWakeup, queueVars, Queue!PutAt, Queue!TypeOK
    <3>2. Notes' = Notes
      BY <2>9 DEF Queue!SpuriousWakeup, queueVars, Queue!GetAt, Queue!TypeOK
    <3> QED
      BY <2>1, <2>2, <3>1, <3>2
  <2>10. \E x : x \in Items
    BY DEF Items
  <2> QED
    BY <2>3, <2>4, <2>5, <2>6, <2>7, <2>8, <2>9, <2>10
    DEF QueueStep, Queue!Next, Queue!EnqueueStep
<1>3. Covered => RoomReachesALogger
  BY SameCardinality DEF RoomReachesALogger, Queue!RoomReachesAProducer
<1> QED
  BY <1>1, <1>2, <1>3, QueueTypesCorrect, PTL DEF Spec
-----------------------------------------------------------------------------
(* Where everybody is.                                                     *)

Early == {"args", "sinks", "backend", "failed"}
Writing == {"console", "file", "prepare", "step", "finalize"}

(* Types and places: backing threads agree with their places in the queue; *)
(* nothing runs and nothing is logged before the start-up is over; what a  *)
(* backing thread writes was logged.                                       *)
PlacesInv ==
  /\ main \in Phases
  /\ sinks \in {{}, {"console"}, Sinks}
  /\ db \in {"null", "open", "closed", "leaked"}
  /\ active \in BOOLEAN
  /\ stmts \in Int
  /\ threads \subseteq Backends
  /\ at \in [Backends -> BackendPlaces]
  /\ flusher \in {"none", "wait", "post", "done"}
  /\ logged \subseteq Messages
  /\ written \in [Sinks -> [Messages -> Nat]]
  /\ missed \subseteq Sinks \X Messages
  /\ \A b \in Backends :
       /\ get[b] # "out" <=> at[b] = "dequeue"
       /\ get[b] = "notify" => popped[b] \in logged \cup {Flush, Terminate}
       /\ at[b] \in Writing => popped[b] \in logged
       /\ at[b] \in {"file", "prepare", "step", "finalize"} => sinks = Sinks
       /\ at[b] = "none" => popped[b] = NoItem
       /\ at[b] # "none" => sinks # {}
       /\ at[b] = "exited" => popped[b] = Terminate
  /\ main \in Early => /\ \A b \in Backends : at[b] = "none"
                       /\ logged = {}
                       /\ flusher = "none"
  /\ main \in {"args", "sinks"} => sinks = {}
  /\ main = "backend" => sinks # {}
  /\ \A p \in Producers :
       put[p] \in {"lock", "asleep"} => item[p] \in logged \cup {Flush, Terminate}
  /\ \A i \in DOMAIN queue : queue[i] \in logged \cup {Flush, Terminate}

(* PlacesInv is inductive.                                                 *)
LEMMA PlacesCorrect == Spec => []PlacesInv
<1> USE DEF Early, Writing, setUp, outcome, queueVars
<1>1. Init => PlacesInv
  <2> SUFFICES ASSUME Init PROVE PlacesInv
    OBVIOUS
  <2>1. active \in BOOLEAN /\ queue = <<>> /\ put = [p \in Producers |-> "out"]
    BY DEF Init, Queue!Init
  <2> QED
    BY <2>1 DEF Init, Queue!Init, PlacesInv, Phases, BackendPlaces
<1>2. Queue!TypeOK /\ PlacesInv /\ [Next]_vars => PlacesInv'
  <2> SUFFICES ASSUME Queue!TypeOK, PlacesInv, [Next]_vars PROVE PlacesInv'
    OBVIOUS
  <2> USE DEF Queue!TypeOK, PlacesInv
  <2>1. CASE LoadArgs \/ MakeSinks
    <3>1. /\ main \in {"args", "sinks"} /\ main' \in {"sinks", "backend", "failed", "crashed"}
          /\ sinks' \in {{}, {"console"}, Sinks}
          /\ main' \in {"args", "sinks"} => sinks' = {}
          /\ main' = "backend" => sinks' # {}
          /\ db' \in {"null", "open", "closed", "leaked"}
      BY <2>1 DEF LoadArgs, MakeSinks, ConsoleOnly, FileSinks, SinksThrow, OpenDB, MainGo,
                  Sinks
    <3>2. UNCHANGED <<threads, at, flusher, active, left, logged, outcome, queueVars>>
      BY <2>1 DEF LoadArgs, MakeSinks
    <3>3. \A b \in Backends : at[b] = "none"
      BY <3>1
    <3> QED
      BY <3>1, <3>2, <3>3 DEF Phases
  <2>2. CASE StartBackend
    <3>1. /\ main = "backend" /\ main' \in {"run", "crashed"}
          /\ UNCHANGED <<sinks, db, left, logged, outcome, queueVars>>
      BY <2>2 DEF StartBackend
    <3>2. \A b \in Backends : get[b] = "out" /\ popped[b] = NoItem
      BY <3>1
    <3>3. /\ threads' \subseteq Backends
          /\ at' \in [Backends -> {"none", "top"}]
          /\ flusher' \in {"none", "wait"} /\ active' \in BOOLEAN
      <4>1. CASE UNCHANGED <<threads, at, flusher, active>>
        <5>1. at \in [Backends -> {"none", "top"}]
          BY <3>1
        <5> QED
          BY <3>1, <4>1, <5>1
      <4>2. PICK S \in SUBSET Backends :
               IF Cardinality(S) \in 1 .. 1000
               THEN /\ main' = "run"
                    /\ threads' = S
                    /\ at' = [b \in Backends |-> IF b \in S THEN "top" ELSE "none"]
                    /\ flusher' = "wait" /\ active' = TRUE
               ELSE main' = "crashed" /\ UNCHANGED <<threads, at, flusher, active>>
        BY <2>2, Zenon DEF StartBackend
      <4>3. CASE Cardinality(S) \in 1 .. 1000
        <5>1. /\ threads' = S /\ flusher' = "wait" /\ active' = TRUE
              /\ at' = [b \in Backends |-> IF b \in S THEN "top" ELSE "none"]
          BY <4>2, <4>3, Zenon
        <5>2. at' \in [Backends -> {"none", "top"}]
          BY <5>1
        <5> QED
          BY <5>1, <5>2
      <4> QED
        BY <4>1, <4>2, <4>3
    <3> QED
      BY <3>1, <3>2, <3>3 DEF Phases, BackendPlaces
  <2>3. ASSUME NEW c \in Clients, NEW m \in Messages, Log(c, m) PROVE PlacesInv'
    BY <2>3 DEF Log, Queue!Enqueue, Queue!PutGo, Producers
  <2>4. ASSUME NEW p \in Producers, EnqueueStep(p) PROVE PlacesInv'
    <3>1. CASE Queue!Push(p)
      <4>1. queue' = Append(queue, item[p]) /\ item[p] \in logged \cup {Flush, Terminate}
        BY <3>1 DEF Queue!Push, Queue!PutGo, Queue!MayPush, Queue!PushedBack
      <4>2. \A i \in DOMAIN queue' : queue'[i] \in logged \cup {Flush, Terminate}
        BY <4>1
      <4> QED
        BY <2>4, <3>1, <4>2 DEF EnqueueStep, Queue!Push, Queue!PutGo, Queue!AfterPush
    <3>2. CASE Queue!EnqueueSleep(p) \/ Queue!NotifyPush(p)
      BY <2>4, <3>2 DEF EnqueueStep, Queue!EnqueueSleep, Queue!NotifyPush, Queue!PutGo,
                        Queue!GetAt
    <3> QED
      BY <2>4, <3>1, <3>2 DEF EnqueueStep, Queue!EnqueueStep
  <2>5. CASE SpuriousWakeup
    BY <2>5 DEF SpuriousWakeup, Queue!SpuriousWakeup, Queue!PutAt, Queue!GetAt
  <2>6. CASE FlusherTimeout
    BY <2>6 DEF FlusherTimeout, Queue!Enqueue, Queue!PutGo, Producers
  <2>7. CASE FlusherPosted \/ FlusherExit
    BY <2>7 DEF FlusherPosted, FlusherExit
  <2>8. ASSUME NEW b \in Backends, BackendDequeue(b) \/ BackendWait(b)
        PROVE  PlacesInv'
    <3>1. CASE BackendDequeue(b)
      BY <3>1 DEF BackendDequeue, BackendGo, BackendUnchanged, Queue!Dequeue, Queue!GetGo,
                  BackendPlaces
    <3>2. CASE Queue!DequeueSleep(b)
      BY <2>8, <3>2 DEF BackendDequeue, BackendWait, BackendGo, BackendUnchanged,
                        Queue!DequeueSleep, Queue!Dequeue, Queue!GetGo
    <3>3. CASE Queue!Pop(b)
      <4>1. /\ Head(queue) \in logged \cup {Flush, Terminate}
            /\ \A i \in DOMAIN Tail(queue) : Tail(queue)[i] \in logged \cup {Flush, Terminate}
        BY <3>3 DEF Queue!Pop
      <4>2. UNCHANGED <<at, outcome, main, setUp, flusher, active, left, logged>>
        BY <2>8, <3>3 DEF BackendDequeue, BackendWait, BackendGo, BackendUnchanged,
                          Queue!Dequeue, Queue!Pop, Queue!GetGo, Queue!AfterPop
      <4> QED
        BY <3>3, <4>1, <4>2 DEF Queue!Pop, Queue!GetGo, Queue!AfterPop
    <3> QED
      BY <2>8, <3>1, <3>2, <3>3 DEF BackendWait
  <2>9. ASSUME NEW b \in Backends, BackendTook(b) PROVE PlacesInv'
    BY <2>9 DEF BackendTook, AfterTaking, BackendGo, BackendUnchanged, Queue!NotifyPop,
                Queue!GetGo, Queue!PutAt, BackendPlaces
  <2>10. ASSUME NEW b \in Backends,
                \/ WriteConsole(b) \/ WriteFile(b) \/ Prepare(b) \/ Step(b) \/ Finalize(b)
         PROVE  PlacesInv'
    <3>1. popped[b] \in Messages
      BY <2>10 DEF WriteConsole, WriteFile, Prepare, Step, Finalize, BackendGo
    <3>2. \A s \in Sinks :
             /\ Write(b, s) => written' \in [Sinks -> [Messages -> Nat]] /\ missed' = missed
             /\ GiveUp(b, s) => written' = written /\ missed' \subseteq Sinks \X Messages
      <4> SUFFICES ASSUME NEW s \in Sinks
                   PROVE  /\ Write(b, s) => /\ written' \in [Sinks -> [Messages -> Nat]]
                                            /\ missed' = missed
                          /\ GiveUp(b, s) => /\ written' = written
                                             /\ missed' \subseteq Sinks \X Messages
        OBVIOUS
      <4>1. [written[s] EXCEPT ![popped[b]] = @ + 1] \in [Messages -> Nat]
        BY <3>1
      <4>2. ASSUME Write(b, s)
            PROVE  written' \in [Sinks -> [Messages -> Nat]] /\ missed' = missed
        BY <4>1, <4>2 DEF Write
      <4>3. ASSUME GiveUp(b, s)
            PROVE  written' = written /\ missed' \subseteq Sinks \X Messages
        BY <3>1, <4>3 DEF GiveUp
      <4> QED
        BY <4>2, <4>3
    <3>3. /\ written' \in [Sinks -> [Messages -> Nat]]
          /\ missed' \subseteq Sinks \X Messages
          /\ stmts' \in Int
      BY <2>10, <3>2 DEF WriteConsole, WriteFile, Prepare, Step, Finalize, Sinks
    <3>4. /\ UNCHANGED <<queueVars, main, setUp, flusher, active, left, logged>>
          /\ \E to \in Writing \cup {"top"} :
               /\ at' = [at EXCEPT ![b] = to]
               /\ to \in {"file", "prepare", "step", "finalize"} => sinks = Sinks
          /\ at[b] \in Writing
      BY <2>10 DEF WriteConsole, WriteFile, Prepare, Step, Finalize, BackendGo,
                   AfterFailedStep, BackendUnchanged, Sinks
    <3> QED
      BY <3>3, <3>4 DEF BackendPlaces
  <2>11. CASE MainReturns \/ Exit
    <3>1. CASE MainReturns \/ StopFlusher \/ JoinFlusher \/ AllPosted \/ JoinPool
      BY <3>1 DEF MainReturns, StopFlusher, JoinFlusher, AllPosted, JoinPool, MainGo, Phases
    <3>2. CASE PostTerminate
      BY <3>2 DEF PostTerminate, Queue!Enqueue, Queue!PutGo, Producers
    <3>3. CASE CloseDB
      BY <3>3 DEF CloseDB, MainGo, Phases
    <3> QED
      BY <2>11, <3>1, <3>2, <3>3 DEF Exit
  <2>12. CASE Ended \/ UNCHANGED vars
    BY <2>12 DEF Ended, vars
  <2> QED
    BY <2>1, <2>2, <2>3, <2>4, <2>5, <2>6, <2>7, <2>8, <2>9, <2>10, <2>11, <2>12
    DEF Next, BackendStep
<1> QED
  BY <1>1, <1>2, QueueTypesCorrect, PTL DEF Spec
-----------------------------------------------------------------------------
(* Each message is in one place at a time, and the sinks know of it what   *)
(* that place says.                                                        *)

SettledAt(place) == IF place = "file" THEN {"console"}
                    ELSE IF place \in {"prepare", "step"} THEN {"console", "file"}
                    ELSE IF place = "finalize" THEN Sinks
                    ELSE {}

OneSite(m) ==
  /\ \A p, q \in Hands(m) : p = q
  /\ \A i, j \in Slots(m) : i = j
  /\ \A b, c \in Takers(m) : b = c
  /\ Hands(m) # {} => Slots(m) = {} /\ Takers(m) = {}
  /\ Slots(m) # {} => Takers(m) = {}

NoSite(m) == Hands(m) = {} /\ Slots(m) = {} /\ Takers(m) = {}

OutcomesRight(m) ==
  /\ m \notin logged \/ Hands(m) # {} \/ Slots(m) # {} =>
       \A s \in Sinks : Outcomes(s, m) = 0
  /\ \A b \in Takers(m), s \in Sinks :
       Outcomes(s, m) = IF s \in SettledAt(at[b]) THEN 1 ELSE 0
  /\ m \in logged /\ NoSite(m) =>
       \A s \in Sinks : Outcomes(s, m) = IF s \in sinks THEN 1 ELSE 0

MessageInv == \A m \in Messages : OneSite(m) /\ OutcomesRight(m)

(* A message that was not logged is nowhere.                               *)
LEMMA UnloggedIsNowhere ==
  ASSUME Queue!TypeOK, PlacesInv, NEW m \in Messages, m \notin logged
  PROVE  NoSite(m)
<1>1. m # Flush /\ m # Terminate /\ m # NoItem
  BY LoggingAssumption DEF Queue!QueueConstants, Items
<1>2. Hands(m) = {} /\ Slots(m) = {}
  BY <1>1 DEF Hands, Slots, PlacesInv
<1>3. ASSUME NEW b \in Backends, at[b] # "top", get[b] \in {"notify", "out"}, popped[b] = m
      PROVE  FALSE
  <2>1. at[b] \in Writing \cup {"none", "dequeue", "exited"}
    BY <1>3 DEF PlacesInv, BackendPlaces, Writing
  <2> QED
    BY <1>1, <1>3, <2>1 DEF PlacesInv
<1> QED
  BY <1>2, <1>3 DEF NoSite, Takers

(* What a sink's write or failure does to the outcomes.                    *)
LEMMA OneOutcome ==
  ASSUME PlacesInv, NEW b \in Backends, NEW s \in Sinks, popped[b] \in Messages,
         Outcomes(s, popped[b]) = 0, Write(b, s) \/ GiveUp(b, s)
  PROVE  \A t \in Sinks, n \in Messages :
           Outcomes(t, n)' = IF t = s /\ n = popped[b] THEN 1 ELSE Outcomes(t, n)
<1>1. /\ written \in [Sinks -> [Messages -> Nat]]
      /\ written[s][popped[b]] = 0 /\ <<s, popped[b]>> \notin missed
  <2>1. written \in [Sinks -> [Messages -> Nat]] /\ written[s][popped[b]] \in Nat
    BY DEF PlacesInv
  <2> QED
    BY <2>1 DEF Outcomes
<1>2. CASE Write(b, s)
  <2>1. \A t \in Sinks, n \in Messages :
          written'[t][n] = IF t = s /\ n = popped[b] THEN 1 ELSE written[t][n]
    BY <1>1, <1>2 DEF Write
  <2> QED
    BY <1>1, <1>2, <2>1 DEF Write, Outcomes
<1>3. CASE GiveUp(b, s)
  <2>1. \A t \in Sinks, n \in Messages :
          <<t, n>> \in missed' <=> <<t, n>> \in missed \/ (t = s /\ n = popped[b])
    BY <1>3 DEF GiveUp
  <2> QED
    BY <1>1, <1>3, <2>1 DEF GiveUp, Outcomes
<1> QED
  BY <1>2, <1>3

(* MessageInv is inductive, given the places.                              *)
LEMMA MessagesCorrect == Spec => []MessageInv
<1>1. Init => MessageInv
  <2> SUFFICES ASSUME Init, NEW m \in Messages PROVE OneSite(m) /\ OutcomesRight(m)
    BY DEF MessageInv
  <2>1. m # NoItem
    BY LoggingAssumption DEF Queue!QueueConstants, Items
  <2>2. NoSite(m) /\ m \notin logged
    BY <2>1 DEF Init, Queue!Init, NoSite, Hands, Slots, Takers
  <2>3. \A s \in Sinks : Outcomes(s, m) = 0
    BY DEF Init, Outcomes
  <2> QED
    BY <2>2, <2>3 DEF OneSite, OutcomesRight, NoSite
<1>2. /\ Queue!TypeOK /\ Queue!TypeOK' /\ PlacesInv /\ PlacesInv'
      /\ MessageInv /\ [Next]_vars
      => MessageInv'
  <2> SUFFICES ASSUME Queue!TypeOK, Queue!TypeOK', PlacesInv, PlacesInv', MessageInv,
                      [Next]_vars, NEW m \in Messages
               PROVE  (OneSite(m) /\ OutcomesRight(m))'
    BY DEF MessageInv
  <2> DEFINE Good == (OneSite(m) /\ OutcomesRight(m))'
  <2> USE DEF setUp, outcome, queueVars
  <2>0. /\ OneSite(m) /\ OutcomesRight(m)
        /\ m # Flush /\ m # Terminate /\ m # NoItem
        /\ Flusher \in Producers /\ Main \in Producers /\ Clients \subseteq Producers
    BY LoggingAssumption DEF Queue!QueueConstants, Items, MessageInv, Producers
  <2>1. ASSUME Hands(m)' = Hands(m), Slots(m)' = Slots(m), Takers(m)' = Takers(m),
               m \in logged' <=> m \in logged, sinks' = sinks,
               \A s \in Sinks : Outcomes(s, m)' = Outcomes(s, m),
               \A b \in Takers(m) : SettledAt(at'[b]) = SettledAt(at[b])
        PROVE  Good
    BY <2>0, <2>1 DEF OneSite, OutcomesRight, NoSite
  <2>2. ASSUME m \notin logged', UNCHANGED <<written, missed>>, m \notin logged
        PROVE  Good
    <3>1. NoSite(m)'
      <4>1. ASSUME Queue!TypeOK', PlacesInv', m \notin logged' PROVE NoSite(m)'
        BY <2>0, <4>1
        DEF NoSite, Hands, Slots, Takers, PlacesInv, BackendPlaces, Writing, Queue!TypeOK
      <4> QED
        BY <2>2, <4>1
    <3>2. \A s \in Sinks : Outcomes(s, m)' = 0
      BY <2>0, <2>2 DEF OutcomesRight, Outcomes
    <3> QED
      BY <2>2, <3>1, <3>2 DEF OneSite, OutcomesRight, NoSite
  <2>3. CASE LoadArgs \/ MakeSinks \/ StartBackend
    <3>1. logged = {} /\ logged' = {} /\ UNCHANGED <<written, missed>>
      BY <2>3 DEF LoadArgs, MakeSinks, StartBackend, MainGo, ConsoleOnly, FileSinks,
                  SinksThrow, PlacesInv, Early
    <3> QED
      BY <2>2, <3>1
  <2>4. ASSUME NEW c \in Clients, NEW n \in Messages, Log(c, n) PROVE Good
    <3>1. /\ put' = [put EXCEPT ![c] = "lock"] /\ item' = [item EXCEPT ![c] = n]
          /\ put[c] = "out" /\ n \notin logged /\ logged' = logged \cup {n}
          /\ UNCHANGED <<queue, get, popped, at, sinks, written, missed>>
      BY <2>4 DEF Log, Queue!Enqueue, Queue!PutGo
    <3>2. /\ Slots(m)' = Slots(m) /\ Takers(m)' = Takers(m)
          /\ \A s \in Sinks : Outcomes(s, m)' = Outcomes(s, m)
      BY <3>1 DEF Slots, Takers, Outcomes
    <3>3. CASE m = n
      <4>1. NoSite(m) /\ m \notin logged
        BY <3>1, <3>3, UnloggedIsNowhere
      <4>2. Hands(m)' = {c}
        BY <2>0, <3>1, <3>3, <4>1 DEF NoSite, Hands, Queue!TypeOK
      <4> QED
        BY <2>0, <3>1, <3>2, <4>1, <4>2 DEF OneSite, OutcomesRight, NoSite
    <3>4. CASE m # n
      <4>1. Hands(m)' = Hands(m)
        BY <2>0, <3>1, <3>4 DEF Hands, Queue!TypeOK
      <4> QED
        BY <2>1, <3>1, <3>2, <3>4, <4>1
    <3> QED
      BY <3>3, <3>4
  <2>5. ASSUME NEW p \in Producers, EnqueueStep(p) PROVE Good
    <3>1. /\ UNCHANGED <<popped, at, sinks, logged, written, missed>>
          /\ \A s \in Sinks : Outcomes(s, m)' = Outcomes(s, m)
      BY <2>5 DEF EnqueueStep, Queue!EnqueueStep, Queue!EnqueueSleep, Queue!Push,
                  Queue!NotifyPush, Outcomes
    <3>2. CASE Queue!EnqueueSleep(p) \/ Queue!NotifyPush(p)
      <4>1. Hands(m)' = Hands(m) /\ Slots(m)' = Slots(m)
        BY <3>2 DEF Queue!EnqueueSleep, Queue!NotifyPush, Queue!PutGo, Hands, Slots,
                    Queue!TypeOK
      <4>2. Takers(m)' = Takers(m)
        BY <3>1, <3>2 DEF Queue!EnqueueSleep, Queue!NotifyPush, Queue!GetAt, Takers,
                          Queue!TypeOK
      <4> QED
        BY <2>1, <3>1, <4>1, <4>2
    <3>3. CASE Queue!Push(p)
      <4>1. /\ put[p] = "lock" /\ put' = [put EXCEPT ![p] = "notify"]
            /\ queue' = Append(queue, item[p]) /\ item[p] \in Items
            /\ UNCHANGED <<item, get>>
        BY <3>3 DEF Queue!Push, Queue!PutGo, Queue!AfterPush, Queue!MayPush,
                    Queue!PushedBack, Queue!TypeOK
      <4>2. Takers(m)' = Takers(m)
        BY <3>1, <4>1 DEF Takers
      <4>3. Hands(m)' = Hands(m) \ {p}
        BY <4>1 DEF Hands, Queue!TypeOK
      <4>4. /\ DOMAIN queue' = (DOMAIN queue) \cup {Len(queue) + 1}
            /\ \A i \in DOMAIN queue : queue'[i] = queue[i]
            /\ queue'[Len(queue) + 1] = item[p]
        BY <4>1 DEF Queue!TypeOK
      <4>5. CASE item[p] = m
        <5>1. p \in Hands(m)
          BY <4>1, <4>5 DEF Hands
        <5>2. Slots(m) = {} /\ Takers(m) = {} /\ Hands(m) = {p}
          BY <2>0, <5>1 DEF OneSite
        <5>3. Slots(m)' = {Len(queue) + 1} /\ Hands(m)' = {}
          BY <4>3, <4>4, <4>5, <5>2 DEF Slots
        <5> QED
          BY <2>0, <3>1, <4>2, <5>2, <5>3 DEF OneSite, OutcomesRight, NoSite
      <4>6. CASE item[p] # m
        <5>1. Hands(m)' = Hands(m)
          BY <4>3, <4>6 DEF Hands
        <5>2. Slots(m)' = Slots(m)
          BY <4>4, <4>6 DEF Slots
        <5> QED
          BY <2>1, <3>1, <4>2, <5>1, <5>2
      <4> QED
        BY <4>5, <4>6
    <3> QED
      BY <2>5, <3>2, <3>3 DEF EnqueueStep, Queue!EnqueueStep
  <2>6. CASE SpuriousWakeup
    <3>1. UNCHANGED <<queue, item, popped, at, sinks, logged, written, missed>>
      BY <2>6 DEF SpuriousWakeup, Queue!SpuriousWakeup
    <3>2. Hands(m)' = Hands(m) /\ Takers(m)' = Takers(m)
      BY <2>6, <3>1 DEF SpuriousWakeup, Queue!SpuriousWakeup, Queue!PutAt, Queue!GetAt,
                        Hands, Takers, Queue!TypeOK
    <3> QED
      BY <2>1, <3>1, <3>2 DEF Slots, Outcomes
  <2>7. CASE FlusherTimeout \/ PostTerminate
    <3>1. UNCHANGED <<queue, get, popped, at, sinks, logged, written, missed>>
      BY <2>7 DEF FlusherTimeout, PostTerminate, Queue!Enqueue
    <3>2. Hands(m)' = Hands(m)
      BY <2>0, <2>7 DEF FlusherTimeout, PostTerminate, Queue!Enqueue, Queue!PutGo, Hands,
                        Queue!TypeOK
    <3> QED
      BY <2>1, <3>1, <3>2 DEF Slots, Takers, Outcomes
  <2>8. CASE \/ FlusherPosted \/ FlusherExit \/ MainReturns \/ StopFlusher \/ JoinFlusher
             \/ AllPosted \/ JoinPool \/ CloseDB \/ Ended \/ UNCHANGED vars
    <3>1. UNCHANGED <<queueVars, at, sinks, logged, written, missed>>
      BY <2>8 DEF FlusherPosted, FlusherExit, MainReturns, StopFlusher, JoinFlusher,
                  AllPosted, JoinPool, CloseDB, Ended, vars
    <3> QED
      BY <2>1, <3>1 DEF Hands, Slots, Takers, Outcomes
  <2>9. ASSUME NEW b \in Backends, BackendDequeue(b) \/ BackendWait(b) PROVE Good
    <3>1. UNCHANGED <<put, item, sinks, logged, written, missed>>
      BY <2>9 DEF BackendDequeue, BackendWait, BackendUnchanged, Queue!Dequeue,
                  Queue!DequeueSleep, Queue!Pop
    <3>2. Hands(m)' = Hands(m) /\ \A s \in Sinks : Outcomes(s, m)' = Outcomes(s, m)
      BY <3>1 DEF Hands, Outcomes
    <3>3. CASE BackendDequeue(b)
      <4>1. Takers(m)' = Takers(m) /\ Slots(m)' = Slots(m) /\ b \notin Takers(m)
        BY <2>0, <3>3 DEF BackendDequeue, BackendGo, Queue!Dequeue, Queue!GetGo, Takers,
                          Slots, Queue!TypeOK, PlacesInv
      <4>2. \A c \in Takers(m) : at'[c] = at[c]
        BY <3>3, <4>1 DEF BackendDequeue, BackendGo, PlacesInv, Takers
      <4> QED
        BY <2>1, <3>1, <3>2, <4>1, <4>2
    <3>4. CASE BackendWait(b) /\ Queue!DequeueSleep(b)
      <4>1. UNCHANGED <<at, queue, popped>>
        BY <3>4 DEF BackendWait, Queue!DequeueSleep
      <4>2. Takers(m)' = Takers(m) /\ Slots(m)' = Slots(m)
        BY <3>4, <4>1 DEF Queue!DequeueSleep, Queue!GetGo, Takers, Slots, Queue!TypeOK
      <4> QED
        BY <2>1, <3>1, <3>2, <4>1, <4>2
    <3>5. CASE BackendWait(b) /\ Queue!Pop(b)
      <4>1. /\ get[b] = "lock" /\ get' = [get EXCEPT ![b] = "notify"]
            /\ queue # <<>> /\ queue' = Tail(queue)
            /\ popped' = [popped EXCEPT ![b] = Head(queue)]
            /\ at[b] = "dequeue" /\ at' = at
        BY <3>5 DEF BackendWait, Queue!Pop, Queue!GetGo, Queue!AfterPop, PlacesInv
      <4>2. /\ 1 \in DOMAIN queue /\ Head(queue) = queue[1]
            /\ \A i \in DOMAIN queue' : i + 1 \in DOMAIN queue /\ queue'[i] = queue[i + 1]
            /\ \A i \in DOMAIN queue : i # 1 => i - 1 \in DOMAIN queue' /\ queue'[i - 1] = queue[i]
            /\ DOMAIN queue \subseteq Nat /\ DOMAIN queue' \subseteq Nat \ {0}
        BY <4>1 DEF Queue!TypeOK
      <4>3. CASE Head(queue) = m
        <5>1. Slots(m) = {1} /\ Hands(m) = {} /\ Takers(m) = {}
          BY <2>0, <4>2, <4>3 DEF OneSite, Slots
        <5>2. Slots(m)' = {}
          BY <4>2, <5>1 DEF Slots
        <5>3. Takers(m)' = {b}
          BY <4>1, <4>3, <5>1 DEF Takers, Queue!TypeOK, PlacesInv
        <5>4. SettledAt(at'[b]) = {}
          BY <4>1 DEF SettledAt
        <5>5. \A s \in Sinks : Outcomes(s, m)' = 0
          BY <2>0, <3>2, <5>1 DEF OutcomesRight
        <5> QED
          BY <3>2, <5>1, <5>2, <5>3, <5>4, <5>5, <2>0, <3>1
          DEF OneSite, OutcomesRight, NoSite
      <4>4. CASE Head(queue) # m
        <5>1. Takers(m)' = Takers(m)
          BY <2>0, <4>1, <4>4 DEF Takers, Queue!TypeOK, PlacesInv
        <5>2. \A i \in Slots(m)' : i + 1 \in Slots(m)
          BY <4>2 DEF Slots
        <5>3. \A i, j \in Slots(m)' : i = j
          BY <2>0, <4>2, <5>2 DEF OneSite, Slots
        <5>4. Slots(m)' = {} <=> Slots(m) = {}
          <6>1. \A i \in Slots(m) : i - 1 \in Slots(m)'
            BY <4>2, <4>4 DEF Slots
          <6> QED
            BY <5>2, <6>1
        <5> QED
          BY <2>0, <3>1, <3>2, <4>1, <5>1, <5>3, <5>4 DEF OneSite, OutcomesRight, NoSite
      <4> QED
        BY <4>3, <4>4
    <3> QED
      BY <2>9, <3>3, <3>4, <3>5 DEF BackendWait
  <2>10. ASSUME NEW b \in Backends, BackendTook(b) PROVE Good
    <3>1. /\ at[b] = "dequeue" /\ at' = [at EXCEPT ![b] = AfterTaking(popped[b])]
          /\ get[b] = "notify" /\ get' = [get EXCEPT ![b] = "out"]
          /\ UNCHANGED <<queue, item, popped, sinks, logged, written, missed>>
      BY <2>10 DEF BackendTook, BackendGo, BackendUnchanged, Queue!NotifyPop, Queue!GetGo
    <3>2. Hands(m)' = Hands(m)
      BY <2>10 DEF BackendTook, Queue!NotifyPop, Queue!PutAt, Hands, Queue!TypeOK
    <3>3. Slots(m)' = Slots(m) /\ \A s \in Sinks : Outcomes(s, m)' = Outcomes(s, m)
      BY <3>1 DEF Slots, Outcomes
    <3>4. popped[b] = m => AfterTaking(popped[b]) = "console"
      BY <2>0 DEF AfterTaking
    <3>5. Takers(m)' = Takers(m)
      BY <3>1, <3>4 DEF Takers, Queue!TypeOK, PlacesInv
    <3>6. \A c \in Takers(m) : SettledAt(at'[c]) = SettledAt(at[c])
      BY <3>1, <3>4 DEF Takers, SettledAt, PlacesInv
    <3> QED
      BY <2>1, <3>1, <3>2, <3>3, <3>5, <3>6
  <2>11. ASSUME NEW b \in Backends, NEW from \in Writing, NEW to \in Writing \cup {"top"},
                BackendGo(b, from, to), UNCHANGED <<queueVars, sinks, logged>>,
                popped[b] # m => \A s \in Sinks : Outcomes(s, m)' = Outcomes(s, m),
                popped[b] = m => \A s \in Sinks :
                  Outcomes(s, m)' = IF s \in (IF to = "top" THEN sinks ELSE SettledAt(to))
                                    THEN 1 ELSE 0
         PROVE  Good
    <3>1. at[b] = from /\ at' = [at EXCEPT ![b] = to] /\ from # "dequeue" /\ from # "top"
      BY <2>11 DEF BackendGo, Writing
    <3>2. Hands(m)' = Hands(m) /\ Slots(m)' = Slots(m) /\ get[b] = "out"
      BY <2>11, <3>1 DEF Hands, Slots, PlacesInv, Queue!TypeOK
    <3>3. CASE popped[b] = m
      <4>1. Takers(m) = {b} /\ Hands(m) = {} /\ Slots(m) = {} /\ m \in logged
        <5>1. b \in Takers(m)
          BY <3>1, <3>2, <3>3 DEF Takers
        <5> QED
          BY <2>0, <2>11, <3>1, <3>3, <5>1 DEF OneSite, PlacesInv
      <4>2. Takers(m)' = IF to = "top" THEN {} ELSE {b}
        BY <2>11, <3>1, <3>2, <3>3, <4>1 DEF Takers, PlacesInv
      <4>3. at'[b] = to
        BY <3>1 DEF PlacesInv
      <4> QED
        BY <2>11, <3>2, <3>3, <4>1, <4>2, <4>3 DEF OneSite, OutcomesRight, NoSite
    <3>4. CASE popped[b] # m
      <4>1. Takers(m)' = Takers(m) /\ \A c \in Takers(m) : at'[c] = at[c]
        BY <2>11, <3>1, <3>4 DEF Takers, PlacesInv
      <4> QED
        BY <2>1, <2>11, <3>2, <3>4, <4>1
    <3> QED
      BY <3>3, <3>4
  <2>12. ASSUME NEW b \in Backends,
                \/ WriteConsole(b) \/ WriteFile(b) \/ Prepare(b) \/ Step(b) \/ Finalize(b)
         PROVE  Good
    <3>1. /\ UNCHANGED <<queueVars, sinks, logged>>
          /\ at[b] \in Writing /\ get[b] = "out" /\ popped[b] \in Messages
      BY <2>12 DEF WriteConsole, WriteFile, Prepare, Step, Finalize, BackendGo,
                   BackendUnchanged, Writing, PlacesInv, Queue!TypeOK, Queue!Places
    <3>2. \A s \in Sinks : Outcomes(s, popped[b]) = IF s \in SettledAt(at[b]) THEN 1 ELSE 0
      <4>1. b \in Takers(popped[b])
        BY <3>1 DEF Takers, Writing
      <4> QED
        BY <3>1, <4>1 DEF MessageInv, OutcomesRight
    <3>3. CASE WriteConsole(b)
      <4>1. \A t \in Sinks, n \in Messages :
              Outcomes(t, n)' = IF t = "console" /\ n = popped[b] THEN 1 ELSE Outcomes(t, n)
        BY <3>1, <3>2, <3>3, OneOutcome DEF WriteConsole, BackendGo, SettledAt, Sinks
      <4>2. PICK to \in {"file", "top"} :
               /\ BackendGo(b, "console", to)
               /\ to = IF "file" \in sinks THEN "file" ELSE "top"
        BY <3>3 DEF WriteConsole
      <4>3. to = "top" => sinks = {"console"}
        BY <3>1, <4>2 DEF PlacesInv, Sinks, Writing
      <4> QED
        BY <2>11, <3>1, <3>2, <4>1, <4>2, <4>3 DEF BackendGo, SettledAt, Writing, Sinks
    <3>4. CASE WriteFile(b)
      <4>1. \A t \in Sinks, n \in Messages :
              Outcomes(t, n)' = IF t = "file" /\ n = popped[b] THEN 1 ELSE Outcomes(t, n)
        BY <3>1, <3>2, <3>4, OneOutcome DEF WriteFile, BackendGo, SettledAt, Sinks
      <4>2. BackendGo(b, "file", "prepare")
        BY <3>4 DEF WriteFile
      <4> QED
        BY <2>11, <3>1, <3>2, <4>1, <4>2 DEF BackendGo, SettledAt, Writing, Sinks
    <3>5. CASE Prepare(b) /\ GiveUp(b, "sqlite") /\ BackendGo(b, "prepare", "top")
      <4>1. \A t \in Sinks, n \in Messages :
              Outcomes(t, n)' = IF t = "sqlite" /\ n = popped[b] THEN 1 ELSE Outcomes(t, n)
        BY <3>1, <3>2, <3>5, OneOutcome DEF BackendGo, SettledAt, Sinks
      <4>2. sinks = Sinks
        BY <3>5 DEF BackendGo, PlacesInv
      <4> QED
        BY <2>11, <3>1, <3>2, <3>5, <4>1, <4>2 DEF BackendGo, SettledAt, Writing, Sinks
    <3>6. CASE Prepare(b) /\ BackendGo(b, "prepare", "step") /\ UNCHANGED <<written, missed>>
      <4>1. \A t \in Sinks, n \in Messages : Outcomes(t, n)' = Outcomes(t, n)
        BY <3>6 DEF Outcomes
      <4> QED
        BY <2>11, <3>1, <3>2, <3>6, <4>1 DEF BackendGo, SettledAt, Writing, Sinks
    <3>7. CASE Step(b)
      <4>1. \A t \in Sinks, n \in Messages :
              Outcomes(t, n)' = IF t = "sqlite" /\ n = popped[b] THEN 1 ELSE Outcomes(t, n)
        BY <3>1, <3>2, <3>7, OneOutcome DEF Step, BackendGo, SettledAt, Sinks
      <4>2. BackendGo(b, "step", "finalize")
        BY <3>7 DEF Step, AfterFailedStep
      <4> QED
        BY <2>11, <3>1, <3>2, <4>1, <4>2 DEF BackendGo, SettledAt, Writing, Sinks
    <3>8. CASE Finalize(b)
      <4>1. \A t \in Sinks, n \in Messages : Outcomes(t, n)' = Outcomes(t, n)
        BY <3>8 DEF Finalize, Outcomes
      <4>2. sinks = Sinks /\ BackendGo(b, "finalize", "top")
        BY <3>8 DEF Finalize, BackendGo, PlacesInv
      <4> QED
        BY <2>11, <3>1, <3>2, <4>1, <4>2 DEF BackendGo, SettledAt, Writing, Sinks
    <3> QED
      BY <2>12, <3>3, <3>4, <3>5, <3>6, <3>7, <3>8 DEF Prepare
  <2> QED
    BY <2>3, <2>4, <2>5, <2>6, <2>7, <2>8, <2>9, <2>10, <2>12
    DEF Next, BackendStep, Exit
<1> QED
  BY <1>1, <1>2, QueueTypesCorrect, PlacesCorrect, PTL DEF Spec

(* A set with at most one member has cardinality 0 or 1.                   *)
LEMMA AtMostOne ==
  ASSUME NEW S, \A x, y \in S : x = y
  PROVE  IF S = {} THEN Cardinality(S) = 0 ELSE Cardinality(S) = 1
<1>1. CASE S = {}
  BY <1>1, FS_EmptySet
<1>2. CASE S # {}
  <2>1. PICK x \in S : TRUE
    BY <1>2
  <2>2. S = {x}
    BY <2>1
  <2> QED
    BY <1>2, <2>2, FS_Singleton
<1> QED
  BY <1>1, <1>2

(* No message is lost, written twice or both written and given up between  *)
(* the logging call and the sinks.                                         *)
THEOREM EachMessageOnce == Spec => []NothingLostOrTwice
<1>1. PlacesInv /\ MessageInv => NothingLostOrTwice
  <2> SUFFICES ASSUME PlacesInv, MessageInv, NEW m \in Messages
               PROVE  /\ OnItsWay(m) <= 1
                      /\ \A s \in Sinks : Outcomes(s, m) <= 1
                      /\ m \in logged /\ OnItsWay(m) = 0 =>
                           \A s \in sinks : Outcomes(s, m) = 1
    BY DEF NothingLostOrTwice
  <2>1. OneSite(m) /\ OutcomesRight(m)
    BY DEF MessageInv
  <2>2. /\ Cardinality(Hands(m)) = IF Hands(m) = {} THEN 0 ELSE 1
        /\ Cardinality(Slots(m)) = IF Slots(m) = {} THEN 0 ELSE 1
        /\ Cardinality(Takers(m)) = IF Takers(m) = {} THEN 0 ELSE 1
    BY <2>1, AtMostOne DEF OneSite
  <2>3. OnItsWay(m) <= 1 /\ (OnItsWay(m) = 0 => NoSite(m))
    BY <2>1, <2>2 DEF OnItsWay, OneSite, NoSite
  <2>4. \A s \in Sinks : Outcomes(s, m) \in {0, 1}
    BY <2>1 DEF OutcomesRight, NoSite
  <2>5. sinks \subseteq Sinks
    BY DEF PlacesInv, Sinks
  <2> QED
    BY <2>1, <2>3, <2>4, <2>5 DEF OutcomesRight
<1> QED
  BY <1>1, PlacesCorrect, MessagesCorrect, PTL
-----------------------------------------------------------------------------
(* Exit.                                                                   *)

Off == Early \cup {"crashed"}
Ending == {"pool", "joinPool", "sinksGo", "done"}

(* Who can still be in a call, and where, when main ends; and what each    *)
(* caller of the queue brings.                                             *)
CallersInv ==
  /\ threads = {b \in Backends : at[b] # "none"}
  /\ main \in Off <=> threads = {}
  /\ main \in Off => /\ logged = {} /\ queue = <<>> /\ flusher = "none"
                     /\ \A p \in Producers : put[p] = "out"
  /\ main \notin Off \cup {"run"} => \A c \in Clients : put[c] = "out"
  /\ main \in Ending => flusher = "done"
  /\ put[Flusher] # "out" => flusher = "post"
  /\ put[Main] # "out" => main = "pool"
  /\ \A p \in Producers : put[p] \in {"lock", "asleep"} =>
       item[p] = Terminate <=> p = Main
  /\ left \in Nat
  /\ main \in {"joinPool", "sinksGo", "done"} => left = 0
  /\ main \notin {"sinksGo", "done"} => db \in {"null", "open"}

(* CallersInv is inductive, given the places.                              *)
LEMMA CallersCorrect == Spec => []CallersInv
<1> USE DEF Early, Off, Ending, setUp, outcome, queueVars
<1>1. Init => CallersInv
  BY LoggingAssumption DEF Init, Queue!Init, CallersInv, Producers
<1>2. Queue!TypeOK /\ PlacesInv /\ PlacesInv' /\ CallersInv /\ [Next]_vars => CallersInv'
  <2> SUFFICES ASSUME Queue!TypeOK, PlacesInv, PlacesInv', CallersInv, [Next]_vars
               PROVE  CallersInv'
    OBVIOUS
  <2> USE DEF Queue!TypeOK, CallersInv
  <2>0. /\ Flusher \in Producers /\ Main \in Producers /\ Clients \subseteq Producers
        /\ Flusher \notin Clients /\ Main \notin Clients /\ Flusher # Main
        /\ Flush # Terminate /\ Terminate \notin Messages
        /\ \A p \in Producers : p \in Clients \/ p = Flusher \/ p = Main
    BY LoggingAssumption DEF Producers, Flusher, Main
  <2>1. CASE LoadArgs \/ MakeSinks
    BY <2>1 DEF LoadArgs, MakeSinks, ConsoleOnly, FileSinks, SinksThrow, OpenDB, MainGo
  <2>2. CASE StartBackend
    <3>1. PICK S \in SUBSET Backends :
            IF Cardinality(S) \in 1 .. 1000
            THEN /\ main' = "run"
                 /\ threads' = S
                 /\ at' = [b \in Backends |-> IF b \in S THEN "top" ELSE "none"]
                 /\ flusher' = "wait" /\ active' = TRUE
            ELSE main' = "crashed" /\ UNCHANGED <<threads, at, flusher, active>>
      BY <2>2, Zenon DEF StartBackend
    <3>2. main = "backend" /\ UNCHANGED <<sinks, db, left, logged, outcome, queueVars>>
      BY <2>2 DEF StartBackend
    <3>3. CASE Cardinality(S) \in 1 .. 1000
      <4>1. S # {}
        <5>1. Cardinality({}) = 0
          BY FS_EmptySet
        <5>2. ASSUME S = {} PROVE FALSE
          <6>1. Cardinality(S) = 0
            BY <5>1, <5>2
          <6> QED
            BY <3>3, <6>1
        <5> QED
          BY <5>2
      <4>2. /\ main' = "run" /\ threads' = S
            /\ at' = [b \in Backends |-> IF b \in S THEN "top" ELSE "none"]
        BY <3>1, <3>3, Zenon
      <4>3. threads' = {b \in Backends : at'[b] # "none"}
        BY <4>2
      <4> QED
        BY <3>2, <4>1, <4>2, <4>3
    <3>4. CASE Cardinality(S) \notin 1 .. 1000
      <4>1. main' = "crashed" /\ UNCHANGED <<threads, at, flusher, active>>
        BY <3>1, <3>4, Zenon
      <4> QED
        BY <3>2, <4>1
    <3> QED
      BY <3>3, <3>4
  <2>3. ASSUME NEW c \in Clients, NEW m \in Messages, Log(c, m) PROVE CallersInv'
    BY <2>0, <2>3 DEF Log, Queue!Enqueue, Queue!PutGo
  <2>4. ASSUME NEW p \in Producers, EnqueueStep(p) PROVE CallersInv'
    <3>1. main \notin Off
      BY <2>4 DEF EnqueueStep, Queue!EnqueueStep, Queue!EnqueueSleep, Queue!Push,
                  Queue!NotifyPush, Queue!PutGo
    <3> QED
      BY <2>0, <2>4, <3>1
      DEF EnqueueStep, Queue!EnqueueStep, Queue!EnqueueSleep, Queue!Push, Queue!NotifyPush,
          Queue!PutGo, Queue!AfterPush
  <2>5. CASE SpuriousWakeup
    BY <2>0, <2>5 DEF SpuriousWakeup, Queue!SpuriousWakeup, Queue!PutAt
  <2>6. CASE FlusherTimeout
    BY <2>0, <2>6 DEF FlusherTimeout, Queue!Enqueue, Queue!PutGo, PlacesInv
  <2>7. CASE FlusherPosted \/ FlusherExit
    BY <2>0, <2>7 DEF FlusherPosted, FlusherExit
  <2>8. ASSUME NEW b \in Backends, BackendStep(b) PROVE CallersInv'
    <3>1. /\ UNCHANGED <<main, threads, flusher, left, logged, item, db>>
          /\ \A p \in Producers : \/ put'[p] = put[p]
                                  \/ put[p] = "asleep" /\ put'[p] = "lock"
      BY <2>8 DEF BackendStep, BackendDequeue, BackendWait, BackendTook, WriteConsole,
                  WriteFile, Prepare, Step, Finalize, BackendUnchanged, Queue!Dequeue,
                  Queue!DequeueSleep, Queue!Pop, Queue!NotifyPop, Queue!PutAt
    <3>2. \E from \in BackendPlaces \ {"none"}, to \in BackendPlaces \ {"none"} :
             at[b] = from /\ at' = [at EXCEPT ![b] = to]
      BY <2>8 DEF BackendStep, BackendDequeue, BackendWait, BackendTook, WriteConsole,
                  WriteFile, Prepare, Step, Finalize, BackendGo, AfterTaking,
                  AfterFailedStep, Queue!DequeueSleep, Queue!Pop, Queue!GetGo, PlacesInv,
                  BackendPlaces
    <3>3. threads' = {c \in Backends : at'[c] # "none"} /\ main \notin Off
      BY <3>1, <3>2 DEF PlacesInv
    <3> QED
      BY <2>0, <3>1, <3>3
  <2>9. CASE MainReturns \/ StopFlusher \/ JoinFlusher \/ AllPosted \/ JoinPool
    <3>1. UNCHANGED <<setUp, at, flusher, logged, queueVars>>
      BY <2>9 DEF MainReturns, StopFlusher, JoinFlusher, AllPosted, JoinPool
    <3>2. left' \in Nat
      <4>1. Cardinality(threads) \in Nat
        BY Finite, FS_Subset, FS_CardinalityType
      <4> QED
        BY <2>9, <4>1 DEF MainReturns, StopFlusher, JoinFlusher, AllPosted, JoinPool,
                          Terminates
    <3> QED
      BY <2>0, <2>9, <3>1, <3>2
      DEF MainReturns, StopFlusher, JoinFlusher, AllPosted, JoinPool, FlusherJoined, MainGo
  <2>10. CASE PostTerminate
    BY <2>0, <2>10 DEF PostTerminate, Queue!Enqueue, Queue!PutGo
  <2>11. CASE CloseDB
    BY <2>0, <2>11 DEF CloseDB, MainGo
  <2>12. CASE Ended \/ UNCHANGED vars
    BY <2>12 DEF Ended, vars
  <2> QED
    BY <2>1, <2>2, <2>3, <2>4, <2>5, <2>6, <2>7, <2>8, <2>9, <2>10, <2>11, <2>12
    DEF Next, Exit
<1> QED
  BY <1>1, <1>2, QueueTypesCorrect, PlacesCorrect, PTL DEF Spec

(* The open statements are those of the threads between prepare and        *)
(* finalize.                                                               *)
Preparing == {b \in Backends : at[b] \in {"step", "finalize"}}
StatementsInv == stmts = Cardinality(Preparing)

(* StatementsInv is inductive: a statement is finalized by who prepared it. *)
LEMMA StatementsCorrect == Spec => []StatementsInv
<1> USE DEF setUp, outcome, queueVars
<1>1. Init => StatementsInv
  <2> SUFFICES ASSUME Init PROVE StatementsInv
    OBVIOUS
  <2>1. Preparing = {}
    BY DEF Init, Preparing
  <2> QED
    BY <2>1, FS_EmptySet DEF Init, StatementsInv
<1>2. PlacesInv /\ StatementsInv /\ [Next]_vars => StatementsInv'
  <2> SUFFICES ASSUME PlacesInv, StatementsInv, [Next]_vars PROVE StatementsInv'
    OBVIOUS
  <2> USE DEF StatementsInv
  <2>0. at \in [Backends -> BackendPlaces]
    BY DEF PlacesInv
  <2>1. ASSUME UNCHANGED stmts, Preparing' = Preparing PROVE StatementsInv'
    BY <2>1
  <2>2. CASE \/ LoadArgs \/ MakeSinks \/ SpuriousWakeup \/ FlusherTimeout \/ FlusherPosted
             \/ FlusherExit \/ MainReturns \/ Exit \/ Ended \/ UNCHANGED vars
             \/ (\E c \in Clients, m \in Messages : Log(c, m))
             \/ (\E p \in Producers : EnqueueStep(p))
    BY <2>1, <2>2
    DEF LoadArgs, MakeSinks, SpuriousWakeup, FlusherTimeout, FlusherPosted, FlusherExit,
        MainReturns, Exit, StopFlusher, JoinFlusher, PostTerminate, AllPosted, JoinPool,
        CloseDB, Ended, vars, Log, EnqueueStep, Preparing
  <2>3. CASE StartBackend
    <3>1. \A b \in Backends : at[b] = "none" /\ at'[b] \in {"none", "top"}
      <4>1. PICK S \in SUBSET Backends :
              IF Cardinality(S) \in 1 .. 1000
              THEN /\ main' = "run"
                   /\ threads' = S
                   /\ at' = [b \in Backends |-> IF b \in S THEN "top" ELSE "none"]
                   /\ flusher' = "wait" /\ active' = TRUE
              ELSE main' = "crashed" /\ UNCHANGED <<threads, at, flusher, active>>
        BY <2>3, Zenon DEF StartBackend
      <4>2. \A b \in Backends : at[b] = "none"
        BY <2>3 DEF StartBackend, PlacesInv, Early
      <4>3. \/ at' = at
            \/ at' = [b \in Backends |-> IF b \in S THEN "top" ELSE "none"]
        BY <4>1, Zenon
      <4> QED
        BY <4>2, <4>3
    <3> QED
      BY <2>1, <2>3, <3>1 DEF StartBackend, Preparing
  <2>4. ASSUME NEW b \in Backends,
               \/ BackendDequeue(b) \/ BackendWait(b) \/ BackendTook(b)
               \/ WriteConsole(b) \/ WriteFile(b) \/ Step(b)
        PROVE  StatementsInv'
    <3>1. UNCHANGED stmts /\ (at[b] \in {"step", "finalize"} <=> at'[b] \in {"step", "finalize"})
      BY <2>0, <2>4 DEF BackendDequeue, BackendWait, BackendTook, WriteConsole, WriteFile,
                        Step, BackendGo, AfterTaking, AfterFailedStep
    <3>2. \A c \in Backends \ {b} : at'[c] = at[c]
      BY <2>0, <2>4 DEF BackendDequeue, BackendWait, BackendTook, WriteConsole, WriteFile,
                        Step, BackendGo
    <3> QED
      BY <2>1, <3>1, <3>2 DEF Preparing
  <2>5. IsFiniteSet(Preparing)
    BY Finite, FS_Subset DEF Preparing
  <2>6. ASSUME NEW b \in Backends, Prepare(b) PROVE StatementsInv'
    <3>1. CASE BackendGo(b, "prepare", "step") /\ stmts' = stmts + 1
      <4>1. Preparing' = Preparing \cup {b} /\ b \notin Preparing
        BY <2>0, <3>1 DEF BackendGo, Preparing
      <4> QED
        BY <2>5, <3>1, <4>1, FS_AddElement
    <3>2. CASE BackendGo(b, "prepare", "top") /\ UNCHANGED stmts
      <4>1. Preparing' = Preparing
        BY <2>0, <3>2 DEF BackendGo, Preparing
      <4> QED
        BY <2>1, <3>2, <4>1
    <3> QED
      BY <2>6, <3>1, <3>2 DEF Prepare
  <2>7. ASSUME NEW b \in Backends, Finalize(b) PROVE StatementsInv'
    <3>1. Preparing' = Preparing \ {b} /\ b \in Preparing
      BY <2>0, <2>7 DEF Finalize, BackendGo, Preparing
    <3> QED
      BY <2>5, <2>7, <3>1, FS_RemoveElement DEF Finalize
  <2> QED
    BY <2>2, <2>3, <2>4, <2>6, <2>7 DEF Next, BackendStep
<1> QED
  BY <1>1, <1>2, PlacesCorrect, PTL DEF Spec

(* The terminate messages: they are the last in the queue, the one that    *)
(* ends a thread finds nothing else behind it, and together with those     *)
(* still to be posted they are as many as the threads.                     *)
InHand == IF put[Main] \in {"lock", "asleep"} THEN 1 ELSE 0
Taken == {b \in Backends : popped[b] = Terminate /\ (get[b] = "notify" \/ at[b] = "exited")}

TerminateInv ==
  \E k \in 0 .. Len(queue) :
    /\ \A i \in DOMAIN queue : queue[i] = Terminate <=> i > Len(queue) - k
    /\ Taken # {} => k = Len(queue)
    /\ main \in Ending => left + InHand + k + Cardinality(Taken) = Cardinality(threads)
    /\ main \notin Ending => left = 0 /\ k = 0 /\ Taken = {}

(* TerminateInv is inductive, given who can still be in a call.            *)
LEMMA TerminatesCorrect == Spec => []TerminateInv
<1> USE DEF Ending, setUp, outcome, queueVars
<1>1. Init => TerminateInv
  <2> SUFFICES ASSUME Init PROVE TerminateInv
    OBVIOUS
  <2>1. Taken = {}
    BY DEF Init, Queue!Init, Taken
  <2>2. queue = <<>> /\ left = 0 /\ main = "args"
    BY DEF Init, Queue!Init
  <2> QED
    BY <2>1, <2>2 DEF TerminateInv
<1>2. /\ Queue!TypeOK /\ Queue!TypeOK' /\ PlacesInv /\ PlacesInv'
      /\ CallersInv /\ TerminateInv /\ [Next]_vars
      => TerminateInv'
  <2> SUFFICES ASSUME Queue!TypeOK, Queue!TypeOK', PlacesInv, PlacesInv', CallersInv,
                      TerminateInv, [Next]_vars
               PROVE  TerminateInv'
    OBVIOUS
  <2>0. /\ Flusher \in Producers /\ Main \in Producers /\ Clients \subseteq Producers
        /\ Flusher # Main /\ Main \notin Clients
        /\ \A p \in Producers : p \in Clients \/ p = Flusher \/ p = Main
        /\ queue \in Seq(Items) /\ Len(queue) \in Nat
        /\ put \in [Producers -> Queue!Places] /\ get \in [Backends -> Queue!Places]
        /\ at \in [Backends -> BackendPlaces]
        /\ left \in Nat /\ InHand \in {0, 1}
    BY LoggingAssumption DEF Producers, Flusher, Main, Queue!TypeOK, PlacesInv, CallersInv,
                             InHand
  <2>1. PICK k \in 0 .. Len(queue) :
          /\ \A i \in DOMAIN queue : queue[i] = Terminate <=> i > Len(queue) - k
          /\ Taken # {} => k = Len(queue)
          /\ main \in Ending => left + InHand + k + Cardinality(Taken) = Cardinality(threads)
          /\ main \notin Ending => left = 0 /\ k = 0 /\ Taken = {}
    BY DEF TerminateInv
  <2>2. IsFiniteSet(Taken) /\ Cardinality(Taken) \in Nat /\ Cardinality(threads) \in Nat
    BY Finite, FS_Subset, FS_CardinalityType DEF Taken, CallersInv
  <2>3. ASSUME UNCHANGED <<queue, left, threads, put>>, Taken' = Taken,
               main' \in Ending <=> main \in Ending
        PROVE  TerminateInv'
    BY <2>1, <2>3 DEF TerminateInv, InHand
  <2>4. CASE LoadArgs \/ MakeSinks \/ StartBackend
    <3>1. /\ main \notin Ending /\ main' \notin Ending
          /\ UNCHANGED <<queueVars, left>>
      <4>1. CASE StartBackend
        <5>1. main' = "run" \/ main' = "crashed"
          BY <4>1, Zenon DEF StartBackend
        <5> QED
          BY <4>1, <5>1 DEF StartBackend
      <4>2. CASE LoadArgs \/ MakeSinks
        BY <4>2 DEF LoadArgs, MakeSinks, ConsoleOnly, FileSinks, SinksThrow, MainGo
      <4> QED
        BY <2>4, <4>1, <4>2
    <3>2. Taken' = {}
      <4>1. \A b \in Backends : popped[b] = NoItem /\ NoItem # Terminate
        <5>1. main \in {"args", "sinks", "backend"}
          <6>1. CASE LoadArgs
            BY <6>1 DEF LoadArgs, MainGo
          <6>2. CASE MakeSinks
            BY <6>2 DEF MakeSinks, ConsoleOnly, FileSinks, SinksThrow, MainGo
          <6>3. CASE StartBackend
            BY <6>3, Zenon DEF StartBackend
          <6> QED
            BY <2>4, <6>1, <6>2, <6>3
        <5>2. \A b \in Backends : popped[b] = NoItem
          BY <5>1 DEF PlacesInv, Early
        <5>3. NoItem # Terminate
          BY LoggingAssumption DEF Queue!QueueConstants, Items
        <5> QED
          BY <5>2, <5>3
      <4> QED
        BY <3>1, <4>1 DEF Taken
    <3> QED
      BY <2>1, <3>1, <3>2 DEF TerminateInv
  <2>5. ASSUME UNCHANGED <<queue, left, threads, get, popped, main, at>>,
               put'[Main] \in {"lock", "asleep"} <=> put[Main] \in {"lock", "asleep"}
        PROVE  TerminateInv'
    BY <2>1, <2>5 DEF TerminateInv, InHand, Taken
  <2>6. CASE (\E c \in Clients, m \in Messages : Log(c, m)) \/ FlusherTimeout
    <3>1. PICK p \in Producers \ {Main} : put' = [put EXCEPT ![p] = "lock"]
      BY <2>0, <2>6 DEF Log, FlusherTimeout, Queue!Enqueue, Queue!PutGo
    <3>2. put'[Main] = put[Main]
      BY <2>0, <3>1
    <3> QED
      BY <2>5, <2>6, <3>2 DEF Log, FlusherTimeout, Queue!Enqueue
  <2>7. ASSUME NEW p \in Producers, EnqueueStep(p) PROVE TerminateInv'
    <3>1. UNCHANGED <<left, threads, popped, main, at>>
      BY <2>7 DEF EnqueueStep, Queue!EnqueueStep, Queue!EnqueueSleep, Queue!Push,
                  Queue!NotifyPush
    <3>2. CASE Queue!EnqueueSleep(p) \/ Queue!NotifyPush(p)
      <4>1. put'[Main] \in {"lock", "asleep"} <=> put[Main] \in {"lock", "asleep"}
        BY <2>0, <3>2 DEF Queue!EnqueueSleep, Queue!NotifyPush, Queue!PutGo
      <4>2. InHand' = InHand
        BY <4>1 DEF InHand
      <4>3. Taken' = Taken
        BY <2>0, <3>1, <3>2 DEF Queue!EnqueueSleep, Queue!NotifyPush, Queue!GetAt, Taken
      <4>4. queue' = queue
        BY <3>2 DEF Queue!EnqueueSleep, Queue!NotifyPush
      <4> QED
        BY <2>1, <3>1, <4>2, <4>3, <4>4 DEF TerminateInv
    <3>3. CASE Queue!Push(p)
      <4>1. /\ put[p] = "lock" /\ put' = [put EXCEPT ![p] = "notify"]
            /\ queue' = Append(queue, item[p]) /\ get' = get
        BY <3>3 DEF Queue!Push, Queue!PutGo, Queue!MayPush, Queue!PushedBack,
                    Queue!AfterPush
      <4>2. /\ Len(queue') = Len(queue) + 1
            /\ DOMAIN queue' = (DOMAIN queue) \cup {Len(queue) + 1}
            /\ DOMAIN queue = 1 .. Len(queue)
            /\ \A i \in DOMAIN queue : queue'[i] = queue[i]
            /\ queue'[Len(queue) + 1] = item[p]
        BY <2>0, <4>1
      <4>3. Taken' = Taken
        BY <3>1, <4>1 DEF Taken
      <4>4. CASE p = Main
        <5>1. main = "pool" /\ item[p] = Terminate
          BY <2>0, <4>1, <4>4 DEF CallersInv
        <5>2. InHand = 1 /\ InHand' = 0
          BY <2>0, <4>1, <4>4 DEF InHand
        <5>3. /\ k + 1 \in 0 .. Len(queue')
              /\ \A i \in DOMAIN queue' : queue'[i] = Terminate <=> i > Len(queue') - (k + 1)
              /\ Taken' # {} => k + 1 = Len(queue')
              /\ left' + InHand' + (k + 1) + Cardinality(Taken') = Cardinality(threads')
          BY <2>0, <2>1, <2>2, <3>1, <4>2, <4>3, <5>1, <5>2
        <5> QED
          BY <3>1, <5>1, <5>3 DEF TerminateInv
      <4>5. CASE p # Main
        <5>1. item[p] # Terminate
          BY <4>1, <4>5 DEF CallersInv
        <5>2. main \notin Ending
          BY <2>0, <4>1, <4>5 DEF CallersInv, Off, Early
        <5>3. k = 0 /\ \A i \in DOMAIN queue' : queue'[i] # Terminate
          BY <2>0, <2>1, <4>2, <5>1, <5>2
        <5>4. \A i \in DOMAIN queue' : ~(i > Len(queue') - 0)
          BY <2>0, <4>2
        <5> QED
          BY <2>0, <2>1, <3>1, <4>2, <4>3, <5>2, <5>3, <5>4 DEF TerminateInv
      <4> QED
        BY <4>4, <4>5
    <3> QED
      BY <2>7, <3>2, <3>3 DEF EnqueueStep, Queue!EnqueueStep
  <2>8. CASE SpuriousWakeup
    <3>1. UNCHANGED <<queue, left, threads, popped, main, at>>
      BY <2>8 DEF SpuriousWakeup, Queue!SpuriousWakeup
    <3>2. Taken' = Taken
      BY <2>0, <2>8, <3>1 DEF SpuriousWakeup, Queue!SpuriousWakeup, Queue!GetAt, Taken
    <3>3. InHand' = InHand
      BY <2>0, <2>8 DEF SpuriousWakeup, Queue!SpuriousWakeup, Queue!PutAt, InHand
    <3> QED
      BY <2>1, <3>1, <3>2, <3>3 DEF TerminateInv
  <2>9. CASE FlusherPosted \/ FlusherExit \/ MainReturns \/ StopFlusher \/ AllPosted
             \/ JoinPool \/ CloseDB \/ Ended \/ UNCHANGED vars
    <3>1. /\ UNCHANGED <<queueVars, left, threads, at>>
          /\ main' \in Ending <=> main \in Ending
      BY <2>9 DEF FlusherPosted, FlusherExit, MainReturns, StopFlusher, AllPosted,
                  JoinPool, CloseDB, Ended, vars, MainGo
    <3> QED
      BY <2>3, <3>1 DEF Taken
  <2>10. CASE JoinFlusher
    <3>1. /\ main = "joinFlusher" /\ main' = "pool" /\ left' = Cardinality(threads)
          /\ UNCHANGED <<queueVars, at, threads>>
      BY <2>10 DEF JoinFlusher, MainGo, Terminates
    <3>2. InHand' = 0 /\ Taken' = Taken
      BY <3>1 DEF InHand, Taken, CallersInv
    <3>3. k = 0 /\ Taken = {} /\ Cardinality(Taken') = 0
      BY <2>1, <3>1, <3>2, FS_EmptySet
    <3> QED
      BY <2>1, <2>2, <3>1, <3>2, <3>3 DEF TerminateInv
  <2>11. CASE PostTerminate
    <3>1. /\ main = "pool" /\ left > 0 /\ left' = left - 1
          /\ put[Main] = "out" /\ put' = [put EXCEPT ![Main] = "lock"]
          /\ UNCHANGED <<queue, get, popped, main, at, threads>>
      BY <2>11 DEF PostTerminate, Queue!Enqueue, Queue!PutGo
    <3>2. InHand = 0 /\ InHand' = 1 /\ Taken' = Taken
      BY <2>0, <3>1 DEF InHand, Taken
    <3>3. left' + InHand' + k + Cardinality(Taken') = Cardinality(threads')
      BY <2>0, <2>1, <2>2, <3>1, <3>2
    <3> QED
      BY <2>1, <3>1, <3>2, <3>3 DEF TerminateInv
  <2>12. ASSUME NEW b \in Backends, BackendStep(b), ~Queue!Pop(b) PROVE TerminateInv'
    <3>1. UNCHANGED <<queue, left, threads, main>>
      BY <2>12 DEF BackendStep, BackendDequeue, BackendWait, BackendTook, WriteConsole,
                   WriteFile, Prepare, Step, Finalize, BackendUnchanged, Queue!Dequeue,
                   Queue!DequeueSleep, Queue!NotifyPop
    <3>2. InHand' = InHand
      BY <2>0, <2>12
      DEF BackendStep, BackendDequeue, BackendWait, BackendTook, WriteConsole, WriteFile,
          Prepare, Step, Finalize, Queue!Dequeue, Queue!DequeueSleep, Queue!NotifyPop,
          Queue!PutAt, InHand
    <3>3. CASE BackendDequeue(b)
      <4>1. /\ at[b] = "top" /\ at'[b] = "dequeue" /\ get[b] = "out" /\ get'[b] = "lock"
            /\ \A c \in Backends \ {b} :
                 at'[c] = at[c] /\ get'[c] = get[c] /\ popped'[c] = popped[c]
        BY <2>0, <3>3 DEF BackendDequeue, BackendGo, Queue!Dequeue, Queue!GetGo, PlacesInv,
                          Queue!TypeOK
      <4>2. Taken' = Taken
        BY <4>1 DEF Taken
      <4> QED
        BY <2>1, <3>1, <3>2, <4>2 DEF TerminateInv
    <3>4. CASE BackendTook(b)
      <4>1. /\ at[b] = "dequeue" /\ at'[b] = AfterTaking(popped[b])
            /\ get[b] = "notify" /\ get'[b] = "out" /\ popped' = popped
            /\ \A c \in Backends \ {b} : at'[c] = at[c] /\ get'[c] = get[c]
        BY <2>0, <3>4 DEF BackendTook, BackendGo, Queue!NotifyPop, Queue!GetGo
      <4>2. Taken' = Taken
        BY <4>1 DEF Taken, AfterTaking
      <4> QED
        BY <2>1, <3>1, <3>2, <4>2 DEF TerminateInv
    <3>5. CASE BackendWait(b)
      <4>1. /\ get[b] = "lock" /\ get' = [get EXCEPT ![b] = "asleep"]
            /\ UNCHANGED <<at, popped>>
        BY <2>12, <3>5 DEF BackendWait, Queue!DequeueSleep, Queue!GetGo
      <4>2. Taken' = Taken
        BY <2>0, <4>1 DEF Taken
      <4> QED
        BY <2>1, <3>1, <3>2, <4>2 DEF TerminateInv
    <3>6. CASE WriteConsole(b) \/ WriteFile(b) \/ Prepare(b) \/ Step(b) \/ Finalize(b)
      <4>1. /\ at[b] # "exited" /\ at'[b] # "exited" /\ UNCHANGED <<get, popped>>
            /\ \A c \in Backends \ {b} : at'[c] = at[c]
        BY <2>0, <3>6 DEF WriteConsole, WriteFile, Prepare, Step, Finalize, BackendGo,
                          AfterFailedStep
      <4>2. Taken' = Taken
        BY <4>1 DEF Taken
      <4> QED
        BY <2>1, <3>1, <3>2, <4>2 DEF TerminateInv
    <3> QED
      BY <2>12, <3>3, <3>4, <3>5, <3>6 DEF BackendStep
  <2>13. ASSUME NEW b \in Backends, BackendWait(b), Queue!Pop(b) PROVE TerminateInv'
    <3>1. /\ get[b] = "lock" /\ get' = [get EXCEPT ![b] = "notify"]
          /\ queue # <<>> /\ queue' = Tail(queue)
          /\ popped' = [popped EXCEPT ![b] = Head(queue)]
          /\ at[b] = "dequeue"
          /\ UNCHANGED <<put, left, threads, main, at>>
      BY <2>13 DEF BackendWait, BackendUnchanged, Queue!Pop, Queue!GetGo, Queue!AfterPop,
                   PlacesInv
    <3>2. /\ 1 \in DOMAIN queue /\ Head(queue) = queue[1] /\ Len(queue) >= 1
          /\ Len(queue') = Len(queue) - 1 /\ DOMAIN queue' = 1 .. Len(queue')
          /\ \A i \in DOMAIN queue' : i + 1 \in DOMAIN queue /\ queue'[i] = queue[i + 1]
      BY <2>0, <3>1
    <3>3. b \notin Taken /\ Taken' = IF Head(queue) = Terminate THEN Taken \cup {b} ELSE Taken
      BY <2>0, <3>1 DEF Taken, Queue!TypeOK
    <3>4. InHand' = InHand
      BY <3>1 DEF InHand
    <3>5. CASE Head(queue) = Terminate
      <4>1. k = Len(queue) /\ k >= 1
        BY <2>0, <2>1, <3>2, <3>5
      <4>2. Taken' = Taken \cup {b}
        BY <3>3, <3>5
      <4>3. Cardinality(Taken') = Cardinality(Taken) + 1
        BY <2>2, <3>3, <4>2, FS_AddElement
      <4>4. /\ k - 1 \in 0 .. Len(queue') /\ k - 1 = Len(queue')
            /\ \A i \in DOMAIN queue' : queue'[i] = Terminate <=> i > Len(queue') - (k - 1)
        BY <2>0, <2>1, <3>2, <4>1
      <4>5. main \in Ending
        BY <2>1, <4>1
      <4>6. left' + InHand' + (k - 1) + Cardinality(Taken') = Cardinality(threads')
        BY <2>0, <2>1, <2>2, <3>1, <3>4, <4>3, <4>5
      <4> QED
        BY <3>1, <4>4, <4>5, <4>6 DEF TerminateInv
    <3>6. CASE Head(queue) # Terminate
      <4>1. k <= Len(queue) - 1
        BY <2>0, <2>1, <3>2, <3>6
      <4>2. Taken = {} /\ Taken' = Taken
        BY <2>0, <2>1, <3>3, <3>6, <4>1
      <4>3. \A i \in DOMAIN queue' : queue'[i] = Terminate <=> i > Len(queue') - k
        BY <2>0, <2>1, <3>2, <4>1
      <4>4. k \in 0 .. Len(queue')
        BY <2>0, <2>1, <3>2, <4>1
      <4> QED
        BY <2>1, <3>1, <3>4, <4>2, <4>3, <4>4 DEF TerminateInv
    <3> QED
      BY <3>5, <3>6
  <2>14. ASSUME NEW b \in Backends, BackendStep(b), Queue!Pop(b) PROVE BackendWait(b)
    BY <2>14, <2>0 DEF BackendStep, BackendDequeue, BackendTook, WriteConsole, WriteFile, Prepare,
                 Step, Finalize, Queue!Pop, Queue!GetGo, Queue!Dequeue, Queue!NotifyPop,
                 Queue!AfterPop
  <2> QED
    BY <2>4, <2>6, <2>7, <2>8, <2>9, <2>10, <2>11, <2>12, <2>13, <2>14
    DEF Next, Exit
<1> QED
  BY <1>1, <1>2, QueueTypesCorrect, PlacesCorrect, CallersCorrect, PTL DEF Spec

(* Every variable keeps its type: in particular no message is written more *)
(* than twice, and no statement is finalized that was not prepared.        *)
THEOREM TypeCorrect == Spec => []TypeOK
<1>1. /\ Queue!TypeOK /\ PlacesInv /\ MessageInv /\ CallersInv /\ StatementsInv
      /\ TerminateInv
      => TypeOK
  <2> SUFFICES ASSUME Queue!TypeOK, PlacesInv, MessageInv, CallersInv, StatementsInv,
                      TerminateInv
               PROVE  TypeOK
    OBVIOUS
  <2>1. stmts \in Nat
    <3>1. IsFiniteSet(Preparing)
      BY Finite, FS_Subset DEF Preparing
    <3> QED
      BY <3>1, FS_CardinalityType DEF StatementsInv
  <2>2. left \in 0 .. Cardinality(Backends)
    <3>1. /\ Cardinality(threads) <= Cardinality(Backends)
          /\ Cardinality(threads) \in Nat /\ Cardinality(Backends) \in Nat
      BY Finite, FS_Subset, FS_CardinalityType DEF CallersInv
    <3>2. left <= Cardinality(threads)
      <4>1. Cardinality(Taken) \in Nat
        BY Finite, FS_Subset, FS_CardinalityType DEF Taken
      <4> QED
        BY <3>1, <4>1 DEF TerminateInv, InHand, CallersInv
    <3> QED
      BY <3>1, <3>2 DEF CallersInv
  <2>3. written \in [Sinks -> [Messages -> 0 .. 2]]
    <3>1. \A s \in Sinks, m \in Messages : written[s][m] \in 0 .. 2
      <4> SUFFICES ASSUME NEW s \in Sinks, NEW m \in Messages PROVE written[s][m] \in 0 .. 2
        OBVIOUS
      <4>1. written[s][m] \in Nat
        BY DEF PlacesInv
      <4>2. Outcomes(s, m) \in {0, 1}
        <5>1. OneSite(m) /\ OutcomesRight(m)
          BY DEF MessageInv
        <5> QED
          BY <5>1 DEF OutcomesRight, NoSite
      <4> QED
        BY <4>1, <4>2 DEF Outcomes
    <3>2. written \in [Sinks -> [Messages -> Nat]]
      BY DEF PlacesInv
    <3> QED
      BY <3>1, <3>2
  <2>4. sinks \subseteq Sinks
    BY DEF PlacesInv, Sinks
  <2> QED
    BY <2>1, <2>2, <2>3, <2>4 DEF TypeOK, PlacesInv, CallersInv, Writing
<1> QED
  BY <1>1, QueueTypesCorrect, PlacesCorrect, MessagesCorrect, CallersCorrect,
     StatementsCorrect, TerminatesCorrect, PTL
-----------------------------------------------------------------------------
(* The end of main.                                                        *)

(* When the pool is joined nothing is left in the queue, because every     *)
(* thread has taken its terminate message and these were the last items;   *)
(* and a joined thread has no statement open.                              *)
ExitInv ==
  /\ main \in {"sinksGo", "done"} => queue = <<>> /\ \A b \in threads : at[b] = "exited"
  /\ main = "sinksGo" => db \in {"null", "open"}
  /\ main = "done" => db \in {"null", "closed"}

(* ExitInv is inductive, given what the callers and the backing threads    *)
(* may be doing.                                                           *)
LEMMA ExitCorrect == Spec => []ExitInv
<1>1. Init => ExitInv
  BY DEF Init, ExitInv
<1>2. /\ Queue!TypeOK /\ PlacesInv /\ CallersInv /\ StatementsInv /\ TerminateInv
      /\ ExitInv /\ [Next]_vars
      => ExitInv'
  <2> SUFFICES ASSUME Queue!TypeOK, PlacesInv, CallersInv, StatementsInv, TerminateInv,
                      ExitInv, [Next]_vars
               PROVE  ExitInv'
    OBVIOUS
  <2>1. ASSUME main' \notin {"sinksGo", "done"} PROVE ExitInv'
    BY <2>1 DEF ExitInv
  <2>2. ASSUME UNCHANGED <<main, queue, threads, at, db>> PROVE ExitInv'
    BY <2>2 DEF ExitInv
  <2>3. ASSUME NEW b \in Backends, BackendStep(b) PROVE ExitInv'
    <3>1. main' = main
      BY <2>3 DEF BackendStep, BackendDequeue, BackendWait, BackendTook, WriteConsole,
                  WriteFile, Prepare, Step, Finalize, BackendUnchanged
    <3>2. at[b] \notin {"none", "exited"}
      BY <2>3 DEF BackendStep, BackendDequeue, BackendWait, BackendTook, WriteConsole,
                  WriteFile, Prepare, Step, Finalize, BackendGo, PlacesInv,
                  Queue!DequeueSleep, Queue!Pop, Queue!GetGo
    <3> QED
      BY <2>1, <3>1, <3>2 DEF CallersInv, ExitInv
  <2>4. ASSUME NEW p \in Producers, EnqueueStep(p) PROVE ExitInv'
    <3>1. main' = main /\ put[p] # "out"
      BY <2>4 DEF EnqueueStep, Queue!EnqueueStep, Queue!EnqueueSleep, Queue!Push,
                  Queue!NotifyPush, Queue!PutGo
    <3>2. main \notin {"sinksGo", "done"}
      BY <3>1 DEF CallersInv, Off, Early, Ending, Producers
    <3> QED
      BY <2>1, <3>1, <3>2
  <2>5. CASE \/ LoadArgs \/ MakeSinks \/ StartBackend
             \/ \E c \in Clients, m \in Messages : Log(c, m)
             \/ MainReturns \/ StopFlusher \/ JoinFlusher \/ PostTerminate \/ AllPosted
    <3>1. main' \notin {"sinksGo", "done"}
      <4>1. CASE StartBackend
        BY <4>1, Zenon DEF StartBackend
      <4>2. CASE ~StartBackend
        BY <2>5, <4>2
        DEF LoadArgs, MakeSinks, ConsoleOnly, FileSinks, SinksThrow, MainGo, Log,
            MainReturns, StopFlusher, JoinFlusher, PostTerminate, AllPosted
      <4> QED
        BY <4>1, <4>2
    <3> QED
      BY <2>1, <3>1
  <2>6. CASE SpuriousWakeup \/ FlusherTimeout \/ FlusherPosted \/ FlusherExit
             \/ Ended \/ UNCHANGED vars
    BY <2>2, <2>6 DEF SpuriousWakeup, Queue!SpuriousWakeup, FlusherTimeout, Queue!Enqueue,
                      FlusherPosted, FlusherExit, Ended, vars, setUp, queueVars
  <2>7. CASE JoinPool
    <3>1. /\ main = "joinPool" /\ main' = "sinksGo" /\ \A b \in threads : at[b] = "exited"
          /\ UNCHANGED <<queue, threads, at, db>>
      BY <2>7 DEF JoinPool, MainGo, BackendsJoined, queueVars, setUp
    <3>2. threads # {} /\ threads \subseteq Taken
      BY <3>1 DEF CallersInv, Off, Early, PlacesInv, Taken
    <3>3. Taken \subseteq threads
      BY DEF Taken, CallersInv, PlacesInv
    <3>4. left = 0 /\ InHand = 0 /\ main \in Ending
      BY <3>1 DEF CallersInv, InHand, Ending
    <3>5. Taken = threads /\ Taken # {}
      BY <3>2, <3>3
    <3>6. Cardinality(threads) \in Nat
      BY Finite, FS_Subset, FS_CardinalityType DEF CallersInv
    <3>7. Len(queue) = 0
      BY <3>4, <3>5, <3>6 DEF TerminateInv
    <3>8. queue = <<>>
      BY <3>7 DEF Queue!TypeOK
    <3>9. db' \in {"null", "open"}
      BY <3>1 DEF CallersInv
    <3> QED
      BY <3>1, <3>8, <3>9 DEF ExitInv
  <2>8. CASE CloseDB
    <3>1. /\ main = "sinksGo" /\ main' = "done" /\ UNCHANGED <<queue, threads, at>>
          /\ db' = IF db # "open" THEN db ELSE IF stmts > 0 THEN "leaked" ELSE "closed"
      BY <2>8 DEF CloseDB, MainGo, queueVars
    <3>2. Preparing = {}
      BY <3>1 DEF Preparing, CallersInv, ExitInv
    <3>3. stmts = 0
      BY <3>2, FS_EmptySet DEF StatementsInv
    <3>4. db \in {"null", "open"} /\ db' \in {"null", "closed"}
      BY <3>1, <3>3 DEF ExitInv
    <3> QED
      BY <3>1, <3>4 DEF ExitInv
  <2> QED
    BY <2>3, <2>4, <2>5, <2>6, <2>7, <2>8 DEF Next, Exit
<1> QED
  BY <1>1, <1>2, QueueTypesCorrect, PlacesCorrect, CallersCorrect, StatementsCorrect,
     TerminatesCorrect, PTL DEF Spec

(* Exit is clean: what spdlog's registry destroys is used by nobody any    *)
(* more, nothing is left in the queue, and the connection is closed.       *)
THEOREM ExitIsClean == Spec => []DestroyedWhenUnused
<1>1. CallersInv /\ ExitInv => DestroyedWhenUnused
  BY DEF CallersInv, ExitInv, DestroyedWhenUnused, Off, Early, Ending, Producers
<1> QED
  BY <1>1, CallersCorrect, ExitCorrect, PTL
-----------------------------------------------------------------------------
(* Refinement.                                                             *)

UsingNow == IF main \in {"args", "sinks", "backend", "failed", "crashed"} THEN {} ELSE sinks
PhaseNow == IF main = "run" THEN "on"
            ELSE IF main \in {"flusher", "joinFlusher", "pool", "joinPool"} THEN "ending"
            ELSE IF main \in {"sinksGo", "done"} THEN "ended" ELSE "off"
ServiceNow == <<logged, written, missed, UsingNow, PhaseNow>>

(* The logging implements the abstract service: a sink's write or failure  *)
(* in a backing thread is the service's Write or Miss, the pool's end its  *)
(* Ended, and the queue and the flusher do not show.                       *)
THEOREM ImplementsLogService == Spec => LogServiceSpec
<1> USE DEF setUp, outcome, queueVars
<1>1. Init => Service!Init
  BY DEF Init, Service!Init
<1>2. /\ Queue!TypeOK /\ PlacesInv /\ PlacesInv' /\ MessageInv /\ MessageInv' /\ CallersInv
      /\ CallersInv' /\ ExitInv' /\ [Next]_vars
      => [Service!Next]_(Service!vars)
  <2> SUFFICES ASSUME Queue!TypeOK, PlacesInv, PlacesInv', MessageInv, MessageInv',
                      CallersInv, CallersInv', ExitInv', [Next]_vars
               PROVE  Service!Next \/ UNCHANGED ServiceNow
    BY DEF Service!vars, ServiceNow, UsingNow, PhaseNow
  <2>1. ASSUME UNCHANGED <<main, sinks, logged, written, missed>>
        PROVE  UNCHANGED ServiceNow
    BY <2>1 DEF ServiceNow, UsingNow, PhaseNow
  <2>2. \A s \in Sinks, m \in Messages :
          /\ written[s][m] \in Nat
          /\ Outcomes(s, m) = 0 => ~Service!Settled(s, m)
          /\ Outcomes(s, m) = 1 => Service!Settled(s, m)
    BY DEF PlacesInv, Outcomes, Service!Settled
  <2>3. CASE LoadArgs \/ MakeSinks
    <3>1. /\ main \in {"args", "sinks"}
          /\ main' \in {"sinks", "failed", "backend", "crashed"}
          /\ UNCHANGED <<logged, written, missed>>
      BY <2>3 DEF LoadArgs, MakeSinks, ConsoleOnly, FileSinks, SinksThrow, MainGo
    <3> QED
      BY <3>1 DEF ServiceNow, UsingNow, PhaseNow
  <2>4. CASE StartBackend
    <3>1. /\ main = "backend" /\ main' \in {"run", "crashed"}
          /\ UNCHANGED <<logged, written, missed, sinks>>
      BY <2>4, Zenon DEF StartBackend
    <3>2. sinks \subseteq Sinks /\ "console" \in sinks
      BY <3>1 DEF PlacesInv, Sinks
    <3>3. Sinks \ {"file", "sqlite"} \subseteq sinks
      BY <3>2 DEF Sinks
    <3>4. CASE main' = "run"
      <4>1. Service!On
        BY <3>1, <3>2, <3>3, <3>4 DEF Service!On
      <4> QED
        BY <4>1 DEF Service!Next
    <3>5. CASE main' = "crashed"
      BY <3>1, <3>5 DEF ServiceNow, UsingNow, PhaseNow
    <3> QED
      BY <3>1, <3>4, <3>5
  <2>5. ASSUME NEW c \in Clients, NEW m \in Messages, Log(c, m) PROVE Service!Next
    <3>1. Service!Log(m)
      BY <2>5 DEF Log, Queue!Enqueue, Service!Log
    <3> QED
      BY <3>1 DEF Service!Next
  <2>6. CASE \/ \E p \in Producers : EnqueueStep(p)
             \/ SpuriousWakeup \/ FlusherTimeout \/ FlusherPosted \/ FlusherExit
             \/ Ended \/ UNCHANGED vars
    BY <2>1, <2>6 DEF EnqueueStep, SpuriousWakeup, FlusherTimeout, FlusherPosted,
                      FlusherExit, Ended, vars
  <2>7. ASSUME NEW b \in Backends, BackendDequeue(b) \/ BackendWait(b) \/ BackendTook(b)
                                   \/ Finalize(b)
        PROVE  UNCHANGED ServiceNow
    BY <2>1, <2>7 DEF BackendDequeue, BackendWait, BackendTook, Finalize, BackendUnchanged
  <2>8. ASSUME NEW b \in Backends, NEW s \in Sinks, s \in sinks, s \notin SettledAt(at[b]),
               at[b] \in Writing,
               Write(b, s) \/ (GiveUp(b, s) /\ s # "console"), BackendUnchanged
        PROVE  Service!Next
    <3> DEFINE m == popped[b]
    <3>1. m \in logged /\ m \in Messages
      BY <2>8 DEF PlacesInv
    <3>2. b \in Takers(m)
      BY <2>8 DEF Takers, PlacesInv, Writing, Queue!TypeOK
    <3>3. Outcomes(s, m) = 0
      BY <2>8, <3>1, <3>2 DEF MessageInv, OutcomesRight
    <3>4. main \notin {"args", "sinks", "backend", "failed", "crashed"}
      BY <2>8 DEF CallersInv, Off, Early, Writing
    <3>5. Service!Open(s, m)
      BY <2>2, <2>8, <3>1, <3>3, <3>4 DEF Service!Open
    <3>6. UNCHANGED <<main, sinks, logged>>
      BY <2>8 DEF BackendUnchanged
    <3>7. CASE Write(b, s)
      <4>1. Service!Write(s, m)
        BY <3>5, <3>6, <3>7 DEF Service!Write, Write
      <4> QED
        BY <3>1, <4>1 DEF Service!Next
    <3>8. CASE GiveUp(b, s) /\ s # "console"
      <4>1. s \in {"file", "sqlite"}
        BY <3>8 DEF Sinks
      <4>2. Service!Miss(s, m)
        BY <3>5, <3>6, <3>8, <4>1 DEF Service!Miss, GiveUp
      <4> QED
        BY <3>1, <4>2 DEF Service!Next
    <3> QED
      BY <2>8, <3>7, <3>8
  <2>9. ASSUME NEW b \in Backends, WriteConsole(b) PROVE Service!Next
    <3>1. at[b] = "console" /\ Write(b, "console") /\ BackendUnchanged
      BY <2>9 DEF WriteConsole, BackendGo
    <3>2. "console" \in Sinks /\ "console" \in sinks
      BY <3>1 DEF PlacesInv, Sinks
    <3> QED
      BY <2>8, <3>1, <3>2 DEF SettledAt, Writing
  <2>10. ASSUME NEW b \in Backends, WriteFile(b) PROVE Service!Next
    <3>1. at[b] = "file" /\ (Write(b, "file") \/ GiveUp(b, "file")) /\ BackendUnchanged
      BY <2>10 DEF WriteFile, BackendGo
    <3>2. "file" \in Sinks /\ "file" \in sinks
      BY <3>1 DEF PlacesInv, Sinks
    <3> QED
      BY <2>8, <3>1, <3>2 DEF SettledAt, Writing
  <2>11. ASSUME NEW b \in Backends, Prepare(b) \/ Step(b)
         PROVE  Service!Next \/ UNCHANGED ServiceNow
    <3>1. /\ at[b] \in {"prepare", "step"} /\ BackendUnchanged
          /\ \/ Write(b, "sqlite") \/ GiveUp(b, "sqlite")
             \/ UNCHANGED <<written, missed>>
      BY <2>11 DEF Prepare, Step, BackendGo
    <3>2. "sqlite" \in Sinks /\ "sqlite" \in sinks /\ "sqlite" \notin SettledAt(at[b])
      BY <3>1 DEF PlacesInv, Sinks, SettledAt
    <3>3. CASE UNCHANGED <<written, missed>>
      BY <2>1, <3>1, <3>3 DEF BackendUnchanged
    <3> QED
      BY <2>8, <3>1, <3>2, <3>3 DEF Writing
  <2>12. CASE MainReturns
    <3>1. Service!End
      BY <2>12 DEF MainReturns, MainGo, Service!End
    <3> QED
      BY <3>1 DEF Service!Next
  <2>13. CASE StopFlusher \/ JoinFlusher \/ PostTerminate \/ AllPosted \/ CloseDB
    <3>1. /\ UNCHANGED <<logged, written, missed, sinks>>
          /\ \/ main \in {"flusher", "joinFlusher", "pool"}
                /\ main' \in {"joinFlusher", "pool", "joinPool"}
             \/ main = "sinksGo" /\ main' = "done"
      BY <2>13 DEF StopFlusher, JoinFlusher, PostTerminate, AllPosted, CloseDB, MainGo
    <3> QED
      BY <3>1 DEF ServiceNow, UsingNow, PhaseNow
  <2>14. CASE JoinPool
    <3>1. /\ main = "joinPool" /\ main' = "sinksGo"
          /\ UNCHANGED <<logged, written, missed, sinks>>
      BY <2>14 DEF JoinPool, MainGo
    <3>2. ASSUME NEW s \in sinks, NEW m \in logged PROVE Service!Settled(s, m)
      <4>0. m \in Messages /\ s \in Sinks /\ m # NoItem /\ m # Terminate
        BY LoggingAssumption DEF PlacesInv, Queue!QueueConstants, Items, Sinks
      <4>1. \A p \in Producers : put'[p] = "out"
        BY <3>1 DEF CallersInv, Off, Early, Ending, Producers
      <4>2. queue' = <<>> /\ \A b \in threads' : at'[b] = "exited"
        BY <3>1 DEF ExitInv
      <4>3. \A b \in Backends : popped'[b] # m
        BY <4>0, <4>2 DEF PlacesInv, CallersInv
      <4>4. NoSite(m)'
        BY <4>1, <4>2, <4>3 DEF NoSite, Hands, Slots, Takers
      <4>5. Outcomes(s, m)' = 1
        BY <3>1, <4>0, <4>4 DEF MessageInv, OutcomesRight
      <4> QED
        BY <2>2, <3>1, <4>0, <4>5 DEF Outcomes
    <3>3. Service!Ended
      BY <3>1, <3>2 DEF Service!Ended
    <3> QED
      BY <3>3 DEF Service!Next
  <2> QED
    BY <2>3, <2>4, <2>5, <2>6, <2>7, <2>9, <2>10, <2>11, <2>12, <2>13, <2>14
    DEF Next, BackendStep, Exit
<1> QED
  BY <1>1, <1>2, QueueTypesCorrect, PlacesCorrect, MessagesCorrect, CallersCorrect,
     ExitCorrect, PTL DEF Spec, LogServiceSpec, Service!Spec
=============================================================================
