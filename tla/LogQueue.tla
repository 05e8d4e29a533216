------------------------------ MODULE LogQueue ------------------------------
(***************************************************************************)
(* mpmc_blocking_queue (subModules/spdlog/spdlog/details/                  *)
(* mpmc_blocking_q.h), the bounded queue between the threads that log and  *)
(* the backing threads that write.  A critical section is one step: the    *)
(* contents change under queue_mutex_ only, and the two waits look at      *)
(* nothing else.  The notifications come after the unlock.  circular_q is  *)
(* represented by its contents.                                            *)
(***************************************************************************)
EXTENDS Integers, Sequences, FiniteSets

CONSTANTS Capacity,   \* max_items
          Producers,  \* threads that enqueue
          Consumers,  \* threads that dequeue
          Items,
          NoItem      \* a consumer that has taken nothing

\* What whoever makes a queue has to see to.
QueueConstants == /\ Capacity \in Nat \ {0}
                  /\ IsFiniteSet(Producers)
                  /\ IsFiniteSet(Consumers)
                  /\ NoItem \notin Items

VARIABLES
  queue,   \* q_
  put,     \* producer -> its place in enqueue
  item,    \* producer -> the item it enqueues
  get,     \* consumer -> its place in dequeue
  popped   \* consumer -> popped_item

vars == <<queue, put, item, get, popped>>

Places == {"out", "lock", "asleep", "notify"}

TypeOK ==
  /\ queue \in Seq(Items)
  /\ put \in [Producers -> Places]
  /\ item \in [Producers -> Items \cup {NoItem}]
  /\ get \in [Consumers -> Places]
  /\ popped \in [Consumers -> Items \cup {NoItem}]
  /\ Len(queue) <= Capacity
  /\ \A p \in Producers : put[p] \in {"lock", "asleep"} => item[p] \in Items

Init ==
  /\ queue = <<>>
  /\ put = [p \in Producers |-> "out"]
  /\ item = [p \in Producers |-> NoItem]
  /\ get = [c \in Consumers |-> "out"]
  /\ popped = [c \in Consumers |-> NoItem]

PutAt(place) == {p \in Producers : put[p] = place}
GetAt(place) == {c \in Consumers : get[c] = place}

Full == Len(queue) = Capacity

MayPushWhenFull == TRUE
MayPush == ~Full

\* push_back overruns the oldest item of a full ring.
PushedBack(x) == IF Full /\ queue # <<>> THEN Append(Tail(queue), x) ELSE Append(queue, x)
-----------------------------------------------------------------------------
(* enqueue                                                                 *)

PutGo(p, from, to) == put[p] = from /\ put' = [put EXCEPT ![p] = to]

Enqueue(p, x) ==
  /\ PutGo(p, "out", "lock")
  /\ item' = [item EXCEPT ![p] = x]
  /\ UNCHANGED <<queue, get, popped>>

EnqueueSleep(p) ==
  /\ PutGo(p, "lock", "asleep")
  /\ ~MayPush
  /\ UNCHANGED <<queue, item, get, popped>>

AfterPushIfWasEmpty == IF queue = <<>> THEN "notify" ELSE "out"
AfterPush == "notify"

Push(p) ==
  /\ PutGo(p, "lock", AfterPush)
  /\ MayPush
  /\ queue' = PushedBack(item[p])
  /\ UNCHANGED <<item, get, popped>>

\* push_cv_.notify_one()
NotifyPush(p) ==
  /\ PutGo(p, "notify", "out")
  /\ IF GetAt("asleep") = {}
     THEN get' = get
     ELSE \E c \in GetAt("asleep") : get' = [get EXCEPT ![c] = "lock"]
  /\ item' = [item EXCEPT ![p] = NoItem]
  /\ UNCHANGED <<queue, popped>>

EnqueueStep(p) == EnqueueSleep(p) \/ Push(p) \/ NotifyPush(p)
-----------------------------------------------------------------------------
(* dequeue                                                                 *)

GetGo(c, from, to) == get[c] = from /\ get' = [get EXCEPT ![c] = to]

Dequeue(c) ==
  /\ GetGo(c, "out", "lock")
  /\ popped' = [popped EXCEPT ![c] = NoItem]
  /\ UNCHANGED <<queue, put, item>>

DequeueSleep(c) ==
  /\ GetGo(c, "lock", "asleep")
  /\ queue = <<>>
  /\ UNCHANGED <<queue, put, item, popped>>

AfterPopIfWasFull == IF Full THEN "notify" ELSE "out"
AfterPop == "notify"

Pop(c) ==
  /\ GetGo(c, "lock", AfterPop)
  /\ queue # <<>>
  /\ popped' = [popped EXCEPT ![c] = Head(queue)]
  /\ queue' = Tail(queue)
  /\ UNCHANGED <<put, item>>

\* pop_cv_.notify_one()
NotifyPop(c) ==
  /\ GetGo(c, "notify", "out")
  /\ IF PutAt("asleep") = {}
     THEN put' = put
     ELSE \E p \in PutAt("asleep") : put' = [put EXCEPT ![p] = "lock"]
  /\ UNCHANGED <<queue, item, popped>>

\* Either condition variable may wake a waiter for no reason.
SpuriousWakeup ==
  \/ /\ \E p \in PutAt("asleep") : put' = [put EXCEPT ![p] = "lock"]
     /\ UNCHANGED <<queue, item, get, popped>>
  \/ /\ \E c \in GetAt("asleep") : get' = [get EXCEPT ![c] = "lock"]
     /\ UNCHANGED <<queue, put, item, popped>>
-----------------------------------------------------------------------------
Next ==
  \/ \E p \in Producers : EnqueueStep(p) \/ \E x \in Items : Enqueue(p, x)
  \/ \E c \in Consumers : Dequeue(c) \/ DequeueSleep(c) \/ Pop(c) \/ NotifyPop(c)
  \/ SpuriousWakeup

Spec == Init /\ [][Next]_vars
-----------------------------------------------------------------------------
(* No lost wakeup of a consumer: while one sleeps, every queued item has a *)
(* notification on its way or a consumer about to look (line 37, after the *)
(* unlock).                                                                *)
ItemsReachAConsumer ==
  GetAt("asleep") # {} =>
    Len(queue) <= Cardinality(PutAt("notify")) + Cardinality(GetAt("lock"))

(* No lost wakeup of a producer blocked by a full queue: while one sleeps, *)
(* every free slot has a notification on its way or a producer about to    *)
(* look (line 89).                                                         *)
RoomReachesAProducer ==
  PutAt("asleep") # {} =>
    Capacity - Len(queue) <= Cardinality(GetAt("notify")) + Cardinality(PutAt("lock"))
=============================================================================
