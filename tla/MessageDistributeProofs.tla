----------------------- MODULE MessageDistributeProofs -----------------------
(***************************************************************************)
(* Theorems about MessageDistribute, for every size of its pool, every     *)
(* finite set of clients and every set of messages and callbacks.          *)
(***************************************************************************)
EXTENDS MessageDistribute, TLAPS

-----------------------------------------------------------------------------
(* The lists of callbacks and of tasks.                                    *)

(* Taking the head of a list takes one value from its range.               *)
LEMMA RangeOfTail ==
  ASSUME NEW S, NEW s \in Seq(S), s # <<>>
  PROVE  SeqRange(s) = SeqRange(Tail(s)) \cup {Head(s)}
<1>1. /\ Head(s) = s[1] /\ 1 \in DOMAIN s
      /\ \A i \in DOMAIN Tail(s) : i + 1 \in DOMAIN s /\ Tail(s)[i] = s[i + 1]
      /\ \A i \in DOMAIN s : i # 1 => i - 1 \in DOMAIN Tail(s) /\ s[i] = Tail(s)[i - 1]
  OBVIOUS
<1>2. ASSUME NEW i \in DOMAIN Tail(s) PROVE Tail(s)[i] \in SeqRange(s)
  BY <1>1 DEF SeqRange
<1>3. ASSUME NEW i \in DOMAIN s PROVE s[i] = Head(s) \/ s[i] \in SeqRange(Tail(s))
  <2>1. CASE i = 1
    BY <1>1, <2>1
  <2>2. CASE i # 1
    <3>1. PICK j \in DOMAIN Tail(s) : s[i] = Tail(s)[j]
      BY <1>1, <2>2
    <3> QED
      BY <3>1 DEF SeqRange
  <2> QED
    BY <2>1, <2>2
<1>4. Head(s) \in SeqRange(s)
  BY <1>1 DEF SeqRange
<1> QED
  BY <1>2, <1>3, <1>4 DEF SeqRange

(* Adding a callback adds it to what the list holds.                       *)
LEMMA RangeOfAppend ==
  ASSUME NEW S, NEW s \in Seq(S), NEW e \in S
  PROVE  SeqRange(Append(s, e)) = SeqRange(s) \cup {e}
<1>1. /\ DOMAIN Append(s, e) = 1 .. Len(s) + 1
      /\ DOMAIN s = 1 .. Len(s)
      /\ Len(s) \in Nat
      /\ \A i \in 1 .. Len(s) : Append(s, e)[i] = s[i]
      /\ Append(s, e)[Len(s) + 1] = e
  OBVIOUS
<1>2. 1 .. Len(s) + 1 = (1 .. Len(s)) \cup {Len(s) + 1}
  BY <1>1
<1> QED
  BY <1>1, <1>2, Zenon DEF SeqRange

(* The loop of distribute has one task for each entry of its copy.         *)
LEMMA TasksOfCopy ==
  ASSUME NEW m \in Messages, NEW list \in Seq(Tokens)
  PROVE  /\ TasksFor(m, list) \in Seq(Tasks)
         /\ Len(TasksFor(m, list)) = Len(list)
         /\ \A i \in 1 .. Len(list) : TasksFor(m, list)[i] = <<m, list[i]>>
<1>1. DOMAIN list = 1 .. Len(list) /\ Len(list) \in Nat
  OBVIOUS
<1>2. \A i \in 1 .. Len(list) : <<m, list[i]>> \in Tasks
  BY DEF Tasks
<1>3. TasksFor(m, list) \in [1 .. Len(list) -> Tasks]
  BY <1>1, <1>2 DEF TasksFor
<1> QED
  BY <1>1, <1>3 DEF TasksFor

(* Erasing an entry leaves the others in their order.                      *)
LEMMA ErasedEntry ==
  ASSUME NEW S, NEW list \in Seq(S), NEW i \in DOMAIN list
  PROVE  /\ Erased(list, i) \in Seq(S)
         /\ Len(Erased(list, i)) = Len(list) - 1
         /\ \A j \in 1 .. Len(list) - 1 :
              Erased(list, i)[j] = list[IF j < i THEN j ELSE j + 1]
<1>1. Len(list) \in Nat /\ Len(list) - 1 \in Nat /\ DOMAIN list = 1 .. Len(list) /\ i \in Nat
  OBVIOUS
<1>2. \A j \in 1 .. Len(list) - 1 : list[IF j < i THEN j ELSE j + 1] \in S
  BY <1>1
<1>3. Erased(list, i) \in [1 .. Len(list) - 1 -> S]
  BY <1>1, <1>2 DEF Erased
<1> QED
  BY <1>1, <1>3 DEF Erased
-----------------------------------------------------------------------------
(* Types.  Every step is a step of the pool, or leaves it alone.           *)

PoolStep ==
  \/ \E w \in Pool!Workers : Pool!WorkerStep(w) \/ Pool!SpuriousWakeup(w)
  \/ \E t \in Threads :
       \/ Pool!NotifyOne(t)
       \/ \E k \in Tasks : (Pool!Push(t, k) /\ UNCHANGED futures) \/ Pool!Refuse(t, k)
  \/ Pool!DestroyBegin \/ Pool!DestroyNotifyAll \/ Pool!DestroyJoin
  \/ UNCHANGED poolVars

(* What distribute hands to the pool is a task.                            *)
LEMMA StepOfPool ==
  ASSUME TypeOK, [Next]_vars
  PROVE  PoolStep
<1>1. ASSUME NEW t \in Threads, DistributeEnqueue(t) PROVE PoolStep
  <2>1. todo[t] \in Seq(Tasks) /\ todo[t] # <<>>
    BY <1>1 DEF TypeOK, DistributeEnqueue
  <2>2. Head(todo[t]) \in Tasks
    BY <2>1
  <2> QED
    BY <1>1, <2>2 DEF DistributeEnqueue, PoolStep
<1>2. ASSUME NEW w \in Pool!Workers, WorkerStep(w) \/ SpuriousWakeup(w) PROVE PoolStep
  BY <1>2 DEF WorkerStep, SpuriousWakeup, PoolStep, Pool!WorkerStep
<1>3. ASSUME NEW t \in Threads, NotifyOne(t) PROVE PoolStep
  BY <1>3 DEF NotifyOne, PoolStep
<1>4. CASE DestroyPool
  BY <1>4 DEF DestroyPool, PoolStep
<1>5. ASSUME NEW t \in Threads, NEW tok \in Tokens,
             AddUpdateCallback(t, tok) \/ RemoveUpdateCallback(t, tok)
      PROVE  PoolStep
  BY <1>5 DEF AddUpdateCallback, RemoveUpdateCallback, PoolStep
<1>6. ASSUME NEW t \in Threads, NEW m \in Messages, DistributeCopy(t, m) PROVE PoolStep
  BY <1>6 DEF DistributeCopy, PoolStep
<1>7. ASSUME NEW t \in Threads, Clear(t) PROVE PoolStep
  BY <1>7 DEF Clear, PoolStep
<1>8. CASE DestroyList \/ Destroyed \/ UNCHANGED vars
  BY <1>8 DEF DestroyList, Destroyed, vars, PoolStep
<1> QED
  BY <1>1, <1>2, <1>3, <1>4, <1>5, <1>6, <1>7, <1>8 DEF Next

(* The pool stays well formed.                                             *)
LEMMA PoolTypes ==
  ASSUME Pool!TypeOK, PoolStep
  PROVE  Pool!TypeOK'
<1> USE DistributeAssumption DEF Pool!TypeOK, Pool!queueVars
<1>1. ASSUME NEW w \in Pool!Workers,
             Pool!Sleep(w) \/ Pool!SpuriousWakeup(w) \/ Pool!Return(w)
      PROVE  Pool!TypeOK'
  BY <1>1 DEF Pool!Sleep, Pool!SpuriousWakeup, Pool!Return
<1>2. ASSUME NEW w \in Pool!Workers, Pool!Take(w) PROVE Pool!TypeOK'
  BY <1>2 DEF Pool!Take, Pool!PopFront
<1>3. ASSUME NEW w \in Pool!Workers, Pool!Finish(w) PROVE Pool!TypeOK'
  BY <1>3 DEF Pool!Finish, Pool!FinishedJob
<1>4. ASSUME NEW t \in Threads, NEW k \in Tasks, Pool!Push(t, k), UNCHANGED futures
      PROVE  Pool!TypeOK'
  BY <1>4 DEF Pool!Push, Pool!Notifier, Threads
<1>5. ASSUME NEW t \in Threads, NEW k \in Tasks, Pool!Refuse(t, k) PROVE Pool!TypeOK'
  BY <1>5 DEF Pool!Refuse
<1>6. ASSUME NEW t \in Threads, Pool!NotifyOne(t) PROVE Pool!TypeOK'
  BY <1>6 DEF Pool!NotifyOne, Pool!Asleep
<1>7. CASE Pool!DestroyBegin \/ Pool!DestroyJoin
  BY <1>7 DEF Pool!DestroyBegin, Pool!DestroyJoin
<1>8. CASE Pool!DestroyNotifyAll
  BY <1>8 DEF Pool!DestroyNotifyAll, Pool!WokenByAll, Pool!Asleep
<1>9. CASE UNCHANGED poolVars
  BY <1>9 DEF poolVars
<1> QED
  BY <1>1, <1>2, <1>3, <1>4, <1>5, <1>6, <1>7, <1>8, <1>9 DEF PoolStep, Pool!WorkerStep

(* Every step keeps the types: also of a distributor that is part of       *)
(* something else.                                                         *)
LEMMA TypeStep ==
  ASSUME TypeOK, [Next]_vars
  PROVE  TypeOK'
<1>0. Pool!TypeOK'
  BY StepOfPool, PoolTypes DEF TypeOK
<1> DEFINE Listed == /\ callbackList \in Seq(Tokens) /\ listAlive \in BOOLEAN
                     /\ made \subseteq Tokens /\ SeqRange(callbackList) \subseteq made
           Sending == /\ todo \in [Threads -> Seq(Tasks)]
                      /\ sent \in Seq([msg : Messages, by : Threads, to : Seq(Tokens)])
           Inside == \A w \in Pool!Workers : todo[w] # <<>> => pc[w] = "running"
<1>1. /\ Listed /\ Sending /\ Inside
      /\ Threads = Clients \cup Pool!Workers /\ Clients \cap Pool!Workers = {}
  BY DistributeAssumption DEF TypeOK, Threads
<1>2. (Listed /\ Sending /\ Inside)' => TypeOK'
  BY <1>0 DEF TypeOK
<1> HIDE DEF Listed, Sending, Inside
<1>3. ASSUME UNCHANGED listVars PROVE Listed'
  BY <1>1, <1>3 DEF Listed, listVars
<1>4. ASSUME UNCHANGED <<todo, sent>> PROVE Sending'
  BY <1>1, <1>4 DEF Sending
<1>5. ASSUME UNCHANGED <<todo, pc>> PROVE Inside'
  BY <1>1, <1>5 DEF Inside
<1>6. ASSUME NEW t \in Threads, NEW tok \in Tokens, AddUpdateCallback(t, tok)
      PROVE  TypeOK'
  <2>1. callbackList' \in Seq(Tokens) /\ SeqRange(callbackList') = SeqRange(callbackList) \cup {tok}
    BY <1>1, <1>6, RangeOfAppend DEF Listed, AddUpdateCallback
  <2>2. Listed'
    BY <1>1, <1>6, <2>1 DEF Listed, AddUpdateCallback
  <2> QED
    BY <1>2, <1>4, <1>5, <1>6, <2>2 DEF AddUpdateCallback, poolVars
<1>7. ASSUME NEW t \in Threads, NEW tok \in Tokens, RemoveUpdateCallback(t, tok)
      PROVE  TypeOK'
  <2>1. PICK i \in DOMAIN callbackList : callbackList' = Erased(callbackList, i)
    BY <1>7, Zenon DEF RemoveUpdateCallback
  <2>2. /\ callbackList' \in Seq(Tokens) /\ Len(callbackList') = Len(callbackList) - 1
        /\ \A j \in 1 .. Len(callbackList) - 1 :
             callbackList'[j] = callbackList[IF j < i THEN j ELSE j + 1]
    BY <1>1, <2>1, ErasedEntry DEF Listed
  <2>3. SeqRange(callbackList') \subseteq SeqRange(callbackList)
    BY <1>1, <2>2 DEF Listed, SeqRange
  <2>4. Listed'
    BY <1>1, <1>7, <2>2, <2>3 DEF Listed, RemoveUpdateCallback
  <2> QED
    BY <1>2, <1>4, <1>5, <1>7, <2>4 DEF RemoveUpdateCallback, poolVars
<1>8. ASSUME NEW t \in Threads, Clear(t) PROVE TypeOK'
  <2>1. Listed'
    BY <1>1, <1>8 DEF Listed, Clear, SeqRange
  <2> QED
    BY <1>2, <1>4, <1>5, <1>8, <2>1 DEF Clear, poolVars
<1>9. ASSUME NEW t \in Threads, NEW m \in Messages, DistributeCopy(t, m) PROVE TypeOK'
  <2>1. TasksFor(m, callbackList) \in Seq(Tasks)
    BY <1>1, TasksOfCopy DEF Listed
  <2>2. Sending'
    BY <1>1, <1>9, <2>1 DEF Sending, Listed, DistributeCopy
  <2>3. Inside'
    BY <1>1, <1>9 DEF Inside, Sending, DistributeCopy, poolVars, MayCall, Pool!MayCall
  <2> QED
    BY <1>2, <1>3, <1>9, <2>2, <2>3 DEF DistributeCopy
<1>10. ASSUME NEW t \in Threads, DistributeEnqueue(t) PROVE TypeOK'
  <2>1. todo' = [todo EXCEPT ![t] = Tail(@)] /\ todo[t] # <<>> /\ sent' = sent
    BY <1>10 DEF DistributeEnqueue
  <2>2. pc' = pc
    BY <1>10 DEF DistributeEnqueue, poolVars, Pool!Push, Pool!Refuse
  <2>3. Sending'
    BY <1>1, <2>1 DEF Sending
  <2>4. Inside'
    BY <1>1, <2>1, <2>2 DEF Inside, Sending
  <2> QED
    BY <1>2, <1>3, <1>10, <2>3, <2>4 DEF DistributeEnqueue
<1>11. ASSUME UNCHANGED <<listVars, todo, sent>>,
              \A w \in Pool!Workers : todo[w] # <<>> /\ pc[w] = "running" => pc'[w] = "running"
       PROVE  TypeOK'
  <2>1. Inside'
    BY <1>1, <1>11 DEF Inside
  <2> QED
    BY <1>2, <1>3, <1>4, <1>11, <2>1
<1>12. ASSUME NEW w \in Pool!Workers, WorkerStep(w) \/ SpuriousWakeup(w) PROVE TypeOK'
  BY <1>11, <1>12 DEF WorkerStep, SpuriousWakeup, Pool!Sleep, Pool!Take, Pool!Return,
     Pool!Finish, Pool!SpuriousWakeup, TypeOK, Pool!TypeOK
<1>13. ASSUME NEW t \in Threads, NotifyOne(t) PROVE TypeOK'
  BY <1>11, <1>13 DEF NotifyOne, Pool!NotifyOne, Pool!Asleep, TypeOK, Pool!TypeOK
<1>14. CASE DestroyPool
  BY <1>11, <1>14 DEF DestroyPool, Pool!DestroyBegin, Pool!DestroyNotifyAll, Pool!DestroyJoin,
     Pool!WokenByAll, Pool!Asleep, TypeOK, Pool!TypeOK
<1>15. CASE DestroyList
  <2>1. Listed'
    <3>1. callbackList' = <<>> /\ listAlive' = FALSE /\ made' = made
      BY <1>15 DEF DestroyList
    <3>2. callbackList' \in Seq(Tokens) /\ SeqRange(callbackList') = {}
      BY <3>1 DEF SeqRange
    <3>3. listAlive' \in BOOLEAN
      BY <3>1
    <3> QED
      BY <1>1, <3>1, <3>2, <3>3 DEF Listed
  <2> QED
    BY <1>2, <1>4, <1>5, <1>15, <2>1 DEF DestroyList, poolVars
<1>16. CASE Destroyed \/ UNCHANGED vars
  BY <1>2, <1>3, <1>4, <1>5, <1>16 DEF Destroyed, vars, poolVars
<1> QED
  BY <1>6, <1>7, <1>8, <1>9, <1>10, <1>12, <1>13, <1>14, <1>15, <1>16 DEF Next

(* A new distributor is well formed.                                       *)
LEMMA InitTypes == Init => TypeOK
<1> SUFFICES ASSUME Init PROVE TypeOK
  OBVIOUS
<1>1. Pool!TypeOK
  <2>1. tasks \in Seq(Tasks) /\ accepted \in Seq(Tasks) /\ started \in Seq(Tasks)
    BY DEF Init, Pool!Init
  <2>3. stop \in BOOLEAN
    BY DEF Init, Pool!Init
  <2>2. /\ pc \in [Pool!Workers -> {"ready", "asleep", "running", "exited"}]
        /\ job \in [Pool!Workers -> Tasks \cup {NoTask}]
        /\ \A w \in Pool!Workers : job[w] # NoTask <=> pc[w] = "running"
    BY DEF Init, Pool!Init
  <2> QED
    BY <2>1, <2>2, <2>3 DEF Init, Pool!Init, Pool!TypeOK
<1>2. todo \in [Threads -> Seq(Tasks)] /\ \A t \in Threads : todo[t] = <<>>
  BY DEF Init
<1>3. callbackList \in Seq(Tokens) /\ SeqRange(callbackList) \subseteq made
  BY DEF Init, SeqRange
<1>4. sent \in Seq([msg : Messages, by : Threads, to : Seq(Tokens)])
  BY DEF Init
<1> QED
  BY <1>1, <1>2, <1>3, <1>4 DEF Init, TypeOK, Threads

(* The list and the copies of it are lists of callbacks, and a worker in   *)
(* the middle of a distribute runs a task.                                 *)
THEOREM TypeCorrect == Spec => []TypeOK
BY InitTypes, TypeStep, PTL DEF Spec
-----------------------------------------------------------------------------
(* Lifetimes.                                                              *)

LifeInv ==
  /\ stop <=> owner # "alive"
  /\ ~stop => refused = {}
  /\ owner # "alive" => \A c \in Clients : todo[c] = <<>>
  /\ owner = "destroyed" => \A w \in Pool!Workers : pc[w] = "exited"
  /\ ~listAlive => owner = "destroyed"

(* LifeInv is inductive: the pool is joined before the list may go, and a  *)
(* worker that exited does nothing more.                                   *)
LEMMA LifeCorrect == Spec => []LifeInv
<1>1. Init => LifeInv
  BY DEF Init, Pool!Init, LifeInv, Threads
<1>2. TypeOK /\ LifeInv /\ [Next]_vars => LifeInv'
  <2> SUFFICES ASSUME TypeOK, LifeInv, [Next]_vars PROVE LifeInv'
    OBVIOUS
  <2>0. /\ todo \in [Threads -> Seq(Tasks)]
        /\ Threads = Clients \cup Pool!Workers /\ Clients \cap Pool!Workers = {}
        /\ pc \in [Pool!Workers -> {"ready", "asleep", "running", "exited"}]
    BY DistributeAssumption DEF TypeOK, Pool!TypeOK, Threads
  <2>1. ASSUME UNCHANGED <<todo, poolVars>>, listAlive' = listAlive PROVE LifeInv'
    BY <2>1 DEF LifeInv, poolVars
  <2>2. ASSUME NEW t \in Threads, NEW tok \in Tokens,
               AddUpdateCallback(t, tok) \/ RemoveUpdateCallback(t, tok)
        PROVE  LifeInv'
    BY <2>1, <2>2 DEF AddUpdateCallback, RemoveUpdateCallback
  <2>3. ASSUME NEW t \in Threads, Clear(t) PROVE LifeInv'
    BY <2>1, <2>3 DEF Clear
  <2>4. ASSUME NEW t \in Threads, NEW m \in Messages, DistributeCopy(t, m) PROVE LifeInv'
    BY <2>0, <2>4 DEF DistributeCopy, MayCall, Pool!MayCall, LifeInv, listVars, poolVars
  <2>5. ASSUME NEW t \in Threads, DistributeEnqueue(t) PROVE LifeInv'
    <3>1. /\ todo[t] # <<>> /\ UNCHANGED <<listAlive, pc, owner, stop>>
          /\ todo' = [todo EXCEPT ![t] = Tail(@)]
          /\ refused' = refused \/ stop
      BY <2>5 DEF DistributeEnqueue, Pool!Push, Pool!Refuse, poolVars, listVars
    <3>2. \A c \in Clients : todo[c] = <<>> => todo'[c] = <<>>
      BY <2>0, <3>1
    <3> QED
      BY <2>0, <3>1, <3>2 DEF LifeInv
  <2>6. ASSUME NEW w \in Pool!Workers, WorkerStep(w) \/ SpuriousWakeup(w) PROVE LifeInv'
    <3>1. /\ UNCHANGED <<listAlive, todo, stop, owner, refused>>
          /\ pc[w] # "exited"
          /\ \A v \in Pool!Workers \ {w} : pc'[v] = pc[v]
      BY <2>0, <2>6 DEF WorkerStep, SpuriousWakeup, listVars, Pool!Sleep, Pool!Take, Pool!Return,
         Pool!Finish, Pool!SpuriousWakeup, Pool!queueVars
    <3> QED
      BY <2>0, <3>1 DEF LifeInv
  <2>7. ASSUME NEW t \in Threads, NotifyOne(t) PROVE LifeInv'
    <3>1. /\ UNCHANGED <<listAlive, todo, stop, owner, refused>>
          /\ \A v \in Pool!Workers : pc[v] = "exited" => pc'[v] = "exited"
      BY <2>0, <2>7 DEF NotifyOne, Pool!NotifyOne, Pool!Asleep, listVars, Pool!queueVars
    <3> QED
      BY <3>1 DEF LifeInv
  <2>8. CASE DestroyPool
    <3>1. UNCHANGED <<listAlive, todo, refused>> /\ owner # "destroyed"
      BY <2>8 DEF DestroyPool, listVars, Pool!DestroyBegin, Pool!DestroyNotifyAll, Pool!DestroyJoin,
         Pool!queueVars
    <3>2. CASE owner' = "notify"
      BY <2>8, <3>1, <3>2 DEF DestroyPool, Pool!DestroyBegin, Pool!DestroyNotifyAll,
         Pool!DestroyJoin, LifeInv
    <3>3. CASE owner' # "notify"
      BY <2>8, <3>1, <3>3 DEF DestroyPool, Pool!DestroyBegin, Pool!DestroyNotifyAll,
         Pool!DestroyJoin, Pool!queueVars, LifeInv
    <3> QED
      BY <3>2, <3>3
  <2>9. CASE DestroyList
    BY <2>9 DEF DestroyList, MayDestroyList, LifeInv, poolVars
  <2>10. CASE Destroyed \/ UNCHANGED vars
    BY <2>1, <2>10 DEF Destroyed, vars, listVars
  <2> QED
    BY <2>2, <2>3, <2>4, <2>5, <2>6, <2>7, <2>8, <2>9, <2>10 DEF Next
<1> QED
  BY <1>1, <1>2, TypeCorrect, PTL DEF Spec

(* No callback runs, and no distribute is under way, when the list and its *)
(* lock have been destroyed (line 83 declares pool_ last).                 *)
THEOREM CallbacksEndFirst == Spec => []MembersOutliveCallbacks
<1>1. TypeOK /\ LifeInv => MembersOutliveCallbacks
  BY DEF TypeOK, LifeInv, MembersOutliveCallbacks, Threads
<1> QED
  BY <1>1, TypeCorrect, LifeCorrect, PTL
-----------------------------------------------------------------------------
(* What was distributed to whom.                                           *)

Once(s) == \A i, j \in DOMAIN s : s[i] = s[j] => i = j

TaskAt(i, j) == <<sent[i].msg, sent[i].to[j]>>

SentInv ==
  /\ Once(callbackList)
  /\ \A i, p \in DOMAIN sent : sent[i].msg = sent[p].msg => i = p
  /\ \A i \in DOMAIN sent : Once(sent[i].to)

(* A distribute is one entry more in the history.                          *)
LEMMA SentGrows ==
  ASSUME TypeOK, NEW t \in Threads, NEW m \in Messages, DistributeCopy(t, m)
  PROVE  /\ Len(sent) \in Nat /\ DOMAIN sent = 1 .. Len(sent)
         /\ DOMAIN sent' = DOMAIN sent \cup {Len(sent) + 1}
         /\ sent'[Len(sent) + 1].msg = m /\ sent'[Len(sent) + 1].by = t
         /\ sent'[Len(sent) + 1].to = callbackList
         /\ \A i \in DOMAIN sent : sent'[i] = sent[i] /\ sent[i].msg # m /\ i < Len(sent) + 1
<1>1. sent \in Seq([msg : Messages, by : Threads, to : Seq(Tokens)])
  BY DEF TypeOK
<1>2. /\ sent' = Append(sent, [msg |-> m, by |-> t, to |-> callbackList])
      /\ \A i \in DOMAIN sent : sent[i].msg # m
  BY DEF DistributeCopy
<1>3. callbackList \in Seq(Tokens)
  BY DEF TypeOK
<1>4. [msg |-> m, by |-> t, to |-> callbackList] \in [msg : Messages, by : Threads, to : Seq(Tokens)]
  BY <1>3
<1> HIDE DEF DistributeCopy
<1>5. /\ Len(sent) \in Nat /\ DOMAIN sent = 1 .. Len(sent)
      /\ DOMAIN sent' = 1 .. Len(sent) + 1
      /\ sent'[Len(sent) + 1] = [msg |-> m, by |-> t, to |-> callbackList]
      /\ \A i \in 1 .. Len(sent) : sent'[i] = sent[i]
  BY <1>1, <1>2, <1>4
<1> QED
  BY <1>2, <1>5

(* SentInv is inductive: a callback is registered once, and an erased one  *)
(* does not come back.                                                     *)
LEMMA SentCorrect == Spec => []SentInv
<1>1. Init => SentInv
  BY DEF Init, SentInv, Once
<1>2. TypeOK /\ SentInv /\ [Next]_vars => SentInv'
  <2> SUFFICES ASSUME TypeOK, SentInv, [Next]_vars PROVE SentInv'
    OBVIOUS
  <2>0. callbackList \in Seq(Tokens) /\ made \subseteq Tokens /\ SeqRange(callbackList) \subseteq made
    BY DEF TypeOK
  <2>1. ASSUME sent' = sent, Once(callbackList') PROVE SentInv'
    BY <2>1 DEF SentInv, Once
  <2>2. ASSUME UNCHANGED <<callbackList, sent>> PROVE SentInv'
    BY <2>1, <2>2 DEF SentInv
  <2>3. ASSUME NEW t \in Threads, NEW tok \in Tokens, AddUpdateCallback(t, tok) PROVE SentInv'
    <3>1. callbackList' = Append(callbackList, tok) /\ sent' = sent
          /\ tok \notin SeqRange(callbackList)
      BY <2>0, <2>3 DEF AddUpdateCallback
    <3>2. /\ DOMAIN callbackList' = 1 .. Len(callbackList) + 1
          /\ DOMAIN callbackList = 1 .. Len(callbackList)
          /\ Len(callbackList) \in Nat
          /\ \A i \in 1 .. Len(callbackList) : callbackList'[i] = callbackList[i]
          /\ callbackList'[Len(callbackList) + 1] = tok
      BY <2>0, <3>1
    <3>3. \A i \in 1 .. Len(callbackList) : callbackList[i] # tok
      BY <3>1, <3>2 DEF SeqRange
    <3>4. Once(callbackList')
      BY <3>2, <3>3 DEF Once, SentInv
    <3> QED
      BY <2>1, <3>1, <3>4
  <2>4. ASSUME NEW t \in Threads, NEW tok \in Tokens, RemoveUpdateCallback(t, tok) PROVE SentInv'
    <3>1. PICK i \in DOMAIN callbackList : callbackList' = Erased(callbackList, i)
      BY <2>4, Zenon DEF RemoveUpdateCallback
    <3>2. /\ callbackList' \in Seq(Tokens) /\ Len(callbackList') = Len(callbackList) - 1
          /\ \A j \in 1 .. Len(callbackList) - 1 :
               callbackList'[j] = callbackList[IF j < i THEN j ELSE j + 1]
      BY <2>0, <3>1, ErasedEntry
    <3>3. Once(callbackList')
      BY <2>0, <3>2 DEF Once, SentInv
    <3> QED
      BY <2>1, <2>4, <3>3 DEF RemoveUpdateCallback
  <2>5. ASSUME NEW t \in Threads, Clear(t) PROVE SentInv'
    BY <2>1, <2>5 DEF Clear, Once
  <2>6. ASSUME NEW t \in Threads, NEW m \in Messages, DistributeCopy(t, m) PROVE SentInv'
    <3>1. UNCHANGED callbackList
      BY <2>6 DEF DistributeCopy, listVars
    <3> DEFINE n == Len(sent) + 1
    <3>4. /\ DOMAIN sent' = DOMAIN sent \cup {n}
          /\ sent'[n].msg = m /\ sent'[n].to = callbackList
          /\ \A i \in DOMAIN sent : sent'[i] = sent[i] /\ sent[i].msg # m
      BY <2>6, SentGrows
    <3> HIDE DEF n
    <3>2. \A i \in DOMAIN sent' : Once(sent'[i].to)
      BY <3>4 DEF SentInv
    <3>3. \A i, p \in DOMAIN sent' : sent'[i].msg = sent'[p].msg => i = p
      BY <3>4 DEF SentInv
    <3> QED
      BY <3>1, <3>2, <3>3 DEF SentInv, Once
  <2>7. ASSUME NEW t \in Threads, DistributeEnqueue(t) \/ NotifyOne(t) PROVE SentInv'
    BY <2>2, <2>7 DEF DistributeEnqueue, NotifyOne, listVars
  <2>8. ASSUME NEW w \in Pool!Workers, WorkerStep(w) \/ SpuriousWakeup(w) PROVE SentInv'
    BY <2>2, <2>8 DEF WorkerStep, SpuriousWakeup, listVars
  <2>9. CASE DestroyList
    BY <2>1, <2>9 DEF DestroyList, Once
  <2>10. CASE DestroyPool \/ Destroyed \/ UNCHANGED vars
    BY <2>2, <2>10 DEF DestroyPool, Destroyed, vars, listVars
  <2> QED
    BY <2>3, <2>4, <2>5, <2>6, <2>7, <2>8, <2>9, <2>10 DEF Next
<1> QED
  BY <1>1, <1>2, TypeCorrect, PTL DEF Spec

(* A task is one callback of one distribute.                               *)
LEMMA OnePlace ==
  ASSUME SentInv, NEW i \in DOMAIN sent, NEW j \in DOMAIN sent[i].to,
         NEW p \in DOMAIN sent, NEW q \in DOMAIN sent[p].to, TaskAt(i, j) = TaskAt(p, q)
  PROVE  i = p /\ j = q
BY DEF SentInv, TaskAt, Once
-----------------------------------------------------------------------------
(* The loop of distribute.                                                 *)

Passed == SeqRange(accepted) \cup refused

\* Thread t has gone through the first d entries of its copy i.
Resting(t, i, d) ==
  /\ sent[i].by = t
  /\ Len(sent[i].to) = d + Len(todo[t])
  /\ \A x \in 1 .. Len(todo[t]) : todo[t][x] = TaskAt(i, d + x)
  /\ \A p \in DOMAIN sent : sent[p].by = t => p <= i
  /\ \A q \in DOMAIN sent[i].to : TaskAt(i, q) \in Passed => q <= d

LoopInv ==
  /\ \A k \in Passed : \E i \in DOMAIN sent : \E j \in DOMAIN sent[i].to : k = TaskAt(i, j)
  /\ \A t \in Threads : todo[t] # <<>> => \E i \in DOMAIN sent : \E d \in Nat : Resting(t, i, d)

(* An entry of the history of distributes is a list of callbacks.          *)
LEMMA CopyTypes ==
  ASSUME TypeOK, NEW i \in DOMAIN sent
  PROVE  /\ i \in Nat /\ sent[i].by \in Threads /\ sent[i].msg \in Messages
         /\ sent[i].to \in Seq(Tokens) /\ \A j \in DOMAIN sent[i].to : j \in Nat
<1> DEFINE R == [msg : Messages, by : Threads, to : Seq(Tokens)]
<1>1. sent \in Seq(R)
  BY DEF TypeOK
<1>2. sent[i] \in R /\ i \in Nat
  <2> HIDE DEF R
  <2> QED
    BY <1>1
<1>3. sent[i].to \in Seq(Tokens) /\ sent[i].by \in Threads /\ sent[i].msg \in Messages
  BY <1>2
<1> QED
  BY <1>2, <1>3

(* Only distribute sends tasks to the pool.                                *)
LEMMA OtherSteps ==
  ASSUME [Next]_vars,
         \A t \in Threads : ~DistributeEnqueue(t) /\ \A m \in Messages : ~DistributeCopy(t, m)
  PROVE  UNCHANGED <<todo, sent, accepted, refused>>
<1> USE DEF poolVars
<1>1. ASSUME NEW t \in Threads, NEW tok \in Tokens,
             AddUpdateCallback(t, tok) \/ RemoveUpdateCallback(t, tok) \/ Clear(t)
      PROVE  UNCHANGED <<todo, sent, accepted, refused>>
  BY <1>1 DEF AddUpdateCallback, RemoveUpdateCallback, Clear
<1>2. ASSUME NEW t \in Threads, Clear(t) \/ NotifyOne(t)
      PROVE  UNCHANGED <<todo, sent, accepted, refused>>
  BY <1>2 DEF Clear, NotifyOne, Pool!NotifyOne, Pool!queueVars
<1>3. ASSUME NEW w \in Pool!Workers, WorkerStep(w) \/ SpuriousWakeup(w)
      PROVE  UNCHANGED <<todo, sent, accepted, refused>>
  BY <1>3 DEF WorkerStep, SpuriousWakeup, Pool!Sleep, Pool!Take, Pool!Return, Pool!Finish,
     Pool!SpuriousWakeup, Pool!queueVars
<1>4. CASE DestroyPool
  BY <1>4 DEF DestroyPool, Pool!DestroyBegin, Pool!DestroyNotifyAll, Pool!DestroyJoin,
     Pool!queueVars
<1>5. CASE DestroyList \/ Destroyed \/ UNCHANGED vars
  BY <1>5 DEF DestroyList, Destroyed, vars
<1> QED
  BY <1>1, <1>2, <1>3, <1>4, <1>5 DEF Next

(* A turn of the loop passes the next entry of the copy.                   *)
LEMMA NextTurn ==
  ASSUME TypeOK, NEW t \in Threads, DistributeEnqueue(t),
         NEW i \in DOMAIN sent, NEW d \in Nat, Resting(t, i, d)
  PROVE  /\ d + 1 \in DOMAIN sent[i].to /\ Head(todo[t]) = TaskAt(i, d + 1)
         /\ todo'[t] = Tail(todo[t]) /\ Len(todo'[t]) = Len(todo[t]) - 1
         /\ \A x \in 1 .. Len(todo'[t]) : todo'[t][x] = TaskAt(i, (d + 1) + x)
         /\ \A u \in Threads \ {t} : todo'[u] = todo[u]
         /\ sent' = sent
<1>1. /\ todo \in [Threads -> Seq(Tasks)] /\ todo[t] \in Seq(Tasks) /\ todo[t] # <<>>
      /\ sent[i].to \in Seq(Tokens)
      /\ todo' = [todo EXCEPT ![t] = Tail(@)] /\ sent' = sent
  <2>1. todo \in [Threads -> Seq(Tasks)] /\ sent[i].to \in Seq(Tokens)
    BY CopyTypes DEF TypeOK
  <2>2. todo[t] # <<>> /\ todo' = [todo EXCEPT ![t] = Tail(@)] /\ sent' = sent
    BY DEF DistributeEnqueue
  <2> QED
    BY <2>1, <2>2
<1>2. /\ Len(todo[t]) \in Nat /\ Len(todo[t]) >= 1 /\ Head(todo[t]) = todo[t][1]
      /\ Len(Tail(todo[t])) = Len(todo[t]) - 1
      /\ \A x \in 1 .. Len(todo[t]) - 1 : Tail(todo[t])[x] = todo[t][x + 1]
  BY <1>1
<1>3. /\ Len(sent[i].to) = d + Len(todo[t])
      /\ \A x \in 1 .. Len(todo[t]) : todo[t][x] = TaskAt(i, d + x)
  BY DEF Resting
<1>4. d + 1 \in DOMAIN sent[i].to
  BY <1>1, <1>2, <1>3
<1>5. todo'[t] = Tail(todo[t]) /\ \A u \in Threads \ {t} : todo'[u] = todo[u]
  BY <1>1
<1>6. ASSUME NEW x \in 1 .. Len(todo'[t]) PROVE todo'[t][x] = TaskAt(i, (d + 1) + x)
  <2>1. x + 1 \in 1 .. Len(todo[t]) /\ todo'[t][x] = todo[t][x + 1]
    BY <1>2, <1>5
  <2>2. todo[t][x + 1] = TaskAt(i, d + (x + 1))
    BY <1>3, <2>1
  <2>3. d + (x + 1) = (d + 1) + x
    BY <2>1
  <2> QED
    BY <2>1, <2>2, <2>3
<1> QED
  BY <1>1, <1>2, <1>3, <1>4, <1>5, <1>6

(* What the turn does with that entry.                                     *)
LEMMA TurnPasses ==
  ASSUME TypeOK, NEW t \in Threads, DistributeEnqueue(t)
  PROVE  \/ UNCHANGED <<accepted, refused>> /\ ~Callable(Head(todo[t])[2])
         \/ /\ accepted' = Append(accepted, Head(todo[t]))
            /\ SeqRange(accepted') = SeqRange(accepted) \cup {Head(todo[t])}
            /\ refused' = refused /\ ~stop
         \/ accepted' = accepted /\ refused' = refused \cup {Head(todo[t])} /\ stop
<1>1. accepted \in Seq(Tasks) /\ todo[t] \in Seq(Tasks) /\ todo[t] # <<>>
  BY DEF TypeOK, Pool!TypeOK, DistributeEnqueue
<1>2. Head(todo[t]) \in Tasks
  BY <1>1
<1>3. SeqRange(Append(accepted, Head(todo[t]))) = SeqRange(accepted) \cup {Head(todo[t])}
  BY <1>1, <1>2, RangeOfAppend
<1> QED
  BY <1>3 DEF DistributeEnqueue, Pool!Push, Pool!Refuse, poolVars

(* LoopInv is inductive.                                                   *)
LEMMA LoopCorrect == Spec => []LoopInv
<1>1. Init => LoopInv
  BY DEF Init, Pool!Init, LoopInv, Passed, SeqRange, Threads
<1>2. TypeOK /\ SentInv /\ LoopInv /\ [Next]_vars => LoopInv'
  <2> SUFFICES ASSUME TypeOK, SentInv, LoopInv, [Next]_vars PROVE LoopInv'
    OBVIOUS
  <2>1. ASSUME UNCHANGED <<todo, sent, accepted, refused>> PROVE LoopInv'
    <3>1. Passed' = Passed /\ \A p, q : TaskAt(p, q)' = TaskAt(p, q)
      BY <2>1 DEF Passed, TaskAt
    <3>2. \A t, i, d : Resting(t, i, d)' <=> Resting(t, i, d)
      BY <2>1, <3>1 DEF Resting
    <3> QED
      BY <2>1, <3>1, <3>2 DEF LoopInv
  <2>2. ASSUME NEW t \in Threads, NEW m \in Messages, DistributeCopy(t, m) PROVE LoopInv'
    <3>0. PICK n \in Nat : n = Len(sent) + 1
      BY <2>2, SentGrows
    <3>1. /\ n \in Nat /\ DOMAIN sent' = DOMAIN sent \cup {n} /\ n \in DOMAIN sent'
          /\ sent'[n].msg = m /\ sent'[n].by = t /\ sent'[n].to = callbackList
          /\ \A i \in DOMAIN sent :
               sent'[i] = sent[i] /\ sent[i].msg # m /\ i < n /\ i \in DOMAIN sent'
      <4>1. /\ Len(sent) \in Nat /\ DOMAIN sent' = DOMAIN sent \cup {n}
            /\ sent'[n].msg = m /\ sent'[n].by = t /\ sent'[n].to = callbackList
            /\ \A i \in DOMAIN sent : sent'[i] = sent[i] /\ sent[i].msg # m /\ i < n
        BY <2>2, <3>0, SentGrows
      <4> QED
        BY <4>1
    <3>2. /\ Passed' = Passed /\ todo' = [todo EXCEPT ![t] = TasksFor(m, callbackList)]
          /\ todo \in [Threads -> Seq(Tasks)]
          /\ callbackList \in Seq(Tokens)
      BY <2>2 DEF DistributeCopy, poolVars, Passed, TypeOK
    <3>t. todo'[t] = TasksFor(m, callbackList) /\ \A u \in Threads \ {t} : todo'[u] = todo[u]
      BY <3>2
    <3>3. \A i \in DOMAIN sent : \A j : TaskAt(i, j)' = TaskAt(i, j)
      BY <3>1 DEF TaskAt
    <3>4. ASSUME NEW k \in Passed'
          PROVE  \E i \in DOMAIN sent' : \E j \in DOMAIN sent'[i].to : k = TaskAt(i, j)'
      <4>1. PICK i \in DOMAIN sent : \E j \in DOMAIN sent[i].to : k = TaskAt(i, j)
        BY <3>2 DEF LoopInv
      <4> QED
        BY <3>1, <3>3, <4>1
    <3>5. ASSUME NEW q PROVE TaskAt(n, q)' \notin Passed'
      <4>1. SUFFICES ASSUME TaskAt(n, q)' \in Passed PROVE FALSE
        BY <3>2
      <4>2. PICK i \in DOMAIN sent : \E j \in DOMAIN sent[i].to : TaskAt(n, q)' = TaskAt(i, j)
        BY <4>1 DEF LoopInv
      <4>4. PICK j \in DOMAIN sent[i].to : TaskAt(n, q)' = TaskAt(i, j)
        BY <4>2
      <4>3. sent'[n].msg = m /\ sent[i].msg # m
        BY <3>1
      <4> QED
        BY <4>3, <4>4 DEF TaskAt
    <3>6. Resting(t, n, 0)'
      <4>1. /\ Len(todo'[t]) = Len(callbackList) /\ Len(callbackList) \in Nat
            /\ \A x \in 1 .. Len(callbackList) : todo'[t][x] = <<m, callbackList[x]>>
        BY <3>t, <3>2, TasksOfCopy
      <4>2. ASSUME NEW x \in 1 .. Len(todo'[t]) PROVE todo'[t][x] = TaskAt(n, 0 + x)'
        <5>1. 0 + x = x /\ todo'[t][x] = <<m, callbackList[x]>>
          BY <4>1
        <5> QED
          BY <3>1, <5>1 DEF TaskAt
      <4>3. Len(sent'[n].to) = 0 + Len(todo'[t])
        BY <3>1, <4>1
      <4>4. \A p \in DOMAIN sent' : sent'[p].by = t => p <= n
        BY <3>0, <3>1, SentGrows, <2>2
      <4> QED
        BY <3>1, <3>5, <4>2, <4>3, <4>4 DEF Resting
    <3>7. ASSUME NEW u \in Threads \ {t}, NEW i \in DOMAIN sent, NEW d \in Nat, Resting(u, i, d)
          PROVE  Resting(u, i, d)'
      <4>1. todo'[u] = todo[u] /\ sent'[i] = sent[i] /\ Passed' = Passed
        BY <3>1, <3>2, <3>t
      <4>2. \A p \in DOMAIN sent' : sent'[p].by = u => p <= i
        BY <3>1, <3>7 DEF Resting
      <4> QED
        BY <3>3, <3>7, <4>1, <4>2 DEF Resting
    <3>8. ASSUME NEW u \in Threads, todo'[u] # <<>>
          PROVE  \E i \in DOMAIN sent' : \E d \in Nat : Resting(u, i, d)'
      <4>1. CASE u = t
        BY <3>1, <3>6, <4>1
      <4>2. CASE u # t
        <5>1. PICK i \in DOMAIN sent, d \in Nat : Resting(u, i, d)
          BY <3>t, <3>8, <4>2 DEF LoopInv
        <5> QED
          BY <3>1, <3>7, <4>2, <5>1
      <4> QED
        BY <4>1, <4>2
    <3> QED
      BY <3>4, <3>8 DEF LoopInv
  <2>3. ASSUME NEW t \in Threads, DistributeEnqueue(t) PROVE LoopInv'
    <3>1. PICK i \in DOMAIN sent, d \in Nat : Resting(t, i, d)
      BY <2>3 DEF LoopInv, DistributeEnqueue
    <3> DEFINE k == Head(todo[t])
    <3>2. /\ d + 1 \in DOMAIN sent[i].to /\ k = TaskAt(i, d + 1)
          /\ Len(todo'[t]) = Len(todo[t]) - 1
          /\ \A x \in 1 .. Len(todo'[t]) : todo'[t][x] = TaskAt(i, (d + 1) + x)
          /\ \A u \in Threads \ {t} : todo'[u] = todo[u]
          /\ sent' = sent
      BY <2>3, <3>1, NextTurn
    <3>3. Passed' \subseteq Passed \cup {k}
      BY <2>3, TurnPasses DEF Passed
    <3> HIDE DEF k
    <3>4. \A p, q : TaskAt(p, q)' = TaskAt(p, q)
      BY <3>2 DEF TaskAt
    <3>5. ASSUME NEW l \in Passed'
          PROVE  \E p \in DOMAIN sent' : \E q \in DOMAIN sent'[p].to : l = TaskAt(p, q)'
      BY <3>2, <3>3, <3>4 DEF LoopInv
    <3>6. Resting(t, i, d + 1)'
      <4>1. Len(sent[i].to) = (d + 1) + Len(todo'[t])
        <5>1. Len(sent[i].to) = d + Len(todo[t]) /\ Len(todo[t]) \in Nat
          BY <3>1 DEF Resting, TypeOK
        <5>2. Len(todo'[t]) = Len(todo[t]) - 1
          BY <3>2
        <5>3. \A b \in Nat : \A c : c = b - 1 => d + b = (d + 1) + c
          OBVIOUS
        <5> QED
          BY <5>1, <5>2, <5>3, Zenon
      <4>2. \A q \in DOMAIN sent[i].to : TaskAt(i, q) \in Passed' => q <= d + 1
        <5>1. ASSUME NEW q \in DOMAIN sent[i].to, TaskAt(i, q) \in Passed' PROVE q <= d + 1
          <6>1. CASE TaskAt(i, q) \in Passed
            <7>1. q <= d /\ q \in Int
              BY <3>1, <6>1 DEF Resting, TypeOK
            <7> QED
              BY <7>1
          <6>2. CASE TaskAt(i, q) = TaskAt(i, d + 1)
            BY <3>2, <6>2, OnePlace
          <6> QED
            BY <3>2, <3>3, <5>1, <6>1, <6>2
        <5> QED
          BY <5>1
      <4> QED
        BY <3>1, <3>2, <3>4, <4>1, <4>2 DEF Resting
    <3>7. ASSUME NEW u \in Threads \ {t}, NEW p \in DOMAIN sent, NEW e \in Nat, Resting(u, p, e)
          PROVE  Resting(u, p, e)'
      <4>1. p # i
        BY <3>1, <3>7 DEF Resting
      <4>2. \A q \in DOMAIN sent[p].to : TaskAt(p, q) # k
        BY <3>2, <4>1, OnePlace
      <4>3. \A q \in DOMAIN sent[p].to : TaskAt(p, q) \in Passed' => TaskAt(p, q) \in Passed
        BY <3>3, <4>2
      <4> QED
        BY <3>2, <3>4, <3>7, <4>3 DEF Resting
    <3>8. ASSUME NEW u \in Threads, todo'[u] # <<>>
          PROVE  \E p \in DOMAIN sent' : \E e \in Nat : Resting(u, p, e)'
      <4>1. CASE u = t
        BY <3>2, <3>6, <4>1
      <4>2. CASE u # t
        <5>1. PICK p \in DOMAIN sent : \E e \in Nat : Resting(u, p, e)
          BY <3>2, <3>8, <4>2 DEF LoopInv
        <5> QED
          BY <3>2, <3>7, <4>2, <5>1
      <4> QED
        BY <4>1, <4>2
    <3> QED
      BY <3>5, <3>8 DEF LoopInv
  <2> QED
    BY <2>1, <2>2, <2>3, OtherSteps
<1> QED
  BY <1>1, <1>2, TypeCorrect, SentCorrect, PTL DEF Spec
-----------------------------------------------------------------------------
(* The order in which callbacks begin.                                     *)

FifoInv == accepted = started \o tasks

(* FifoInv is inductive: the pool takes what it was given, in its order.   *)
LEMMA FifoCorrect == Spec => []FifoInv
<1>1. Init => FifoInv
  BY DEF Init, Pool!Init, FifoInv
<1>2. TypeOK /\ FifoInv /\ [Next]_vars => FifoInv'
  <2> SUFFICES ASSUME TypeOK, FifoInv, [Next]_vars PROVE FifoInv'
    OBVIOUS
  <2>0. tasks \in Seq(Tasks) /\ started \in Seq(Tasks) /\ accepted = started \o tasks
    BY DEF TypeOK, Pool!TypeOK, FifoInv
  <2>1. ASSUME UNCHANGED <<accepted, started, tasks>> PROVE FifoInv'
    BY <2>0, <2>1 DEF FifoInv
  <2>2. ASSUME NEW w \in Pool!Workers, Pool!Take(w) PROVE FifoInv'
    <3>1. /\ tasks # <<>> /\ tasks' = Tail(tasks) /\ accepted' = accepted
          /\ started' = Append(started, Head(tasks))
      BY <2>2 DEF Pool!Take, Pool!PopFront
    <3>2. Append(started, Head(tasks)) \o Tail(tasks) = started \o tasks
      BY <2>0, <3>1
    <3> QED
      BY <2>0, <3>1, <3>2 DEF FifoInv
  <2>3. ASSUME NEW t \in Threads, NEW k \in Tasks, Pool!Push(t, k) PROVE FifoInv'
    <3>1. tasks' = Append(tasks, k) /\ accepted' = Append(accepted, k) /\ started' = started
      BY <2>3 DEF Pool!Push
    <3>2. started \o Append(tasks, k) = Append(started \o tasks, k)
      BY <2>0
    <3> QED
      BY <2>0, <3>1, <3>2 DEF FifoInv
  <2>4. ASSUME NEW t \in Threads, NEW k \in Tasks, Pool!Refuse(t, k) \/ Pool!NotifyOne(t)
        PROVE  FifoInv'
    BY <2>1, <2>4 DEF Pool!Refuse, Pool!NotifyOne, Pool!queueVars
  <2>5. ASSUME NEW t \in Threads, Pool!NotifyOne(t) PROVE FifoInv'
    BY <2>1, <2>5 DEF Pool!NotifyOne, Pool!queueVars
  <2>6. ASSUME NEW w \in Pool!Workers, Pool!WorkerStep(w) \/ Pool!SpuriousWakeup(w)
        PROVE  FifoInv'
    BY <2>1, <2>2, <2>6 DEF Pool!WorkerStep, Pool!Sleep, Pool!Return, Pool!Finish,
       Pool!SpuriousWakeup, Pool!queueVars
  <2>7. CASE Pool!DestroyBegin \/ Pool!DestroyNotifyAll \/ Pool!DestroyJoin \/ UNCHANGED poolVars
    BY <2>1, <2>7 DEF Pool!DestroyBegin, Pool!DestroyNotifyAll, Pool!DestroyJoin,
       Pool!queueVars, poolVars
  <2> QED
    BY <2>3, <2>4, <2>5, <2>6, <2>7, StepOfPool DEF PoolStep
<1> QED
  BY <1>1, <1>2, TypeCorrect, PTL DEF Spec

OrderInv ==
  \A x, y \in DOMAIN accepted : x < y =>
    \A i, p \in DOMAIN sent : \A j \in DOMAIN sent[i].to : \A q \in DOMAIN sent[p].to :
      accepted[x] = TaskAt(i, j) /\ accepted[y] = TaskAt(p, q) /\ sent[i].by = sent[p].by
        => i < p \/ (i = p /\ j < q)

(* OrderInv is inductive: a thread pushes the entry after those it passed, *)
(* and what it distributed before was passed.                              *)
LEMMA OrderCorrect == Spec => []OrderInv
<1>1. Init => OrderInv
  BY DEF Init, Pool!Init, OrderInv
<1>2. TypeOK /\ SentInv /\ LoopInv /\ OrderInv /\ [Next]_vars => OrderInv'
  <2> SUFFICES ASSUME TypeOK, SentInv, LoopInv, OrderInv, [Next]_vars PROVE OrderInv'
    OBVIOUS
  <2>1. ASSUME UNCHANGED <<sent, accepted>> PROVE OrderInv'
    <3>1. \A p, q : TaskAt(p, q)' = TaskAt(p, q)
      BY <2>1 DEF TaskAt
    <3> QED
      BY <2>1, <3>1 DEF OrderInv
  <2>2. ASSUME NEW t \in Threads, NEW m \in Messages, DistributeCopy(t, m) PROVE OrderInv'
    <3>0. PICK n \in Nat : n = Len(sent) + 1
      BY <2>2, SentGrows
    <3>1. /\ DOMAIN sent' = DOMAIN sent \cup {n} /\ sent'[n].msg = m
          /\ \A i \in DOMAIN sent : sent'[i] = sent[i] /\ sent[i].msg # m
      BY <2>2, <3>0, SentGrows
    <3>2. accepted' = accepted
      BY <2>2 DEF DistributeCopy, poolVars
    <3>3. \A i \in DOMAIN sent : \A j : TaskAt(i, j)' = TaskAt(i, j)
      BY <3>1 DEF TaskAt
    <3>4. ASSUME NEW x \in DOMAIN accepted, NEW q, accepted[x] = TaskAt(n, q)' PROVE FALSE
      <4>1. accepted[x] \in Passed
        BY DEF Passed, SeqRange
      <4>2. PICK i \in DOMAIN sent : \E j \in DOMAIN sent[i].to : accepted[x] = TaskAt(i, j)
        BY <4>1 DEF LoopInv
      <4>3. PICK j \in DOMAIN sent[i].to : accepted[x] = TaskAt(i, j)
        BY <4>2
      <4>4. sent'[n].msg = m /\ sent[i].msg # m
        BY <3>1
      <4> QED
        BY <3>4, <4>3, <4>4 DEF TaskAt
    <3>5. SUFFICES ASSUME NEW x \in DOMAIN accepted, NEW y \in DOMAIN accepted, x < y,
                          NEW i \in DOMAIN sent', NEW p \in DOMAIN sent',
                          NEW j \in DOMAIN sent'[i].to, NEW q \in DOMAIN sent'[p].to,
                          accepted[x] = TaskAt(i, j)', accepted[y] = TaskAt(p, q)',
                          sent'[i].by = sent'[p].by
                   PROVE  i < p \/ (i = p /\ j < q)
      BY <3>2 DEF OrderInv
    <3>6. i \in DOMAIN sent /\ p \in DOMAIN sent
      BY <3>1, <3>4, <3>5
    <3>7. /\ accepted[x] = TaskAt(i, j) /\ accepted[y] = TaskAt(p, q)
          /\ j \in DOMAIN sent[i].to /\ q \in DOMAIN sent[p].to /\ sent[i].by = sent[p].by
      BY <3>1, <3>3, <3>5, <3>6
    <3> QED
      BY <3>5, <3>6, <3>7 DEF OrderInv
  <2>3. ASSUME NEW t \in Threads, DistributeEnqueue(t) PROVE OrderInv'
    <3>1. PICK i \in DOMAIN sent, d \in Nat : Resting(t, i, d)
      BY <2>3 DEF LoopInv, DistributeEnqueue
    <3>2. /\ d + 1 \in DOMAIN sent[i].to /\ Head(todo[t]) = TaskAt(i, d + 1)
          /\ sent' = sent
      BY <2>3, <3>1, NextTurn
    <3>3. CASE accepted' = accepted
      BY <2>1, <3>2, <3>3
    <3>4. CASE accepted' = Append(accepted, TaskAt(i, d + 1))
      <4>1. accepted \in Seq(Tasks)
        BY DEF TypeOK, Pool!TypeOK
      <4>2. /\ DOMAIN accepted = 1 .. Len(accepted) /\ Len(accepted) \in Nat
            /\ DOMAIN accepted' = 1 .. Len(accepted) + 1
            /\ \A x \in 1 .. Len(accepted) : accepted'[x] = accepted[x]
            /\ accepted'[Len(accepted) + 1] = TaskAt(i, d + 1)
        BY <3>4, <4>1
      <4>3. \A p, q : TaskAt(p, q)' = TaskAt(p, q)
        BY <3>2 DEF TaskAt
      <4>4. SUFFICES ASSUME NEW x \in DOMAIN accepted', NEW y \in DOMAIN accepted', x < y,
                            NEW g \in DOMAIN sent, NEW p \in DOMAIN sent,
                            NEW j \in DOMAIN sent[g].to, NEW q \in DOMAIN sent[p].to,
                            accepted'[x] = TaskAt(g, j), accepted'[y] = TaskAt(p, q),
                            sent[g].by = sent[p].by
                     PROVE  g < p \/ (g = p /\ j < q)
        BY <3>2, <4>3 DEF OrderInv
      <4>5. x \in DOMAIN accepted /\ accepted[x] = TaskAt(g, j)
        BY <4>2, <4>4
      <4>6. CASE y \in DOMAIN accepted
        <5>1. accepted[y] = TaskAt(p, q)
          BY <4>2, <4>4, <4>6
        <5> QED
          BY <4>4, <4>5, <4>6, <5>1 DEF OrderInv
      <4>7. CASE y = Len(accepted) + 1
        <5>1. p = i /\ q = d + 1
          BY <3>2, <4>2, <4>4, <4>7, OnePlace
        <5>2. TaskAt(g, j) \in Passed
          BY <4>5 DEF Passed, SeqRange
        <5>3. sent[g].by = t /\ g <= i
          BY <3>1, <4>4, <5>1 DEF Resting
        <5>4. g = i => j <= d
          BY <3>1, <5>2 DEF Resting
        <5>5. g \in Nat /\ i \in Nat /\ j \in Nat
          BY CopyTypes
        <5> QED
          BY <5>1, <5>3, <5>4, <5>5
      <4> QED
        BY <4>2, <4>4, <4>6, <4>7
    <3> QED
      BY <2>3, <3>2, <3>3, <3>4, TurnPasses
  <2> QED
    BY <2>1, <2>2, <2>3, OtherSteps
<1> QED
  BY <1>1, <1>2, TypeCorrect, SentCorrect, LoopCorrect, PTL DEF Spec

(* A task has one call and one place in it.                                *)
LEMMA CallAndPlace ==
  ASSUME SentInv, NEW i \in DOMAIN sent, NEW j \in DOMAIN sent[i].to
  PROVE  Call(TaskAt(i, j)) = i /\ Place(TaskAt(i, j)) = j
<1>1. TaskAt(i, j)[1] = sent[i].msg /\ TaskAt(i, j)[2] = sent[i].to[j]
  BY DEF TaskAt
<1>2. Call(TaskAt(i, j)) = i
  BY <1>1 DEF Call, SentInv
<1> QED
  BY <1>1, <1>2 DEF Place, SentInv, Once

(* What one thread distributes is begun in its order, message by message   *)
(* and callback by callback, on a pool of any size.                        *)
THEOREM BegunInOrder == Spec => []StartOrder
<1>1. TypeOK /\ SentInv /\ LoopInv /\ FifoInv /\ OrderInv => StartOrder
  <2> SUFFICES ASSUME TypeOK, SentInv, LoopInv, FifoInv, OrderInv,
                      NEW x \in DOMAIN started, NEW y \in DOMAIN started, x < y,
                      sent[Call(started[x])].by = sent[Call(started[y])].by
               PROVE  \/ Call(started[x]) < Call(started[y])
                      \/ /\ Call(started[x]) = Call(started[y])
                         /\ Place(started[x]) < Place(started[y])
    BY DEF StartOrder
  <2>1. \A z \in DOMAIN started : z \in DOMAIN accepted /\ accepted[z] = started[z]
    <3>1. tasks \in Seq(Tasks) /\ started \in Seq(Tasks) /\ accepted = started \o tasks
      BY DEF TypeOK, Pool!TypeOK, FifoInv
    <3> QED
      BY <3>1
  <2>2. \A z \in DOMAIN started :
          \E i \in DOMAIN sent : \E j \in DOMAIN sent[i].to : started[z] = TaskAt(i, j)
    BY <2>1 DEF LoopInv, Passed, SeqRange
  <2>3. PICK i \in DOMAIN sent : \E j \in DOMAIN sent[i].to : started[x] = TaskAt(i, j)
    BY <2>2
  <2>4. PICK j \in DOMAIN sent[i].to : started[x] = TaskAt(i, j)
    BY <2>3
  <2>5. PICK p \in DOMAIN sent : \E q \in DOMAIN sent[p].to : started[y] = TaskAt(p, q)
    BY <2>2
  <2>6. PICK q \in DOMAIN sent[p].to : started[y] = TaskAt(p, q)
    BY <2>5
  <2>7. /\ Call(started[x]) = i /\ Place(started[x]) = j
        /\ Call(started[y]) = p /\ Place(started[y]) = q
    BY <2>4, <2>6, CallAndPlace
  <2>8. accepted[x] = TaskAt(i, j) /\ accepted[y] = TaskAt(p, q) /\ sent[i].by = sent[p].by
    BY <2>1, <2>4, <2>6, <2>7
  <2> QED
    BY <2>1, <2>7, <2>8 DEF OrderInv
<1> QED
  BY <1>1, TypeCorrect, SentCorrect, LoopCorrect, FifoCorrect, OrderCorrect, PTL
-----------------------------------------------------------------------------
(* What is left when the distributor is gone.                              *)

DrainInv ==
  /\ SeqRange(started) = done \cup Pool!Held
  /\ \A w \in Pool!Workers : pc[w] = "exited" => stop
  /\ tasks # <<>> => \E w \in Pool!Workers : pc[w] # "exited"

(* DrainInv is inductive: a worker exits only from an empty queue of a     *)
(* stopped pool, in which nothing is pushed any more.                      *)
LEMMA DrainCorrect == Spec => []DrainInv
<1>1. Init => DrainInv
  <2> SUFFICES ASSUME Init PROVE DrainInv
    OBVIOUS
  <2>1. /\ started = <<>> /\ done = {} /\ tasks = <<>>
        /\ \A w \in Pool!Workers : pc[w] = "ready"
    BY DEF Init, Pool!Init
  <2> QED
    BY <2>1 DEF DrainInv, Pool!Held, SeqRange
<1>2. TypeOK /\ DrainInv /\ [Next]_vars => DrainInv'
  <2> SUFFICES ASSUME TypeOK, DrainInv, [Next]_vars PROVE DrainInv'
    OBVIOUS
  <2>0. /\ pc \in [Pool!Workers -> {"ready", "asleep", "running", "exited"}]
        /\ job \in [Pool!Workers -> Tasks \cup {NoTask}]
        /\ tasks \in Seq(Tasks) /\ started \in Seq(Tasks)
    BY DEF TypeOK, Pool!TypeOK
  <2>1. ASSUME UNCHANGED <<tasks, stop, started, done, job>>,
               \A w \in Pool!Workers : \/ pc'[w] = pc[w]
                                       \/ pc[w] # "running" /\ pc'[w] \notin {"running", "exited"}
        PROVE  DrainInv'
    <3>1. Pool!Held' = Pool!Held
      <4>1. \A w \in Pool!Workers : pc'[w] = "running" <=> pc[w] = "running"
        BY <2>1
      <4> QED
        BY <2>1, <4>1 DEF Pool!Held
    <3> QED
      BY <2>1, <3>1 DEF DrainInv
  <2>2. ASSUME NEW w \in Pool!Workers, Pool!Take(w) PROVE DrainInv'
    <3>1. /\ pc[w] = "ready" /\ tasks # <<>>
          /\ pc' = [pc EXCEPT ![w] = "running"] /\ job' = [job EXCEPT ![w] = Head(tasks)]
          /\ started' = Append(started, Head(tasks)) /\ UNCHANGED <<stop, done>>
      BY <2>2 DEF Pool!Take
    <3>2. /\ pc'[w] = "running" /\ job'[w] = Head(tasks)
          /\ \A v \in Pool!Workers \ {w} : pc'[v] = pc[v] /\ job'[v] = job[v]
      BY <2>0, <3>1
    <3>3. Pool!Held' = Pool!Held \cup {Head(tasks)}
      BY <3>1, <3>2 DEF Pool!Held
    <3>4. SeqRange(started') = SeqRange(started) \cup {Head(tasks)}
      BY <2>0, <3>1, RangeOfAppend
    <3> QED
      BY <3>1, <3>2, <3>3, <3>4 DEF DrainInv
  <2>3. ASSUME NEW w \in Pool!Workers, Pool!Finish(w) PROVE DrainInv'
    <3>1. /\ pc[w] = "running" /\ pc' = [pc EXCEPT ![w] = "ready"]
          /\ job' = [job EXCEPT ![w] = NoTask] /\ done' = done \cup {job[w]}
          /\ UNCHANGED <<tasks, stop, started>>
      BY <2>3 DEF Pool!Finish, Pool!FinishedJob, Pool!queueVars
    <3>2. /\ pc'[w] = "ready" /\ \A v \in Pool!Workers \ {w} : pc'[v] = pc[v] /\ job'[v] = job[v]
      BY <2>0, <3>1
    <3>3. Pool!Held = Pool!Held' \cup {job[w]}
      BY <3>1, <3>2 DEF Pool!Held
    <3> QED
      BY <3>1, <3>2, <3>3 DEF DrainInv
  <2>4. ASSUME NEW w \in Pool!Workers, Pool!Return(w) PROVE DrainInv'
    <3>1. /\ pc[w] = "ready" /\ stop /\ tasks = <<>> /\ pc' = [pc EXCEPT ![w] = "exited"]
          /\ UNCHANGED <<tasks, stop, started, done, job>>
      BY <2>4 DEF Pool!Return, Pool!MayReturn, Pool!queueVars
    <3>2. \A v \in Pool!Workers : pc'[v] = "running" <=> pc[v] = "running"
      BY <2>0, <3>1
    <3>3. Pool!Held' = Pool!Held
      BY <3>1, <3>2 DEF Pool!Held
    <3> QED
      BY <3>1, <3>3 DEF DrainInv
  <2>5. ASSUME NEW t \in Threads, NEW k \in Tasks, Pool!Push(t, k) PROVE DrainInv'
    <3>1. ~stop /\ UNCHANGED <<stop, pc, job, started, done>>
      BY <2>5 DEF Pool!Push
    <3>2. Pool!Held' = Pool!Held
      BY <3>1 DEF Pool!Held
    <3>3. Pool!Workers # {}
      <4>1. Pool!WorkerCount(PoolSize) \in Nat /\ Pool!WorkerCount(PoolSize) >= 1
        BY DistributeAssumption DEF Pool!WorkerCount
      <4> QED
        BY <4>1 DEF Pool!Workers
    <3> QED
      BY <3>1, <3>2, <3>3 DEF DrainInv
  <2>6. ASSUME NEW t \in Threads, NEW k \in Tasks, Pool!Refuse(t, k) PROVE DrainInv'
    BY <2>1, <2>6 DEF Pool!Refuse
  <2>7. ASSUME NEW t \in Threads, Pool!NotifyOne(t) PROVE DrainInv'
    BY <2>0, <2>1, <2>7 DEF Pool!NotifyOne, Pool!Asleep, Pool!queueVars
  <2>8. ASSUME NEW w \in Pool!Workers, Pool!Sleep(w) \/ Pool!SpuriousWakeup(w) PROVE DrainInv'
    BY <2>0, <2>1, <2>8 DEF Pool!Sleep, Pool!SpuriousWakeup, Pool!queueVars
  <2>9. CASE Pool!DestroyBegin
    <3>1. stop' /\ UNCHANGED <<tasks, started, done, job, pc>>
      BY <2>9 DEF Pool!DestroyBegin
    <3>2. Pool!Held' = Pool!Held
      BY <3>1 DEF Pool!Held
    <3> QED
      BY <3>1, <3>2 DEF DrainInv
  <2>10. CASE Pool!DestroyNotifyAll
    BY <2>0, <2>1, <2>10 DEF Pool!DestroyNotifyAll, Pool!WokenByAll, Pool!Asleep, Pool!queueVars
  <2>11. CASE Pool!DestroyJoin \/ UNCHANGED poolVars
    BY <2>1, <2>11 DEF Pool!DestroyJoin, Pool!queueVars, poolVars
  <2> QED
    BY <2>2, <2>3, <2>4, <2>5, <2>6, <2>7, <2>8, <2>9, <2>10, <2>11, StepOfPool
    DEF PoolStep, Pool!WorkerStep
<1> QED
  BY <1>1, <1>2, TypeCorrect, PTL DEF Spec

CompleteInv ==
  /\ \A i \in DOMAIN sent : \A j \in DOMAIN sent[i].to :
       Callable(sent[i].to[j]) => TaskAt(i, j) \in Passed \cup SeqRange(todo[sent[i].by])
  /\ \A i \in DOMAIN sent : \A j \in DOMAIN sent[i].to :
       sent[i].by \in Clients => TaskAt(i, j) \notin refused
  /\ \A i \in DOMAIN sent : \A j, l \in DOMAIN sent[i].to :
       j < l /\ Callable(sent[i].to[j]) /\ TaskAt(i, l) \in SeqRange(accepted)
         => TaskAt(i, j) \in SeqRange(accepted)

(* CompleteInv is inductive: a turn of the loop passes an entry or skips   *)
(* an empty one, and once it was refused one it is refused all the rest.   *)
LEMMA CompleteCorrect == Spec => []CompleteInv
<1>1. Init => CompleteInv
  BY DEF Init, CompleteInv
<1>2. TypeOK /\ SentInv /\ LoopInv /\ LifeInv /\ CompleteInv /\ [Next]_vars => CompleteInv'
  <2> SUFFICES ASSUME TypeOK, SentInv, LoopInv, LifeInv, CompleteInv, [Next]_vars
               PROVE  CompleteInv'
    OBVIOUS
  <2>1. ASSUME UNCHANGED <<todo, sent, accepted, refused>> PROVE CompleteInv'
    <3>1. Passed' = Passed /\ \A p, q : TaskAt(p, q)' = TaskAt(p, q)
      BY <2>1 DEF Passed, TaskAt
    <3> QED
      BY <2>1, <3>1 DEF CompleteInv
  <2>2. ASSUME NEW t \in Threads, NEW m \in Messages, DistributeCopy(t, m) PROVE CompleteInv'
    <3>0. PICK n \in Nat : n = Len(sent) + 1
      BY <2>2, SentGrows
    <3>1. /\ DOMAIN sent' = DOMAIN sent \cup {n}
          /\ sent'[n].msg = m /\ sent'[n].by = t /\ sent'[n].to = callbackList
          /\ \A i \in DOMAIN sent : sent'[i] = sent[i] /\ sent[i].msg # m
      BY <2>2, <3>0, SentGrows
    <3>2. /\ todo[t] = <<>> /\ UNCHANGED <<accepted, refused>> /\ Passed' = Passed
          /\ callbackList \in Seq(Tokens)
          /\ todo'[t] = TasksFor(m, callbackList)
          /\ \A u \in Threads \ {t} : todo'[u] = todo[u]
      BY <2>2 DEF DistributeCopy, MayCall, poolVars, Passed, TypeOK
    <3>3. \A i \in DOMAIN sent : \A j : TaskAt(i, j)' = TaskAt(i, j)
      BY <3>1 DEF TaskAt
    <3>4. ASSUME NEW q PROVE TaskAt(n, q)' \notin Passed
      <4>1. SUFFICES ASSUME TaskAt(n, q)' \in Passed PROVE FALSE
        OBVIOUS
      <4>2. PICK i \in DOMAIN sent : \E j \in DOMAIN sent[i].to : TaskAt(n, q)' = TaskAt(i, j)
        BY <4>1 DEF LoopInv
      <4>3. PICK j \in DOMAIN sent[i].to : TaskAt(n, q)' = TaskAt(i, j)
        BY <4>2
      <4>4. sent'[n].msg = m /\ sent[i].msg # m
        BY <3>1
      <4> QED
        BY <4>3, <4>4 DEF TaskAt
    <3>5. ASSUME NEW j \in DOMAIN callbackList PROVE TaskAt(n, j)' \in SeqRange(todo'[t])
      <4>1. /\ DOMAIN callbackList = 1 .. Len(callbackList)
            /\ DOMAIN todo'[t] = 1 .. Len(callbackList)
            /\ todo'[t][j] = <<m, callbackList[j]>>
        BY <3>2, TasksOfCopy
      <4>2. TaskAt(n, j)' = todo'[t][j]
        BY <3>1, <4>1 DEF TaskAt
      <4> QED
        BY <4>1, <4>2 DEF SeqRange
    <3>6. ASSUME NEW i \in DOMAIN sent', NEW j \in DOMAIN sent'[i].to, Callable(sent'[i].to[j])
          PROVE  TaskAt(i, j)' \in Passed' \cup SeqRange(todo'[sent'[i].by])
      <4>1. CASE i = n
        BY <3>1, <3>5, <4>1
      <4>2. CASE i \in DOMAIN sent /\ sent[i].by = t
        <5>1. TaskAt(i, j) \in Passed \cup SeqRange(todo[t])
          BY <3>1, <3>6, <4>2 DEF CompleteInv
        <5>2. SeqRange(todo[t]) = {}
          BY <3>2 DEF SeqRange
        <5> QED
          BY <3>2, <3>3, <4>2, <5>1, <5>2
      <4>3. CASE i \in DOMAIN sent /\ sent[i].by # t
        <5>1. TaskAt(i, j) \in Passed \cup SeqRange(todo[sent[i].by])
          BY <3>1, <3>6, <4>3 DEF CompleteInv
        <5>2. todo'[sent[i].by] = todo[sent[i].by]
          BY <3>2, <4>3, CopyTypes
        <5> QED
          BY <3>1, <3>2, <3>3, <4>3, <5>1, <5>2
      <4> QED
        BY <3>1, <4>1, <4>2, <4>3
    <3>7. ASSUME NEW i \in DOMAIN sent', NEW j \in DOMAIN sent'[i].to, sent'[i].by \in Clients
          PROVE  TaskAt(i, j)' \notin refused'
      BY <3>1, <3>2, <3>3, <3>4, <3>7 DEF CompleteInv, Passed
    <3>8. ASSUME NEW i \in DOMAIN sent', NEW j \in DOMAIN sent'[i].to, NEW l \in DOMAIN sent'[i].to,
                 j < l, Callable(sent'[i].to[j]), TaskAt(i, l)' \in SeqRange(accepted')
          PROVE  TaskAt(i, j)' \in SeqRange(accepted')
      BY <3>1, <3>2, <3>3, <3>4, <3>8 DEF CompleteInv, Passed
    <3> QED
      BY <3>6, <3>7, <3>8 DEF CompleteInv
  <2>3. ASSUME NEW t \in Threads, DistributeEnqueue(t) PROVE CompleteInv'
    <3>1. PICK g \in DOMAIN sent, d \in Nat : Resting(t, g, d)
      BY <2>3 DEF LoopInv, DistributeEnqueue
    <3>2. PICK k : k = Head(todo[t])
      OBVIOUS
    <3>3. /\ d + 1 \in DOMAIN sent[g].to /\ k = TaskAt(g, d + 1)
          /\ todo'[t] = Tail(todo[t])
          /\ \A u \in Threads \ {t} : todo'[u] = todo[u]
          /\ sent' = sent
      BY <2>3, <3>1, <3>2, NextTurn
    <3>4. \A p, q : TaskAt(p, q)' = TaskAt(p, q)
      BY <3>3 DEF TaskAt
    <3>5. \/ UNCHANGED <<accepted, refused>> /\ ~Callable(k[2])
          \/ SeqRange(accepted') = SeqRange(accepted) \cup {k} /\ refused' = refused /\ ~stop
          \/ accepted' = accepted /\ refused' = refused \cup {k} /\ stop
      BY <2>3, <3>2, TurnPasses
    <3>6. SeqRange(todo[t]) = SeqRange(todo'[t]) \cup {k}
      <4>1. todo[t] \in Seq(Tasks) /\ todo[t] # <<>>
        BY <2>3 DEF TypeOK, DistributeEnqueue
      <4> QED
        BY <3>2, <3>3, <4>1, RangeOfTail
    <3>7. ASSUME NEW i \in DOMAIN sent, NEW j \in DOMAIN sent[i].to, Callable(sent[i].to[j])
          PROVE  TaskAt(i, j) \in Passed' \cup SeqRange(todo'[sent[i].by])
      <4>1. TaskAt(i, j) \in Passed \cup SeqRange(todo[sent[i].by])
        BY <3>7 DEF CompleteInv
      <4>2. Passed \subseteq Passed' /\ (k \in Passed' \/ ~Callable(k[2]))
        BY <3>5 DEF Passed
      <4>3. TaskAt(i, j) = k => k \in Passed'
        BY <3>7, <4>2 DEF TaskAt
      <4>4. SeqRange(todo[sent[i].by]) \subseteq SeqRange(todo'[sent[i].by]) \cup {k}
        BY <3>3, <3>6, CopyTypes
      <4> QED
        BY <4>1, <4>2, <4>3, <4>4
    <3>8. ASSUME NEW i \in DOMAIN sent, NEW j \in DOMAIN sent[i].to, sent[i].by \in Clients
          PROVE  TaskAt(i, j) \notin refused'
      <4>1. TaskAt(i, j) \notin refused
        BY <3>8 DEF CompleteInv
      <4>2. CASE refused' = refused
        BY <4>1, <4>2
      <4>3. CASE refused' = refused \cup {k} /\ stop
        <5>1. t \notin Clients
          BY <2>3, <4>3 DEF LifeInv, DistributeEnqueue
        <5>2. sent[g].by = t
          BY <3>1 DEF Resting
        <5>3. TaskAt(i, j) # k
          BY <3>3, <3>8, <5>1, <5>2, OnePlace
        <5> QED
          BY <4>1, <4>3, <5>3
      <4> QED
        BY <3>5, <4>2, <4>3
    <3>9. ASSUME NEW i \in DOMAIN sent, NEW j \in DOMAIN sent[i].to, NEW l \in DOMAIN sent[i].to,
                 j < l, Callable(sent[i].to[j]), TaskAt(i, l) \in SeqRange(accepted')
          PROVE  TaskAt(i, j) \in SeqRange(accepted')
      <4>1. SeqRange(accepted) \subseteq SeqRange(accepted')
        BY <3>5
      <4>2. CASE TaskAt(i, l) \in SeqRange(accepted)
        BY <3>9, <4>1, <4>2 DEF CompleteInv
      <4>3. CASE TaskAt(i, l) \notin SeqRange(accepted)
        <5>1. TaskAt(i, l) = k /\ ~stop
          BY <3>5, <3>9, <4>3
        <5>2. i = g /\ l = d + 1
          BY <3>3, <5>1, OnePlace
        <5>3. refused = {}
          BY <5>1 DEF LifeInv
        <5>4. sent[i].by = t /\ TaskAt(i, j) \in Passed \cup SeqRange(todo[t])
          BY <3>1, <3>9, <5>2 DEF CompleteInv, Resting
        <5>5. TaskAt(i, j) \notin SeqRange(todo[t])
          <6>1. SUFFICES ASSUME TaskAt(i, j) \in SeqRange(todo[t]) PROVE FALSE
            OBVIOUS
          <6>2. todo[t] \in Seq(Tasks)
            BY DEF TypeOK
          <6>3. PICK x \in 1 .. Len(todo[t]) : TaskAt(i, j) = todo[t][x]
            BY <6>1, <6>2 DEF SeqRange
          <6>4. /\ Len(sent[g].to) = d + Len(todo[t])
                /\ todo[t][x] = TaskAt(g, d + x)
            BY <3>1 DEF Resting
          <6>5. d + x \in DOMAIN sent[g].to
            <7>1. sent[g].to \in Seq(Tokens) /\ Len(todo[t]) \in Nat
              BY <6>2, CopyTypes
            <7> QED
              BY <6>4, <7>1
          <6>6. j = d + x
            BY <5>2, <6>3, <6>4, <6>5, OnePlace
          <6> QED
            BY <3>9, <5>2, <6>6
        <5> QED
          BY <4>1, <5>3, <5>4, <5>5 DEF Passed
      <4> QED
        BY <4>2, <4>3
    <3> QED
      BY <3>3, <3>4, <3>7, <3>8, <3>9 DEF CompleteInv
  <2> QED
    BY <2>1, <2>2, <2>3, OtherSteps
<1> QED
  BY <1>1, <1>2, TypeCorrect, SentCorrect, LoopCorrect, LifeCorrect, PTL DEF Spec

(* After the destructor everything owed by a client's distribute has run,  *)
(* and of a callback's own distribute all but a refused tail.              *)
THEOREM OnlyATailIsRefused == Spec => []NothingLeftBehind
<1>1. TypeOK /\ LifeInv /\ FifoInv /\ DrainInv /\ CompleteInv => NothingLeftBehind
  <2> SUFFICES ASSUME TypeOK, LifeInv, FifoInv, DrainInv, CompleteInv, ~listAlive
               PROVE  \A i \in DOMAIN sent :
                        LET Task(j) == <<sent[i].msg, sent[i].to[j]>>
                            Owed == {j \in DOMAIN sent[i].to : sent[i].to[j] \notin EmptyTokens}
                        IN  /\ \A j \in Owed : Task(j) \in done \cup refused
                            /\ sent[i].by \in Clients => \A j \in Owed : Task(j) \in done
                            /\ \A j, l \in Owed : j < l /\ Task(l) \in done => Task(j) \in done
    BY DEF NothingLeftBehind
  <2>1. (\A w \in Pool!Workers : pc[w] = "exited") /\ \A t \in Threads : todo[t] = <<>>
    BY DEF LifeInv, TypeOK, Threads
  <2>2. SeqRange(accepted) = done
    <3>1. Pool!Held = {} /\ tasks = <<>>
      BY <2>1 DEF DrainInv, Pool!Held
    <3>2. accepted = started
      BY <3>1 DEF FifoInv, TypeOK, Pool!TypeOK
    <3> QED
      BY <3>1, <3>2 DEF DrainInv
  <2>3. \A t \in Threads : SeqRange(todo[t]) = {}
    BY <2>1 DEF SeqRange
  <2>4. ASSUME NEW i \in DOMAIN sent, NEW j \in DOMAIN sent[i].to, sent[i].to[j] \notin EmptyTokens
        PROVE  TaskAt(i, j) \in done \cup refused /\ (sent[i].by \in Clients => TaskAt(i, j) \in done)
    BY <2>2, <2>3, <2>4, CopyTypes DEF CompleteInv, Passed, Callable
  <2>5. ASSUME NEW i \in DOMAIN sent, NEW j \in DOMAIN sent[i].to, NEW l \in DOMAIN sent[i].to,
               sent[i].to[j] \notin EmptyTokens, j < l, TaskAt(i, l) \in done
        PROVE  TaskAt(i, j) \in done
    BY <2>2, <2>5 DEF CompleteInv, Callable
  <2> QED
    BY <2>4, <2>5 DEF TaskAt
<1> QED
  BY <1>1, TypeCorrect, LifeCorrect, FifoCorrect, DrainCorrect, CompleteCorrect, PTL
-----------------------------------------------------------------------------
(* The distributor implements the abstract publisher.                      *)

(* What a loop has still to do was not passed to the pool before.          *)
LEMMA NotYetPassed ==
  ASSUME TypeOK, LoopInv, NEW t \in Threads, NEW k \in SeqRange(todo[t])
  PROVE  k \notin Passed
<1>1. PICK x \in DOMAIN todo[t] : k = todo[t][x]
  BY DEF SeqRange
<1>2. todo[t] \in Seq(Tasks) /\ todo[t] # <<>>
  BY <1>1 DEF TypeOK
<1>3. PICK i \in DOMAIN sent : \E d \in Nat : Resting(t, i, d)
  BY <1>2 DEF LoopInv
<1>4. PICK d \in Nat : Resting(t, i, d)
  BY <1>3
<1>5. /\ k = TaskAt(i, d + x) /\ d + x \in DOMAIN sent[i].to /\ ~(d + x <= d)
  <2>1. x \in 1 .. Len(todo[t]) /\ Len(todo[t]) \in Nat /\ sent[i].to \in Seq(Tokens)
    BY <1>1, <1>2, CopyTypes
  <2>2. Len(sent[i].to) = d + Len(todo[t]) /\ todo[t][x] = TaskAt(i, d + x)
    BY <1>4, <2>1 DEF Resting
  <2> QED
    BY <1>1, <2>1, <2>2
<1> QED
  BY <1>4, <1>5 DEF Resting

(* The pool is given a task once.                                          *)
LEMMA AcceptedOnce ==
  ASSUME TypeOK, LoopInv, OrderInv
  PROVE  Once(accepted)
<1> SUFFICES ASSUME NEW x \in DOMAIN accepted, NEW y \in DOMAIN accepted,
                    accepted[x] = accepted[y], x # y
             PROVE  FALSE
  BY DEF Once
<1>1. accepted[x] \in Passed
  BY DEF Passed, SeqRange
<1>2. PICK i \in DOMAIN sent : \E j \in DOMAIN sent[i].to : accepted[x] = TaskAt(i, j)
  BY <1>1 DEF LoopInv
<1>3. PICK j \in DOMAIN sent[i].to : accepted[x] = TaskAt(i, j)
  BY <1>2
<1>4. ~(i < i) /\ ~(j < j)
  BY CopyTypes
<1>5. ~(x < y) /\ ~(y < x)
  BY <1>3, <1>4 DEF OrderInv
<1>6. x \in Nat /\ y \in Nat
  BY DEF TypeOK, Pool!TypeOK
<1> QED
  BY <1>5, <1>6

(* No task waits in the pool and was taken from it.                        *)
LEMMA WaitingOrTaken ==
  ASSUME TypeOK, LoopInv, OrderInv, FifoInv
  PROVE  SeqRange(tasks) \cap SeqRange(started) = {}
<1> SUFFICES ASSUME NEW x \in DOMAIN tasks, NEW y \in DOMAIN started, tasks[x] = started[y]
             PROVE  FALSE
  BY DEF SeqRange
<1>1. tasks \in Seq(Tasks) /\ started \in Seq(Tasks) /\ accepted = started \o tasks
  BY DEF TypeOK, Pool!TypeOK, FifoInv
<1>2. /\ y \in DOMAIN accepted /\ accepted[y] = started[y]
      /\ Len(started) + x \in DOMAIN accepted /\ accepted[Len(started) + x] = tasks[x]
      /\ Len(started) + x # y
  BY <1>1
<1> QED
  BY <1>2, AcceptedOnce DEF Once

OneHolder == \A v, w \in Pool!Workers : job[v] = job[w] /\ v # w => job[v] = NoTask

(* OneHolder is inductive: the head of the queue was not taken before.     *)
LEMMA HolderCorrect == Spec => []OneHolder
<1>1. Init => OneHolder
  BY DEF Init, Pool!Init, OneHolder
<1>2. TypeOK /\ LoopInv /\ OrderInv /\ FifoInv /\ DrainInv /\ OneHolder /\ [Next]_vars
        => OneHolder'
  <2> SUFFICES ASSUME TypeOK, LoopInv, OrderInv, FifoInv, DrainInv, OneHolder, [Next]_vars
               PROVE  OneHolder'
    OBVIOUS
  <2>0. /\ job \in [Pool!Workers -> Tasks \cup {NoTask}] /\ tasks \in Seq(Tasks)
        /\ \A w \in Pool!Workers : job[w] # NoTask => pc[w] = "running"
    BY DEF TypeOK, Pool!TypeOK
  <2>1. ASSUME NEW w \in Pool!Workers, Pool!Take(w) PROVE OneHolder'
    <3>1. tasks # <<>> /\ job' = [job EXCEPT ![w] = Head(tasks)]
      BY <2>1 DEF Pool!Take
    <3>2. Head(tasks) \in SeqRange(tasks) /\ Head(tasks) \in Tasks
      BY <2>0, <3>1, RangeOfTail
    <3>3. \A v \in Pool!Workers : job[v] # Head(tasks)
      <4>1. SUFFICES ASSUME NEW v \in Pool!Workers, job[v] = Head(tasks) PROVE FALSE
        OBVIOUS
      <4>2. job[v] \in Pool!Held
        BY <2>0, <3>2, <4>1, DistributeAssumption DEF Pool!Held
      <4>3. Head(tasks) \in SeqRange(started)
        BY <4>1, <4>2 DEF DrainInv
      <4> QED
        BY <3>2, <4>3, WaitingOrTaken
    <3>4. job'[w] = Head(tasks) /\ \A v \in Pool!Workers \ {w} : job'[v] = job[v]
      BY <2>0, <3>1
    <3> QED
      BY <3>3, <3>4 DEF OneHolder
  <2>2. ASSUME NEW w \in Pool!Workers, Pool!Finish(w) PROVE OneHolder'
    <3>1. job' = [job EXCEPT ![w] = NoTask]
      BY <2>2 DEF Pool!Finish, Pool!FinishedJob
    <3>2. job'[w] = NoTask /\ \A v \in Pool!Workers \ {w} : job'[v] = job[v]
      BY <2>0, <3>1
    <3> QED
      BY <3>2 DEF OneHolder
  <2>3. ASSUME UNCHANGED job PROVE OneHolder'
    BY <2>3 DEF OneHolder
  <2>4. ASSUME NEW w \in Pool!Workers,
               Pool!Sleep(w) \/ Pool!Return(w) \/ Pool!SpuriousWakeup(w)
        PROVE  OneHolder'
    BY <2>3, <2>4 DEF Pool!Sleep, Pool!Return, Pool!SpuriousWakeup
  <2>5. ASSUME NEW t \in Threads, NEW k \in Tasks,
               Pool!NotifyOne(t) \/ Pool!Push(t, k) \/ Pool!Refuse(t, k)
        PROVE  OneHolder'
    BY <2>3, <2>5 DEF Pool!NotifyOne, Pool!Push, Pool!Refuse
  <2>6. ASSUME NEW t \in Threads, Pool!NotifyOne(t) PROVE OneHolder'
    BY <2>3, <2>6 DEF Pool!NotifyOne
  <2>7. CASE \/ Pool!DestroyBegin \/ Pool!DestroyNotifyAll \/ Pool!DestroyJoin
             \/ UNCHANGED poolVars
    BY <2>3, <2>7 DEF Pool!DestroyBegin, Pool!DestroyNotifyAll, Pool!DestroyJoin, poolVars
  <2> QED
    BY <2>1, <2>2, <2>4, <2>5, <2>6, <2>7, StepOfPool DEF PoolStep, Pool!WorkerStep
<1> QED
  BY <1>1, <1>2, TypeCorrect, LoopCorrect, OrderCorrect, FifoCorrect, DrainCorrect, PTL DEF Spec

HeldUndone == \A w \in Pool!Workers : job[w] # NoTask => job[w] \notin done

(* HeldUndone is inductive: what a worker holds has not run before, since  *)
(* no task is taken twice.                                                 *)
LEMMA HeldCorrect == Spec => []HeldUndone
<1>1. Init => HeldUndone
  BY DEF Init, Pool!Init, HeldUndone
<1>2. TypeOK /\ LoopInv /\ OrderInv /\ FifoInv /\ DrainInv /\ OneHolder /\ HeldUndone
        /\ [Next]_vars => HeldUndone'
  <2> SUFFICES ASSUME TypeOK, LoopInv, OrderInv, FifoInv, DrainInv, OneHolder, HeldUndone,
                      [Next]_vars
               PROVE  HeldUndone'
    OBVIOUS
  <2>0. /\ job \in [Pool!Workers -> Tasks \cup {NoTask}] /\ tasks \in Seq(Tasks)
        /\ \A w \in Pool!Workers : job[w] # NoTask <=> pc[w] = "running"
    BY DEF TypeOK, Pool!TypeOK
  <2>1. ASSUME UNCHANGED <<job, done>> PROVE HeldUndone'
    BY <2>1 DEF HeldUndone
  <2>2. ASSUME NEW w \in Pool!Workers, Pool!Take(w) PROVE HeldUndone'
    <3>1. tasks # <<>> /\ job' = [job EXCEPT ![w] = Head(tasks)] /\ done' = done
      BY <2>2 DEF Pool!Take
    <3>2. Head(tasks) \in SeqRange(tasks)
      BY <2>0, <3>1, RangeOfTail
    <3>3. Head(tasks) \notin done
      BY <3>2, WaitingOrTaken DEF DrainInv
    <3>4. job'[w] = Head(tasks) /\ \A v \in Pool!Workers \ {w} : job'[v] = job[v]
      BY <2>0, <3>1
    <3> QED
      BY <3>1, <3>3, <3>4 DEF HeldUndone
  <2>3. ASSUME NEW w \in Pool!Workers, Pool!Finish(w) PROVE HeldUndone'
    <3>1. job' = [job EXCEPT ![w] = NoTask] /\ done' = done \cup {job[w]}
      BY <2>3 DEF Pool!Finish, Pool!FinishedJob
    <3>2. job'[w] = NoTask /\ \A v \in Pool!Workers \ {w} : job'[v] = job[v]
      BY <2>0, <3>1
    <3> QED
      BY <3>1, <3>2 DEF HeldUndone, OneHolder
  <2>4. ASSUME NEW w \in Pool!Workers,
               Pool!Sleep(w) \/ Pool!Return(w) \/ Pool!SpuriousWakeup(w)
        PROVE  HeldUndone'
    BY <2>1, <2>4 DEF Pool!Sleep, Pool!Return, Pool!SpuriousWakeup
  <2>5. ASSUME NEW t \in Threads, NEW k \in Tasks, Pool!Push(t, k) \/ Pool!Refuse(t, k)
        PROVE  HeldUndone'
    BY <2>1, <2>5 DEF Pool!Push, Pool!Refuse
  <2>6. ASSUME NEW t \in Threads, Pool!NotifyOne(t) PROVE HeldUndone'
    BY <2>1, <2>6 DEF Pool!NotifyOne
  <2>7. CASE \/ Pool!DestroyBegin \/ Pool!DestroyNotifyAll \/ Pool!DestroyJoin
             \/ UNCHANGED poolVars
    BY <2>1, <2>7 DEF Pool!DestroyBegin, Pool!DestroyNotifyAll, Pool!DestroyJoin, poolVars
  <2> QED
    BY <2>2, <2>3, <2>4, <2>5, <2>6, <2>7, StepOfPool DEF PoolStep, Pool!WorkerStep
<1> QED
  BY <1>1, <1>2, TypeCorrect, LoopCorrect, OrderCorrect, FifoCorrect, DrainCorrect,
     HolderCorrect, PTL DEF Spec

CallableInv == \A k \in Passed : Callable(k[2])

(* CallableInv is inductive: the pool is given no empty callback.          *)
LEMMA CallableCorrect == Spec => []CallableInv
<1>1. Init => CallableInv
  BY DEF Init, Pool!Init, CallableInv, Passed, SeqRange
<1>2. TypeOK /\ CallableInv /\ [Next]_vars => CallableInv'
  <2> SUFFICES ASSUME TypeOK, CallableInv, [Next]_vars PROVE CallableInv'
    OBVIOUS
  <2>1. ASSUME UNCHANGED <<accepted, refused>> PROVE CallableInv'
    BY <2>1 DEF CallableInv, Passed
  <2>2. ASSUME NEW t \in Threads, DistributeEnqueue(t) PROVE CallableInv'
    <3>1. Callable(Head(todo[t])[2]) \/ UNCHANGED <<accepted, refused>>
      BY <2>2 DEF DistributeEnqueue, poolVars
    <3>2. Passed' \subseteq Passed \cup {Head(todo[t])}
      BY <2>2, TurnPasses DEF Passed
    <3> QED
      BY <2>1, <3>1, <3>2 DEF CallableInv, Callable
  <2>3. ASSUME NEW t \in Threads, NEW m \in Messages, DistributeCopy(t, m) PROVE CallableInv'
    BY <2>1, <2>3 DEF DistributeCopy, poolVars
  <2> QED
    BY <2>1, <2>2, <2>3, OtherSteps
<1> QED
  BY <1>1, <1>2, TypeCorrect, PTL DEF Spec

Outstanding == ToEnqueue \cup SeqRange(tasks) \cup Pool!Held

(* A turn of the loop takes its own entry from what is to be enqueued, and *)
(* only that one.                                                          *)
LEMMA TurnOfLoop ==
  ASSUME TypeOK, SentInv, LoopInv, NEW t \in Threads, DistributeEnqueue(t), NEW x
  PROVE  x \in ToEnqueue <=> x \in ToEnqueue' \/ (x = Head(todo[t]) /\ Callable(x[2]))
<1>1. PICK i \in DOMAIN sent, d \in Nat : Resting(t, i, d)
  BY DEF LoopInv, DistributeEnqueue
<1>2. /\ d + 1 \in DOMAIN sent[i].to /\ Head(todo[t]) = TaskAt(i, d + 1)
      /\ todo'[t] = Tail(todo[t])
      /\ \A u \in Threads \ {t} : todo'[u] = todo[u]
  BY <1>1, NextTurn
<1>3. todo[t] \in Seq(Tasks) /\ todo[t] # <<>>
  BY DEF TypeOK, DistributeEnqueue
<1>4. SeqRange(todo[t]) = SeqRange(todo'[t]) \cup {Head(todo[t])}
  BY <1>2, <1>3, RangeOfTail
<1> QED
  BY <1>2, <1>4 DEF ToEnqueue, Callable

(* The entry is in no loop after its turn, nor in the pool before it.      *)
LEMMA EntryLeaves ==
  ASSUME TypeOK, SentInv, LoopInv, FifoInv, DrainInv, NEW t \in Threads, DistributeEnqueue(t)
  PROVE  /\ Head(todo[t]) \notin ToEnqueue'
         /\ Head(todo[t]) \notin SeqRange(tasks) \cup Pool!Held
         /\ Head(todo[t]) \in Tasks /\ Head(todo[t]) \in SeqRange(todo[t])
<1>1. PICK i \in DOMAIN sent, d \in Nat : Resting(t, i, d)
  BY DEF LoopInv, DistributeEnqueue
<1>2. PICK k : k = Head(todo[t])
  OBVIOUS
<1>3. /\ d + 1 \in DOMAIN sent[i].to /\ k = TaskAt(i, d + 1)
      /\ todo'[t] = Tail(todo[t])
      /\ \A x \in 1 .. Len(todo'[t]) : todo'[t][x] = TaskAt(i, (d + 1) + x)
      /\ \A u \in Threads \ {t} : todo'[u] = todo[u]
  BY <1>1, <1>2, NextTurn
<1>4. todo[t] \in Seq(Tasks) /\ todo[t] # <<>> /\ Len(sent[i].to) = d + Len(todo[t])
      /\ sent[i].by = t /\ sent[i].to \in Seq(Tokens)
  BY <1>1, CopyTypes DEF TypeOK, DistributeEnqueue, Resting
<1>5. k \in Tasks /\ k \in SeqRange(todo[t])
  BY <1>2, <1>4, RangeOfTail
<1>6. k \notin Passed
  BY <1>5, NotYetPassed
<1>7. k \notin SeqRange(todo'[t])
  <2> SUFFICES ASSUME NEW x \in DOMAIN todo'[t], todo'[t][x] = k PROVE FALSE
    BY DEF SeqRange
  <2>1. DOMAIN Tail(todo[t]) = 1 .. Len(todo[t]) - 1 /\ Len(todo[t]) \in Nat
    BY <1>4
  <2>2. x \in 1 .. Len(todo[t]) - 1 /\ x \in 1 .. Len(todo'[t])
    BY <1>3, <1>4, <2>1
  <2>3. (d + 1) + x \in DOMAIN sent[i].to /\ (d + 1) + x # d + 1
    BY <1>4, <2>1, <2>2
  <2>4. TaskAt(i, (d + 1) + x) = TaskAt(i, d + 1)
    BY <1>3, <2>2
  <2> QED
    BY <1>3, <2>3, <2>4, OnePlace
<1>8. ASSUME NEW u \in Threads \ {t}, k \in SeqRange(todo[u]) PROVE FALSE
  <2>1. PICK x \in DOMAIN todo[u] : todo[u][x] = k
    BY <1>8 DEF SeqRange
  <2>2. todo[u] \in Seq(Tasks) /\ todo[u] # <<>>
    BY <2>1 DEF TypeOK
  <2>3. PICK p \in DOMAIN sent, e \in Nat : Resting(u, p, e)
    BY <2>2 DEF LoopInv
  <2>4. x \in 1 .. Len(todo[u]) /\ Len(todo[u]) \in Nat /\ sent[p].to \in Seq(Tokens)
    BY <2>1, <2>2, CopyTypes
  <2>5. /\ Len(sent[p].to) = e + Len(todo[u]) /\ todo[u][x] = TaskAt(p, e + x)
        /\ sent[p].by = u
    BY <2>3, <2>4 DEF Resting
  <2>6. e + x \in DOMAIN sent[p].to
    BY <2>4, <2>5
  <2> QED
    BY <1>3, <1>4, <2>1, <2>5, <2>6, OnePlace
<1>9. k \notin ToEnqueue'
  BY <1>3, <1>7, <1>8 DEF ToEnqueue
<1>10. k \notin SeqRange(tasks) \cup Pool!Held
  <2>1. tasks \in Seq(Tasks) /\ started \in Seq(Tasks) /\ accepted = started \o tasks
    BY DEF TypeOK, Pool!TypeOK, FifoInv
  <2>2. SeqRange(tasks) \subseteq SeqRange(accepted)
    <3> SUFFICES ASSUME NEW x \in DOMAIN tasks PROVE tasks[x] \in SeqRange(accepted)
      BY DEF SeqRange
    <3>1. Len(started) + x \in DOMAIN accepted /\ accepted[Len(started) + x] = tasks[x]
      BY <2>1
    <3> QED
      BY <3>1 DEF SeqRange
  <2>3. Pool!Held \subseteq SeqRange(accepted)
    <3>1. \A x \in DOMAIN started : x \in DOMAIN accepted /\ accepted[x] = started[x]
      BY <2>1
    <3> QED
      BY <3>1 DEF DrainInv, SeqRange
  <2> QED
    BY <1>6, <2>2, <2>3 DEF Passed
<1> QED
  BY <1>2, <1>5, <1>9, <1>10

(* The distributor is a publisher that owes each callback registered at a  *)
(* distribute one call with its message, whatever is registered or removed *)
(* meanwhile, and gives a call up only while it is being destroyed.        *)
THEOREM ImplementsPubSub == Spec => PubSubSpec
<1> DEFINE Phase == IF ~stop THEN "open" ELSE IF listAlive THEN "closing" ELSE "closed"
           Sent  == {sent[i].msg : i \in DOMAIN sent}
           Inv   == /\ TypeOK /\ SentInv /\ LoopInv /\ FifoInv /\ OrderInv
                    /\ LifeInv /\ DrainInv /\ OneHolder
<1>1. Init => Abstract!Init
  <2> SUFFICES ASSUME Init PROVE Abstract!Init
    OBVIOUS
  <2>1. /\ callbackList = <<>> /\ sent = <<>> /\ tasks = <<>> /\ done = {} /\ refused = {}
        /\ ~stop /\ (\A w \in Pool!Workers : pc[w] = "ready")
        /\ \A t \in Threads : todo[t] = <<>>
    BY DEF Init, Pool!Init
  <2>2. ToEnqueue = {} /\ SeqRange(tasks) = {} /\ Pool!Held = {} /\ SeqRange(callbackList) = {}
    BY <2>1 DEF ToEnqueue, SeqRange, Pool!Held
  <2> QED
    BY <2>1, <2>2 DEF Abstract!Init
<1>2. Inv /\ [Next]_vars => [Abstract!Next]_(Abstract!vars)
  <2> SUFFICES ASSUME Inv, [Next]_vars
               PROVE  Abstract!Next \/ UNCHANGED Abstract!vars
    OBVIOUS
  <2>0. /\ pc \in [Pool!Workers -> {"ready", "asleep", "running", "exited"}]
        /\ job \in [Pool!Workers -> Tasks \cup {NoTask}]
        /\ tasks \in Seq(Tasks) /\ callbackList \in Seq(Tokens)
        /\ listAlive \in BOOLEAN /\ stop \in BOOLEAN
    BY DEF TypeOK, Pool!TypeOK
  <2>l. (owner # "destroyed" => listAlive) /\ (stop <=> owner # "alive")
    BY <2>0 DEF LifeInv
  <2>1. ASSUME UNCHANGED <<SeqRange(callbackList), Sent, Outstanding, done, refused, Phase>>
        PROVE  UNCHANGED Abstract!vars
    BY <2>1 DEF Abstract!vars, Outstanding
  <2>2. ASSUME UNCHANGED <<todo, tasks, pc, job>> PROVE Outstanding' = Outstanding
    BY <2>2 DEF Outstanding, ToEnqueue, Pool!Held
  <2>3. ASSUME NEW t \in Threads, MayCall(t) PROVE listAlive /\ todo[t] = <<>>
    <3>1. t \in Pool!Workers => pc[t] # "exited" \/ owner = "alive"
      BY <2>3, DistributeAssumption DEF MayCall, Pool!MayCall
    <3> QED
      BY <2>3, <2>l, <3>1 DEF MayCall, Pool!MayCall, LifeInv
  <2>4. ASSUME NEW t \in Threads, NEW tok \in Tokens, AddUpdateCallback(t, tok)
        PROVE  Abstract!Register(tok)
    <3>1. /\ UNCHANGED <<listAlive, todo, sent, poolVars>>
          /\ callbackList' = Append(callbackList, tok) /\ MayCall(t)
      BY <2>4 DEF AddUpdateCallback
    <3>2. SeqRange(callbackList') = SeqRange(callbackList) \cup {tok}
      BY <2>0, <3>1, RangeOfAppend
    <3>3. UNCHANGED <<Outstanding, Sent, done, refused, Phase>> /\ Phase # "closed"
      BY <2>2, <2>3, <3>1 DEF poolVars
    <3> QED
      BY <3>2, <3>3 DEF Abstract!Register, Outstanding
  <2>5. ASSUME NEW t \in Threads,
               Clear(t) \/ \E tok \in Tokens : RemoveUpdateCallback(t, tok)
        PROVE  \E toks \in SUBSET Tokens : Abstract!Unregister(toks)
    <3>1. UNCHANGED <<listAlive, todo, sent, poolVars>> /\ MayCall(t)
      BY <2>5 DEF RemoveUpdateCallback, Clear
    <3>2. SeqRange(callbackList') \subseteq SeqRange(callbackList)
      <4>1. CASE Clear(t)
        BY <4>1 DEF Clear, SeqRange
      <4>2. CASE \E tok \in Tokens : RemoveUpdateCallback(t, tok)
        <5>1. PICK i \in DOMAIN callbackList : callbackList' = Erased(callbackList, i)
          BY <4>2 DEF RemoveUpdateCallback
        <5>2. ASSUME NEW x \in DOMAIN callbackList' PROVE callbackList'[x] \in SeqRange(callbackList)
          <6>1. Len(callbackList) \in Nat /\ DOMAIN callbackList = 1 .. Len(callbackList)
            BY <2>0
          <6>2. x \in 1 .. Len(callbackList) - 1
            BY <5>1, <5>2 DEF Erased
          <6>3. /\ x \in DOMAIN callbackList /\ x + 1 \in DOMAIN callbackList
                /\ \/ callbackList'[x] = callbackList[x]
                   \/ callbackList'[x] = callbackList[x + 1]
            BY <5>1, <6>1, <6>2 DEF Erased
          <6> QED
            BY <6>3 DEF SeqRange
        <5> QED
          BY <5>2 DEF SeqRange
      <4> QED
        BY <2>5, <4>1, <4>2
    <3>3. PICK toks : toks = SeqRange(callbackList) \ SeqRange(callbackList')
      OBVIOUS
    <3>4. toks \in SUBSET Tokens
      BY <2>0, <3>3 DEF SeqRange
    <3>5. UNCHANGED <<Outstanding, Sent, done, refused, Phase>> /\ Phase # "closed"
      BY <2>2, <2>3, <3>1 DEF poolVars
    <3>6. Abstract!Unregister(toks)
      BY <3>2, <3>3, <3>5 DEF Abstract!Unregister, Outstanding
    <3> QED
      BY <3>4, <3>6
  <2>6. ASSUME NEW t \in Threads, NEW m \in Messages, DistributeCopy(t, m)
        PROVE  Abstract!Publish(m)
    <3>1. /\ UNCHANGED <<listVars, poolVars>> /\ MayCall(t)
          /\ todo' = [todo EXCEPT ![t] = TasksFor(m, callbackList)]
          /\ \A i \in DOMAIN sent : sent[i].msg # m
      BY <2>6 DEF DistributeCopy
    <3>2. m \notin Sent /\ Sent' = Sent \cup {m}
      BY <2>6, <3>1, SentGrows
    <3>3. listAlive /\ SeqRange(todo[t]) = {}
      BY <2>3, <3>1 DEF SeqRange
    <3>4. SeqRange(todo'[t]) = {m} \X SeqRange(callbackList)
      BY <3>1 DEF SeqRange, TasksFor, TypeOK
    <3>5. \A u \in Threads \ {t} : todo'[u] = todo[u]
      BY <3>1 DEF TypeOK
    <3>6. ToEnqueue' = ToEnqueue \cup {m} \X (SeqRange(callbackList) \ EmptyTokens)
      BY <3>3, <3>4, <3>5 DEF ToEnqueue
    <3>7. UNCHANGED <<SeqRange(tasks), Pool!Held, SeqRange(callbackList), done, refused, Phase>>
      BY <3>1 DEF poolVars, listVars, Pool!Held
    <3> QED
      BY <3>2, <3>3, <3>6, <3>7 DEF Abstract!Publish
  <2>7. ASSUME NEW t \in Threads, DistributeEnqueue(t)
        PROVE  \/ UNCHANGED Abstract!vars
               \/ \E k \in Messages \X Tokens : Abstract!Drop(k)
    <3>1. PICK k : k = Head(todo[t])
      OBVIOUS
    <3>2. /\ k \notin ToEnqueue' /\ k \notin SeqRange(tasks) \cup Pool!Held
          /\ k \in Tasks /\ k \in SeqRange(todo[t])
      BY <2>7, <3>1, EntryLeaves
    <3>3. \A x : x \in ToEnqueue <=> x \in ToEnqueue' \/ (x = k /\ Callable(x[2]))
      BY <2>7, <3>1, TurnOfLoop
    <3>4. UNCHANGED <<listVars, sent>>
      BY <2>7 DEF DistributeEnqueue
    <3>5. CASE ~Callable(k[2]) /\ UNCHANGED poolVars
      <4>1. ToEnqueue' = ToEnqueue
        BY <3>3, <3>5
      <4> QED
        BY <2>1, <3>4, <3>5, <4>1 DEF Outstanding, listVars, poolVars, Pool!Held
    <3>6. CASE Callable(k[2]) /\ Pool!Push(t, k)
      <4>1. tasks' = Append(tasks, k) /\ UNCHANGED <<stop, pc, job, refused, done>>
        BY <3>6 DEF Pool!Push
      <4>2. SeqRange(tasks') = SeqRange(tasks) \cup {k} /\ Pool!Held' = Pool!Held
        BY <2>0, <3>2, <4>1, RangeOfAppend DEF Pool!Held
      <4>3. Outstanding' = Outstanding
        BY <3>3, <3>6, <4>2 DEF Outstanding
      <4> QED
        BY <2>1, <3>4, <4>1, <4>3 DEF listVars
    <3>7. CASE Callable(k[2]) /\ Pool!Refuse(t, k)
      <4>1. /\ stop /\ refused' = refused \cup {k}
            /\ UNCHANGED <<stop, tasks, pc, job, done>>
        BY <3>7 DEF Pool!Refuse
      <4>2. Pool!Held' = Pool!Held
        BY <4>1 DEF Pool!Held
      <4>3. k \in Outstanding /\ Outstanding' = Outstanding \ {k}
        BY <3>2, <3>3, <3>7, <4>1, <4>2 DEF Outstanding
      <4>4. listAlive
        <5>1. todo[t] # <<>>
          BY <2>7 DEF DistributeEnqueue
        <5>2. t \in Pool!Workers => pc[t] = "running"
          BY <5>1 DEF TypeOK
        <5> QED
          BY <2>l, <4>1, <5>1, <5>2 DEF LifeInv, Threads
      <4>5. Phase = "closing" /\ Phase' = Phase
        BY <3>4, <4>1, <4>4 DEF listVars
      <4>6. Abstract!Drop(k)
        BY <3>4, <4>1, <4>3, <4>5 DEF Abstract!Drop, Outstanding, listVars
      <4> QED
        BY <3>2, <4>6 DEF Tasks
    <3> QED
      BY <2>7, <3>1, <3>5, <3>6, <3>7 DEF DistributeEnqueue
  <2>8. ASSUME NEW w \in Pool!Workers, Pool!Take(w), UNCHANGED <<listVars, todo, sent>>
        PROVE  UNCHANGED Abstract!vars
    <3>1. /\ pc[w] = "ready" /\ tasks # <<>> /\ tasks' = Tail(tasks)
          /\ pc' = [pc EXCEPT ![w] = "running"] /\ job' = [job EXCEPT ![w] = Head(tasks)]
          /\ UNCHANGED <<stop, refused, done>>
      BY <2>8 DEF Pool!Take, Pool!PopFront
    <3>2. /\ pc'[w] = "running" /\ job'[w] = Head(tasks)
          /\ \A v \in Pool!Workers \ {w} : pc'[v] = pc[v] /\ job'[v] = job[v]
      BY <2>0, <3>1
    <3>3. Pool!Held' = Pool!Held \cup {Head(tasks)}
      BY <3>1, <3>2 DEF Pool!Held
    <3>4. SeqRange(tasks) = SeqRange(tasks') \cup {Head(tasks)}
      BY <2>0, <3>1, RangeOfTail
    <3>5. Outstanding' = Outstanding
      BY <2>8, <3>3, <3>4 DEF Outstanding, ToEnqueue
    <3> QED
      BY <2>1, <2>8, <3>1, <3>5 DEF listVars
  <2>9. ASSUME NEW w \in Pool!Workers, Pool!Finish(w), todo[w] = <<>>,
               UNCHANGED <<listVars, todo, sent>>
        PROVE  \E k \in Messages \X Tokens : Abstract!Deliver(k)
    <3>1. PICK k : k = job[w]
      OBVIOUS
    <3>2. /\ pc[w] = "running" /\ pc' = [pc EXCEPT ![w] = "ready"]
          /\ job' = [job EXCEPT ![w] = NoTask] /\ done' = done \cup {k}
          /\ UNCHANGED <<tasks, stop, refused>>
      BY <2>9, <3>1 DEF Pool!Finish, Pool!FinishedJob, Pool!queueVars
    <3>3. k \in Tasks /\ k \in Pool!Held
      BY <2>0, <3>1, <3>2 DEF TypeOK, Pool!TypeOK, Pool!Held
    <3>4. k \notin SeqRange(tasks)
      BY <3>3, WaitingOrTaken DEF DrainInv
    <3>5. k \notin ToEnqueue
      <4>1. k \in SeqRange(started)
        BY <3>3 DEF DrainInv
      <4>2. k \in Passed
        <5>1. tasks \in Seq(Tasks) /\ started \in Seq(Tasks) /\ accepted = started \o tasks
          BY DEF TypeOK, Pool!TypeOK, FifoInv
        <5>2. \A x \in DOMAIN started : x \in DOMAIN accepted /\ accepted[x] = started[x]
          BY <5>1
        <5> QED
          BY <4>1, <5>2 DEF Passed, SeqRange
      <4> QED
        BY <4>2, NotYetPassed DEF ToEnqueue
    <3>6. /\ pc'[w] = "ready" /\ \A v \in Pool!Workers \ {w} : pc'[v] = pc[v] /\ job'[v] = job[v]
      BY <2>0, <3>2
    <3>7. Pool!Held' = Pool!Held \ {k}
      <4>1. \A v \in Pool!Workers \ {w} : pc[v] = "running" => job[v] # k
        BY <3>1, <3>3, DistributeAssumption DEF OneHolder
      <4> QED
        BY <3>1, <3>2, <3>6, <4>1 DEF Pool!Held
    <3>8. k \in Outstanding /\ Outstanding' = Outstanding \ {k}
      BY <2>9, <3>2, <3>3, <3>4, <3>5, <3>7 DEF Outstanding, ToEnqueue
    <3>9. Abstract!Deliver(k)
      BY <2>9, <3>2, <3>8 DEF Abstract!Deliver, Outstanding, listVars
    <3> QED
      BY <3>3, <3>9 DEF Tasks
  <2>10. ASSUME UNCHANGED <<listVars, todo, sent, tasks, job, done, refused, stop>>,
                \A v \in Pool!Workers : pc'[v] = "running" <=> pc[v] = "running"
         PROVE  UNCHANGED Abstract!vars
    <3>1. Pool!Held' = Pool!Held
      BY <2>10 DEF Pool!Held
    <3>2. Outstanding' = Outstanding
      BY <2>10, <3>1 DEF Outstanding, ToEnqueue
    <3> QED
      BY <2>1, <2>10, <3>2 DEF listVars
  <2>11. ASSUME NEW w \in Pool!Workers, UNCHANGED <<listVars, todo, sent>>,
                Pool!Sleep(w) \/ Pool!Return(w) \/ Pool!SpuriousWakeup(w)
         PROVE  UNCHANGED Abstract!vars
    BY <2>0, <2>10, <2>11 DEF Pool!Sleep, Pool!Return, Pool!SpuriousWakeup, Pool!queueVars
  <2>12. ASSUME NEW t \in Threads, NotifyOne(t) PROVE UNCHANGED Abstract!vars
    BY <2>0, <2>10, <2>12 DEF NotifyOne, Pool!NotifyOne, Pool!Asleep, Pool!queueVars
  <2>13. CASE DestroyPool
    <3>1. UNCHANGED <<listVars, todo, sent>>
      BY <2>13 DEF DestroyPool
    <3>2. CASE Pool!DestroyBegin
      <4>1. ~stop /\ stop' /\ UNCHANGED <<tasks, pc, job, refused, done>> /\ listAlive
        BY <2>l, <3>2 DEF Pool!DestroyBegin
      <4>2. Outstanding' = Outstanding /\ Phase = "open" /\ Phase' = "closing"
        BY <2>2, <3>1, <4>1 DEF listVars
      <4>3. Abstract!Close
        BY <3>1, <4>1, <4>2 DEF Abstract!Close, Outstanding, listVars
      <4> QED
        BY <4>3 DEF Abstract!Next
    <3>3. CASE Pool!DestroyNotifyAll
      BY <2>0, <2>10, <3>1, <3>3 DEF Pool!DestroyNotifyAll, Pool!WokenByAll, Pool!Asleep,
         Pool!queueVars
    <3>4. CASE Pool!DestroyJoin
      BY <2>10, <3>1, <3>4 DEF Pool!DestroyJoin, Pool!queueVars
    <3> QED
      BY <2>13, <3>2, <3>3, <3>4 DEF DestroyPool
  <2>14. CASE DestroyList
    <3>1. /\ listAlive /\ owner = "destroyed" /\ ~listAlive' /\ callbackList' = <<>>
          /\ UNCHANGED <<todo, sent, poolVars>>
      BY <2>14 DEF DestroyList, MayDestroyList
    <3>2. /\ stop /\ \A w \in Pool!Workers : pc[w] = "exited"
          /\ \A t \in Threads : todo[t] = <<>>
      BY <2>l, <3>1 DEF LifeInv, TypeOK, Threads
    <3>3. Outstanding = {}
      BY <3>2 DEF Outstanding, ToEnqueue, SeqRange, Pool!Held, DrainInv
    <3>4. UNCHANGED <<Outstanding, Sent, done, refused, stop>> /\ SeqRange(callbackList') = {}
      BY <2>2, <3>1 DEF poolVars, SeqRange
    <3>5. Phase = "closing" /\ Phase' = "closed"
      BY <3>1, <3>2, <3>4
    <3>6. Abstract!Closed
      BY <3>3, <3>4, <3>5 DEF Abstract!Closed, Outstanding
    <3> QED
      BY <3>6 DEF Abstract!Next
  <2>15. CASE Destroyed \/ UNCHANGED vars
    BY <2>10, <2>15 DEF Destroyed, vars, poolVars
  <2> QED
    BY <2>4, <2>5, <2>6, <2>7, <2>8, <2>9, <2>11, <2>12, <2>13, <2>14, <2>15
    DEF Next, WorkerStep, SpuriousWakeup, Abstract!Next
<1> QED
  BY <1>1, <1>2, TypeCorrect, SentCorrect, LoopCorrect, FifoCorrect, OrderCorrect, LifeCorrect,
     DrainCorrect, HolderCorrect, PTL DEF Spec, PubSubSpec, Abstract!Spec
=============================================================================
