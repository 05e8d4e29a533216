------------------------- MODULE MessageDistribute -------------------------
(***************************************************************************)
(* messageDistribute (subModules/messageDistributor/messageDistribute.h):  *)
(* a list of callbacks under a mutex, and a thread_pool that runs them.    *)
(* distribute copies the list under the lock, releases it, and enqueues    *)
(* one task per callback, so registrations, removals, other distributes    *)
(* and the running callbacks come between its steps.  A callback may call  *)
(* every operation itself.                                                 *)
(***************************************************************************)
EXTENDS Integers, Sequences, FiniteSets

CONSTANTS PoolSize, Clients, NoTask,  \* see ThreadPool
          Messages,                   \* values given to distribute, each once
          Tokens,                     \* callbacks that may be registered
          EmptyTokens                 \* those that are empty std::functions

\* A task calls a copy of one callback with a copy of one message.
Tasks == Messages \X Tokens

VARIABLES
  callbackList,  \* callbackList: tokens in order of registration
  listAlive,     \* callbackList and listLock are not destroyed yet
  todo,          \* thread -> tasks its distribute has still to enqueue
  made,          \* history: tokens that addUpdateCallback returned
  sent,          \* history: the distribute calls, in order of their copies
  tasks, stop, pc, job, notifying, owner, futures, refused, accepted,
  started, done  \* the pool_, see ThreadPool

Pool == INSTANCE ThreadPool

ASSUME DistributeAssumption == /\ PoolSize \in Nat
                               /\ IsFiniteSet(Clients)
                               /\ Clients \cap Pool!Workers = {}
                               /\ NoTask \notin Tasks
                               /\ EmptyTokens \subseteq Tokens

Threads == Clients \cup Pool!Workers

listVars == <<callbackList, listAlive, made>>
poolVars == <<tasks, stop, pc, job, notifying, owner, futures, refused,
              accepted, started, done>>
vars == <<listVars, todo, sent, poolVars>>

SeqRange(s) == {s[i] : i \in DOMAIN s}

TypeOK ==
  /\ callbackList \in Seq(Tokens)
  /\ listAlive \in BOOLEAN
  /\ todo \in [Threads -> Seq(Tasks)]
  /\ made \subseteq Tokens
  /\ sent \in Seq([msg : Messages, by : Threads, to : Seq(Tokens)])
  /\ SeqRange(callbackList) \subseteq made
  /\ \A w \in Pool!Workers : todo[w] # <<>> => pc[w] = "running"
  /\ Pool!TypeOK

Init ==
  /\ callbackList = <<>>
  /\ listAlive = TRUE
  /\ todo = [t \in Threads |-> <<>>]
  /\ made = {}
  /\ sent = <<>>
  /\ Pool!Init
-----------------------------------------------------------------------------
(* The callers: a client, or a running callback.                           *)

MayCall(t) == Pool!MayCall(t) /\ todo[t] = <<>>

AddUpdateCallback(t, tok) ==
  /\ MayCall(t)
  /\ tok \notin made
  /\ callbackList' = Append(callbackList, tok)
  /\ made' = made \cup {tok}
  /\ UNCHANGED <<listAlive, todo, sent, poolVars>>

Erased(list, i) == [j \in 1 .. Len(list) - 1 |-> list[IF j < i THEN j ELSE j + 1]]

\* A token that is not in the list leaves it as it is.
RemoveUpdateCallback(t, tok) ==
  /\ MayCall(t)
  /\ \E i \in DOMAIN callbackList :
       /\ callbackList[i] = tok
       /\ callbackList' = Erased(callbackList, i)
  /\ UNCHANGED <<listAlive, made, todo, sent, poolVars>>

Clear(t) ==
  /\ MayCall(t)
  /\ callbackList' = <<>>
  /\ UNCHANGED <<listAlive, made, todo, sent, poolVars>>

TasksForReversed(m, list) ==
  [i \in DOMAIN list |-> <<m, list[Len(list) + 1 - i]>>]
TasksFor(m, list) == [i \in DOMAIN list |-> <<m, list[i]>>]

DistributeCopy(t, m) ==
  /\ MayCall(t)
  /\ \A i \in DOMAIN sent : sent[i].msg # m
  /\ todo' = [todo EXCEPT ![t] = TasksFor(m, callbackList)]
  /\ sent' = Append(sent, [msg |-> m, by |-> t, to |-> callbackList])
  /\ UNCHANGED <<listVars, poolVars>>

Callable(tok) == tok \notin EmptyTokens

\* One turn of the loop; its enqueue ends with the pool's NotifyOne.
DistributeEnqueue(t) ==
  /\ todo[t] # <<>>
  /\ t \notin notifying
  /\ LET k == Head(todo[t])
     IN  \/ ~Callable(k[2]) /\ UNCHANGED poolVars
         \/ Callable(k[2]) /\ Pool!Push(t, k) /\ UNCHANGED futures
         \/ Callable(k[2]) /\ Pool!Refuse(t, k)
  /\ todo' = [todo EXCEPT ![t] = Tail(@)]
  /\ UNCHANGED <<listVars, sent>>
-----------------------------------------------------------------------------
(* The pool's own steps.  A callback returns, or throws into the catch-all *)
(* handler of its task, when it is not inside a call.                      *)

WorkerStep(w) ==
  /\ \/ Pool!Sleep(w) \/ Pool!Take(w) \/ Pool!Return(w)
     \/ Pool!Finish(w) /\ todo[w] = <<>>
  /\ UNCHANGED <<listVars, todo, sent>>

SpuriousWakeup(w) == Pool!SpuriousWakeup(w) /\ UNCHANGED <<listVars, todo, sent>>

NotifyOne(t) == Pool!NotifyOne(t) /\ UNCHANGED <<listVars, todo, sent>>
-----------------------------------------------------------------------------
(* The destructor: members go in the reverse order of their declaration,   *)
(* pool_ first.  Its caller guarantees that no client is inside a call.    *)

DestroyPool ==
  /\ \/ Pool!DestroyBegin /\ \A c \in Clients : todo[c] = <<>>
     \/ Pool!DestroyNotifyAll
     \/ Pool!DestroyJoin
  /\ UNCHANGED <<listVars, todo, sent>>

MayDestroyListFirst == owner # "alive"
MayDestroyList == owner = "destroyed"

DestroyList ==
  /\ listAlive
  /\ MayDestroyList
  /\ listAlive' = FALSE
  /\ callbackList' = <<>>
  /\ UNCHANGED <<made, todo, sent, poolVars>>

Destroyed == ~listAlive /\ owner = "destroyed" /\ UNCHANGED vars
-----------------------------------------------------------------------------
Next ==
  \/ \E t \in Threads :
       \/ \E tok \in Tokens : AddUpdateCallback(t, tok) \/ RemoveUpdateCallback(t, tok)
       \/ Clear(t)
       \/ \E m \in Messages : DistributeCopy(t, m)
       \/ DistributeEnqueue(t)
       \/ NotifyOne(t)
  \/ \E w \in Pool!Workers : WorkerStep(w) \/ SpuriousWakeup(w)
  \/ DestroyPool
  \/ DestroyList
  \/ Destroyed

Spec == Init /\ [][Next]_vars

(* As for the pool; a distribute that began goes on to its end, and so     *)
(* does a destructor.                                                      *)
Fairness ==
  /\ \A w \in Pool!Workers : WF_vars(WorkerStep(w))
  /\ \A t \in Threads : WF_vars(NotifyOne(t)) /\ WF_vars(DistributeEnqueue(t))
  /\ WF_vars(DestroyPool /\ stop)
  /\ WF_vars(DestroyList)

LiveSpec == Spec /\ Fairness
-----------------------------------------------------------------------------
(* The list and its lock are destroyed only when no callback runs, since a *)
(* callback may still use them (line 83 declares pool_ last).              *)
MembersOutliveCallbacks ==
  ~listAlive => /\ \A w \in Pool!Workers : pc[w] = "exited"
                /\ \A t \in Threads : todo[t] = <<>>

\* Position of a task in its sender's program: the call, then the callback.
Call(k) == CHOOSE i \in DOMAIN sent : sent[i].msg = k[1]
Place(k) == CHOOSE j \in DOMAIN sent[Call(k)].to : sent[Call(k)].to[j] = k[2]

(* What one thread distributes is begun in the order in which it was       *)
(* distributed, and for one message in the order of registration, whatever *)
(* other threads put in between.                                           *)
StartOrder ==
  \A i, j \in DOMAIN started :
    i < j /\ sent[Call(started[i])].by = sent[Call(started[j])].by
      => \/ Call(started[i]) < Call(started[j])
         \/ Call(started[i]) = Call(started[j]) /\ Place(started[i]) < Place(started[j])

(* After the destructor every callback that a client's distribute saw has  *)
(* run; of a distribute made by a callback, the first few have run and     *)
(* only a tail, begun after stop_ was set, was refused.                    *)
NothingLeftBehind ==
  ~listAlive =>
    \A i \in DOMAIN sent :
      LET Task(j) == <<sent[i].msg, sent[i].to[j]>>
          Owed == {j \in DOMAIN sent[i].to : sent[i].to[j] \notin EmptyTokens}
      IN  /\ \A j \in Owed : Task(j) \in done \cup refused
          /\ sent[i].by \in Clients => \A j \in Owed : Task(j) \in done
          /\ \A j, l \in Owed : j < l /\ Task(l) \in done => Task(j) \in done

ToEnqueue == {k \in UNION {SeqRange(todo[t]) : t \in Threads} : k[2] \notin EmptyTokens}

(* The distributor implements the abstract publisher.                      *)
Abstract == INSTANCE PubSub WITH
  registered <- SeqRange(callbackList),
  published  <- {sent[i].msg : i \in DOMAIN sent},
  owed       <- ToEnqueue \cup SeqRange(tasks) \cup Pool!Held,
  got        <- done,
  dropped    <- refused,
  phase      <- IF ~stop THEN "open" ELSE IF listAlive THEN "closing" ELSE "closed"

PubSubSpec == Abstract!Spec
PubSubLiveSpec == Abstract!LiveSpec
=============================================================================
