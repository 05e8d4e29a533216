------------------------------ MODULE Pipeline ------------------------------
(***************************************************************************)
(* pipeline and threadInfo (subModules/pipeline/pipeline.hpp, threadInfo.h)*)
(* Process workers turn the jobs of queue_process into products in         *)
(* queue_output; callback workers give products to outputCallback, and     *)
(* getProduct takes them too.  A manager hires and fires workers: to fire  *)
(* one it sets its quit flag and notifies all, again and again, without    *)
(* the mutex, until the worker has exited.  Each mutex is held across      *)
(* steps only by a worker that found its wait predicate false and is not   *)
(* yet asleep ("decided"), mutex_outputCallback by setCallback and by a    *)
(* running callback.                                                       *)
(***************************************************************************)
EXTENDS Integers, Sequences, FiniteSets

CONSTANTS ProcessWorkers, CallbackWorkers,  \* the workers that can be hired
          Jobs,          \* jobs, each added at most once; a product is its job
          Counts,        \* arguments of the set...WorkerCount functions
          NoJob,
          DelayCoversSleep   \* TRUE: the 100 ms of ~threadInfo are enough for a
                             \* worker that found its predicate false to fall asleep

ASSUME PipelineAssumption == /\ ProcessWorkers \cap CallbackWorkers = {}
                             /\ NoJob \notin Jobs
                             /\ Counts \subseteq Nat
                             /\ DelayCoversSleep \in BOOLEAN

Workers == ProcessWorkers \cup CallbackWorkers
Kinds == {"process", "callback"}
Pool(kind) == IF kind = "process" THEN ProcessWorkers ELSE CallbackWorkers

VARIABLES
  queueProcess, queueOutput,  \* queue_process, queue_output
  callback,    \* outputCallback is not null
  writer,      \* setCallback: "none", or what it is about to do
  place,       \* worker -> where its thread is, "none" if not hired
  status,      \* worker -> threadInfo::status
  quit,        \* worker -> threadInfo::quit
  hand,        \* worker -> the job or product it holds
  staff,       \* kind -> processWorkerList, callbackWorkerList
  mgr,         \* the manager's place in hireFireWorker, its list and count
  phase,       \* the destructor: "alive", ..., "destroyed"
  added,       \* history: jobs given to addJob
  delivered,   \* history: products that the callback returned from, or
               \* that getProduct took
  discarded    \* history: jobs and products the destructor threw away

queues == <<queueProcess, queueOutput>>
cbVars == <<callback, writer>>
workerVars == <<place, status, quit, hand>>
mgrVars == <<staff, mgr, phase>>
history == <<added, delivered, discarded>>
vars == <<queues, cbVars, workerVars, mgrVars, history>>

SeqRange(s) == {s[i] : i \in DOMAIN s}

Places == {"none", "top", "lock", "decided", "asleep", "process", "pushed",
           "notify", "took", "call", "fail", "exited"}

TypeOK ==
  /\ queueProcess \in Seq(Jobs) /\ queueOutput \in Seq(Jobs)
  /\ callback \in BOOLEAN
  /\ writer \in {"none", "set", "reset"}
  /\ place \in [Workers -> Places]
  /\ status \in [Workers -> {"IDLE", "BUSY", "EXITED"}]
  /\ quit \in [Workers -> BOOLEAN]
  /\ hand \in [Workers -> Jobs \cup {NoJob}]
  /\ \A w \in Workers : hand[w] # NoJob <=> place[w] \in {"process", "took", "call", "fail"}
  /\ staff \in [Kinds -> Seq(Workers)]
  /\ mgr \in [at : {"idle", "hire", "enlist", "fire", "firing", "notify"},
              kind : Kinds, count : Nat]
  /\ phase \in {"alive", "process", "output", "destroyed"}
  /\ \A k \in Kinds : \A w \in SeqRange(staff[k]) : w \in Pool(k) /\ place[w] # "none"

\* The constructor has hired one worker of each kind.
Init ==
  /\ queueProcess = <<>> /\ queueOutput = <<>>
  /\ callback = FALSE /\ writer = "none"
  /\ \E p \in ProcessWorkers, c \in CallbackWorkers :
       /\ staff = [k \in Kinds |-> IF k = "process" THEN <<p>> ELSE <<c>>]
       /\ place = [w \in Workers |-> IF w \in {p, c} THEN "top" ELSE "none"]
  /\ status = [w \in Workers |-> "IDLE"]
  /\ quit = [w \in Workers |-> FALSE]
  /\ hand = [w \in Workers |-> NoJob]
  /\ mgr = [at |-> "idle", kind |-> "process", count |-> 0]
  /\ phase = "alive"
  /\ added = {} /\ delivered = {} /\ discarded = {}

MutexProcessFree == \A w \in ProcessWorkers : place[w] # "decided"
MutexOutputFree == \A w \in CallbackWorkers : place[w] # "decided"

Go(w, from, to) == place[w] = from /\ place' = [place EXCEPT ![w] = to]

\* notify_one among the workers of S.
NotifyOne(S) ==
  LET Waiting == {w \in S : place[w] = "asleep"}
  IN  IF Waiting = {}
      THEN place' = place
      ELSE \E w \in Waiting : place' = [place EXCEPT ![w] = "lock"]
-----------------------------------------------------------------------------
(* Both kinds of worker: the head of the loop, the wait, the exit.         *)

LoopHead(w) ==
  /\ place[w] = "top"
  /\ IF quit[w]
     THEN Go(w, "top", "exited") /\ status' = [status EXCEPT ![w] = "EXITED"]
     ELSE Go(w, "top", "lock") /\ status' = [status EXCEPT ![w] = "IDLE"]
  /\ UNCHANGED <<queues, cbVars, quit, hand, mgrVars, history>>

Sleep(w) ==
  /\ Go(w, "decided", "asleep")
  /\ UNCHANGED <<queues, cbVars, status, quit, hand, mgrVars, history>>

SpuriousWakeup(w) ==
  /\ Go(w, "asleep", "lock")
  /\ UNCHANGED <<queues, cbVars, status, quit, hand, mgrVars, history>>

\* The predicate is false: keep the mutex until asleep.
Decide(w) ==
  /\ Go(w, "lock", "decided")
  /\ UNCHANGED <<queues, cbVars, status, quit, hand, mgrVars, history>>

Leave(w) ==
  /\ Go(w, "lock", "exited")
  /\ status' = [status EXCEPT ![w] = "EXITED"]
  /\ UNCHANGED <<queues, cbVars, quit, hand, mgrVars, history>>
-----------------------------------------------------------------------------
(* processWorkerJob                                                        *)

StatusIdleWhileProcessing == "IDLE"
StatusWhileProcessing == "BUSY"

TakeJob(w) ==
  /\ Go(w, "lock", "process")
  /\ status' = [status EXCEPT ![w] = StatusWhileProcessing]
  /\ hand' = [hand EXCEPT ![w] = Head(queueProcess)]
  /\ queueProcess' = Tail(queueProcess)
  /\ UNCHANGED <<queueOutput, cbVars, quit, mgrVars, history>>

ProcessWait(w) ==
  /\ place[w] = "lock" /\ MutexProcessFree
  /\ IF quit[w] THEN Leave(w)
     ELSE IF queueProcess # <<>> THEN TakeJob(w)
     ELSE Decide(w)

\* process() returned.
PushProduct(w) ==
  /\ Go(w, "process", "pushed")
  /\ MutexOutputFree
  /\ queueOutput' = Append(queueOutput, hand[w])
  /\ hand' = [hand EXCEPT ![w] = NoJob]
  /\ UNCHANGED <<queueProcess, cbVars, status, quit, mgrVars, history>>

\* outputCallback is read without mutex_outputCallback: while setCallback
\* stores, either value may be seen.
LookForCallback(w) ==
  /\ \/ callback /\ Go(w, "pushed", "notify")
     \/ ~callback /\ Go(w, "pushed", "top")
     \/ writer # "none" /\ (Go(w, "pushed", "notify") \/ Go(w, "pushed", "top"))
  /\ UNCHANGED <<queues, cbVars, status, quit, hand, mgrVars, history>>

NotifyFinishLost(w) ==
  Go(w, "notify", "top") /\ UNCHANGED <<queues, cbVars, status, quit, hand, mgrVars, history>>

NotifyFinish(w) ==
  /\ place[w] = "notify"
  /\ LET Waiting == {c \in CallbackWorkers : place[c] = "asleep"}
     IN  \/ Waiting = {} /\ place' = [place EXCEPT ![w] = "top"]
         \/ \E c \in Waiting : place' = [place EXCEPT ![w] = "top", ![c] = "lock"]
  /\ UNCHANGED <<queues, cbVars, status, quit, hand, mgrVars, history>>

ProcessStep(w) == \/ LoopHead(w) \/ ProcessWait(w) \/ Sleep(w) \/ PushProduct(w)
                  \/ LookForCallback(w) \/ NotifyFinish(w)
-----------------------------------------------------------------------------
(* callbackJob                                                             *)

TakeProduct(c) ==
  /\ Go(c, "lock", "took")
  /\ status' = [status EXCEPT ![c] = "BUSY"]
  /\ hand' = [hand EXCEPT ![c] = Head(queueOutput)]
  /\ queueOutput' = Tail(queueOutput)
  /\ UNCHANGED <<queueProcess, cbVars, quit, mgrVars, history>>

\* The predicate is false while setCallback holds mutex_outputCallback.
CallbackWait(c) ==
  /\ place[c] = "lock" /\ MutexOutputFree
  /\ IF writer = "none" /\ quit[c] THEN Leave(c)
     ELSE IF writer = "none" /\ queueOutput # <<>> /\ callback THEN TakeProduct(c)
     ELSE Decide(c)

Call(c) ==
  /\ writer = "none"
  /\ Go(c, "took", IF callback THEN "call" ELSE "fail")
  /\ UNCHANGED <<queues, cbVars, status, quit, hand, mgrVars, history>>

Returned(c) ==
  /\ Go(c, "call", "top")
  /\ delivered' = delivered \cup {hand[c]}
  /\ hand' = [hand EXCEPT ![c] = NoJob]
  /\ UNCHANGED <<queues, cbVars, status, quit, mgrVars, added, discarded>>

PutBackForgotten(c) == queueOutput
PutBack(c) == Append(queueOutput, hand[c])

\* The callback was reset after the product was taken.
CallbackFail(c) ==
  /\ Go(c, "fail", "top")
  /\ MutexOutputFree
  /\ queueOutput' = PutBack(c)
  /\ hand' = [hand EXCEPT ![c] = NoJob]
  /\ UNCHANGED <<queueProcess, cbVars, status, quit, mgrVars, history>>

CallbackStep(c) == \/ LoopHead(c) \/ CallbackWait(c) \/ Sleep(c)
                   \/ Call(c) \/ Returned(c) \/ CallbackFail(c)
-----------------------------------------------------------------------------
(* addJob, getProduct and setCallback, until the destructor begins.        *)

AddJob(j) ==
  /\ phase = "alive"
  /\ j \notin added
  /\ MutexProcessFree
  /\ queueProcess' = Append(queueProcess, j)
  /\ added' = added \cup {j}
  /\ NotifyOne(ProcessWorkers)
  /\ UNCHANGED <<queueOutput, cbVars, status, quit, hand, mgrVars, delivered, discarded>>

GetProduct ==
  /\ phase = "alive"
  /\ MutexOutputFree
  /\ queueOutput # <<>>
  /\ delivered' = delivered \cup {Head(queueOutput)}
  /\ queueOutput' = Tail(queueOutput)
  /\ UNCHANGED <<queueProcess, cbVars, workerVars, mgrVars, added, discarded>>

SetCallback(b) ==
  /\ phase = "alive"
  /\ writer = "none"
  /\ \A c \in CallbackWorkers : place[c] # "call"
  /\ writer' = b
  /\ UNCHANGED <<callback, queues, workerVars, mgrVars, history>>

SetCallbackStore ==
  /\ writer # "none"
  /\ callback' = (writer = "set")
  /\ writer' = "none"
  /\ UNCHANGED <<queues, workerVars, mgrVars, history>>
-----------------------------------------------------------------------------
(* hireFireWorker and ~threadInfo, by one manager.                         *)

\* Bound: no more workers than there are names for them.
SetWorkerCount(kind, n) ==
  /\ phase = "alive" /\ mgr.at = "idle"
  /\ n <= Cardinality(Pool(kind))
  /\ mgr' = [at |-> "hire", kind |-> kind, count |-> n]
  /\ UNCHANGED <<staff, phase, queues, cbVars, workerVars, history>>

\* The worker runs before it is on the list.
Hire ==
  /\ mgr.at = "hire"
  /\ Len(staff[mgr.kind]) < mgr.count
  /\ \E w \in Pool(mgr.kind) :
       /\ Go(w, "none", "top")
       /\ status' = [status EXCEPT ![w] = "IDLE"]
       /\ quit' = [quit EXCEPT ![w] = FALSE]
  /\ mgr' = [mgr EXCEPT !.at = "enlist"]
  /\ UNCHANGED <<staff, phase, queues, cbVars, hand, history>>

Enlist ==
  /\ mgr.at = "enlist"
  /\ \E w \in Pool(mgr.kind) \ SeqRange(staff[mgr.kind]) :
       /\ place[w] # "none"
       /\ staff' = [staff EXCEPT ![mgr.kind] = Append(@, w)]
  /\ mgr' = [mgr EXCEPT !.at = "hire"]
  /\ UNCHANGED <<phase, queues, cbVars, workerVars, history>>

\* The early return compares with callbackWorkerList, whatever the list is.
HireDone ==
  /\ mgr.at = "hire"
  /\ Len(staff[mgr.kind]) >= mgr.count
  /\ mgr' = [mgr EXCEPT !.at = IF Len(staff["callback"]) = mgr.count THEN "idle" ELSE "fire"]
  /\ UNCHANGED <<staff, phase, queues, cbVars, workerVars, history>>

Fired == Head(staff[mgr.kind])

FireNext ==
  /\ mgr.at = "fire"
  /\ mgr' = [mgr EXCEPT !.at = IF Len(staff[mgr.kind]) > mgr.count THEN "firing" ELSE "idle"]
  /\ UNCHANGED <<staff, phase, queues, cbVars, workerVars, history>>

FireQuitOnce ==
  /\ mgr.at = "firing"
  /\ status[Fired] # "EXITED" /\ ~quit[Fired]
  /\ quit' = [quit EXCEPT ![Fired] = TRUE]
  /\ mgr' = [mgr EXCEPT !.at = "notify"]
  /\ UNCHANGED <<staff, phase, queues, cbVars, place, status, hand, history>>

FireQuit ==
  /\ mgr.at = "firing"
  /\ status[Fired] # "EXITED"
  /\ quit' = [quit EXCEPT ![Fired] = TRUE]
  /\ mgr' = [mgr EXCEPT !.at = "notify"]
  /\ UNCHANGED <<staff, phase, queues, cbVars, place, status, hand, history>>

FireNotifiesNobody(S) == place' = place
FireNotifiesFired(S) == place' = [place EXCEPT ![Fired] = IF @ = "asleep" THEN "lock" ELSE @]
FireNotifies(S) ==
  place' = [w \in Workers |-> IF w \in S /\ place[w] = "asleep" THEN "lock" ELSE place[w]]

FireNotify ==
  /\ mgr.at = "notify"
  /\ DelayCoversSleep => place[Fired] # "decided"
  /\ FireNotifies(Pool(mgr.kind))
  /\ mgr' = [mgr EXCEPT !.at = "firing"]
  /\ UNCHANGED <<staff, phase, queues, cbVars, status, quit, hand, history>>

FireJoinKeepsEntry ==
  /\ mgr.at = "firing" /\ status[Fired] = "EXITED"
  /\ place' = [place EXCEPT ![Fired] = "none"]
  /\ mgr' = [mgr EXCEPT !.at = "fire"]
  /\ UNCHANGED <<staff, phase, queues, cbVars, status, quit, hand, history>>

FireJoin ==
  /\ mgr.at = "firing"
  /\ status[Fired] = "EXITED"
  /\ place' = [place EXCEPT ![Fired] = "none"]
  /\ staff' = [staff EXCEPT ![mgr.kind] = Tail(@)]
  /\ mgr' = [mgr EXCEPT !.at = "fire"]
  /\ UNCHANGED <<phase, queues, cbVars, status, quit, hand, history>>

HireFire == Hire \/ Enlist \/ HireDone \/ FireNext \/ FireQuit \/ FireNotify \/ FireJoin
-----------------------------------------------------------------------------
(* ~pipeline: clear the input, fire the process workers, clear the output, *)
(* fire the callback workers.                                              *)

CallbackWorkersFirst == <<"callback", "process">>
FireOrder == <<"process", "callback">>

DestroyInput ==
  /\ phase = "alive" /\ mgr.at = "idle" /\ writer = "none"
  /\ MutexProcessFree
  /\ phase' = "process"
  /\ discarded' = discarded \cup SeqRange(queueProcess)
  /\ queueProcess' = <<>>
  /\ mgr' = [at |-> "hire", kind |-> FireOrder[1], count |-> 0]
  /\ UNCHANGED <<staff, queueOutput, cbVars, workerVars, added, delivered>>

DestroyOutput ==
  /\ phase = "process" /\ mgr.at = "idle"
  /\ MutexOutputFree
  /\ phase' = "output"
  /\ discarded' = discarded \cup SeqRange(queueOutput)
  /\ queueOutput' = <<>>
  /\ mgr' = [at |-> "hire", kind |-> FireOrder[2], count |-> 0]
  /\ UNCHANGED <<staff, queueProcess, cbVars, workerVars, added, delivered>>

DestroyEnd ==
  /\ phase = "output" /\ mgr.at = "idle"
  /\ phase' = "destroyed"
  /\ UNCHANGED <<staff, mgr, queues, cbVars, workerVars, history>>

Destroy == DestroyOutput \/ DestroyEnd

Destroyed == phase = "destroyed" /\ UNCHANGED vars
-----------------------------------------------------------------------------
Next ==
  \/ \E w \in ProcessWorkers : ProcessStep(w)
  \/ \E c \in CallbackWorkers : CallbackStep(c)
  \/ \E w \in Workers : SpuriousWakeup(w)
  \/ \E j \in Jobs : AddJob(j)
  \/ GetProduct
  \/ \E b \in {"set", "reset"} : SetCallback(b)
  \/ SetCallbackStore
  \/ \E kind \in Kinds, n \in Counts : SetWorkerCount(kind, n)
  \/ HireFire
  \/ DestroyInput \/ Destroy
  \/ Destroyed

Spec == Init /\ [][Next]_vars

(* Fairness: threads are scheduled, process() and the callback return, and *)
(* a thread that tries for a mutex that is free again and again gets it;   *)
(* a setCallback and a change of the staff that have begun go on.          *)
Fairness ==
  /\ \A w \in ProcessWorkers :
       /\ WF_vars(LoopHead(w)) /\ WF_vars(Sleep(w))
       /\ WF_vars(LookForCallback(w)) /\ WF_vars(NotifyFinish(w))
       /\ SF_vars(ProcessWait(w)) /\ SF_vars(PushProduct(w))
  /\ \A c \in CallbackWorkers :
       /\ WF_vars(LoopHead(c)) /\ WF_vars(Sleep(c)) /\ WF_vars(Returned(c))
       /\ SF_vars(CallbackWait(c)) /\ SF_vars(Call(c)) /\ SF_vars(CallbackFail(c))
  /\ WF_vars(SetCallbackStore) /\ SF_vars(HireFire) /\ SF_vars(Destroy)

FairSpec == Spec /\ Fairness
-----------------------------------------------------------------------------
Hands == {hand[w] : w \in Workers} \ {NoJob}

\* What a getQueueCount sees that no change of the staff overlaps.
NothingPending == queueProcess = <<>>
NothingProcessing == \A w \in SeqRange(staff["process"]) : status[w] # "BUSY"
Queried == mgr.at = "idle" /\ MutexProcessFree /\ MutexOutputFree

(* From addJob on a job is in exactly one place: in a queue, with one      *)
(* worker, delivered, or thrown away by the destructor.  Firing a worker   *)
(* and a callback reset in mid-flight lose and double nothing.             *)
JobsConserved ==
  /\ added = SeqRange(queueProcess) \cup SeqRange(queueOutput) \cup Hands
               \cup delivered \cup discarded
  /\ Len(queueProcess) + Len(queueOutput) + Cardinality({w \in Workers : hand[w] # NoJob})
       + Cardinality(delivered) + Cardinality(discarded)
       = Cardinality(added)

Staying == {w \in ProcessWorkers : place[w] # "none" /\ ~quit[w]}

(* A job never waits while all workers that stay are blocked, unless the   *)
(* notify_all of ~threadInfo is still to come: a worker that is being      *)
(* fired may swallow the notify_one of addJob.                             *)
JobsReachAWorker ==
  queueProcess # <<>> /\ Staying # {} /\ (\A w \in Staying : place[w] \in {"decided", "asleep"})
    => mgr.at = "notify" /\ mgr.kind = "process"

(* getQueueCount with nothing pending and nothing processing means that    *)
(* every job has become a product, also the one just taken (factory.cpp    *)
(* then collects the products).                                            *)
IdleMeansProduced ==
  Queried /\ NothingPending /\ NothingProcessing => \A w \in ProcessWorkers : hand[w] = NoJob

(* The destructor leaves no worker behind that would go on with the        *)
(* destroyed queues and mutexes.                                           *)
AllFiredWhenDestroyed == phase = "destroyed" => \A w \in Workers : place[w] = "none"

(* A change of the staff ends: ~threadInfo repeats flag and notification   *)
(* until the worker has heard one, busy or asleep or in between; calls of  *)
(* setCallback, which make the wait predicate false, must end too.         *)
StaffingEnds == <>[](writer = "none") => []<>(mgr.at = "idle")

StaffIsKept ==
  /\ [](phase \in {"alive", "process"} => staff["callback"] # <<>>)
  /\ <>[](phase = "alive" => staff["process"] # <<>>)

Settled == callback /\ writer = "none"
Unfinished == queueProcess # <<>> \/ \E w \in ProcessWorkers : place[w] = "process"
GoneOut(j) == j \in delivered \cup discarded \/ phase = "destroyed"

OneOfEachKind == Cardinality(ProcessWorkers) = 1 /\ Cardinality(CallbackWorkers) = 1

(* Once setCallback has returned for the last time and left a callback,    *)
(* the next product takes with it all that were finished before: while     *)
(* workers of both kinds are kept, every job is delivered, or thrown away  *)
(* by the destructor, at the latest with the queue itself (callback.cpp).  *)
(* Without a next product those stay behind, as setCallback notifies       *)
(* nobody (line 122).  With several workers of a kind one that is being    *)
(* fired may take a colleague's notification with it.                      *)
JobsComeOut ==
  OneOfEachKind /\ StaffIsKept =>
    \A j \in Jobs : []([]Settled /\ Unfinished /\ j \in added => <>GoneOut(j))

InHands(S) == {hand[w] : w \in S} \ {NoJob}

Closing == CASE phase = "alive"   -> "open"
             [] phase = "process" -> "closing"
             [] phase = "output"  -> "clearing"
             [] OTHER             -> "closed"

Abstract == INSTANCE Factory WITH
  waiting <- queueProcess,
  making  <- InHands(ProcessWorkers),
  ready   <- queueOutput,
  offered <- InHands(CallbackWorkers),
  out     <- delivered,
  lost    <- discarded,
  phase   <- Closing

(* The pipeline implements the abstract factory: whatever is hired, fired, *)
(* set or reset meanwhile, jobs are begun in order, are never begun twice, *)
(* and are thrown away by the destructor only, which clears the output     *)
(* when no process worker can add to it any more (lines 40-59).            *)
FactorySpec == Abstract!Spec
=============================================================================
