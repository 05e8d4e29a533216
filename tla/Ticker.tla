------------------------------- MODULE Ticker -------------------------------
(***************************************************************************)
(* periodicWork and its observers (subModules/periodic_work/periodicWork.h)*)
(* The thread side, which PeriodicWork shows to implement PeriodicTask, is *)
(* that specification here; the member tickObservers_ is the distributor   *)
(* of MessageDistribute, used by the worker, by the user, and by callbacks *)
(* and observers themselves.  Its clients are two threads, its messages    *)
(* the ticks, numbered, and its tokens the observers.  connectPipeline     *)
(* registers an observer that adds a job to a pipeline it has only a raw   *)
(* pointer to.  Actions and variables of the distributor keep their names; *)
(* what begins with Ticker is the composition's own.                       *)
(***************************************************************************)
EXTENDS MessageDistribute

CONSTANTS MaxLag,        \* maxLag_
          Worker, User,  \* the worker thread, and the thread that owns the object
          Ticks,         \* bound: ticks that are executed
          Feeders        \* the observers that connectPipeline adds

ASSUME TickerAssumption == /\ MaxLag \in Nat
                           /\ Clients = {Worker, User} /\ Worker # User
                           /\ Ticks \in Nat /\ Messages = 1 .. Ticks
                           /\ Feeders \subseteq Tokens \ EmptyTokens

VARIABLES
  mode, due, busy,  \* see PeriodicTask
  dying,            \* ~periodicWork was called
  pipe,             \* the pipeline is not destroyed
  fed               \* history: the jobs it was given, as <<tick, observer>>

Task == INSTANCE PeriodicTask

taskVars == <<mode, due, busy>>
tickerVars == <<taskVars, dying, pipe, fed, vars>>

TickerInit == /\ Task!Init
              /\ dying = FALSE /\ pipe = TRUE /\ fed = <<>>
              /\ Init

Of(i) == {<<sent[i].msg, o>> : o \in SeqRange(sent[i].to) \ EmptyTokens}
Owed == UNION {Of(i) : i \in DOMAIN sent}
Feeds(S) == {k \in S : k[2] \in Feeders}

TickerTypeOK ==
  /\ mode \in {"stopped", "running", "stopping"}
  /\ due \in 0 .. MaxLag + 1
  /\ busy \in {"no", "taken", "callback", "observers"}
  /\ dying \in BOOLEAN /\ pipe \in BOOLEAN
  /\ fed \in Seq(Tasks)
  /\ TypeOK
-----------------------------------------------------------------------------
(* The threads of periodicWork; the worker distributes, which takes steps. *)

UserIsFree == ~dying /\ MayCall(User)

StartStop == /\ UserIsFree
             /\ Task!Start \/ Task!Stop
             /\ UNCHANGED <<dying, pipe, fed, vars>>

TimerTick == Task!Tick /\ UNCHANGED <<dying, pipe, fed, vars>>

StartTick == /\ Len(sent) < Ticks
             /\ Task!Take
             /\ UNCHANGED <<dying, pipe, fed, vars>>

Joined == Task!Stopped /\ UNCHANGED <<dying, pipe, fed, vars>>

CallCallback == Task!Call /\ UNCHANGED <<dying, pipe, fed, vars>>

\* The callback, inside no call of its own, has returned, or there is none.
Distribute == /\ Task!Observe
              /\ DistributeCopy(Worker, Len(sent) + 1)
              /\ UNCHANGED <<dying, pipe, fed>>

Enqueue == /\ DistributeEnqueue(Worker) \/ NotifyOne(Worker)
           /\ UNCHANGED <<taskVars, dying, pipe, fed>>

Distributed == /\ todo[Worker] = <<>> /\ Worker \notin notifying
               /\ Task!Finish
               /\ UNCHANGED <<dying, pipe, fed, vars>>
-----------------------------------------------------------------------------
(* The observers.  Who registers is the user, an observer, or the callback.*)

MayRegister(t) == /\ t = User => ~dying
                  /\ t = Worker => busy = "callback"

AddCallback(t, o) ==
  /\ MayRegister(t) /\ o \notin Feeders
  /\ AddUpdateCallback(t, o)
  /\ UNCHANGED <<taskVars, dying, pipe, fed>>

RemoveCallback(t, o) ==
  /\ MayRegister(t) /\ o \notin Feeders
  /\ RemoveUpdateCallback(t, o)
  /\ UNCHANGED <<taskVars, dying, pipe, fed>>

\* The token is thrown away: nobody can remove a feeder.
ConnectPipeline(t, o) ==
  /\ MayRegister(t) /\ o \in Feeders /\ pipe
  /\ AddUpdateCallback(t, o)
  /\ UNCHANGED <<taskVars, dying, pipe, fed>>

\* A feeder's run is the call of addJob.
FedWhen(w) == pc[w] = "running" /\ pc'[w] = "ready" /\ job[w][2] \in Feeders

ObserverStep(w) ==
  /\ WorkerStep(w) \/ SpuriousWakeup(w)
  /\ fed' = IF FedWhen(w) THEN Append(fed, job[w]) ELSE fed
  /\ UNCHANGED <<taskVars, dying, pipe>>
-----------------------------------------------------------------------------
(* ~periodicWork: stop, then the members, tickObservers_ first of all.  A  *)
(* pipeline must live as long as the object it is connected to.            *)

Destroy ==
  /\ UserIsFree
  /\ dying' = TRUE
  /\ IF mode = "running" THEN Task!Stop ELSE UNCHANGED taskVars
  /\ UNCHANGED <<pipe, fed, vars>>

ObserversMayGoUnstopped == dying
ObserversMayGo == dying /\ mode = "stopped"

DestroyObservers ==
  /\ ObserversMayGo
  /\ DestroyPool \/ DestroyList
  /\ UNCHANGED <<taskVars, dying, pipe, fed>>

PipelineMayGoAfterStop == mode = "stopped"
PipelineMayGo == ~listAlive

DestroyPipeline ==
  /\ pipe /\ PipelineMayGo
  /\ pipe' = FALSE
  /\ UNCHANGED <<taskVars, dying, fed, vars>>

Gone == ~pipe /\ ~listAlive /\ UNCHANGED tickerVars
-----------------------------------------------------------------------------
TickerNext ==
  \/ StartStop \/ TimerTick \/ StartTick \/ Joined
  \/ CallCallback \/ Distribute \/ Enqueue \/ Distributed
  \/ \E t \in Threads, o \in Tokens :
       AddCallback(t, o) \/ RemoveCallback(t, o) \/ ConnectPipeline(t, o)
  \/ \E w \in Pool!Workers : ObserverStep(w)
  \/ Destroy \/ DestroyObservers \/ DestroyPipeline
  \/ Gone

TickerSpec == TickerInit /\ [][TickerNext]_tickerVars

(* As for the parts: threads run, callbacks and observers return, and a    *)
(* destructor that began goes on.  Nobody has to call anything.            *)
TickerFairness ==
  /\ WF_tickerVars(StartTick) /\ WF_tickerVars(Joined)
  /\ WF_tickerVars(CallCallback) /\ WF_tickerVars(Distribute)
  /\ WF_tickerVars(Enqueue) /\ WF_tickerVars(Distributed)
  /\ \A w \in Pool!Workers : WF_tickerVars(WorkerStep(w) /\ ObserverStep(w))
  /\ WF_tickerVars(DestroyObservers)

TickerLiveSpec == TickerSpec /\ TickerFairness
-----------------------------------------------------------------------------
(* The observers of every executed tick run, also when stop or the         *)
(* destructor comes right after it: the worker is joined before the pool   *)
(* of tickObservers_ stops, so no enqueue of its distribute is refused (a  *)
(* stopped pool would drop it without a word), and the pool is drained     *)
(* before the list and the other members go.                               *)
ObserversDrained ==
  /\ owner # "alive" => mode = "stopped"
  /\ refused = {}
  /\ ~listAlive => done = Owed

(* The pipeline gets one job for each tick and connection, and none after  *)
(* it was destroyed: that stop has returned is not enough for that, since  *)
(* observers run behind it (lines 105-112 keep a raw pointer).             *)
PipelineFedInTime ==
  /\ Len(fed) = Cardinality(Feeds(done))
  /\ ~pipe => /\ Feeds(Owed) = SeqRange(fed)
             /\ SeqRange(callbackList) \cap Feeders = {}

(* ~periodicWork returns although observers register and are still running.*)
TickerEnds == dying ~> ~listAlive
=============================================================================
