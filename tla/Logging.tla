------------------------------- MODULE Logging -------------------------------
(***************************************************************************)
(* The program's logging: main (main.cpp, argProcessing.h) reads the log   *)
(* directory and calls spdlog_init, which chooses the sinks and starts an  *)
(* asynchronous logger: a LogQueue, the backing threads of spdlog's        *)
(* thread_pool, and a periodic_worker that asks for a flush every second.  *)
(* The backing threads write to the console, to a text file and through    *)
(* sqlite_sink (spdlog_sqlite3_sink), whose log takes no lock.  When main  *)
(* returns, spdlog's registry is destroyed member by member.               *)
(***************************************************************************)
EXTENDS Integers, Sequences, FiniteSets

CONSTANTS Capacity, NoItem,  \* see LogQueue
          Clients,           \* threads that log, main's own messages included
          Backends,          \* the processors of the machines considered
          Messages,          \* messages, each logged at most once
          Flush, Terminate   \* the other two kinds of async_msg

Flusher == "flusher"
Main == "main"
Producers == Clients \cup {Flusher, Main}
Items == Messages \cup {Flush, Terminate}
Sinks == {"console", "file", "sqlite"}

VARIABLES
  main,     \* where main is, see Phases
  sinks,    \* the sinks of the global logger
  db,       \* the connection of sqlite_sink: "null", "open", "closed", "leaked"
  stmts,    \* statements of the connection that were not finalized
  threads,  \* the backing threads that were started
  at,       \* backing thread -> where it is
  flusher,  \* the periodic_worker's thread: "none", "wait", "post", "done"
  active,   \* its active_
  left,     \* terminate messages that ~thread_pool has still to post
  logged,   \* history: messages handed to the logger
  written,  \* history: sink -> message -> how often it was written there
  missed,   \* history: <<sink, message>> that the sink gave up
  queue, put, item, get, popped  \* the pool's q_, see LogQueue

Queue == INSTANCE LogQueue WITH Consumers <- Backends

ASSUME LoggingAssumption == /\ Queue!QueueConstants
                            /\ {Flusher, Main} \cap Clients = {}
                            /\ {Flush, Terminate} \cap Messages = {}
                            /\ Flush # Terminate

queueVars == <<queue, put, item, get, popped>>
setUp     == <<sinks, db, threads>>
outcome   == <<stmts, written, missed>>
vars == <<main, setUp, at, flusher, active, left, logged, outcome, queueVars>>

Phases == {"args", "sinks", "backend", "run", "flusher", "joinFlusher", "pool",
           "joinPool", "sinksGo", "done", "failed", "crashed"}
BackendPlaces == {"none", "top", "dequeue", "console", "file", "prepare", "step",
                  "finalize", "exited"}

TypeOK ==
  /\ main \in Phases
  /\ sinks \subseteq Sinks
  /\ db \in {"null", "open", "closed", "leaked"}
  /\ active \in BOOLEAN
  /\ stmts \in Nat
  /\ threads \subseteq Backends
  /\ at \in [Backends -> BackendPlaces]
  /\ flusher \in {"none", "wait", "post", "done"}
  /\ left \in 0 .. Cardinality(Backends)
  /\ logged \subseteq Messages
  /\ written \in [Sinks -> [Messages -> 0 .. 2]]
  /\ missed \subseteq Sinks \X Messages
  /\ \A b \in Backends :
       /\ get[b] # "out" <=> at[b] = "dequeue"
       /\ at[b] \in {"console", "file", "prepare", "step", "finalize"} => popped[b] \in logged
  /\ Queue!TypeOK

Init ==
  /\ main = "args"
  /\ sinks = {} /\ db = "null"
  /\ stmts = 0
  /\ threads = {}
  /\ at = [b \in Backends |-> "none"]
  /\ flusher = "none" /\ active = FALSE
  /\ left = 0
  /\ logged = {} /\ missed = {}
  /\ written = [s \in Sinks |-> [m \in Messages |-> 0]]
  /\ Queue!Init

MainGo(from, to) == main = from /\ main' = to
-----------------------------------------------------------------------------
(* Start-up: loadArgs, GetLoggingPath, spdlog_init.                        *)

\* A help request ends the program like a parse error.
LoadArgs ==
  /\ MainGo("args", "sinks") \/ MainGo("args", "failed")
  /\ UNCHANGED <<setUp, at, flusher, active, left, logged, outcome, queueVars>>

ConsoleOnly ==
  /\ MainGo("sinks", "backend")
  /\ sinks' = {"console"}
  /\ UNCHANGED db

\* sqlite3_open may fail, which is no error for the caller.
OpenDB == db' \in {"null", "open"}

FileSinks ==
  /\ MainGo("sinks", "backend")
  /\ sinks' = Sinks
  /\ OpenDB

\* is_directory, outside the try block, or the file sink's constructor throws.
SinksThrow == MainGo("sinks", "crashed") /\ UNCHANGED <<sinks, db>>

\* By the kind of path that --logging-path or the temporary directory gives.
MakeSinks ==
  /\ \E path \in {"none", "readonly", "writable", "denied"} :
       \/ path \in {"none", "readonly"} /\ ConsoleOnly
       \/ path = "writable" /\ (FileSinks \/ SinksThrow)
       \/ path = "denied" /\ SinksThrow
  /\ UNCHANGED <<threads, at, flusher, active, left, logged, outcome, queueVars>>

\* thread_pool throws when hardware_concurrency is unknown (0) or above 1000.
StartBackend ==
  /\ main = "backend"
  /\ \E S \in SUBSET Backends :
       IF Cardinality(S) \in 1 .. 1000
       THEN /\ main' = "run"
            /\ threads' = S
            /\ at' = [b \in Backends |-> IF b \in S THEN "top" ELSE "none"]
            /\ flusher' = "wait" /\ active' = TRUE
       ELSE main' = "crashed" /\ UNCHANGED <<threads, at, flusher, active>>
  /\ UNCHANGED <<sinks, db, left, logged, outcome, queueVars>>
-----------------------------------------------------------------------------
(* The threads that log, until main returns.                              *)

\* The message goes through async_logger::sink_it_ into the queue.
Log(c, m) ==
  /\ main = "run"
  /\ m \notin logged
  /\ Queue!Enqueue(c, m)
  /\ logged' = logged \cup {m}
  /\ UNCHANGED <<main, setUp, at, flusher, active, left, outcome>>

EnqueueStep(p) ==
  /\ Queue!EnqueueStep(p)
  /\ UNCHANGED <<main, setUp, at, flusher, active, left, logged, outcome>>

SpuriousWakeup ==
  /\ Queue!SpuriousWakeup
  /\ UNCHANGED <<main, setUp, at, flusher, active, left, logged, outcome>>
-----------------------------------------------------------------------------
(* The periodic_worker: it holds its mutex_ while it posts the flush.      *)

FlusherMutexFree == flusher # "post"

FlusherTimeout ==
  /\ flusher = "wait" /\ active
  /\ flusher' = "post"
  /\ Queue!Enqueue(Flusher, Flush)
  /\ UNCHANGED <<main, setUp, at, active, left, logged, outcome>>

FlusherPosted ==
  /\ flusher = "post" /\ put[Flusher] = "out"
  /\ flusher' = "wait"
  /\ UNCHANGED <<main, setUp, at, active, left, logged, outcome, queueVars>>

FlusherExit ==
  /\ flusher = "wait" /\ ~active
  /\ flusher' = "done"
  /\ UNCHANGED <<main, setUp, at, active, left, logged, outcome, queueVars>>
-----------------------------------------------------------------------------
(* A backing thread: worker_loop_, process_next_msg_, backend_sink_it_.    *)

BackendGo(b, from, to) == at[b] = from /\ at' = [at EXCEPT ![b] = to]

BackendUnchanged == UNCHANGED <<main, setUp, flusher, active, left, logged>>

BackendDequeue(b) ==
  /\ BackendGo(b, "top", "dequeue")
  /\ Queue!Dequeue(b)
  /\ UNCHANGED outcome /\ BackendUnchanged

BackendWait(b) ==
  /\ Queue!DequeueSleep(b) \/ Queue!Pop(b)
  /\ UNCHANGED <<at, outcome>> /\ BackendUnchanged

AfterTakingFallThrough(x) == IF x = Terminate THEN "exited" ELSE "console"

\* A flush changes nothing that is modelled of the sinks.
AfterTaking(x) == IF x = Terminate THEN "exited" ELSE IF x = Flush THEN "top" ELSE "console"

\* dequeue notifies and returns.
BackendTook(b) ==
  /\ Queue!NotifyPop(b)
  /\ BackendGo(b, "dequeue", AfterTaking(popped[b]))
  /\ UNCHANGED outcome /\ BackendUnchanged

Write(b, s) == /\ written' = [written EXCEPT ![s][popped[b]] = @ + 1]
               /\ UNCHANGED missed
GiveUp(b, s) == /\ missed' = missed \cup {<<s, popped[b]>>}
                /\ UNCHANGED written

WriteConsole(b) ==
  /\ BackendGo(b, "console", IF "file" \in sinks THEN "file" ELSE "top")
  /\ Write(b, "console") /\ UNCHANGED stmts
  /\ UNCHANGED queueVars /\ BackendUnchanged

\* A write that throws is reported by the logger, which goes on.
WriteFile(b) ==
  /\ BackendGo(b, "file", "prepare")
  /\ Write(b, "file") \/ GiveUp(b, "file")
  /\ UNCHANGED stmts
  /\ UNCHANGED queueVars /\ BackendUnchanged

\* insertLog up to sqlite3_prepare_v2.  Nothing is done without a connection
\* or below the level that set_level gave the sink; and preparing may fail,
\* as it does whenever tableInit could not create the table.
Prepare(b) ==
  /\ \/ /\ db = "open"
        /\ BackendGo(b, "prepare", "step")
        /\ stmts' = stmts + 1 /\ UNCHANGED <<written, missed>>
     \/ BackendGo(b, "prepare", "top") /\ GiveUp(b, "sqlite") /\ UNCHANGED stmts
  /\ UNCHANGED queueVars /\ BackendUnchanged

AfterFailedStepLeak == "top"
AfterFailedStep == "finalize"

\* sqlite3_step fails when another process holds the file, or it is full.
Step(b) ==
  /\ \/ BackendGo(b, "step", "finalize") /\ Write(b, "sqlite")
     \/ BackendGo(b, "step", AfterFailedStep) /\ GiveUp(b, "sqlite")
  /\ UNCHANGED stmts
  /\ UNCHANGED queueVars /\ BackendUnchanged

Finalize(b) ==
  /\ BackendGo(b, "finalize", "top")
  /\ stmts' = stmts - 1
  /\ UNCHANGED <<written, missed, queueVars>> /\ BackendUnchanged

BackendStep(b) ==
  \/ BackendDequeue(b) \/ BackendWait(b) \/ BackendTook(b)
  \/ WriteConsole(b) \/ WriteFile(b)
  \/ Prepare(b) \/ Step(b) \/ Finalize(b)
-----------------------------------------------------------------------------
(* main returned: ~registry destroys default_logger_, periodic_flusher_,   *)
(* tp_ and, with loggers_, the global logger and its sinks.  Threads that  *)
(* log have ended before.                                                  *)

MainReturns ==
  /\ MainGo("run", "flusher")
  /\ \A c \in Clients : put[c] = "out"
  /\ UNCHANGED <<setUp, at, flusher, active, left, logged, outcome, queueVars>>

StopFlusher ==
  /\ MainGo("flusher", "joinFlusher")
  /\ FlusherMutexFree
  /\ active' = FALSE
  /\ UNCHANGED <<setUp, at, flusher, left, logged, outcome, queueVars>>

FlusherJoined == flusher = "done"

TerminatesOne == 1
Terminates == Cardinality(threads)

JoinFlusher ==
  /\ MainGo("joinFlusher", "pool")
  /\ FlusherJoined
  /\ left' = Terminates
  /\ UNCHANGED <<setUp, at, flusher, active, logged, outcome, queueVars>>

\* One terminate message for each thread, each posted when the last is in.
PostTerminate ==
  /\ main = "pool" /\ put[Main] = "out" /\ left > 0
  /\ left' = left - 1
  /\ Queue!Enqueue(Main, Terminate)
  /\ UNCHANGED <<main, setUp, at, flusher, active, logged, outcome>>

AllPosted ==
  /\ MainGo("pool", "joinPool")
  /\ put[Main] = "out" /\ left = 0
  /\ UNCHANGED <<setUp, at, flusher, active, left, logged, outcome, queueVars>>

BackendsJoinedOne == \E b \in threads : at[b] = "exited"
BackendsJoined == \A b \in threads : at[b] = "exited"

JoinPool ==
  /\ MainGo("joinPool", "sinksGo")
  /\ BackendsJoined
  /\ UNCHANGED <<setUp, at, flusher, active, left, logged, outcome, queueVars>>

\* sqlite3_close refuses, and the connection leaks, while a statement is open.
CloseDB ==
  /\ MainGo("sinksGo", "done")
  /\ db' = IF db # "open" THEN db
           ELSE IF stmts > 0 THEN "leaked" ELSE "closed"
  /\ UNCHANGED <<sinks, threads, at, flusher, active, left, logged,
                 outcome, queueVars>>

Exit == StopFlusher \/ JoinFlusher \/ PostTerminate \/ AllPosted \/ JoinPool \/ CloseDB

Ended == main \in {"done", "failed", "crashed"} /\ UNCHANGED vars
-----------------------------------------------------------------------------
Next ==
  \/ LoadArgs \/ MakeSinks \/ StartBackend
  \/ \E c \in Clients, m \in Messages : Log(c, m)
  \/ \E p \in Producers : EnqueueStep(p)
  \/ SpuriousWakeup
  \/ FlusherTimeout \/ FlusherPosted \/ FlusherExit
  \/ \E b \in Backends : BackendStep(b)
  \/ MainReturns \/ Exit
  \/ Ended

Spec == Init /\ [][Next]_vars

(* Threads that can run do run, a mutex that is free again and again is    *)
(* got in the end, and a condition variable passes over no waiter for      *)
(* ever.  The flusher posts once a second: a logging call that waits for   *)
(* room is not overtaken by flushes for ever.  No flush, no wakeup for no  *)
(* reason and no end of main is owed.                                      *)
Wakes(p) == \E b \in Backends : BackendTook(b) /\ put[p] = "asleep" /\ put'[p] = "lock"

Fairness ==
  /\ \A p \in Producers : /\ WF_vars(EnqueueStep(p))
                         /\ SF_vars(EnqueueStep(p) /\ Queue!Push(p))
                         /\ SF_vars(Wakes(p))
  /\ \A b \in Backends : WF_vars(BackendStep(b))
  /\ WF_vars(FlusherPosted) /\ WF_vars(FlusherExit)
  /\ SF_vars(StopFlusher) /\ WF_vars(Exit)
  /\ <>[][FlusherTimeout => \A c \in Clients : put[c] = "out"]_vars

LiveSpec == Spec /\ Fairness
-----------------------------------------------------------------------------
(* No lost wakeup: while a backing thread sleeps, every queued message has *)
(* a notification on its way or a thread about to look (line 37 of the     *)
(* queue notifies after the unlock).                                       *)
ItemsReachABackend == Queue!ItemsReachAConsumer

(* The same for a thread that a full queue blocks in a logging call: the   *)
(* policy "block" of spdlog_init.cpp line 96 must not block for ever       *)
(* (line 89 of the queue notifies after the unlock).                       *)
RoomReachesALogger == Queue!RoomReachesAProducer

\* Where a message can be on its way.
Hands(m) == {p \in Producers : put[p] \in {"lock", "asleep"} /\ item[p] = m}
Slots(m) == {i \in DOMAIN queue : queue[i] = m}
Takers(m) == {b \in Backends : at[b] # "top" /\ get[b] \in {"notify", "out"} /\ popped[b] = m}

OnItsWay(m) == Cardinality(Hands(m)) + Cardinality(Slots(m)) + Cardinality(Takers(m))
Outcomes(s, m) == written[s][m] + (IF <<s, m>> \in missed THEN 1 ELSE 0)

(* From the logging call to the sinks a message is in one place at a time; *)
(* what is no longer on its way is settled with every sink, written once   *)
(* or given up, never both (the ring at its limit, and sqlite_sink::log    *)
(* without its lock).                                                      *)
NothingLostOrTwice ==
  \A m \in Messages :
    /\ OnItsWay(m) <= 1
    /\ \A s \in Sinks : Outcomes(s, m) <= 1
    /\ m \in logged /\ OnItsWay(m) = 0 => \A s \in sinks : Outcomes(s, m) = 1

(* Exit: the flusher is gone before the pool ends, and the queue, the      *)
(* sinks and the connection are destroyed when no thread can use them and  *)
(* nothing is queued (the member order of registry.h lines 117-119); and   *)
(* the connection is closed, whatever failed before (closeDB.cpp ignores   *)
(* that sqlite3_close refuses while a statement is open).                  *)
DestroyedWhenUnused ==
  /\ main \in {"pool", "joinPool", "sinksGo", "done"} => flusher = "done"
  /\ main \in {"sinksGo", "done"} =>
       /\ queue = <<>>
       /\ \A p \in Producers : put[p] = "out"
       /\ \A b \in threads : at[b] = "exited"
  /\ main = "done" => db \in {"null", "closed"}

(* The logging implements the abstract service: every message logged is    *)
(* settled with every sink, at the latest when main's exit has come to the *)
(* sinks; and with fair threads the exit ends.                             *)
Service == INSTANCE LogService WITH
  FallibleSinks <- {"file", "sqlite"},
  using <- IF main \in {"args", "sinks", "backend", "failed", "crashed"} THEN {} ELSE sinks,
  phase <- IF main = "run" THEN "on"
           ELSE IF main \in {"flusher", "joinFlusher", "pool", "joinPool"} THEN "ending"
           ELSE IF main \in {"sinksGo", "done"} THEN "ended" ELSE "off"

LogServiceSpec == Service!Spec
LogServiceLiveSpec == Service!LiveSpec
=============================================================================
