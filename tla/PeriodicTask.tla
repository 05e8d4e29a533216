---------------------------- MODULE PeriodicTask ----------------------------
(***************************************************************************)
(* What periodicWork promises to its owner, with no threads and no         *)
(* semaphore: ticks fall due while it runs; each is executed once, one     *)
(* after the other, the callback first and then the observers; at most     *)
(* MaxLag ticks wait for an execution that is under way, and one more when *)
(* none is; and stopping drops what waits and takes no tick any more.  An  *)
(* execution that had taken its tick goes on, its callback may even be     *)
(* still to begin, and stopping ends when it has ended.                    *)
(***************************************************************************)
EXTENDS Naturals

CONSTANT MaxLag

VARIABLES mode,  \* "stopped", "running" or "stopping"
          due,   \* ticks that wait to be executed
          busy   \* the execution: "no", "taken" (nothing called yet),
                 \* "callback" or "observers"

vars == <<mode, due, busy>>

Init == mode = "stopped" /\ due = 0 /\ busy = "no"

Start == /\ mode = "stopped"
         /\ mode' = "running"
         /\ UNCHANGED <<due, busy>>

\* One tick more may wait for a worker that is about to take another.
Tick == /\ mode = "running"
        /\ due < IF busy = "no" THEN MaxLag + 1 ELSE MaxLag
        /\ due' = due + 1
        /\ UNCHANGED <<mode, busy>>

Take == /\ mode = "running"
        /\ busy = "no" /\ due > 0
        /\ busy' = "taken"
        /\ due' = due - 1
        /\ UNCHANGED mode

Call == /\ busy = "taken"
        /\ busy' = "callback"
        /\ UNCHANGED <<mode, due>>

\* Also without a call, when there is no callback.
Observe == /\ busy \in {"taken", "callback"}
           /\ busy' = "observers"
           /\ UNCHANGED <<mode, due>>

Finish == /\ busy = "observers"
          /\ busy' = "no"
          /\ UNCHANGED <<mode, due>>

Proceed == Call \/ Observe \/ Finish

Stop == /\ mode = "running"
        /\ mode' = "stopping"
        /\ due' = 0
        /\ UNCHANGED busy

Stopped == /\ mode = "stopping"
           /\ busy = "no"
           /\ mode' = "stopped"
           /\ UNCHANGED <<due, busy>>

Next == Start \/ Tick \/ Take \/ Proceed \/ Stop \/ Stopped

Spec == Init /\ [][Next]_vars

(* A due tick is executed unless it is dropped, executions end, and        *)
(* stopping does.                                                          *)
LiveSpec == Spec /\ WF_vars(Take) /\ WF_vars(Proceed) /\ WF_vars(Stopped)
=============================================================================
