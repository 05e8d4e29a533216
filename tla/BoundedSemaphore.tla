-------------------------- MODULE BoundedSemaphore --------------------------
(***************************************************************************)
(* What counting_semaphore promises, with no lock and no condition         *)
(* variable: a bounded number of tokens, each taken once; a caller leaves  *)
(* acquire with a token or, once the semaphore is closed, without one.     *)
(***************************************************************************)
EXTENDS Naturals

CONSTANTS MaxCount, Acquirers

VARIABLES avail,   \* tokens that can be taken
          inside,  \* callers of acquire that have not returned
          closed   \* stop was called

vars == <<avail, inside, closed>>

Init == avail = 0 /\ inside = {} /\ closed = FALSE

Call(a) == /\ a \notin inside
           /\ inside' = inside \cup {a}
           /\ UNCHANGED <<avail, closed>>

Take(a) == /\ a \in inside
           /\ avail > 0
           /\ avail' = avail - 1
           /\ inside' = inside \ {a}
           /\ UNCHANGED closed

GiveUp(a) == /\ a \in inside
             /\ closed
             /\ inside' = inside \ {a}
             /\ UNCHANGED <<avail, closed>>

Release == /\ avail < MaxCount
           /\ avail' = avail + 1
           /\ UNCHANGED <<inside, closed>>

Close == /\ ~closed
         /\ closed' = TRUE
         /\ UNCHANGED <<avail, inside>>

Next == \/ \E a \in Acquirers : Call(a) \/ Take(a) \/ GiveUp(a)
        \/ Release \/ Close

Spec == Init /\ [][Next]_vars

(* Whoever can leave acquire leaves it.                                    *)
LiveSpec == Spec /\ \A a \in Acquirers : WF_vars(Take(a) \/ GiveUp(a))
=============================================================================
