---------------------------- MODULE TaskService ----------------------------
(***************************************************************************)
(* What thread_pool promises to the code that uses it, with no thread,     *)
(* lock or condition variable: tasks are begun in the order in which they  *)
(* were accepted, each of them once; nothing is accepted after the service *)
(* began to close; and it is closed only when all that it accepted is      *)
(* finished.                                                               *)
(***************************************************************************)
EXTENDS Sequences

CONSTANT Tasks      \* the tasks that may be submitted

VARIABLES pending,  \* accepted tasks, in order, not yet begun
          active,   \* tasks begun and not finished
          finished, \* tasks that ran to their end
          phase     \* "open", "closing" or "closed"

vars == <<pending, active, finished, phase>>

Begun == active \cup finished

Init == /\ pending = <<>>
        /\ active = {}
        /\ finished = {}
        /\ phase = "open"

Submit(k) == /\ phase = "open"
             /\ pending' = Append(pending, k)
             /\ UNCHANGED <<active, finished, phase>>

Begin == /\ pending # <<>>
         /\ Head(pending) \notin Begun
         /\ active' = active \cup {Head(pending)}
         /\ pending' = Tail(pending)
         /\ UNCHANGED <<finished, phase>>

End(k) == /\ k \in active
          /\ active' = active \ {k}
          /\ finished' = finished \cup {k}
          /\ UNCHANGED <<pending, phase>>

Close == /\ phase = "open"
         /\ phase' = "closing"
         /\ UNCHANGED <<pending, active, finished>>

Closed == /\ phase = "closing"
          /\ pending = <<>>
          /\ active = {}
          /\ phase' = "closed"
          /\ UNCHANGED <<pending, active, finished>>

Next == \/ \E k \in Tasks : Submit(k) \/ End(k)
        \/ Begin
        \/ Close
        \/ Closed

Spec == Init /\ [][Next]_vars

(* Every accepted task is begun, every begun task ends, closing ends.      *)
LiveSpec == /\ Spec
            /\ WF_vars(Begin)
            /\ \A k \in Tasks : WF_vars(End(k))
            /\ WF_vars(Closed)
=============================================================================
