------------------------------- MODULE Factory -------------------------------
(***************************************************************************)
(* What a pipeline promises to its users, with no workers, staff, mutexes  *)
(* or notifications: jobs are begun in the order in which they were added; *)
(* each becomes one product, which is given to the callback or fetched,    *)
(* once; a product the callback did not take goes back to the others; and  *)
(* only closing throws anything away, first the jobs that nobody began,    *)
(* then, with nothing in the making, the products that nobody took.        *)
(***************************************************************************)
EXTENDS Sequences

CONSTANT Jobs      \* a product is its job

VARIABLES waiting,  \* jobs that were added, in their order
          making,   \* jobs that were begun
          ready,    \* products that wait, in their order
          offered,  \* products that are being given to the callback
          out,      \* products that were given or fetched
          lost,     \* jobs and products that were thrown away
          phase     \* "open", "closing" (the input), "clearing" (the output), "closed"

vars == <<waiting, making, ready, offered, out, lost, phase>>

SeqRange(s) == {s[i] : i \in DOMAIN s}

Init == /\ waiting = <<>> /\ making = {} /\ ready = <<>>
        /\ offered = {} /\ out = {} /\ lost = {}
        /\ phase = "open"

Known == SeqRange(waiting) \cup making \cup SeqRange(ready) \cup offered \cup out \cup lost

Add(j) == /\ phase = "open"
          /\ j \notin Known
          /\ waiting' = Append(waiting, j)
          /\ UNCHANGED <<making, ready, offered, out, lost, phase>>

Begin == /\ waiting # <<>>
         /\ making' = making \cup {Head(waiting)}
         /\ waiting' = Tail(waiting)
         /\ UNCHANGED <<ready, offered, out, lost, phase>>

Make(j) == /\ j \in making
           /\ making' = making \ {j}
           /\ ready' = Append(ready, j)
           /\ UNCHANGED <<waiting, offered, out, lost, phase>>

Offer == /\ phase # "closed"
         /\ ready # <<>>
         /\ offered' = offered \cup {Head(ready)}
         /\ ready' = Tail(ready)
         /\ UNCHANGED <<waiting, making, out, lost, phase>>

Give(j) == /\ j \in offered
           /\ offered' = offered \ {j}
           /\ out' = out \cup {j}
           /\ UNCHANGED <<waiting, making, ready, lost, phase>>

TakeBack(j) == /\ j \in offered
               /\ offered' = offered \ {j}
               /\ ready' = Append(ready, j)
               /\ UNCHANGED <<waiting, making, out, lost, phase>>

Fetch == /\ phase = "open"
         /\ ready # <<>>
         /\ out' = out \cup {Head(ready)}
         /\ ready' = Tail(ready)
         /\ UNCHANGED <<waiting, making, offered, lost, phase>>

Close == /\ phase = "open"
         /\ phase' = "closing"
         /\ lost' = lost \cup SeqRange(waiting)
         /\ waiting' = <<>>
         /\ UNCHANGED <<making, ready, offered, out>>

Clear == /\ phase = "closing"
         /\ waiting = <<>> /\ making = {}
         /\ phase' = "clearing"
         /\ lost' = lost \cup SeqRange(ready)
         /\ ready' = <<>>
         /\ UNCHANGED <<waiting, making, offered, out>>

Closed == /\ phase = "clearing"
          /\ offered = {}
          /\ phase' = "closed"
          /\ UNCHANGED <<waiting, making, ready, offered, out, lost>>

Next == \/ Begin \/ Offer \/ Fetch
        \/ \E j \in Jobs : Add(j) \/ Make(j) \/ Give(j) \/ TakeBack(j)
        \/ Close \/ Clear \/ Closed

Spec == Init /\ [][Next]_vars
=============================================================================
