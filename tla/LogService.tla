----------------------------- MODULE LogService -----------------------------
(***************************************************************************)
(* What the logging set-up promises to the program, with no queue and no   *)
(* threads: a message that was logged is settled with every sink, written  *)
(* to it exactly once or given up by it, in no particular order; only the  *)
(* fallible sinks give messages up; and logging ends when nothing is left. *)
(***************************************************************************)
EXTENDS Integers

CONSTANTS Messages, Sinks, FallibleSinks

VARIABLES logged,   \* messages handed to the logger
          written,  \* sink -> message -> how often it was written there
          missed,   \* <<sink, message>> given up
          using,    \* the sinks chosen at start-up
          phase     \* "off", "on", "ending" or "ended"

vars == <<logged, written, missed, using, phase>>

Init == /\ logged = {} /\ missed = {} /\ using = {}
        /\ written = [s \in Sinks |-> [m \in Messages |-> 0]]
        /\ phase = "off"

Settled(s, m) == written[s][m] = 1 \/ <<s, m>> \in missed

On == /\ phase = "off"
      /\ phase' = "on"
      /\ \E S \in SUBSET Sinks : Sinks \ FallibleSinks \subseteq S /\ using' = S
      /\ UNCHANGED <<logged, written, missed>>

Log(m) == /\ phase = "on"
          /\ m \notin logged
          /\ logged' = logged \cup {m}
          /\ UNCHANGED <<written, missed, using, phase>>

Open(s, m) == m \in logged /\ s \in using /\ ~Settled(s, m)

Write(s, m) == /\ Open(s, m)
               /\ written' = [written EXCEPT ![s][m] = @ + 1]
               /\ UNCHANGED <<logged, missed, using, phase>>

Miss(s, m) == /\ Open(s, m)
              /\ s \in FallibleSinks
              /\ missed' = missed \cup {<<s, m>>}
              /\ UNCHANGED <<logged, written, using, phase>>

End == /\ phase = "on"
       /\ phase' = "ending"
       /\ UNCHANGED <<logged, written, missed, using>>

Ended == /\ phase = "ending"
         /\ \A s \in using, m \in logged : Settled(s, m)
         /\ phase' = "ended"
         /\ UNCHANGED <<logged, written, missed, using>>

Next == \/ On \/ End \/ Ended
        \/ \E m \in Messages : Log(m)
        \/ \E s \in Sinks, m \in Messages : Write(s, m) \/ Miss(s, m)

Spec == Init /\ [][Next]_vars

(* What was logged is settled, and ending ends.                            *)
LiveSpec == /\ Spec
            /\ \A s \in Sinks, m \in Messages : WF_vars(Write(s, m) \/ Miss(s, m))
            /\ WF_vars(Ended)
=============================================================================
