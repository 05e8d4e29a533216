------------------------------- MODULE PubSub -------------------------------
(***************************************************************************)
(* What messageDistribute promises to its users, with no pool and no       *)
(* queue: a published message is owed to the callbacks registered at that  *)
(* moment, to each of them once, whoever is registered or removed later;   *)
(* a delivery is dropped only when the distributor is being destroyed; and *)
(* nothing is owed when it is gone.                                        *)
(***************************************************************************)
CONSTANTS Messages, Tokens,
          EmptyTokens    \* registered, but empty functions: never called

VARIABLES registered,    \* the callbacks in the list
          published,     \* messages published so far
          owed,          \* <<message, token>> still to be delivered
          got, dropped,  \* <<message, token>> delivered, given up
          phase          \* "open", "closing" or "closed"

vars == <<registered, published, owed, got, dropped, phase>>

Init == /\ registered = {} /\ published = {}
        /\ owed = {} /\ got = {} /\ dropped = {}
        /\ phase = "open"

Register(tok) == /\ phase # "closed"
                 /\ registered' = registered \cup {tok}
                 /\ UNCHANGED <<published, owed, got, dropped, phase>>

Unregister(toks) == /\ phase # "closed"
                    /\ registered' = registered \ toks
                    /\ UNCHANGED <<published, owed, got, dropped, phase>>

Publish(m) == /\ phase # "closed"
              /\ m \notin published
              /\ published' = published \cup {m}
              /\ owed' = owed \cup {m} \X (registered \ EmptyTokens)
              /\ UNCHANGED <<registered, got, dropped, phase>>

Deliver(d) == /\ d \in owed
              /\ owed' = owed \ {d}
              /\ got' = got \cup {d}
              /\ UNCHANGED <<registered, published, dropped, phase>>

Drop(d) == /\ phase = "closing"
           /\ d \in owed
           /\ owed' = owed \ {d}
           /\ dropped' = dropped \cup {d}
           /\ UNCHANGED <<registered, published, got, phase>>

Close == /\ phase = "open"
         /\ phase' = "closing"
         /\ UNCHANGED <<registered, published, owed, got, dropped>>

Closed == /\ phase = "closing"
          /\ owed = {}
          /\ phase' = "closed"
          /\ registered' = {}
          /\ UNCHANGED <<published, owed, got, dropped>>

Next == \/ \E tok \in Tokens : Register(tok)
        \/ \E toks \in SUBSET Tokens : Unregister(toks)
        \/ \E m \in Messages : Publish(m)
        \/ \E d \in Messages \X Tokens : Deliver(d) \/ Drop(d)
        \/ Close \/ Closed

Spec == Init /\ [][Next]_vars

(* What is owed is settled, and closing ends.                              *)
LiveSpec == /\ Spec
            /\ \A d \in Messages \X Tokens : WF_vars(Deliver(d) \/ Drop(d))
            /\ WF_vars(Closed)
=============================================================================
