----------------------------- MODULE MCPipeline -----------------------------
(* Instances of Pipeline for TLC. *)
EXTENDS Pipeline, TLC

\* Workers of a kind are alike, and so are jobs.
Alike == Permutations(ProcessWorkers) \cup Permutations(CallbackWorkers) \cup Permutations(Jobs)
=============================================================================
