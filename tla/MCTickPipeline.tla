--------------------------- MODULE MCTickPipeline ---------------------------
(***************************************************************************)
(* Fault budgets for the model-checking runs of TickPipeline.              *)
(***************************************************************************)
EXTENDS TickPipeline

\* One fault of each kind in K, none of the others.
Only(K) == [k \in FaultKind |-> IF k \in K THEN 1 ELSE 0]

KillsAndWipe    == Only(FaultKind \ {"disk"})
StreamerFaults  == Only({"disk", "streamer", "insert"})
=============================================================================
