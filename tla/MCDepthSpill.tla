---------------------------- MODULE MCDepthSpill ----------------------------
(***************************************************************************)
(* The faults the model-checking run of DepthSpill allows.                 *)
(***************************************************************************)
EXTENDS DepthSpill

AllFaults == [outage |-> 3, doubt |-> 1, torn |-> 1, crash |-> 1]
=============================================================================
