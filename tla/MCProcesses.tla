---------------------------- MODULE MCProcesses -----------------------------
(* The two kinds of processes the server starts, a run or terminals.  They share *)
(* nothing, so that a behaviour shows one of the two and not their interleavings. *)
EXTENDS PtySessions, ExecRun

VARIABLE part

AllInit == part \in {"run", "terminals"} /\ Init /\ RunInit

AllNext ==
  /\ \/ part = "run" /\ RunNext /\ UNCHANGED ptyVars
     \/ part = "terminals" /\ Next /\ UNCHANGED runVars
  /\ UNCHANGED part

AllSpec == AllInit /\ [][AllNext]_<<part, ptyVars, runVars>> /\ Fairness /\ RunFairness
=============================================================================
