---------------------------- MODULE MCNecoUpdate ----------------------------
(***************************************************************************)
(* NecoUpdate for TLC: workers and updaters, and MaxFault faults of the    *)
(* workers.  The other events of Next are those of MCUpdaters.             *)
(***************************************************************************)
EXTENDS NecoUpdate

CONSTANTS
  b1, b2,       \* boot servers
  MaxFault      \* steps, reports and watches that fail, workers that die

VARIABLE faults

mcVars == <<vars, faults>>

MCInit == Init /\ faults = 0

MCNext ==
  \/ \E w \in Lrn : Works(w) /\ UNCHANGED faults
  \/ /\ \E w \in Lrn : WorkerFault(w)
     /\ faults < MaxFault /\ faults' = faults + 1
  \/ \E u \in UpdaterHosts : Updates(u) /\ UNCHANGED faults

MCSpec == MCInit /\ [][MCNext]_mcVars

MCFairSpec == MCSpec /\ Fairness
=============================================================================
