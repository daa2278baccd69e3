------------------------------ MODULE MCSetup -------------------------------
(***************************************************************************)
(* Setup for TLC: MaxBroken calls fail by themselves.                      *)
(***************************************************************************)
EXTENDS Setup

CONSTANTS s0, s1, s2, n3, MaxBroken

MCBreaks(b) == Cardinality(broken) < MaxBroken /\ Breaks(b)

MCNext ==
    \/ \E b \in Server : SetupStep(b)
    \/ \E b \in Newcomer : Join(b) \/ Leave(b)
    \/ \E b \in Host : MCBreaks(b)
    \/ Tick

\* Each command goes on, and time passes.
MCSpec ==
    /\ SetupInit /\ [][MCNext]_svars
    /\ \A b \in Server : WF_svars(SetupStep(b))
    /\ \A b \in Newcomer : WF_svars(Join(b))
    /\ WF_svars(Tick)
=============================================================================
