---------------------------- MODULE SetupBarrier ----------------------------
(***************************************************************************)
(* What the two rounds of "Finish" and "GetFinished" in Setup promise: no  *)
(* boot server takes its etcd down before every one has stopped asking     *)
(* whether the others have finished, and none is released, to publish the  *)
(* first update request or to start its daemons, before every one has come *)
(* back.                                                                   *)
(***************************************************************************)
CONSTANT Server

VARIABLES phase, gone   \* gone: the servers that have given up where they were

bvars == <<phase, gone>>

Phases == {"preparing", "asking", "told", "restarting", "back", "released"}

BarrierInit ==
    /\ phase = [s \in Server |-> "preparing"]
    /\ gone = {}

Advance(s, from, to) ==
    /\ s \notin gone /\ phase[s] = from
    /\ phase' = [phase EXCEPT ![s] = to]
    /\ gone' = gone

Arrive(s) == Advance(s, "preparing", "asking")

Hear(s) ==
    /\ \A o \in Server : phase[o] # "preparing"
    /\ Advance(s, "asking", "told")

Restart(s) ==
    /\ \A o \in Server : /\ phase[o] # "preparing"
                          /\ phase[o] = "asking" => o \in gone
    /\ Advance(s, "told", "restarting")

Return(s) == Advance(s, "restarting", "back")

Release(s) ==
    /\ \A o \in Server : phase[o] \in {"back", "released"}
    /\ Advance(s, "back", "released")

GiveUp(s) ==
    /\ gone' = gone \cup {s}
    /\ phase' = phase

BarrierNext ==
    \E s \in Server :
        \/ Arrive(s) \/ Hear(s) \/ Restart(s) \/ Return(s) \/ Release(s)
        \/ GiveUp(s)

BarrierSpec == BarrierInit /\ [][BarrierNext]_bvars
=============================================================================
