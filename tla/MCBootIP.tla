------------------------------ MODULE MCBootIP ------------------------------
(***************************************************************************)
(* EtcdMembers and BootIP for TLC: MaxEvent servers join, leave or are     *)
(* killed, or operations of boot-ip-setter fail, before the last request.  *)
(***************************************************************************)
EXTENDS BootIP

CONSTANTS
  MaxEvent,
  MaxRound      \* requests

VARIABLE events

ASSUME PlacesAssumption == Lrn \subseteq 0 .. 9 => PlacesApart

mcVars == <<bootVars, events>>

MCDHCP == <<"10.71.255.1", "10.71.255.2", "10.71.255.3">>

MCRequests == {{0}, {1, 2}, {0, 1, 2}}
All == {Lrn}

MCInit == EtcdInit /\ BootIPInit /\ events = 0

Event ==
  \/ \E w \in Lrn : (Join(w) \/ Leave(w) \/ Crash(w)) /\ UNCHANGED ipVars
  \/ \E b \in Setters : OpFails(b)

Works(w) == WorkerStep(w) /\ UNCHANGED <<ipVars, events>>
Sets(b) == SetterStep(b) /\ UNCHANGED events
Returns(w) == Restart(w) /\ UNCHANGED <<ipVars, events>>
Expires == SessionExpires /\ UNCHANGED <<ipVars, events>>
Ticks == Tick /\ UNCHANGED <<ipVars, events>>
Asks == round.id < MaxRound /\ NewRound /\ UNCHANGED <<ipVars, events>>

MCNext ==
  \/ \E w \in Lrn : Works(w) \/ Returns(w)
  \/ \E b \in Setters : Sets(b)
  \/ Expires \/ Ticks \/ Asks
  \/ Event /\ round.id < MaxRound
     /\ events < MaxEvent /\ events' = events + 1

\* systemd starts the processes again, and a process that can take a step takes
\* one; the updater asks for a round whenever it has to.
MCSpec ==
  /\ MCInit /\ [][MCNext]_mcVars
  /\ \A w \in Lrn : WF_mcVars(Works(w)) /\ WF_mcVars(Returns(w))
  /\ \A b \in Setters : WF_mcVars(Sets(b))
  /\ WF_mcVars(Expires) /\ WF_mcVars(Ticks) /\ WF_mcVars(Asks)
=============================================================================
