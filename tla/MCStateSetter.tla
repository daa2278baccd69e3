--------------------------- MODULE MCStateSetter ---------------------------
(***************************************************************************)
(* StateSetter for TLC: MaxEvent times a machine's condition or state is   *)
(* changed from outside, or something fails.                               *)
(***************************************************************************)
EXTENDS StateSetter

CONSTANT MaxEvent

VARIABLE events

mcVars == <<setterVars, events>>

MCTargets == [dell |-> {"cpu", "ssd"}, qemu |-> {}]
MCMinimum == [cpu |-> All, ssd |-> 1]

Good == [serf |-> "alive", units |-> "ok", alerts |-> <<>>,
         metrics |-> [cpu |-> <<0>>, ssd |-> <<0, 2>>]]

\* Starting, failed units, no longer alive, bad metrics, and alerts.
MCConditions ==
  { Good,
    [Good EXCEPT !.units = "unknown"],
    [Good EXCEPT !.serf = "failed"],
    [Good EXCEPT !.metrics = [cpu |-> <<0, 1>>, ssd |-> <<0>>]],
    [Good EXCEPT !.units = "failed", !.alerts = <<"unreachable", "unhealthy">>],
    [Good EXCEPT !.alerts = <<"unhealthy">>] }

MCInit ==
  /\ StateSetterInit
  /\ cond = [m \in Machine |-> Good]
  /\ events = 0

Event ==
  \E m \in Machine :
    \/ \E to \in {"updating", "retiring"} : SetState(m, to)
    \/ Reuse(m)
    \/ Changes(m)

\* What an update of the machine ends with.
Updated == \E m \in Machine : state[m] = "updating" /\ SetState(m, "uninitialized")

Runs(s) == RunStep(s) /\ UNCHANGED events
Stops(s) == ShutdownStep(s) /\ UNCHANGED events
Boots == (\E m \in Machine : BiosStarts(m)) /\ UNCHANGED events
Ticks == Tick /\ UNCHANGED events

MCNext ==
  \/ \E s \in Setter : Runs(s) \/ Stops(s)
  \/ Boots \/ Ticks
  \/ Updated /\ UNCHANGED events
  \/ (Event \/ \E s \in Setter : RunFails(s))
     /\ events < MaxEvent /\ events' = events + 1

\* systemd starts the process again, timers fire and calls return.
MCSpec ==
  /\ MCInit /\ [][MCNext]_mcVars
  /\ \A s \in Setter : WF_mcVars(Runs(s)) /\ WF_mcVars(Stops(s))
  /\ WF_mcVars(Boots) /\ WF_mcVars(Ticks)
=============================================================================
