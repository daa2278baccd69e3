---------------------------- MODULE StateSetter ----------------------------
(***************************************************************************)
(* sabakan-state-setter (pkg/sabakan-state-setter): the elected process    *)
(* sets the states of the machines in sabakan by their health, retires     *)
(* machines and switches the retired ones off; with what it runs of neco   *)
(* tpm clear and neco power (pkg/neco/cmd).  sabakan, the BMC, serf,       *)
(* monitor-hw and Alertmanager are external.                               *)
(* Time is counted in ages that stop just past the grace period.           *)
(***************************************************************************)
EXTENDS Integers, Sequences, FiniteSets

CONSTANTS
  Machine,      \* machines, by serial
  Setter,       \* boot servers that run sabakan-state-setter
  Nobody,       \* nobody is elected
  Types,        \* machine types that occur
  KnownTypes,   \* the ones in the configuration file
  Targets,      \* for each known type: the metrics to check
  Minimum,      \* for each metric: minimum-healthy-count, or All
  All,          \* no minimum-healthy-count
  Conditions,   \* in what condition a machine may be
  Grace         \* grace-period

ASSUME StateSetterAssumption ==
  /\ Grace \in Nat
  /\ KnownTypes \subseteq DOMAIN Targets
  /\ Nobody \notin Setter

VARIABLES
  \* The world.
  type,         \* machine-type of each machine
  state,        \* its state in sabakan
  crypts,       \* does sabakan have encryption keys of its disks?
  tpm,          \* keys, pending (to be cleared at the next start) or cleared
  on,           \* is it on?
  cond,         \* its condition: [serf, units, metrics, alerts]
  \* The processes.
  leader,       \* the owner of leader/sabakan-state-setter/
  pc,           \* where runOnce is; down when the process does not run
  known,        \* the states that GetAllMachines returned, or Nothing
  seen,         \* serf status and alerts of the machines, or Nothing
  newState,     \* newStateMap
  age,          \* unhealthyMachines: for how long, or Never
  todo,         \* machines that are left in the loop
  stopping,     \* machineShutdown: machines that are left
  \* What the properties look back on.
  judged        \* for how long the leader has judged it unhealthy, or Never

world == <<type, state, crypts, tpm, on, cond>>
runVars == <<pc, known, seen, newState, age, todo>>
setterVars == <<world, leader, runVars, stopping, judged>>

Never == -1
Nothing == <<>>
Checked == {"uninitialized", "healthy", "unhealthy", "unreachable"}
States == Checked \cup {"updating", "retiring", "retired"}
doNotChangeState == "none"

First(S) == CHOOSE m \in S : TRUE
Goto(s, place) == pc' = [pc EXCEPT ![s] = place]

\* The variables of runOnce end with it.
Forget(s) ==
  /\ known' = [known EXCEPT ![s] = Nothing]
  /\ seen' = [seen EXCEPT ![s] = Nothing]
  /\ newState' = [newState EXCEPT ![s] = Nothing]
  /\ todo' = [todo EXCEPT ![s] = {}]

----------------------------------------------------------------------------
(* Judging a machine. *)

\* values are the gauges of the metric that match the selector; 0 is healthy.
checkTarget(target, values) ==
  LET healthyCount == Cardinality({i \in DOMAIN values : values[i] = 0})
  IN  /\ values # <<>>
      /\ healthyCount >= IF Minimum[target] = All THEN Len(values)
                         ELSE Minimum[target]

\* metrics is empty when monitor-hw does not answer, and lacks the metrics that
\* it does not report.
decideByMonitorHW(t, metrics) ==
  /\ t \in KnownTypes
  /\ \A target \in Targets[t] :
       target \in DOMAIN metrics /\ checkTarget(target, metrics[target])

\* GetAlertStatuses for one machine: the states of the alerts that fire, in the
\* order of trigger-alerts; a less severe state does not overwrite.
GetAlertStatuses(alerts) ==
  LET status[i \in 0 .. Len(alerts)] ==
        IF i = 0 THEN "none"
        ELSE IF status[i - 1] = "unreachable" THEN "unreachable" ELSE alerts[i]
  IN  status[Len(alerts)]

\* "Check the severest state first."
decideMachineStateCandidate(t, c) ==
  LET alert == GetAlertStatuses(c.alerts)
  IN  CASE c.serf # "alive"        -> "unreachable"
        [] c.serf = "alive" /\ alert = "unhealthy"   -> "unhealthy_immediate"
        [] c.serf = "alive" /\ alert = "unreachable" -> "unreachable"
        [] OTHER ->
             IF c.units = "failed" \/ ~decideByMonitorHW(t, c.metrics)
             THEN "unhealthy"
             ELSE IF c.units = "unknown" THEN doNotChangeState ELSE "healthy"

----------------------------------------------------------------------------
(* Election. *)

StartSetter(s) ==
  /\ pc[s] = "down"
  /\ Goto(s, "campaign")
  /\ UNCHANGED <<world, leader, known, seen, newState, age, todo, stopping,
                 judged>>

Campaign(s) ==
  /\ pc[s] = "campaign" /\ leader = Nobody
  /\ leader' = s
  /\ Goto(s, "tick")
  /\ UNCHANGED <<world, known, seen, newState, age, todo, stopping, judged>>

\* Variant: the leader does not resign.
ExitOnly(s) ==
  /\ Goto(s, "down")
  /\ stopping' = [stopping EXCEPT ![s] = {}]
  /\ age' = [age EXCEPT ![s] = [m \in Machine |-> Never]]
  /\ Forget(s)
  /\ UNCHANGED <<world, leader, judged>>

\* Run returns: resign and exit; machineShutdown ends with the process.
Exit(s) ==
  /\ Goto(s, "down")
  /\ leader' = IF leader = s THEN Nobody ELSE leader
  /\ stopping' = [stopping EXCEPT ![s] = {}]
  /\ age' = [age EXCEPT ![s] = [m \in Machine |-> Never]]
  /\ Forget(s)
  /\ UNCHANGED <<world, judged>>

Elected(s) == pc[s] \notin {"down", "campaign"}

\* The session expires.
Deposed(s) ==
  /\ leader = s
  /\ leader' = Nobody
  /\ UNCHANGED <<world, runVars, stopping, judged>>

\* watchLeaderKey notices that.
watchLeaderKey(s) == Elected(s) /\ leader # s /\ Exit(s)

----------------------------------------------------------------------------
(* runOnce. *)

GetAllMachines(s) ==
  /\ pc[s] = "tick"
  /\ known' = [known EXCEPT ![s] = state]
  /\ Goto(s, "serf")
  /\ UNCHANGED <<world, leader, seen, newState, age, todo, stopping, judged>>

GetSerfStatus(s) ==
  /\ pc[s] = "serf"
  /\ seen' = [seen EXCEPT ![s] = cond]
  /\ Goto(s, "alerts")
  /\ UNCHANGED <<world, leader, known, newState, age, todo, stopping, judged>>

\* "return an error to exit this process"
SerfFails(s) == pc[s] = "serf" /\ Exit(s)

\* "It is not a critical error that Alertmanager is down."
Alerts(s, answered) ==
  /\ pc[s] = "alerts"
  /\ seen' = [seen EXCEPT ![s] = [m \in Machine |->
       [@[m] EXCEPT !.alerts = IF answered THEN cond[m].alerts ELSE <<>>]]]
  /\ Goto(s, "metrics")
  /\ UNCHANGED <<world, leader, known, newState, age, todo, stopping, judged>>

\* Each machine's monitor-hw is asked when serf and Alertmanager have been.
machineHealthCheck(s) ==
  /\ pc[s] = "metrics"
  /\ newState' = [newState EXCEPT ![s] = [m \in Machine |->
       IF known[s][m] \notin Checked THEN doNotChangeState
       ELSE decideMachineStateCandidate(
              type[m], [seen[s][m] EXCEPT !.metrics = cond[m].metrics])]]
  /\ seen' = [seen EXCEPT ![s] = Nothing]
  /\ todo' = [todo EXCEPT ![s] = {m \in Machine : known[s][m] = "retiring"}]
  /\ Goto(s, "retire")
  /\ UNCHANGED <<world, leader, known, age, stopping, judged>>

Skip(s, place) ==
  /\ todo' = [todo EXCEPT ![s] = @ \ {First(@)}]
  /\ Goto(s, place)

CryptsDelete(s) ==
  /\ pc[s] = "retire" /\ todo[s] # {}
  /\ crypts' = [crypts EXCEPT ![First(todo[s])] = FALSE]
  /\ Goto(s, "tpm")
  /\ UNCHANGED <<type, state, tpm, on, cond, leader, known, seen, newState,
                 age, todo, stopping, judged>>

\* Variant: the machine is not skipped.
CryptsDeleteFailsOn(s) ==
  /\ pc[s] = "retire" /\ todo[s] # {}
  /\ Goto(s, "tpm")
  /\ UNCHANGED <<world, leader, known, seen, newState, age, todo, stopping,
                 judged>>

CryptsDeleteFails(s) ==
  /\ pc[s] = "retire" /\ todo[s] # {}
  /\ Skip(s, "retire")
  /\ UNCHANGED <<world, leader, known, seen, newState, age, stopping, judged>>

\* neco power.
power(m, action) ==
  on' = [on EXCEPT ![m] = CASE action = "start" -> TRUE [] action = "stop" -> FALSE
                            [] OTHER -> @]

startOrRestart(m) == power(m, IF on[m] THEN "restart" ELSE "start")

\* A job for the BIOS, which is done at the next start.
dellRedfishClearTpm(m) ==
  /\ tpm' = [tpm EXCEPT ![m] = "pending"]
  /\ startOrRestart(m)

\* supportedMachineTypes: those that are not virtual.
DellRedfish(m) == type[m] \notin {"qemu", "unknown"}

\* neco tpm clear: only for a machine that is retiring now.  A virtual machine is
\* switched off; so is one of an unknown type, and that is an error.
TPMClear(s) ==
  LET m == First(todo[s])
      cleared == state[m] = "retiring" /\ type[m] # "unknown"
  IN  /\ pc[s] = "tpm"
      /\ IF state[m] = "retiring"
         THEN IF DellRedfish(m) THEN dellRedfishClearTpm(m)
              ELSE power(m, "stop") /\ UNCHANGED tpm
         ELSE UNCHANGED <<tpm, on>>
      /\ newState' = [newState EXCEPT ![s][m] = IF cleared THEN "retired" ELSE @]
      /\ Skip(s, "retire")
      /\ UNCHANGED <<type, state, crypts, cond, leader, known, seen, age,
                     stopping, judged>>

\* The job may have been made before the restart failed.
TPMClearFails(s) ==
  LET m == First(todo[s])
      made == IF state[m] = "retiring" /\ DellRedfish(m)
              THEN {tpm[m], "pending"} ELSE {tpm[m]}
  IN  /\ pc[s] = "tpm"
      /\ \E t \in made : tpm' = [tpm EXCEPT ![m] = t]
      /\ Skip(s, "retire")
      /\ UNCHANGED <<type, state, crypts, on, cond, leader, known, seen,
                     newState, age, stopping, judged>>

----------------------------------------------------------------------------
(* The update of the states. *)

Unchanged(s, m) ==
  \/ newState[s][m] \in {doNotChangeState, known[s][m]}
  \/ newState[s][m] = "unhealthy_immediate" /\ known[s][m] = "unhealthy"

Waits(s, m) == newState[s][m] = "unhealthy" /\ known[s][m] # "unhealthy"

\* Variant: the period is counted from the first time ever.
RegisteredForever(s, m) ==
  IF Waits(s, m) /\ age[s][m] = Never THEN 0 ELSE age[s][m]

\* Variant: the period starts again at every check.
RegisteredAnew(s, m) == IF Waits(s, m) THEN 0 ELSE Never

\* RegisterUnhealthy, or ClearUnhealthy.
Registered(s, m) ==
  IF ~Waits(s, m) THEN Never
  ELSE IF age[s][m] = Never THEN 0 ELSE age[s][m]

\* RegisterUnhealthy's result.
Ripe(s, m) ==
  age[s][m] # Never /\ (type[m] \in KnownTypes => age[s][m] > Grace)

\* The part of the loop that is local to the process, for all machines.
Judge(s) ==
  /\ pc[s] = "retire" /\ todo[s] = {}
  /\ age' = [age EXCEPT ![s] = [m \in Machine |-> Registered(s, m)]]
  /\ newState' = [newState EXCEPT ![s] = [m \in Machine |->
       IF Unchanged(s, m) \/ (Waits(s, m) /\ ~Ripe(s, m)) THEN doNotChangeState
       ELSE newState[s][m]]]
  /\ todo' = [todo EXCEPT ![s] =
       {m \in Machine : newState'[s][m] # doNotChangeState}]
  /\ judged' = IF leader # s THEN judged
               ELSE [m \in Machine |->
                      IF newState[s][m] # "unhealthy" THEN Never
                      ELSE IF judged[m] = Never THEN 0 ELSE judged[m]]
  /\ known' = [known EXCEPT ![s] = Nothing]
  /\ Goto(s, "update")
  /\ UNCHANGED <<world, leader, seen, stopping>>

\* The transitions that sabakan allows.
Allowed(from, to) ==
  \/ from \in Checked /\ to \in {"healthy", "unhealthy", "unreachable",
                                 "updating", "retiring"}
  \/ from = "retiring" /\ to = "retired"
  \/ from \in {"updating", "retired"} /\ to = "uninitialized"

\* An error is logged, or not even that.
UpdateSabakanState(s) ==
  LET m == First(todo[s])
      to == IF newState[s][m] = "unhealthy_immediate" THEN "unhealthy"
            ELSE newState[s][m]
  IN  /\ pc[s] = "update" /\ todo[s] # {}
      /\ state' = [state EXCEPT ![m] = IF Allowed(@, to) THEN to ELSE @]
      /\ Skip(s, "update")
      /\ UNCHANGED <<type, crypts, tpm, on, cond, leader, known, seen,
                     newState, age, stopping, judged>>

UpdateFails(s) ==
  /\ pc[s] = "update" /\ todo[s] # {}
  /\ Skip(s, "update")
  /\ UNCHANGED <<world, leader, known, seen, newState, age, stopping, judged>>

Done(s) ==
  /\ pc[s] = "update" /\ todo[s] = {}
  /\ Goto(s, "tick")
  /\ Forget(s)
  /\ UNCHANGED <<world, leader, age, stopping, judged>>

----------------------------------------------------------------------------
(* machineShutdown, a cron job in the elected process. *)

GetRetiredMachines(s) ==
  /\ Elected(s) /\ stopping[s] = {}
  /\ stopping' = [stopping EXCEPT ![s] = {m \in Machine : state[m] = "retired"}]
  /\ stopping'[s] # {}
  /\ UNCHANGED <<world, leader, runVars, judged>>

\* PowerStatus, and PowerStop unless it is off; each may fail.
PowerStop(s, ok) ==
  /\ stopping[s] # {}
  /\ stopping' = [stopping EXCEPT ![s] = @ \ {First(@)}]
  /\ power(First(stopping[s]), IF ok /\ on[First(stopping[s])] THEN "stop" ELSE "status")
  /\ UNCHANGED <<type, state, crypts, tpm, cond, leader, runVars, judged>>

----------------------------------------------------------------------------
(* The machines and their operators. *)

\* sabactl machines set-state.
SetState(m, to) ==
  /\ Allowed(state[m], to)
  /\ state' = [state EXCEPT ![m] = to]
  /\ UNCHANGED <<type, crypts, tpm, on, cond, leader, runVars, stopping,
                 judged>>

\* A runOnce that is about to clear m's TPM or has decided that m is retired.
Retires(s, m) ==
  \/ pc[s] = "tpm" /\ First(todo[s]) = m
  \/ newState[s] # Nothing /\ newState[s][m] = "retired"

\* A machine that is taken into use again makes keys for its disks.  That takes
\* longer than what is left of any runOnce in which it was retired.
Reuse(m) ==
  /\ state[m] = "retired"
  /\ \A s \in Setter : ~Retires(s, m)
  /\ state' = [state EXCEPT ![m] = "uninitialized"]
  /\ crypts' = [crypts EXCEPT ![m] = TRUE]
  /\ tpm' = [tpm EXCEPT ![m] = "keys"]
  /\ on' = [on EXCEPT ![m] = TRUE]
  /\ UNCHANGED <<type, cond, leader, runVars, stopping, judged>>

Changes(m) ==
  /\ \E c \in Conditions : cond' = [cond EXCEPT ![m] = c]
  /\ UNCHANGED <<type, state, crypts, tpm, on, leader, runVars, stopping,
                 judged>>

\* The BIOS runs the job at the start.
BiosStarts(m) ==
  /\ tpm[m] = "pending" /\ on[m]
  /\ tpm' = [tpm EXCEPT ![m] = "cleared"]
  /\ UNCHANGED <<type, state, crypts, on, cond, leader, runVars, stopping,
                 judged>>

Older(a) == IF a \in {Never, Grace + 1} THEN a ELSE a + 1

Tick ==
  /\ age' = [s \in Setter |-> [m \in Machine |-> Older(age[s][m])]]
  /\ judged' = [m \in Machine |-> Older(judged[m])]
  /\ UNCHANGED <<world, leader, pc, known, seen, newState, todo, stopping>>

----------------------------------------------------------------------------
RunStep(s) ==
  \/ StartSetter(s) \/ Campaign(s) \/ watchLeaderKey(s)
  \/ GetAllMachines(s) \/ GetSerfStatus(s) \/ Alerts(s, TRUE)
  \/ machineHealthCheck(s) \/ CryptsDelete(s) \/ TPMClear(s) \/ Judge(s)
  \/ UpdateSabakanState(s) \/ Done(s)

ShutdownStep(s) == GetRetiredMachines(s) \/ PowerStop(s, TRUE)

RunFails(s) ==
  \/ Deposed(s) \/ SerfFails(s) \/ Alerts(s, FALSE) \/ CryptsDeleteFails(s)
  \/ TPMClearFails(s) \/ UpdateFails(s) \/ PowerStop(s, FALSE)

StateSetterInit ==
  /\ type \in [Machine -> Types]
  /\ state = [m \in Machine |-> "uninitialized"]
  /\ crypts = [m \in Machine |-> TRUE]
  /\ tpm = [m \in Machine |-> "keys"]
  /\ on = [m \in Machine |-> TRUE]
  /\ cond \in [Machine -> Conditions]
  /\ leader = Nobody
  /\ pc = [s \in Setter |-> "down"]
  /\ known = [s \in Setter |-> Nothing]
  /\ seen = [s \in Setter |-> Nothing]
  /\ newState = [s \in Setter |-> Nothing]
  /\ age = [s \in Setter |-> [m \in Machine |-> Never]]
  /\ todo = [s \in Setter |-> {}]
  /\ stopping = [s \in Setter |-> {}]
  /\ judged = [m \in Machine |-> Never]

\* Operators mark machines, and end an update or a retirement.
Operate(m) ==
  \/ \E to \in {"updating", "retiring"} : SetState(m, to)
  \/ state[m] = "updating" /\ SetState(m, "uninitialized")
  \/ Reuse(m)

StateSetterNext ==
  \/ \E s \in Setter : RunStep(s) \/ ShutdownStep(s) \/ RunFails(s)
  \/ \E m \in Machine : Operate(m) \/ Changes(m) \/ BiosStarts(m)
  \/ Tick

StateSetterSpec == StateSetterInit /\ [][StateSetterNext]_setterVars

----------------------------------------------------------------------------
\* The types of the variables, and that the leader has been elected.
StateSetterTypeOK ==
  /\ type \in [Machine -> Types] /\ state \in [Machine -> States]
  /\ crypts \in [Machine -> BOOLEAN] /\ on \in [Machine -> BOOLEAN]
  /\ tpm \in [Machine -> {"keys", "pending", "cleared"}]
  /\ cond \in [Machine -> Conditions]
  /\ pc \in [Setter -> {"down", "campaign", "tick", "serf", "alerts", "metrics",
                        "retire", "tpm", "update"}]
  /\ leader # Nobody => Elected(leader)
  /\ \A s \in Setter : todo[s] \subseteq Machine /\ stopping[s] \subseteq Machine
  /\ age \in [Setter -> [Machine -> Never .. Grace + 1]]
  /\ judged \in [Machine -> Never .. Grace + 1]

\* A machine is retired only when its disks' keys are gone from sabakan and, but
\* for a virtual one, its TPM is cleared or will be at the next start:
\* machineRetire skips a machine when one of the two fails, and runOnce sets the
\* state last, when the machine may have changed.
RetiredIsWiped ==
  \A m \in Machine :
    state[m] = "retired" =>
      ~crypts[m] /\ (tpm[m] # "keys" \/ type[m] = "qemu")

\* "sabakan-state-setter updates the machine state if and only if it judges the
\* machine's state as unhealthy for the time specified" (the documentation of
\* the grace period; RegisterUnhealthy, ClearUnhealthy): when the leader makes
\* a machine of a known type unhealthy without an alert, all its judgements for
\* longer than the grace period were unhealthy.
GraceRespected ==
  [][\A s \in Setter, m \in Machine :
       /\ leader = s /\ pc[s] = "retire" /\ pc'[s] = "update"
       /\ newState'[s][m] = "unhealthy" /\ type[m] \in KnownTypes
       => judged[m] > Grace]_setterVars

\* What becomes of a machine in the end.
Settled(m) ==
  LET candidate == decideMachineStateCandidate(type[m], cond[m])
  IN  CASE state[m] \in Checked ->
             \/ candidate \in {state[m], doNotChangeState}
             \/ candidate = "unhealthy_immediate" /\ state[m] = "unhealthy"
        [] state[m] = "retiring" -> type[m] = "unknown"
        [] state[m] = "retired" -> ~on[m]
        [] state[m] = "updating" -> TRUE

\* When machines and operators come to rest, every state in sabakan follows the
\* machine's condition, machines that are to retire are retired but for the
\* types that neco tpm clear does not know, and retired ones are off (runOnce,
\* machineRetire, machineShutdown).
StateFollows == <>[](\A m \in Machine : Settled(m))
=============================================================================
