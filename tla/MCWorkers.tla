----------------------------- MODULE MCWorkers -----------------------------
(***************************************************************************)
(* Workers for TLC: every event that the environment may repeat for ever   *)
(* has a budget.                                                           *)
(***************************************************************************)
EXTENDS Workers, TLC

CONSTANTS
  b1, b2,       \* boot servers
  MaxStart,     \* rounds started after the first
  MaxStop,      \* rounds stopped
  MaxFail,      \* failing steps, installations, reports and watches
  MaxCrash      \* workers killed

VARIABLE left   \* what remains of these budgets

mcVars == <<workersVars, left>>

Symmetry == Permutations(Lrn)

\* Faults of the workers in the first round, or the round is stopped, or
\* another one follows it: together they are out of reach.
Follows(event) ==
  /\ event # "start" => left.start = MaxStart
  /\ event # "stop" => left.stop = MaxStop
  /\ event \in {"start", "stop"} => left.fail = MaxFail /\ left.crash = MaxCrash

Spend(event) ==
  /\ Follows(event)
  /\ left[event] > 0
  /\ left' = [left EXCEPT ![event] = @ - 1]

MCInit ==
  /\ WorkersInit
  /\ left = [start |-> MaxStart, stop |-> MaxStop, fail |-> MaxFail,
             crash |-> MaxCrash]

\* The rounds that neco-updater starts.
Completed ==
  /\ current # NoRequest
  /\ ~current.stop
  /\ UpdateCompleted(current.version, current.servers, statuses)

Start ==
  \/ /\ Completed
     /\ RestartRound(current.version, InitServers)
  \/ \E version \in Version :
       /\ current = NoRequest \/ (Completed /\ version # current.version)
       /\ StartRound(version, InitServers)

MCNext ==
  \/ \E w \in Lrn : (WorkerStep(w) \/ InstallNeco(w)) /\ UNCHANGED left
  \/ \E w \in Lrn : Spend("fail") /\ WorkerFails(w)
  \/ \E w \in Lrn : Spend("crash") /\ Crash(w)
  \/ Spend("start") /\ Start
  \/ Spend("stop") /\ ~current.stop /\ StopRound
  \/ Recover /\ UNCHANGED left

MCSpec == MCInit /\ [][MCNext]_mcVars

----------------------------------------------------------------------------
(***************************************************************************)
(* No worker can ever read again an entry of log that is before its        *)
(* position in the watch (or before the request in hand, or before rev     *)
(* when it waits), and a worker that starts reads the last request and     *)
(* what follows it.  Two states that differ only in the other entries have *)
(* the same future, and no property looks at them, so TLC need not tell    *)
(* them apart.                                                             *)
(***************************************************************************)
ReadsFrom(w) ==
  CASE pc[w] \in {"boot", "start"}            -> currentRev
    [] pc[w] = "wait"                         -> rev[w] + 1
    [] pc[w] \in {"install", "statuses", "abort", "update"} -> modRev[w]
    [] OTHER                                  -> pos[w] + 1

Live(i) ==
  \/ i >= currentRev
  \/ \E w \in Lrn : i >= ReadsFrom(w) \/ i = modRev[w]

View ==
  <<[i \in 1 .. Len(log) |-> IF Live(i) THEN log[i] ELSE InfoChange],
    current, currentRev, statuses, bootservers, release, operatorVars,
    workerVars, left>>
============================================================================
