----------------------------- MODULE NecoUpdate -----------------------------
(***************************************************************************)
(* The automatic update of a set of boot servers: a neco-worker on each,   *)
(* neco-updater on some of them, etcd between them, and the administrator, *)
(* GitHub, the clock and the faults as their environment.                  *)
(***************************************************************************)
EXTENDS Workers, Updaters

vars == <<storageVars, operatorVars, workerVars, updaterVars>>

Init == WorkersInit /\ UpdatersInit

\* The package's scripts restart the updater of the same server too.
Installs(w) ==
  /\ InstallNeco(w)
  /\ IF w \in UpdaterHosts THEN UpdaterExit(w) ELSE UNCHANGED updaterVars

Works(w) == Installs(w) \/ (WorkerStep(w) /\ UNCHANGED updaterVars)

WorkerFault(w) == (WorkerFails(w) \/ Crash(w)) /\ UNCHANGED updaterVars

Updates(u) == UpdaterStep(u) /\ UNCHANGED <<operatorVars, workerVars>>

Next ==
  \/ \E w \in Lrn : Works(w) \/ WorkerFault(w)
  \/ \E u \in UpdaterHosts : Updates(u)
  \/ /\ OutsideNext \/ \E u \in UpdaterHosts : UpdaterFault(u)
     /\ UNCHANGED <<operatorVars, workerVars>>

Spec == Init /\ [][Next]_vars

\* systemd keeps the processes running, so a process that can take a step
\* takes one.  Nothing is assumed of the environment.
Fairness ==
  /\ \A w \in Lrn : WF_vars(Works(w))
  /\ \A u \in UpdaterHosts : WF_vars(Updates(u))

TypeOK == WorkersTypeOK /\ UpdaterTypeOK

----------------------------------------------------------------------------
\* The current round is over: everyone has completed it, or it is stopped.
RoundOver ==
  \/ current = NoRequest
  \/ current.stop
  \/ UpdateCompleted(current.version, current.servers, statuses)

\* No round hangs: whatever fails, every round that is started is completed or
\* stopped, without help from the worker timeout (the barrier, UpdateAborted
\* after a restart, registerAbort and the updater's waitComplete together;
\* docs/update.md asks "how to guarantee all boot servers reach a checkpoint").
EveryRoundEnds ==
  (current # NoRequest /\ currentRev = Len(log)) ~> RoundOver
=============================================================================
