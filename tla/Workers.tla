------------------------------ MODULE Workers ------------------------------
(***************************************************************************)
(* The workers of all boot servers under any sequence of requests.  This   *)
(* is what neco-worker must cope with whatever neco-updater and the        *)
(* administrator do; NecoUpdate adds the updater that neco really has.     *)
(***************************************************************************)
EXTENDS Worker

\* neco setup has installed and started Vault; the workers are started.
WorkersInit ==
  /\ StorageInit
  /\ neco = [w \in Lrn |-> InitVersion]
  /\ vaultUnit = [w \in Lrn |-> InitVersion]
  /\ vault = [w \in Lrn |-> IF w \in InitServers THEN InitVersion ELSE 0]
  /\ cke = [w \in Lrn |-> InitVersion]
  /\ pc = [w \in Lrn |-> "boot"]
  /\ rev = [w \in Lrn |-> 0]
  /\ modRev = [w \in Lrn |-> 0]
  /\ myst = [w \in Lrn |-> NoStatus]
  /\ step = [w \in Lrn |-> 1]
  /\ barrier = [w \in Lrn |-> {}]
  /\ pos = [w \in Lrn |-> 0]
  /\ done = {}

----------------------------------------------------------------------------
WorkerFails(w) ==
  InstallFails(w) \/ WatchFails(w) \/ RunStepFails(w) \/ ReportLost(w)

WorkerNext(w) ==
  WorkerStep(w) \/ InstallNeco(w) \/ WorkerFails(w) \/ Crash(w)

\* Someone starts a round, keeping the statuses of the previous one
\* (PutRequest) or removing them (PutReconfigureRequest).
StartRound(version, servers) ==
  /\ PutRequest(NewRequest(version, servers))
  /\ UNCHANGED <<operatorVars, workerVars>>

RestartRound(version, servers) ==
  /\ PutReconfigureRequest(NewRequest(version, servers))
  /\ UNCHANGED <<operatorVars, workerVars>>

\* Someone stops the round that is in progress.
StopRound ==
  /\ current # NoRequest
  /\ PutRequest([current EXCEPT !.stop = TRUE])
  /\ UNCHANGED <<operatorVars, workerVars>>

Recover == ClearStatusAndContents /\ UNCHANGED <<operatorVars, workerVars>>

InfoChanges ==
  /\ \/ \E lrn \in Lrn : RegisterBootserver(lrn) \/ DeleteBootServer(lrn)
     \/ \E version \in Version : UpdateNecoRelease(version)
  /\ UNCHANGED <<operatorVars, workerVars>>

EnvironmentNext ==
  \/ \E version \in Version, servers \in SUBSET Lrn :
       StartRound(version, servers) \/ RestartRound(version, servers)
  \/ StopRound
  \/ Recover
  \/ InfoChanges

WorkersNext == (\E w \in Lrn : WorkerNext(w)) \/ EnvironmentNext

workersVars == <<storageVars, operatorVars, workerVars>>

WorkersSpec == WorkersInit /\ [][WorkersNext]_workersVars

WorkersTypeOK == StorageTypeOK /\ OperatorTypeOK /\ WorkerTypeOK

----------------------------------------------------------------------------
(* The steps of an update are taken in lock step. *)

\* version's step was run to success by lrn after the request at revision r
\* was written.
RanStep(lrn, version, s, r) ==
  \E d \in done : /\ d.lrn = lrn
                  /\ d.version = version
                  /\ d.step = s
                  /\ d.at >= r

\* A worker that is in a step after the first has seen every server of its
\* request finish the previous step, since the request was written
\* (handleWorkerStatus and Barrier.Check; docs/update.md: "Once all workers
\* record the new step, they proceed to the step").
BarrierOrder ==
  \A w \in Lrn : pc[w] \in {"runStep", "report", "restart"} /\ step[w] > 1 =>
    \A m \in req(w).servers :
      RanStep(m, req(w).version, step[w] - 1, modRev[w])

\* A server whose status says that a version is complete has run every step
\* of that version (runStep reports completion after the final step only).
CompleteMeansAllSteps ==
  \A w \in Lrn : statuses[w].cond = "complete" =>
    \A s \in 1 .. FinalStep : RanStep(w, statuses[w].version, s, 0)

----------------------------------------------------------------------------
(* The services that must not run in two versions at once. *)

\* w carries out a step, and no server has finished it since the request.
FirstInStep(w, s) ==
  /\ pc[w] = "runStep"
  /\ step[w] = s
  /\ \A m \in Lrn : ~RanStep(m, req(w).version, s, modRev[w])

\* When the first worker enters the step that updates Vault, Vault is stopped
\* on every server that is in that step with it (StopVault at the step before;
\* docs/update.md: "Wait until Vault services stop in all boot servers").  A
\* worker that was killed and started again is not in the step any more, and
\* StartServices has started its Vault.
VaultStoppedInStep ==
  \A w, m \in Lrn :
    /\ FirstInStep(w, UpdateVaultStep)
    /\ pc[m] \in {"watch", "runStep", "report"}
    /\ step[m] = UpdateVaultStep
    /\ modRev[m] = modRev[w]
    => vault[m] = 0
============================================================================
