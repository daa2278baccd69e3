------------------------------- MODULE Worker -------------------------------
(***************************************************************************)
(* neco-worker: the process on every boot server that carries out update   *)
(* requests in lock step with the workers of the other boot servers.       *)
(* Source: worker/worker.go, strategy.go, barrier.go and the watchers of   *)
(* storage/.                                                               *)
(*                                                                         *)
(* Every access to etcd is an action of its own, so other processes may    *)
(* move between any two of them.  The process keeps its local variables    *)
(* while it runs and loses them when it exits; systemd starts it again.    *)
(***************************************************************************)
EXTENDS Operator

CONSTANT
  PromptReports  \* TRUE: a worker reports the final step before another one
                 \* has restarted its etcd; FALSE: no such timing assumption

ASSUME PromptReportsAssumption == PromptReports \in BOOLEAN

VARIABLES
  pc,       \* where the process is in Worker.Run
  rev,      \* revision WaitRequest continues from
  modRev,   \* revision of the request in hand
  myst,     \* own status as read by GetStatuses
  step,     \* w.step
  barrier,  \* w.barrier: the servers not seen yet at this step
  pos,      \* revision of the last event the status watcher delivered
  done      \* history: the steps that ran to success, each with the revision
            \* of the latest request at that time

workerVars == <<pc, rev, modRev, myst, step, barrier, pos, done>>

\* Places in Run.
\*   boot      before StartServices         start     before GetRequestWithRev
\*   wait      in WaitRequest               install   before UpdateNeco
\*   statuses  before GetStatuses           abort     before putting own abort
\*   update    before the first PutStatus   watch     in StatusWatcher.Watch
\*   runStep   in operator.RunStep          report    before reporting success
\*   failed    before reporting failure     error     before registerAbort
\*   restart   in RestartEtcd
Place == {"boot", "start", "wait", "install", "statuses", "abort", "update",
          "watch", "runStep", "report", "failed", "error", "restart"}

req(w) == log[modRev[w]].req

Goto(w, place) == pc' = [pc EXCEPT ![w] = place]

\* The local variables that concern one request.
Forget(w) ==
  /\ modRev' = [modRev EXCEPT ![w] = 0]
  /\ myst' = [myst EXCEPT ![w] = NoStatus]
  /\ step' = [step EXCEPT ![w] = 1]
  /\ barrier' = [barrier EXCEPT ![w] = {}]
  /\ pos' = [pos EXCEPT ![w] = 0]
  /\ UNCHANGED done

\* Run waits for the next request.
Wait(w) == Goto(w, "wait") /\ Forget(w) /\ UNCHANGED rev

\* The process ends and its local variables with it.
Exit(w) == Goto(w, "boot") /\ Forget(w) /\ rev' = [rev EXCEPT ![w] = 0]

----------------------------------------------------------------------------
(* Run: finding a request. *)

StartProcess(w) ==
  /\ pc[w] = "boot"
  /\ StartServices(w)
  /\ Goto(w, "start")
  /\ UNCHANGED <<rev, modRev, myst, step, barrier, pos, done, storageVars>>

\* What Run does with a request it has just read.
Consider(w, r, modRevision) ==
  \/ /\ r.stop \/ ~IsMember(r, w)
     /\ Goto(w, "wait")
     /\ UNCHANGED modRev
  \/ /\ ~r.stop /\ IsMember(r, w)
     /\ Goto(w, IF neco[w] # r.version THEN "install" ELSE "statuses")
     /\ modRev' = [modRev EXCEPT ![w] = modRevision]

GetRequestWithRev(w) ==
  /\ pc[w] = "start"
  /\ rev' = [rev EXCEPT ![w] = Len(log)]
  /\ \/ current = NoRequest /\ Goto(w, "wait") /\ UNCHANGED modRev
     \/ current # NoRequest /\ Consider(w, current, currentRev)
  /\ UNCHANGED <<myst, step, barrier, pos, done, storageVars, operatorVars>>

WaitRequest(w) ==
  /\ pc[w] = "wait"
  /\ \E k \in 1 .. Len(log) :
       /\ NextEvent(rev[w], {"current"}, k)
       /\ rev' = [rev EXCEPT ![w] = k]
       /\ Consider(w, log[k].req, k)
  /\ UNCHANGED <<myst, step, barrier, pos, done, storageVars, operatorVars>>

\* The package is replaced and its postinst starts the new worker.
InstallNeco(w) ==
  /\ pc[w] = "install"
  /\ UpdateNeco(w, req(w).version)
  /\ Exit(w)
  /\ UNCHANGED storageVars

\* The download or dpkg fails; systemd starts the old worker again.
InstallFails(w) ==
  /\ pc[w] = "install"
  /\ Exit(w)
  /\ UNCHANGED <<storageVars, operatorVars>>

----------------------------------------------------------------------------
(* Run: deciding whether the request is still to be carried out. *)

UpdateAborted(version, mylrn, sts) ==
  \E lrn \in Lrn :
    /\ sts[lrn] # NoStatus
    /\ sts[lrn].version = version
    /\ sts[lrn].cond # "complete"
    /\ \/ sts[lrn].cond = "abort"
       \/ ~(sts[lrn].step = 1 /\ lrn # mylrn)

\* Variant: a worker that finds the update aborted does not say so itself.
GetStatusesSilently(w) ==
  /\ pc[w] = "statuses"
  /\ \/ /\ \/ UpdateAborted(req(w).version, w, statuses)
           \/ UpdateCompleted(req(w).version, req(w).servers, statuses)
        /\ Wait(w)
     \/ /\ ~UpdateAborted(req(w).version, w, statuses)
        /\ ~UpdateCompleted(req(w).version, req(w).servers, statuses)
        /\ Goto(w, "update")
        /\ UNCHANGED <<rev, modRev, myst, step, barrier, pos, done>>
  /\ UNCHANGED <<storageVars, operatorVars>>

GetStatuses(w) ==
  LET aborted == UpdateAborted(req(w).version, w, statuses)
      completed ==
        UpdateCompleted(req(w).version, req(w).servers, statuses)
  IN  /\ pc[w] = "statuses"
      /\ \/ /\ aborted /\ statuses[w] # NoStatus
            /\ myst' = [myst EXCEPT ![w] = statuses[w]]
            /\ Goto(w, "abort")
            /\ UNCHANGED <<rev, modRev, step, barrier, pos, done>>
         \/ /\ \/ aborted /\ statuses[w] = NoStatus
               \/ ~aborted /\ completed
            /\ Wait(w)
         \/ /\ ~aborted /\ ~completed
            /\ Goto(w, "update")
            /\ UNCHANGED <<rev, modRev, myst, step, barrier, pos, done>>
      /\ UNCHANGED <<storageVars, operatorVars>>

PutOwnAbort(w) ==
  /\ pc[w] = "abort"
  /\ PutStatus(w, [myst[w] EXCEPT !.cond = "abort"])
  /\ Wait(w)
  /\ UNCHANGED operatorVars

NewBarrier(lrns) == lrns

\* update(): report step 1 and watch from the revision of the request.
StartUpdate(w) ==
  /\ pc[w] = "update"
  /\ PutStatus(w, Status(req(w).version, 1, "running"))
  /\ step' = [step EXCEPT ![w] = 1]
  /\ barrier' = [barrier EXCEPT ![w] = NewBarrier(req(w).servers)]
  /\ pos' = [pos EXCEPT ![w] = modRev[w]]
  /\ Goto(w, "watch")
  /\ UNCHANGED <<rev, modRev, myst, done, operatorVars>>

----------------------------------------------------------------------------
(* The status watcher's callbacks. *)

\* A callback returns an error: the watcher calls its error handler.
Fails(w) ==
  /\ Goto(w, "error")
  /\ UNCHANGED <<rev, modRev, myst, step, barrier, pos, done>>

\* A stop request ends the update; any other request is unexpected.
handleCurrent(w, k) ==
  /\ log[k].key = "current"
  /\ \/ log[k].req.stop /\ Wait(w)
     \/ ~log[k].req.stop /\ Fails(w)

Unexpected(w, st) ==
  \/ st.version # req(w).version
  \/ st.cond = "abort"
  \/ st.step # step[w]
  \/ st.cond = "complete"

\* Barrier.Check: lrn has arrived; go on when nobody is missing.
Check(w, lrn) ==
  /\ barrier' = [barrier EXCEPT ![w] = @ \ {lrn}]
  /\ Goto(w, IF barrier[w] \subseteq {lrn} THEN "runStep" ELSE "watch")

handleWorkerStatus(w, k) ==
  /\ log[k].key = "status"
  /\ \/ /\ IsMember(req(w), log[k].lrn)
        /\ Unexpected(w, log[k].st)
        /\ Fails(w)
     \/ /\ \/ /\ ~IsMember(req(w), log[k].lrn)
              /\ UNCHANGED <<pc, barrier>>
           \/ /\ IsMember(req(w), log[k].lrn)
              /\ ~Unexpected(w, log[k].st)
              /\ Check(w, log[k].lrn)
        /\ pos' = [pos EXCEPT ![w] = k]
        /\ UNCHANGED <<rev, modRev, myst, step, done>>

HandleEvent(w) ==
  /\ pc[w] = "watch"
  /\ \E k \in 1 .. Len(log) :
       /\ NextEvent(pos[w], {"current", "status"}, k)
       /\ handleCurrent(w, k) \/ handleWorkerStatus(w, k)
  /\ UNCHANGED <<storageVars, operatorVars>>

\* The watch itself fails: its revision was compacted, or etcd cancelled it.
WatchFails(w) ==
  /\ pc[w] = "watch"
  /\ Fails(w)
  /\ UNCHANGED <<storageVars, operatorVars>>

----------------------------------------------------------------------------
(* runStep. *)

StepDone(w) ==
  [lrn |-> w, version |-> req(w).version, step |-> step[w], at |-> currentRev]

RunStepSucceeds(w) ==
  /\ pc[w] = "runStep"
  /\ RunStep(w, step[w], req(w).version)
  /\ done' = done \cup {StepDone(w)}
  /\ Goto(w, "report")
  /\ UNCHANGED <<rev, modRev, myst, step, barrier, pos, storageVars>>

\* The final step does nothing and cannot fail.
RunStepFails(w) ==
  /\ pc[w] = "runStep"
  /\ step[w] # FinalStep
  /\ RunStepPartly(w, step[w], req(w).version)
  /\ Goto(w, "failed")
  /\ UNCHANGED <<rev, modRev, myst, step, barrier, pos, done, storageVars>>

ReportFailure(w) ==
  /\ pc[w] = "failed"
  /\ PutStatus(w, Status(req(w).version, step[w], "abort"))
  /\ Goto(w, "error")
  /\ UNCHANGED <<rev, modRev, myst, step, barrier, pos, done, operatorVars>>

\* Variant: w.barrier is not renewed.
NextStepSameBarrier(w) ==
  /\ step' = [step EXCEPT ![w] = @ + 1]
  /\ UNCHANGED barrier

NextStep(w) ==
  /\ step' = [step EXCEPT ![w] = @ + 1]
  /\ barrier' = [barrier EXCEPT ![w] = NewBarrier(req(w).servers)]

\* Variant: the final step is not recognized.
ReportNextStepAlways(w) ==
  /\ pc[w] = "report"
  /\ NextStep(w)
  /\ PutStatus(w, Status(req(w).version, step[w] + 1, "running"))
  /\ Goto(w, "watch")
  /\ UNCHANGED <<rev, modRev, myst, pos, done, operatorVars>>

ReportNextStep(w) ==
  /\ pc[w] = "report"
  /\ step[w] # FinalStep
  /\ NextStep(w)
  /\ PutStatus(w, Status(req(w).version, step[w] + 1, "running"))
  /\ Goto(w, "watch")
  /\ UNCHANGED <<rev, modRev, myst, pos, done, operatorVars>>

\* Variant: completion is reported one step early.
ReportCompletionEarly(w) ==
  /\ pc[w] = "report"
  /\ step[w] + 1 = FinalStep
  /\ PutStatus(w, Status(req(w).version, FinalStep, "complete"))
  /\ Goto(w, "restart")
  /\ UNCHANGED <<rev, modRev, myst, step, barrier, pos, done, operatorVars>>

ReportCompletion(w) ==
  /\ pc[w] = "report"
  /\ step[w] = FinalStep
  /\ PutStatus(w, Status(req(w).version, FinalStep, "complete"))
  /\ Goto(w, "restart")
  /\ UNCHANGED <<rev, modRev, myst, step, barrier, pos, done, operatorVars>>

\* PutStatus itself fails, after w.step was advanced.
ReportLost(w) ==
  /\ pc[w] \in {"report", "failed"}
  /\ \/ pc[w] = "report" /\ step[w] # FinalStep /\ NextStep(w)
     \/ /\ pc[w] = "failed" \/ step[w] = FinalStep
        /\ UNCHANGED <<step, barrier>>
  /\ Goto(w, "error")
  /\ UNCHANGED <<rev, modRev, myst, pos, done, storageVars, operatorVars>>

\* The watcher's error handler; its caller then exits with the error.
registerAbort(w) ==
  /\ pc[w] = "error"
  /\ PutStatus(w, Status(req(w).version, step[w], "abort"))
  /\ Exit(w)
  /\ UNCHANGED operatorVars

\* RestartEtcd takes seconds and ends in os.Exit(3).
AllReported(w) ==
  \A m \in req(w).servers : ~ /\ pc[m] \in {"runStep", "report", "watch"}
                              /\ step[m] = FinalStep
                              /\ modRev[m] = modRev[w]

RestartEtcd(w) ==
  /\ pc[w] = "restart"
  /\ PromptReports => AllReported(w)
  /\ Exit(w)
  /\ UNCHANGED <<storageVars, operatorVars>>

\* The process dies: it is killed, a config/ key changed, or a call to etcd
\* returned an error outside the watcher.
Crash(w) ==
  /\ pc[w] # "boot"
  /\ Exit(w)
  /\ \/ pc[w] = "runStep" /\ RunStepPartly(w, step[w], req(w).version)
     \/ pc[w] # "runStep" /\ UNCHANGED operatorVars
  /\ UNCHANGED storageVars

----------------------------------------------------------------------------
\* Steps of a worker to which nothing untoward happens.
WorkerStep(w) ==
  \/ StartProcess(w) \/ GetRequestWithRev(w) \/ WaitRequest(w)
  \/ GetStatuses(w) \/ PutOwnAbort(w) \/ StartUpdate(w) \/ HandleEvent(w)
  \/ RunStepSucceeds(w) \/ ReportFailure(w) \/ ReportNextStep(w)
  \/ ReportCompletion(w) \/ registerAbort(w) \/ RestartEtcd(w)

WorkerTypeOK ==
  /\ pc \in [Lrn -> Place]
  /\ rev \in [Lrn -> Nat]
  /\ modRev \in [Lrn -> Nat]
  /\ myst \in [Lrn -> UpdateStatus \cup {NoStatus}]
  /\ step \in [Lrn -> 1 .. FinalStep]
  /\ barrier \in [Lrn -> SUBSET Lrn]
  /\ pos \in [Lrn -> Nat]
  /\ done \subseteq [lrn : Lrn, version : Version, step : 1 .. FinalStep,
                     at : Nat]
=============================================================================
