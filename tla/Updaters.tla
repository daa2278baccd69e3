------------------------------ MODULE Updaters ------------------------------
(***************************************************************************)
(* The updaters of all boot servers, whatever the workers report.  This is *)
(* what neco-updater must cope with; NecoUpdate adds the workers that neco *)
(* really has.                                                             *)
(***************************************************************************)
EXTENDS Updater

UpdatersInit ==
  /\ StorageInit
  /\ upc = [u \in UpdaterHosts |-> "start"]
  /\ leaderKey = [u \in UpdaterHosts |-> 0]
  /\ keys = {}
  /\ nextKey = 1
  /\ ss = [u \in UpdaterHosts |-> NoSnapshot]
  /\ known = [u \in UpdaterHosts |-> 0]
  /\ found = [u \in UpdaterHosts |-> 0]
  /\ published = InitVersion
  /\ timedOut = 0

----------------------------------------------------------------------------
UpdaterFault(u) == SessionExpires(u) \/ UpdaterCrash(u)

\* A worker writes its status.
Report(w, st) == PutStatus(w, st) /\ UNCHANGED updaterVars

\* GitHub's latest release changes: a new one, or the latest is withdrawn.
Publish(version) ==
  /\ version # published
  /\ published' = version
  /\ UNCHANGED <<upc, electionVars, ss, checkerVars, timedOut, storageVars>>

\* The worker timeout of the current request elapses.
Timeout ==
  /\ timedOut < current.startedAt
  /\ timedOut' = current.startedAt
  /\ UNCHANGED <<upc, electionVars, ss, checkerVars, published, storageVars>>

\* neco recover, neco join and neco leave.
AdminRecovers == ClearStatusAndContents /\ UNCHANGED updaterVars

Join(lrn) ==
  /\ lrn \notin bootservers
  /\ RegisterBootserver(lrn)
  /\ UNCHANGED updaterVars

Leave(lrn) == DeleteBootServer(lrn) /\ UNCHANGED updaterVars

OutsideNext ==
  \/ \E version \in Version : Publish(version)
  \/ Timeout
  \/ AdminRecovers
  \/ \E lrn \in Lrn : Join(lrn) \/ Leave(lrn)

UpdatersNext ==
  \/ \E u \in UpdaterHosts : UpdaterStep(u) \/ UpdaterFault(u)
  \/ \E w \in Lrn, st \in UpdateStatus : Report(w, st)
  \/ OutsideNext

updatersVars == <<storageVars, updaterVars>>

UpdatersSpec == UpdatersInit /\ [][UpdatersNext]_updatersVars

UpdatersTypeOK == StorageTypeOK /\ UpdaterTypeOK

----------------------------------------------------------------------------
(* What neco-updater promises. *)

\* The update halts when it is stopped: the request of a stopped round is
\* replaced by no one until "neco recover" has removed it (NextAction and the
\* leader key in PutRequest's transaction; docs/update.md: "When the update
\* fails, neco-updater sends alerts to admins and halts").
HaltsUntilRecovered ==
  [][current.stop => current' \in {current, NoRequest}]_current

\* The leader has seen that every server has completed the current round.
SeenCompleted ==
  \E u \in UpdaterHosts :
    /\ ss[u].request = current
    /\ UpdateCompleted(current.version, current.servers, ss[u].statuses)

\* A round is never preempted: the request changes from one to another only
\* to be stopped, or after every server was seen to have completed this very
\* round, although the leader decides on a snapshot and writes later
\* (NextAction, the leader key in both transactions; docs/update.md: "Once the
\* update completes, go to 2").
NoPreemption ==
  [][current # NoRequest /\ current' # NoRequest =>
       current' = [current EXCEPT !.stop = TRUE] \/ SeenCompleted]_current

\* No request asks for an older version than an earlier request did: neither
\* a withdrawn release nor a leader that lost its session makes the boot
\* servers go back (isNewerThan, the leader key in both transactions;
\* docs/update.md: "CKE must not be downgraded").
NoDowngrade ==
  \A i, j \in 1 .. Len(log) :
    /\ i < j
    /\ log[i].key = "current"
    /\ log[j].key = "current"
    => log[i].req.version <= log[j].req.version

\* A release that GitHub presents is requested, whichever updater leads and
\* however often the lead changes, unless the updates are halted or the
\* release is withdrawn (ReleaseChecker.update, WaitInfo and NextAction;
\* docs/update.md: "If a new release exists, the leader begins the
\* update process").
EveryReleaseIsRequested ==
  \A version \in Version :
    published = version ~> \/ current.version >= version
                           \/ current.stop
                           \/ published # version

\* In the end the update is halted, or the registered servers were seen to
\* complete the recorded release: the leader never waits for something that
\* has already happened, and a round that is aborted or overdue is stopped
\* (WaitInfo and waitComplete watch from the revision of the snapshot).
Settled ==
  \/ current.stop
  \/ /\ current.version = release
     /\ current.servers = bootservers
     /\ SeenCompleted

EventuallySettles == <>[]Settled
=============================================================================
