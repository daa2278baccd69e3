------------------------------ MODULE Updater ------------------------------
(***************************************************************************)
(* neco-updater: one process per boot server, of which the elected leader  *)
(* turns the state of etcd into update requests, and records new releases. *)
(* Source: updater/server.go, action.go, release_checker.go.               *)
(*                                                                         *)
(* An election key exists as long as its session is alive.  Campaign       *)
(* returns when no older key is left, and nothing tells the process when   *)
(* its own key expires: only the transactions that require the key fail.   *)
(***************************************************************************)
EXTENDS UpdateStorage

CONSTANT
  UpdaterHosts  \* the boot servers whose neco-updater is running

ASSUME UpdaterHostsAssumption == UpdaterHosts \subseteq Lrn

VARIABLES
  upc,        \* where the process is in Server.Run
  leaderKey,  \* its election key: keys are numbered in order of creation
  keys,       \* the election keys that exist
  nextKey,    \* number of the next election key
  ss,         \* the snapshot the current action is based on
  known,      \* ReleaseChecker.current: the release it believes is recorded
  found,      \* the newer release it is about to record, 0 if there is none
  published,  \* the release GitHub presents as the latest
  timedOut    \* requests with StartedAt up to this one are overdue

electionVars == <<leaderKey, keys, nextKey>>
checkerVars == <<known, found>>
updaterVars == <<upc, leaderKey, keys, nextKey, ss, known, found, published,
                 timedOut>>

\* Places in Run: an Action is performed after NextAction has chosen it.
Actions == {"WaitInfo", "Reconfigure", "NewVersion", "WaitWorkers", "Stop",
            "WaitClear"}

Snapshot ==
  [revision : Nat, request : UpdateRequest \cup {NoRequest},
   statuses : [Lrn -> UpdateStatus \cup {NoStatus}],
   latest : Version \cup {0}, servers : SUBSET Lrn]

NoSnapshot ==
  [revision |-> 0, request |-> NoRequest,
   statuses |-> [lrn \in Lrn |-> NoStatus], latest |-> 0, servers |-> {}]

GotoU(u, place) == upc' = [upc EXCEPT ![u] = place]

KeyExists(u) == leaderKey[u] \in keys

----------------------------------------------------------------------------
(* Leader election. *)

Campaign(u) ==
  /\ upc[u] = "start"
  /\ leaderKey' = [leaderKey EXCEPT ![u] = nextKey]
  /\ keys' = keys \cup {nextKey}
  /\ nextKey' = nextKey + 1
  /\ GotoU(u, "campaign")
  /\ UNCHANGED <<ss, known, found, published, timedOut, storageVars>>

\* Variant: the checker takes GitHub's release for the recorded one.
ElectedTrusting(u) ==
  /\ upc[u] = "campaign"
  /\ \A k \in keys : k >= leaderKey[u]
  /\ known' = [known EXCEPT ![u] = published]
  /\ GotoU(u, "loop")
  /\ UNCHANGED <<electionVars, ss, found, published, timedOut, storageVars>>

\* The new leader starts runLoop and the release checker.
Elected(u) ==
  /\ upc[u] = "campaign"
  /\ \A k \in keys : k >= leaderKey[u]
  /\ known' = [known EXCEPT ![u] = release]
  /\ GotoU(u, "loop")
  /\ UNCHANGED <<electionVars, ss, found, published, timedOut, storageVars>>

\* The session expires; the process does not notice.
SessionExpires(u) ==
  /\ KeyExists(u)
  /\ keys' = keys \ {leaderKey[u]}
  /\ UNCHANGED <<upc, leaderKey, nextKey, ss, known, found, published,
                 timedOut, storageVars>>

\* The process exits, and systemd starts it with a new session.
UpdaterExit(u) ==
  /\ GotoU(u, "start")
  /\ keys' = keys \ {leaderKey[u]}
  /\ leaderKey' = [leaderKey EXCEPT ![u] = 0]
  /\ ss' = [ss EXCEPT ![u] = NoSnapshot]
  /\ known' = [known EXCEPT ![u] = 0]
  /\ found' = [found EXCEPT ![u] = 0]
  /\ UNCHANGED <<nextKey, published, timedOut>>

UpdaterCrash(u) ==
  /\ upc[u] # "start"
  /\ UpdaterExit(u)
  /\ UNCHANGED storageVars

----------------------------------------------------------------------------
(* runLoop: take a snapshot, decide, act. *)

Aborted(s) ==
  \E lrn \in Lrn : /\ s.statuses[lrn] # NoStatus
                   /\ s.statuses[lrn].version = s.request.version
                   /\ s.statuses[lrn].cond = "abort"

\* Variant: a new release is requested whether or not the round is completed.
NextActionHasty(s) ==
  IF s.request.stop THEN "WaitClear"
  ELSE IF Aborted(s) THEN "Stop"
  ELSE IF s.request.servers # s.servers THEN "Reconfigure"
  ELSE IF s.latest # s.request.version THEN "NewVersion"
  ELSE "WaitInfo"

\* Variant: the registered servers are not compared.
NextActionSameServers(s) ==
  IF s.request = NoRequest THEN "NewVersion"
  ELSE IF s.request.stop THEN "WaitClear"
  ELSE IF Aborted(s) THEN "Stop"
  ELSE IF ~UpdateCompleted(s.request.version, s.request.servers, s.statuses)
    THEN IF s.request.startedAt <= timedOut THEN "Stop" ELSE "WaitWorkers"
  ELSE IF s.latest # s.request.version THEN "NewVersion"
  ELSE "WaitInfo"

NextAction(s) ==
  IF s.latest = 0 THEN "WaitInfo"
  ELSE IF s.request = NoRequest THEN "NewVersion"
  ELSE IF s.request.stop THEN "WaitClear"
  ELSE IF Aborted(s) THEN "Stop"
  ELSE IF ~UpdateCompleted(s.request.version, s.request.servers, s.statuses)
    THEN IF s.request.startedAt <= timedOut THEN "Stop" ELSE "WaitWorkers"
  ELSE IF s.request.servers # s.servers THEN "Reconfigure"
  ELSE IF s.latest # s.request.version THEN "NewVersion"
  ELSE "WaitInfo"

\* The reads of a snapshot all name the revision of the first one.
NewSnapshot ==
  [revision |-> Len(log), request |-> current, statuses |-> statuses,
   latest |-> release, servers |-> bootservers]

Decide(u) ==
  /\ upc[u] = "loop"
  /\ ss' = [ss EXCEPT ![u] = NewSnapshot]
  /\ GotoU(u, NextAction(NewSnapshot))
  /\ UNCHANGED <<electionVars, checkerVars, published, timedOut, storageVars>>

\* Variant: the transaction does not require the leader key.
IfLeaderUnchecked(u, Write) ==
  /\ Write
  /\ GotoU(u, "loop")
  /\ UNCHANGED <<electionVars, ss, checkerVars, published, timedOut>>

\* A request is written in a transaction that requires the leader key;
\* ErrNoLeader ends the process, because its session is gone.
IfLeader(u, Write) ==
  \/ /\ KeyExists(u)
     /\ Write
     /\ GotoU(u, "loop")
     /\ UNCHANGED <<electionVars, ss, checkerVars, published, timedOut>>
  \/ /\ ~KeyExists(u)
     /\ UpdaterExit(u)
     /\ UNCHANGED storageVars

RequestReconfigure(u) ==
  /\ upc[u] = "Reconfigure"
  /\ IfLeader(u, PutReconfigureRequest(
                   NewRequest(ss[u].request.version, ss[u].servers)))

RequestNewVersion(u) ==
  /\ upc[u] = "NewVersion"
  /\ IfLeader(u, PutRequest(NewRequest(ss[u].latest, ss[u].servers)))

\* Variant: the request to stop does not repeat the request it stops.
RequestStopBlank(u) ==
  /\ upc[u] = "Stop"
  /\ IfLeader(u, PutRequest([NoRequest EXCEPT !.stop = TRUE]))

RequestStop(u) ==
  /\ upc[u] = "Stop"
  /\ IfLeader(u, PutRequest([ss[u].request EXCEPT !.stop = TRUE]))

GotoLoop(u) ==
  /\ GotoU(u, "loop")
  /\ UNCHANGED <<electionVars, ss, checkerVars, published, timedOut,
                 storageVars>>

WaitInfo(u) ==
  /\ upc[u] = "WaitInfo"
  /\ Changed(ss[u].revision, {"info"})
  /\ GotoLoop(u)

WaitRequestDeletion(u) ==
  /\ upc[u] = "WaitClear"
  /\ Changed(ss[u].revision, {"delete"})
  /\ GotoLoop(u)

\* k is a report on the request in hand.
Reported(u, k) ==
  /\ log[k].key = "status"
  /\ log[k].st.version = ss[u].request.version

\* h.statuses once the events up to k are handled: the snapshot's statuses
\* overwritten by the reports on this request; deletions are not delivered.
HandledStatuses(u, k) ==
  [lrn \in Lrn |->
     LET own == {i \in ss[u].revision + 1 .. k :
                   Reported(u, i) /\ log[i].lrn = lrn}
     IN  IF own = {} THEN ss[u].statuses[lrn]
         ELSE log[CHOOSE i \in own : \A j \in own : j <= i].st]

\* The handler returns true: someone aborted, or everyone has completed.
handleStatus(u, k) ==
  /\ Reported(u, k)
  /\ \/ log[k].st.cond = "abort"
     \/ UpdateCompleted(ss[u].request.version, ss[u].request.servers,
                        HandledStatuses(u, k))

waitComplete(u) ==
  /\ upc[u] = "WaitWorkers"
  /\ \/ \E k \in ss[u].revision + 1 .. Len(log) : handleStatus(u, k)
     \/ ss[u].request.startedAt <= timedOut
  /\ GotoLoop(u)

----------------------------------------------------------------------------
(* The release checker, which runs beside runLoop. *)

Leading(u) == upc[u] \notin {"start", "campaign"}

\* Variant: a release that differs is taken for a newer one.
FindReleaseOther(u) ==
  /\ Leading(u)
  /\ found[u] = 0
  /\ published # known[u]
  /\ known' = [known EXCEPT ![u] = published]
  /\ found' = [found EXCEPT ![u] = published]
  /\ UNCHANGED <<upc, electionVars, ss, published, timedOut, storageVars>>

\* update(): a release that is newer than the one the checker knows.
FindRelease(u) ==
  /\ Leading(u)
  /\ found[u] = 0
  /\ published > known[u]
  /\ known' = [known EXCEPT ![u] = published]
  /\ found' = [found EXCEPT ![u] = published]
  /\ UNCHANGED <<upc, electionVars, ss, published, timedOut, storageVars>>

RecordRelease(u) ==
  /\ found[u] # 0
  /\ \/ /\ KeyExists(u)
        /\ UpdateNecoRelease(found[u])
        /\ found' = [found EXCEPT ![u] = 0]
        /\ UNCHANGED <<upc, electionVars, ss, known, published, timedOut>>
     \/ /\ ~KeyExists(u)
        /\ UpdaterExit(u)
        /\ UNCHANGED storageVars

----------------------------------------------------------------------------
\* Steps of an updater to which nothing untoward happens.
UpdaterStep(u) ==
  \/ Campaign(u) \/ Elected(u) \/ Decide(u)
  \/ RequestReconfigure(u) \/ RequestNewVersion(u) \/ RequestStop(u)
  \/ WaitInfo(u) \/ WaitRequestDeletion(u) \/ waitComplete(u)
  \/ FindRelease(u) \/ RecordRelease(u)

UpdaterTypeOK ==
  /\ upc \in [UpdaterHosts -> {"start", "campaign", "loop"} \cup Actions]
  /\ nextKey \in Nat \ {0}
  /\ leaderKey \in [UpdaterHosts -> 0 .. nextKey - 1]
  /\ keys \subseteq 1 .. nextKey - 1
  /\ ss \in [UpdaterHosts -> Snapshot]
  /\ known \in [UpdaterHosts -> Version \cup {0}]
  /\ found \in [UpdaterHosts -> Version \cup {0}]
  /\ published \in Version \cup {0}
  /\ timedOut \in Nat
============================================================================
