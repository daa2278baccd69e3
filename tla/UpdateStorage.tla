--------------------------- MODULE UpdateStorage ---------------------------
(***************************************************************************)
(* The part of etcd that neco-updater and neco-worker communicate through: *)
(* the update request (status/current), one status per boot server         *)
(* (status/bootservers/<LRN>), the registered boot servers and the latest  *)
(* release (info/).  Source: storage/ and update.go.                       *)
(*                                                                         *)
(* etcd is linearizable and multi-versioned.  log is its history: log[i]   *)
(* is the write made at revision i, and Len(log) is the current revision.  *)
(* A watch from revision r delivers log[r+1], log[r+2], ... in order.      *)
(* Election keys and config/ keys also consume revisions in etcd; nothing  *)
(* depends on how many, so they are left out of log.                       *)
(***************************************************************************)
EXTENDS Naturals, Sequences, FiniteSets

CONSTANTS
  Lrn,          \* logical rack numbers: one boot server per rack
  Version,      \* released versions of the neco package, oldest first
  FinalStep,    \* operator.FinalStep()
  InitServers,  \* the boot servers that "neco setup" has set up together
  InitVersion   \* the version they were set up with

ASSUME VersionAssumption == Version \subseteq Nat \ {0}
ASSUME FinalStepAssumption == FinalStep \in Nat \ {0}
ASSUME InitAssumption == InitServers \subseteq Lrn /\ InitVersion \in Version

VARIABLES
  log,          \* every write so far
  current,      \* value of status/current, NoRequest when the key is absent
  currentRev,   \* revision of the last write of status/current
  statuses,     \* value of each status/bootservers/<LRN>, or NoStatus
  bootservers,  \* the LRNs under info/bootservers/
  release       \* value of info/neco-release, 0 when the key is absent

storageVars == <<log, current, currentRev, statuses, bootservers, release>>

----------------------------------------------------------------------------
(* The stored values. *)

\* StartedAt is the revision at which the request was first written: requests
\* are started in that order.  A stop request keeps it.
UpdateRequest ==
  [version : Version, servers : SUBSET Lrn, stop : BOOLEAN, startedAt : Nat]

NoRequest == [version |-> 0, servers |-> {}, stop |-> FALSE, startedAt |-> 0]

IsMember(req, lrn) == lrn \in req.servers

UpdateStatus ==
  [version : Version, step : 1 .. FinalStep,
   cond : {"running", "abort", "complete"}]

NoStatus == [version |-> 0, step |-> 0, cond |-> "none"]

Status(version, step, cond) ==
  [version |-> version, step |-> step, cond |-> cond]

UpdateCompleted(version, lrns, sts) ==
  \A lrn \in lrns :
    /\ sts[lrn] # NoStatus
    /\ sts[lrn].version = version
    /\ sts[lrn].cond = "complete"

\* A write of status/current, of a worker's status, of a key under info/, and
\* the deletion of status/ by "neco recover".
RequestPut(req) == [key |-> "current", req |-> req]
StatusPut(lrn, st) == [key |-> "status", lrn |-> lrn, st |-> st]
InfoChange == [key |-> "info"]
StatusDelete == [key |-> "delete"]

Event ==
  [key : {"current"}, req : UpdateRequest]
    \cup [key : {"status"}, lrn : Lrn, st : UpdateStatus]
    \cup [key : {"info", "delete"}]

\* neco setup has registered the servers and written the release and a first
\* request.
InitRequest ==
  [version |-> InitVersion, servers |-> InitServers, stop |-> FALSE,
   startedAt |-> 1]

StorageInit ==
  /\ log = <<RequestPut(InitRequest)>>
  /\ current = InitRequest
  /\ currentRev = 1
  /\ statuses = [lrn \in Lrn |-> NoStatus]
  /\ bootservers = InitServers
  /\ release = InitVersion

----------------------------------------------------------------------------
(* Writes.  Each is one etcd transaction: one revision. *)

\* A request that starts a round is stamped with the current time.
NewRequest(version, servers) ==
  [version |-> version, servers |-> servers, stop |-> FALSE,
   startedAt |-> Len(log) + 1]

PutRequest(req) ==
  /\ log' = Append(log, RequestPut(req))
  /\ current' = req
  /\ currentRev' = Len(log) + 1
  /\ UNCHANGED <<statuses, bootservers, release>>

\* The request and the deletion of the statuses share a revision; watches
\* filter the deletion out.
PutReconfigureRequest(req) ==
  /\ log' = Append(log, RequestPut(req))
  /\ current' = req
  /\ currentRev' = Len(log) + 1
  /\ statuses' = [lrn \in Lrn |-> NoStatus]
  /\ UNCHANGED <<bootservers, release>>

PutStatus(lrn, st) ==
  /\ log' = Append(log, StatusPut(lrn, st))
  /\ statuses' = [statuses EXCEPT ![lrn] = st]
  /\ UNCHANGED <<current, currentRev, bootservers, release>>

\* "neco recover".  The transaction compares the ModRevision of the request it
\* read, and retries otherwise, so reading and deleting are one step.
ClearStatusAndContents ==
  /\ current.stop
  /\ log' = Append(log, StatusDelete)
  /\ current' = NoRequest
  /\ statuses' = [lrn \in Lrn |-> NoStatus]
  /\ UNCHANGED <<currentRev, bootservers, release>>

RegisterBootserver(lrn) ==
  /\ log' = Append(log, InfoChange)
  /\ bootservers' = bootservers \cup {lrn}
  /\ UNCHANGED <<current, currentRev, statuses, release>>

DeleteBootServer(lrn) ==
  /\ lrn \in bootservers
  /\ log' = Append(log, InfoChange)
  /\ bootservers' = bootservers \ {lrn}
  /\ UNCHANGED <<current, currentRev, statuses, release>>

UpdateNecoRelease(version) ==
  /\ log' = Append(log, InfoChange)
  /\ release' = version
  /\ UNCHANGED <<current, currentRev, statuses, bootservers>>

----------------------------------------------------------------------------
(* Watches. *)

\* k is the first write after rev to one of the watched keys.
NextEvent(rev, keys, k) ==
  /\ k \in rev + 1 .. Len(log)
  /\ log[k].key \in keys
  /\ \A i \in rev + 1 .. k - 1 : log[i].key \notin keys

\* A watch from rev on the keys has something to deliver.
Changed(rev, keys) == \E k \in rev + 1 .. Len(log) : log[k].key \in keys

StorageTypeOK ==
  /\ log \in Seq(Event)
  /\ current \in UpdateRequest \cup {NoRequest}
  /\ currentRev \in 1 .. Len(log)
  /\ statuses \in [Lrn -> UpdateStatus \cup {NoStatus}]
  /\ bootservers \subseteq Lrn
  /\ release \in Version \cup {0}
============================================================================
