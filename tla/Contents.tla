------------------------------ MODULE Contents ------------------------------
(***************************************************************************)
(* The steps of an update that one elected worker performs for all         *)
(* (worker/sabakan.go, worker/cke.go): it uploads the contents of a target *)
(* and records the outcome, and the workers elected after it read the      *)
(* record.  The barriers between steps and the handling of a failed round  *)
(* are those of Workers and Updaters, reduced to what these steps see.     *)
(***************************************************************************)
EXTENDS Integers, Sequences, FiniteSets

CONSTANTS
    Worker,     \* boot servers
    Role,       \* the roles with an ignition template
    Targets     \* the contents, in the order of RunStep

Target == {Targets[i] : i \in DOMAIN Targets}

Kinds == {"cke-template", "cke", "sabakan", "dhcp.json", "user-resources"}

ASSUME ContentsAssumption ==
    /\ Targets \in Seq(Kinds)
    /\ Role \cap ({"image", "assets"} \cup Kinds) = {}
    /\ Worker # {}

VARIABLES
    request,    \* the current request and the number of its round
    recovered,  \* whether the stopped request has been recovered
    status,     \* contents/<target>: the version and the outcome
    active,     \* the workers on whose server sabakan and CKE run
    mine,       \* the request a worker works on
    results,    \* what its steps returned in that round
    pc,         \* where it is in the step
    parts,      \* what it still has to upload
    outcome,    \* whether its upload has failed
    keys,       \* the keys below leader/worker/, oldest first
    session,    \* the number of the session of a worker
    loaded,     \* what has been uploaded, with the servers it names
    disturbed   \* history: has a worker died, lost its session in an upload,
                \* or begun a step after its round, and its servers, were left?

cvars == <<request, recovered, status, active, mine, results, pc, parts,
           outcome, keys, session, loaded, disturbed>>

NoRequest == [round |-> 0, version |-> 0, servers |-> {}, stop |-> FALSE]
NoStatus == [version |-> 0, success |-> FALSE]
Key(w) == <<w, session[w]>>
Current(w) == Targets[Len(results[w]) + 1]
Settled == {"idle", "failed"}

(***************************************************************************)
(* The pieces of an upload.  For sabakan the OS image and the assets go in *)
(* parallel, and the ignition of each role when both are there.            *)
(***************************************************************************)
Part == {"image", "assets"} \cup Role \cup Target

Parts(t) ==
    IF t = "sabakan" THEN {"image", "assets"} \cup Role ELSE {t}

\* Ignitions without waiting for the assets they refer to.
MayUploadAnyOrder(w, p) == TRUE

MayUpload(w, p) == p \in Role => parts[w] \cap {"image", "assets"} = {}

Has(p, v) == \E i \in DOMAIN loaded[p] : loaded[p][i].version = v

LastVersion(p) ==
    IF loaded[p] = <<>> THEN 0 ELSE loaded[p][Len(loaded[p])].version

Content(v, ws) == [version |-> v, servers |-> ws]

\* What is set over what was there; to set the same again changes nothing.
Set(p, v) ==
    IF LastVersion(p) = v THEN loaded[p] ELSE Append(loaded[p], Content(v, {}))

uploadOSImages(v) ==
    IF LastVersion("image") = v THEN loaded["image"]
    ELSE Append(loaded["image"], Content(v, {}))

\* needAssetUpload: an asset is uploaded unless there is one of its name.
UploadImageAssets(p, v) ==
    IF Has(p, v) THEN loaded[p] ELSE Append(loaded[p], Content(v, {}))

uploadAssets(v) == UploadImageAssets("assets", v)

\* The ignition of a role names the servers of the request that is current
\* by then.
needIgnitionUpdate(r, v) == LastVersion(r) # v

uploadIgnitions(r, v) ==
    IF needIgnitionUpdate(r, v)
    THEN Append(loaded[r], Content(v, request.servers)) ELSE loaded[r]

UploadCKEImages(v) == UploadImageAssets("cke", v)
SetCKETemplate(v) == Set("cke-template", v)
UploadDHCPJSON(v) == Set("dhcp.json", v)
UpdateResources(v) == Set("user-resources", v)

\* Sabakan refuses an OS image or an ignition whose version it has.
Refused(p, v) == p \in Role \cup {"image"} /\ Has(p, v) /\ LastVersion(p) # v

Upload(w, p) ==
    LET v == mine[w].version
    IN [loaded EXCEPT ![p] =
        CASE p \in Role            -> uploadIgnitions(p, v)
          [] p = "image"          -> uploadOSImages(v)
          [] p = "assets"         -> uploadAssets(v)
          [] p = "cke"            -> UploadCKEImages(v)
          [] p = "cke-template"   -> SetCKETemplate(v)
          [] p = "dhcp.json"      -> UploadDHCPJSON(v)
          [] OTHER                -> UpdateResources(v)]

(***************************************************************************)
(* A step.                                                                 *)
(***************************************************************************)
Done(w) == Len(SelectSeq(results[w], LAMBDA r : r # "error"))

\* Every worker of the request has come to the step.
Barrier(w) ==
    \A v \in mine[w].servers :
        mine[v].round = mine[w].round /\ Done(v) >= Done(w)

Returns(w, r) ==
    /\ results' = [results EXCEPT ![w] = Append(@, r)]
    /\ pc' = [pc EXCEPT ![w] = IF r = "error" THEN "failed" ELSE "idle"]

\* The worker is late: its round is over, and no server of that round takes part
\* in the present one, which could hold it up at the barrier.
LeftBehind(w) ==
    mine[w].round < request.round /\ mine[w].servers \cap request.servers = {}

\* The step begins: nothing to do where the service does not run, else a
\* session and a campaign.
Enter(w) ==
    /\ pc[w] = "idle" /\ w \in mine[w].servers
    /\ Barrier(w)
    /\ IF w \in active
       THEN /\ keys' = Append(keys, Key(w))
            /\ pc' = [pc EXCEPT ![w] = "campaign"]
            /\ UNCHANGED results
       ELSE Returns(w, "skip") /\ UNCHANGED keys
    /\ disturbed' = (disturbed \/ LeftBehind(w))
    /\ UNCHANGED <<request, recovered, status, active, mine, parts, outcome,
                   session, loaded>>

\* The leader key is compared in the transaction that puts the outcome.
PutIfLeader(w) == \E i \in DOMAIN keys : keys[i] = Key(w)

\* The leadership kept after the step.
ResignNot(w) == UNCHANGED keys

\* The key is deleted, if it is still there.
Removed(s, at) ==
    [i \in 1 .. Len(s) - 1 |-> IF i < at THEN s[i] ELSE s[i + 1]]

Resign(w) ==
    \/ ~PutIfLeader(w) /\ UNCHANGED keys
    \/ \E i \in DOMAIN keys : keys[i] = Key(w) /\ keys' = Removed(keys, i)

\* A preceding worker's failure taken for a reason to try again.
HasFailedNot(s, v) == FALSE

HasFailed(s, v) == s.version = v /\ ~s.success

\* Elected, the worker looks whether a preceding one has done the work.
Elected(w) ==
    /\ pc[w] = "campaign" /\ keys # <<>> /\ Head(keys) = Key(w)
    /\ LET s == status[Current(w)]
       IN IF s.version = mine[w].version /\ s.success
          THEN Returns(w, "ok") /\ Resign(w) /\ UNCHANGED <<parts, outcome>>
          ELSE IF HasFailed(s, mine[w].version)
          THEN Returns(w, "error") /\ Resign(w) /\ UNCHANGED <<parts, outcome>>
          ELSE /\ parts' = [parts EXCEPT ![w] = Parts(Current(w))]
               /\ outcome' = [outcome EXCEPT ![w] = TRUE]
               /\ pc' = [pc EXCEPT ![w] = "upload"]
               /\ UNCHANGED <<results, keys>>
    /\ UNCHANGED <<request, recovered, status, active, mine, session, loaded,
                   disturbed>>

UploadPart(w) ==
    /\ pc[w] = "upload" /\ outcome[w]
    /\ \E p \in parts[w] :
        /\ MayUpload(w, p) /\ ~Refused(p, mine[w].version)
        /\ loaded' = Upload(w, p)
        /\ parts' = [parts EXCEPT ![w] = @ \ {p}]
    /\ UNCHANGED <<request, recovered, status, active, mine, results, pc,
                   outcome, keys, session, disturbed>>

UploadRefused(w) ==
    /\ pc[w] = "upload" /\ outcome[w]
    /\ \E p \in parts[w] : MayUpload(w, p) /\ Refused(p, mine[w].version)
    /\ outcome' = [outcome EXCEPT ![w] = FALSE]
    /\ UNCHANGED <<request, recovered, status, active, mine, results, pc,
                   parts, keys, session, loaded, disturbed>>

\* An upload may fail before or after it has had its effect.
UploadFails(w) ==
    /\ pc[w] = "upload" /\ outcome[w]
    /\ \E p \in parts[w] :
        /\ MayUpload(w, p) /\ ~Refused(p, mine[w].version)
        /\ loaded' \in {loaded, Upload(w, p)}
    /\ outcome' = [outcome EXCEPT ![w] = FALSE]
    /\ UNCHANGED <<request, recovered, status, active, mine, results, pc,
                   parts, keys, session, disturbed>>

Finished(w) == parts[w] = {} \/ ~outcome[w]

\* UpdateCKETemplate returns at once when the template cannot be set.
Records(t, ok) == ok \/ t # "cke-template"

\* The success recorded whatever the upload returned.
StatusOptimistic(w) == [version |-> mine[w].version, success |-> TRUE]

Status(w) == [version |-> mine[w].version, success |-> outcome[w]]

PutContentsStatus(w) ==
    /\ pc[w] = "upload" /\ Finished(w)
    /\ IF Records(Current(w), outcome[w]) /\ PutIfLeader(w)
       THEN status' = [status EXCEPT ![Current(w)] = Status(w)]
       ELSE UNCHANGED status
    /\ Returns(w, IF outcome[w] /\ PutIfLeader(w) THEN "ok" ELSE "error")
    /\ Resign(w)
    /\ parts' = [parts EXCEPT ![w] = {}]
    /\ outcome' = [outcome EXCEPT ![w] = TRUE]
    /\ UNCHANGED <<request, recovered, active, mine, session, loaded, disturbed>>

\* The steps, one for each target; UpdateCKE goes on with what Operator models.
Step(w, t) ==
    /\ Len(results[w]) < Len(Targets) /\ Current(w) = t
    /\ \/ Enter(w) \/ Elected(w) \/ UploadPart(w) \/ UploadRefused(w)
       \/ PutContentsStatus(w)

UpdateCKETemplate(w) == Step(w, "cke-template")
UpdateCKEContents(w) == Step(w, "cke")
UpdateSabakanContents(w) == Step(w, "sabakan")
UpdateDHCPJSON(w) == Step(w, "dhcp.json")
UpdateUserResources(w) == Step(w, "user-resources")

(***************************************************************************)
(* Faults: a worker dies, and its key stays until its session expires; the *)
(* session of an elected worker expires under its hands.                   *)
(***************************************************************************)
Crash(w) ==
    /\ pc[w] \in {"campaign", "upload"}
    /\ Returns(w, "error")
    /\ parts' = [parts EXCEPT ![w] = {}]
    /\ outcome' = [outcome EXCEPT ![w] = TRUE]
    /\ session' = [session EXCEPT ![w] = @ + 1]
    /\ disturbed' = TRUE
    /\ UNCHANGED <<request, recovered, status, active, mine, keys, loaded>>

DeadKey(k) == k[2] # session[k[1]]

SessionExpires ==
    /\ keys # <<>>
    /\ DeadKey(Head(keys)) \/ pc[Head(keys)[1]] = "upload"
    /\ keys' = Removed(keys, 1)
    /\ disturbed' = (disturbed \/ ~DeadKey(Head(keys)))
    /\ UNCHANGED <<request, recovered, status, active, mine, results, pc,
                   parts, outcome, session, loaded>>

(***************************************************************************)
(* The rounds around the steps.                                            *)
(***************************************************************************)
Start(w) ==
    /\ pc[w] \in Settled /\ ~request.stop
    /\ w \in request.servers /\ mine[w].round < request.round
    /\ mine' = [mine EXCEPT ![w] = request]
    /\ results' = [results EXCEPT ![w] = <<>>]
    /\ pc' = [pc EXCEPT ![w] = "idle"]
    /\ UNCHANGED <<request, recovered, status, active, parts, outcome, keys,
                   session, loaded, disturbed>>

StopRequest ==
    /\ ~request.stop
    /\ \E w \in request.servers :
        mine[w].round = request.round /\ pc[w] = "failed"
    /\ request' = [request EXCEPT !.stop = TRUE]
    /\ recovered' = FALSE
    /\ UNCHANGED <<status, active, mine, results, pc, parts, outcome, keys,
                   session, loaded, disturbed>>

\* Recovery that leaves contents/ alone.
RecoverStatusOnly ==
    /\ request.stop /\ ~recovered
    /\ recovered' = TRUE
    /\ UNCHANGED <<request, status, active, mine, results, pc, parts, outcome,
                   keys, session, loaded, disturbed>>

\* "neco recover", possible as soon as the request is stopped.
Recover ==
    /\ request.stop /\ ~recovered
    /\ recovered' = TRUE
    /\ status' = [t \in Target |-> NoStatus]
    /\ UNCHANGED <<request, active, mine, results, pc, parts, outcome, keys,
                   session, loaded, disturbed>>

Completed ==
    \A w \in request.servers :
        mine[w].round = request.round /\ Len(results[w]) = Len(Targets)
            /\ pc[w] = "idle"

NewRequest(v, ws) ==
    /\ IF request.stop THEN recovered ELSE Completed
    /\ v >= request.version /\ v > 0 /\ ws # {}
    /\ request' = [round |-> request.round + 1, version |-> v, servers |-> ws,
                   stop |-> FALSE]
    /\ UNCHANGED <<recovered, status, active, mine, results, pc, parts,
                   outcome, keys, session, loaded, disturbed>>

(***************************************************************************)
(* The specification.                                                      *)
(***************************************************************************)
ContentsInit ==
    /\ request = NoRequest /\ recovered = FALSE
    /\ status = [t \in Target |-> NoStatus]
    /\ active \in SUBSET Worker
    /\ mine = [w \in Worker |-> NoRequest]
    /\ results = [w \in Worker |-> <<>>]
    /\ pc = [w \in Worker |-> "idle"]
    /\ parts = [w \in Worker |-> {}]
    /\ outcome = [w \in Worker |-> TRUE]
    /\ keys = <<>>
    /\ session = [w \in Worker |-> 0]
    /\ loaded = [p \in Part |-> <<>>]
    /\ disturbed = FALSE

WorkerStep(w) ==
    \/ Start(w) \/ UpdateCKETemplate(w) \/ UpdateCKEContents(w)
    \/ UpdateSabakanContents(w) \/ UpdateDHCPJSON(w) \/ UpdateUserResources(w)

ContentsNext ==
    \/ \E w \in Worker : WorkerStep(w) \/ UploadFails(w) \/ Crash(w)
    \/ SessionExpires \/ StopRequest \/ Recover
    \/ \E v \in Nat, ws \in SUBSET Worker : NewRequest(v, ws)

ContentsSpec == ContentsInit /\ [][ContentsNext]_cvars

(***************************************************************************)
(* Properties.                                                             *)
(***************************************************************************)
\* The types of the variables of Contents; a worker between two steps holds
\* no leader key, so the others can be elected.
ContentsTypeOK ==
    /\ request.round \in Nat /\ request.version \in Nat
    /\ request.servers \subseteq Worker /\ request.stop \in BOOLEAN
    /\ recovered \in BOOLEAN /\ active \subseteq Worker
    /\ \A t \in Target :
        status[t].version \in Nat /\ status[t].success \in BOOLEAN
    /\ \A w \in Worker :
        /\ mine[w].version \in Nat /\ mine[w].servers \subseteq Worker
        /\ results[w] \in Seq({"ok", "skip", "error"})
        /\ Len(results[w]) <= Len(Targets)
        /\ pc[w] \in {"idle", "campaign", "upload", "failed"}
        /\ parts[w] \subseteq Part
        /\ outcome[w] \in BOOLEAN /\ session[w] \in Nat
        /\ pc[w] \in Settled => ~PutIfLeader(w)
    /\ keys \in Seq(Worker \X Nat) /\ disturbed \in BOOLEAN

\* A target recorded as updated (contents.go, line 31) is updated: all of its
\* pieces have been uploaded for the recorded version, whoever uploaded them
\* and whoever died or lost the leadership on the way.
SuccessMeansUploaded ==
    \A t \in Target : status[t].success =>
        \A p \in Parts(t) : Has(p, status[t].version)

\* "ignitions refers assets, so upload ignitions at the end" (upload.go,
\* line 60): a machine never boots an ignition whose assets or OS image have
\* not been uploaded.
IgnitionsComplete ==
    \A r \in Role : \A i \in DOMAIN loaded[r] :
        Has("image", loaded[r][i].version) /\ Has("assets", loaded[r][i].version)

\* The workers of the current round that reach a step agree on its outcome,
\* because the first one records it: "If `version` matches and `success` is
\* false, worker aborts the process" (docs/update.md, line 162).  A template
\* of CKE that cannot be set is not recorded (cke.go, line 187), and the next
\* worker tries again.
Agreement ==
    \A v, w \in request.servers :
        mine[v].round = request.round /\ mine[w].round = request.round =>
            \A i \in DOMAIN results[v] \cap DOMAIN results[w] :
                ~(results[v][i] = "ok" /\ results[w][i] = "error"
                    /\ Targets[i] # "cke-template")

\* Agreement as long as no worker has died, no session has expired under an
\* upload, the round has not been recovered under its workers, and no worker of
\* another round that shares no server with it interferes.
AgreementUndisturbed == ~disturbed /\ (request.stop => ~recovered) => Agreement

\* Whatever fails, recovering stopped rounds gets the update done in the end.
EventuallyUpdated == <>[](request.round > 0 /\ ~request.stop /\ Completed)
=============================================================================
