-------------------------- MODULE NecoUpdateProofs --------------------------
(***************************************************************************)
(* What holds of the workers for any number of servers, versions, steps,   *)
(* rounds and faults: they run the steps of a round in lock step, complete *)
(* it only when they have run all of them, and have Vault down together.   *)
(*                                                                         *)
(* What holds of the updaters for any number of them, any history of       *)
(* releases, memberships and reports, and any loss of sessions.            *)
(*                                                                         *)
(* And that the whole system implements both of its parts: what updaters   *)
(* write is among what Workers lets anybody write, and what workers write  *)
(* is among what Updaters lets anybody write.  So what holds of a part     *)
(* holds of the whole.                                                     *)
(***************************************************************************)
EXTENDS NecoUpdate, TLAPS

\* A leaf is tried with Zenon first; one that needs arithmetic cites SMT.
USE ZenonT(30), SMT

----------------------------------------------------------------------------
(* Facts about the history of etcd. *)

\* Writing appends one entry to the history and keeps the others.
LEMMA AppendFacts ==
  ASSUME NEW S, NEW s \in Seq(S), NEW e \in S
  PROVE  /\ Append(s, e) \in Seq(S)
         /\ Len(Append(s, e)) = Len(s) + 1
         /\ Len(s) \in Nat
         /\ \A i \in 1 .. Len(s) : Append(s, e)[i] = s[i]
         /\ Append(s, e)[Len(s) + 1] = e
  BY SMT

\* The fields of an event, by its kind.
LEMMA EventFields ==
  \A e \in Event :
    /\ e.key \in {"current", "status", "info", "delete"}
    /\ e.key = "current" => e.req \in UpdateRequest
    /\ e.key = "status" => e.lrn \in Lrn /\ e.st \in UpdateStatus
  BY DEF Event

\* The writes are events.
LEMMA WritesAreEvents ==
  /\ \A r \in UpdateRequest :
       /\ RequestPut(r) \in Event
       /\ RequestPut(r).key = "current"
       /\ RequestPut(r).req = r
  /\ \A lrn \in Lrn, st \in UpdateStatus :
       /\ StatusPut(lrn, st) \in Event
       /\ StatusPut(lrn, st).key = "status"
       /\ StatusPut(lrn, st).lrn = lrn
       /\ StatusPut(lrn, st).st = st
  /\ InfoChange \in Event /\ InfoChange.key = "info"
  /\ StatusDelete \in Event /\ StatusDelete.key = "delete"
  BY DEF Event, RequestPut, StatusPut, InfoChange, StatusDelete

\* Changing one field of a request or of a status.
LEMMA FieldChanges ==
  /\ \A r \in UpdateRequest :
       /\ [r EXCEPT !.stop = TRUE] \in UpdateRequest
       /\ [r EXCEPT !.stop = TRUE].version = r.version
  /\ \A st \in UpdateStatus : [st EXCEPT !.cond = "abort"] \in UpdateStatus
  BY DEF UpdateRequest, UpdateStatus

\* An absent value is not a value.
LEMMA NoValues ==
  /\ NoRequest \notin UpdateRequest
  /\ NoStatus \notin UpdateStatus
  /\ ~NoRequest.stop
  /\ NoStatus.cond = "none"
  BY VersionAssumption DEF NoRequest, NoStatus, UpdateRequest, UpdateStatus

----------------------------------------------------------------------------
(* The writes keep the types and the history. *)

\* status/current is what its last write says.
StorageInv ==
  /\ StorageTypeOK
  /\ current # NoRequest => log[currentRev] = RequestPut(current)

\* History is kept.
Grows ==
  /\ Len(log) \in Nat /\ Len(log') \in Nat
  /\ \A i \in 1 .. Len(log) : i \in 1 .. Len(log') /\ log'[i] = log[i]

\* The history begins with the first request.
LEMMA InitStorage ==
  ASSUME StorageInit
  PROVE  /\ StorageInv
         /\ Len(log) = 1
         /\ log[1] = RequestPut(InitRequest)
         /\ InitRequest \in UpdateRequest
  <1>1. InitRequest \in UpdateRequest
    BY InitAssumption DEF InitRequest, UpdateRequest
  <1>2. log \in Seq(Event) /\ Len(log) = 1 /\ log[1] = RequestPut(InitRequest)
    BY SMT, <1>1, WritesAreEvents DEF StorageInit
  <1>3. StorageTypeOK
    BY SMT, <1>1, <1>2, InitAssumption DEF StorageInit, StorageTypeOK
  <1>4. QED
    BY <1>1, <1>2, <1>3 DEF StorageInit, StorageInv

\* One write of etcd.
LEMMA OneWrite ==
  ASSUME StorageInv, NEW e \in Event, log' = Append(log, e)
  PROVE  /\ log' \in Seq(Event)
         /\ Len(log) \in Nat
         /\ Len(log') = Len(log) + 1
         /\ \A i \in 1 .. Len(log) : log'[i] = log[i]
         /\ log'[Len(log) + 1] = e
         /\ Grows
  <1>1. log \in Seq(Event)
    BY DEF StorageInv, StorageTypeOK
  <1>2. /\ log' \in Seq(Event)
        /\ Len(log) \in Nat
        /\ Len(log') = Len(log) + 1
        /\ \A i \in 1 .. Len(log) : log'[i] = log[i]
        /\ log'[Len(log) + 1] = e
    BY SMT, <1>1, AppendFacts
  <1>3. QED
    BY SMT, <1>2 DEF Grows

\* A step that does not write keeps the history.
LEMMA UnchangedTypes ==
  ASSUME StorageInv, UNCHANGED storageVars
  PROVE  StorageInv' /\ Grows
  <1> log \in Seq(Event)
    BY DEF StorageInv, StorageTypeOK
  <1> QED
    BY SMT DEF StorageInv, StorageTypeOK, Grows, storageVars

\* A worker reports.
LEMMA PutStatusTypes ==
  ASSUME StorageInv, NEW w \in Lrn, NEW st \in UpdateStatus, PutStatus(w, st)
  PROVE  StorageInv' /\ Grows
  <1>1. StatusPut(w, st) \in Event
    BY WritesAreEvents
  <1>2. /\ log' \in Seq(Event)
        /\ Len(log) \in Nat
        /\ Len(log') = Len(log) + 1
        /\ \A i \in 1 .. Len(log) : log'[i] = log[i]
        /\ Grows
    BY <1>1, OneWrite DEF PutStatus
  <1>3. QED
    BY SMT, <1>2 DEF StorageInv, StorageTypeOK, PutStatus

\* A new request, or a stop request.
LEMMA PutRequestTypes ==
  ASSUME StorageInv, NEW r \in UpdateRequest,
         PutRequest(r) \/ PutReconfigureRequest(r)
  PROVE  StorageInv' /\ Grows
  <1>1. RequestPut(r) \in Event
    BY WritesAreEvents
  <1>2. /\ log' \in Seq(Event)
        /\ Len(log) \in Nat
        /\ Len(log') = Len(log) + 1
        /\ log'[Len(log) + 1] = RequestPut(r)
        /\ Grows
    BY <1>1, OneWrite DEF PutRequest, PutReconfigureRequest
  <1>3. QED
    BY SMT, <1>2
    DEF StorageInv, StorageTypeOK, PutRequest, PutReconfigureRequest

\* A write under info/, or the deletion of status/.
InfoWrite ==
  \/ \E lrn \in Lrn : RegisterBootserver(lrn) \/ DeleteBootServer(lrn)
  \/ \E version \in Version : UpdateNecoRelease(version)

\* The writes of the administrator and of the updaters besides requests.
LEMMA OtherWriteTypes ==
  ASSUME StorageInv, ClearStatusAndContents \/ InfoWrite
  PROVE  StorageInv' /\ Grows
  <1>1. PICK e \in Event : log' = Append(log, e)
    BY WritesAreEvents
    DEF ClearStatusAndContents, InfoWrite, RegisterBootserver,
        DeleteBootServer, UpdateNecoRelease
  <1>2. /\ log' \in Seq(Event)
        /\ Len(log) \in Nat
        /\ Len(log') = Len(log) + 1
        /\ \A i \in 1 .. Len(log) : log'[i] = log[i]
        /\ Grows
    BY <1>1, OneWrite
  <1>3. QED
    BY SMT, <1>2
    DEF StorageInv, StorageTypeOK, ClearStatusAndContents, InfoWrite,
        RegisterBootserver, DeleteBootServer, UpdateNecoRelease

\* The requests that are written.
LEMMA RequestTypes ==
  ASSUME StorageInv
  PROVE  /\ \A version \in Version, servers \in SUBSET Lrn :
              NewRequest(version, servers) \in UpdateRequest
         /\ current # NoRequest =>
              [current EXCEPT !.stop = TRUE] \in UpdateRequest
  <1> log \in Seq(Event) /\ current \in UpdateRequest \cup {NoRequest}
    BY DEF StorageInv, StorageTypeOK
  <1> Len(log) \in Nat
    BY SMT
  <1> QED
    BY SMT, FieldChanges DEF NewRequest, UpdateRequest

----------------------------------------------------------------------------
(* Type correctness. *)

\* Places where a request is in hand.
WithRequest == Place \ {"boot", "start", "wait"}

\* A worker with a request in hand remembers the revision of a request; it
\* aborts only what it has read.
TypeInv ==
  /\ WorkersTypeOK
  /\ StorageInv
  /\ \A w \in Lrn : pc[w] \in WithRequest =>
       modRev[w] \in 1 .. Len(log) /\ log[modRev[w]].key = "current"
  /\ \A w \in Lrn : pc[w] = "abort" => myst[w] # NoStatus

\* The part of TypeInv about etcd.
LEMMA TypeInvStorage == TypeInv => StorageInv
  BY DEF TypeInv, WorkersTypeOK, StorageInv

\* The request in hand is a request.
LEMMA RequestInHand ==
  ASSUME TypeInv, NEW w \in Lrn, pc[w] \in WithRequest
  PROVE  /\ req(w) \in UpdateRequest
         /\ modRev[w] \in 1 .. Len(log)
         /\ Len(log) \in Nat
  <1> log \in Seq(Event) /\ modRev[w] \in 1 .. Len(log)
        /\ log[modRev[w]].key = "current"
    BY DEF TypeInv, WorkersTypeOK, StorageTypeOK
  <1> log[modRev[w]] \in Event /\ Len(log) \in Nat
    BY SMT
  <1> QED
    BY EventFields DEF req

\* The types at the beginning.
LEMMA InitTypeInv == WorkersInit => TypeInv
  <1> SUFFICES ASSUME WorkersInit PROVE TypeInv
    OBVIOUS
  <1>1. StorageInv
    BY InitStorage DEF WorkersInit
  <1>2. OperatorTypeOK
    BY InitAssumption DEF WorkersInit, OperatorTypeOK
  <1>3. WorkerTypeOK
    BY SMT, FinalStepAssumption DEF WorkersInit, WorkerTypeOK, Place
  <1>4. QED
    BY <1>1, <1>2, <1>3
    DEF WorkersInit, TypeInv, WorkersTypeOK, StorageInv, WithRequest, Place

\* The steps of an update keep the types of a server's state.
LEMMA RunStepTypes ==
  ASSUME OperatorTypeOK, NEW w \in Lrn, NEW s, NEW v \in Version,
         RunStepPartly(w, s, v)
  PROVE  OperatorTypeOK'
  BY DEF OperatorTypeOK, RunStepPartly, RunStep, StopVault, UpdateVault,
         StopCKE, UpdateCKE, replaceVaultFiles, StartVault, operatorVars

----------------------------------------------------------------------------
\* The local variables of the other workers.
OthersKeep(w) ==
  \A m \in Lrn \ {w} :
    /\ pc'[m] = pc[m] /\ modRev'[m] = modRev[m] /\ myst'[m] = myst[m]
    /\ step'[m] = step[m] /\ barrier'[m] = barrier[m] /\ pos'[m] = pos[m]

\* A step of w keeps TypeInv when it keeps the types and what w knows.
LEMMA TypeFrame ==
  ASSUME TypeInv, StorageInv', Grows, OperatorTypeOK', WorkerTypeOK',
         NEW w \in Lrn, OthersKeep(w),
         pc'[w] \in WithRequest =>
           modRev'[w] \in 1 .. Len(log') /\ log'[modRev'[w]].key = "current",
         pc'[w] = "abort" => myst'[w] # NoStatus
  PROVE  TypeInv'
  BY SMT DEF TypeInv, WorkersTypeOK, StorageInv, Grows, OthersKeep

\* Run goes back to waiting, or the process ends.
LEMMA EndTypes ==
  ASSUME TypeInv, StorageInv', Grows, OperatorTypeOK', NEW w \in Lrn,
         Exit(w) \/ Wait(w)
  PROVE  TypeInv'
  <1> USE DEF Place, WithRequest
  <1>1. WorkerTypeOK
    BY DEF TypeInv, WorkersTypeOK
  <1>2. pc' \in [Lrn -> Place] /\ pc'[w] \notin WithRequest
    BY <1>1 DEF WorkerTypeOK, Exit, Wait, Goto
  <1>3. /\ rev' \in [Lrn -> Nat]
        /\ modRev' \in [Lrn -> Nat]
        /\ pos' \in [Lrn -> Nat]
        /\ step' \in [Lrn -> 1 .. FinalStep]
    BY SMT, <1>1, FinalStepAssumption DEF WorkerTypeOK, Exit, Wait, Forget
  <1>4. myst' \in [Lrn -> UpdateStatus \cup {NoStatus}]
    BY <1>1 DEF WorkerTypeOK, Exit, Wait, Forget
  <1>5. barrier' \in [Lrn -> SUBSET Lrn] /\ done' = done
    BY <1>1 DEF WorkerTypeOK, Exit, Wait, Forget
  <1>6. WorkerTypeOK'
    BY <1>1, <1>2, <1>3, <1>4, <1>5 DEF WorkerTypeOK
  <1>7. OthersKeep(w)
    BY SMT, <1>1 DEF WorkerTypeOK, OthersKeep, Exit, Wait, Forget, Goto
  <1>8. QED
    BY <1>2, <1>6, <1>7, TypeFrame

\* Run up to the request.
LEMMA TypeStepRequest ==
  ASSUME TypeInv, NEW w \in Lrn,
         \/ StartProcess(w) \/ GetRequestWithRev(w) \/ WaitRequest(w)
         \/ InstallNeco(w) \/ InstallFails(w)
  PROVE  TypeInv'
  <1> USE DEF Place, WithRequest
  <1>1. WorkerTypeOK /\ OperatorTypeOK /\ StorageTypeOK
    BY DEF TypeInv, WorkersTypeOK
  <1>2. UNCHANGED storageVars
    BY DEF StartProcess, GetRequestWithRev, WaitRequest, InstallNeco,
           InstallFails
  <1>3. StorageInv' /\ Grows
    BY <1>2, UnchangedTypes, TypeInvStorage
  <1>4. CASE StartProcess(w)
    <2>1. OperatorTypeOK'
      BY <1>1, <1>4
      DEF OperatorTypeOK, StartProcess, StartServices, StartVault
    <2>2. WorkerTypeOK' /\ pc'[w] = "start" /\ OthersKeep(w)
      BY <1>1, <1>4 DEF WorkerTypeOK, OthersKeep, StartProcess, Goto
    <2>3. QED
      BY <1>3, <2>1, <2>2, TypeFrame
  <1>5. ASSUME NEW r, NEW k \in 1 .. Len(log), log[k].key = "current",
               rev' \in [Lrn -> Nat], Consider(w, r, k),
               UNCHANGED <<myst, step, barrier, pos, done, operatorVars>>
        PROVE  TypeInv'
    <2>1. OperatorTypeOK'
      BY <1>1, <1>5 DEF OperatorTypeOK, operatorVars
    <2>2. pc' \in [Lrn -> Place]
      BY <1>1, <1>5 DEF WorkerTypeOK, Consider, Goto
    <2>3. modRev' \in [Lrn -> Nat]
      BY SMTT(20), <1>1, <1>3, <1>5 DEF WorkerTypeOK, Consider, Grows
    <2>4. WorkerTypeOK'
      BY <1>1, <1>5, <2>2, <2>3 DEF WorkerTypeOK
    <2>5. OthersKeep(w)
      BY <1>1, <1>5 DEF WorkerTypeOK, OthersKeep, Consider, Goto
    <2>6. \/ pc'[w] = "wait"
          \/ pc'[w] \in {"install", "statuses"} /\ modRev'[w] = k
      BY <1>1, <1>5 DEF WorkerTypeOK, Consider, Goto
    <2>7. QED
      BY <1>2, <1>3, <1>5, <2>1, <2>4, <2>5, <2>6, TypeFrame DEF storageVars
  <1>6. CASE GetRequestWithRev(w) /\ current = NoRequest
    <2>1. OperatorTypeOK'
      BY <1>1, <1>6 DEF OperatorTypeOK, GetRequestWithRev, operatorVars
    <2>2. Len(log) \in Nat
      BY <1>3 DEF Grows
    <2>3. WorkerTypeOK' /\ OthersKeep(w)
      BY <1>1, <1>6, <2>2
      DEF WorkerTypeOK, OthersKeep, GetRequestWithRev, Goto
    <2>4. pc'[w] = "wait"
      BY <1>1, <1>6 DEF WorkerTypeOK, GetRequestWithRev, Goto
    <2>5. QED
      BY <1>3, <2>1, <2>3, <2>4, TypeFrame
  <1>7. CASE GetRequestWithRev(w) /\ current # NoRequest
    <2>1. currentRev \in 1 .. Len(log) /\ log[currentRev].key = "current"
      BY SMT, <1>7, WritesAreEvents
      DEF TypeInv, WorkersTypeOK, StorageTypeOK, StorageInv
    <2>2. Consider(w, current, currentRev) /\ rev' \in [Lrn -> Nat]
      BY <1>1, <1>3, <1>7 DEF WorkerTypeOK, GetRequestWithRev, Grows
    <2>3. QED
      BY <1>5, <1>7, <2>1, <2>2 DEF GetRequestWithRev
  <1>8. CASE WaitRequest(w)
    <2>1. PICK k \in 1 .. Len(log) :
            /\ NextEvent(rev[w], {"current"}, k)
            /\ rev' = [rev EXCEPT ![w] = k]
            /\ Consider(w, log[k].req, k)
      BY <1>8 DEF WaitRequest
    <2>2. log[k].key = "current" /\ rev' \in [Lrn -> Nat]
      BY SMT, <1>1, <1>3, <2>1 DEF NextEvent, WorkerTypeOK, Grows
    <2>3. QED
      BY <1>5, <1>8, <2>1, <2>2 DEF WaitRequest
  <1>9. CASE InstallNeco(w) \/ InstallFails(w)
    <2>1. req(w).version \in Version
      BY <1>9, RequestInHand DEF InstallNeco, InstallFails, UpdateRequest
    <2>2. OperatorTypeOK'
      BY <1>1, <1>9, <2>1
      DEF OperatorTypeOK, InstallNeco, InstallFails, UpdateNeco, operatorVars
    <2>3. Exit(w)
      BY <1>9 DEF InstallNeco, InstallFails
    <2>4. QED
      BY <1>3, <2>2, <2>3, EndTypes
  <1>10. QED
    BY <1>4, <1>6, <1>7, <1>8, <1>9

\* Run up to update().
LEMMA TypeStepStatuses ==
  ASSUME TypeInv, NEW w \in Lrn,
         GetStatuses(w) \/ PutOwnAbort(w) \/ StartUpdate(w)
  PROVE  TypeInv'
  <1> USE DEF Place, WithRequest
  <1>1. WorkerTypeOK /\ OperatorTypeOK /\ StorageTypeOK
    BY DEF TypeInv, WorkersTypeOK
  <1>2. OperatorTypeOK'
    BY <1>1
    DEF OperatorTypeOK, operatorVars, GetStatuses, PutOwnAbort, StartUpdate
  <1>3. /\ req(w) \in UpdateRequest
        /\ modRev[w] \in 1 .. Len(log)
        /\ log[modRev[w]].key = "current"
    BY RequestInHand DEF TypeInv, GetStatuses, PutOwnAbort, StartUpdate
  <1>4. CASE GetStatuses(w)
    <2>1. StorageInv' /\ Grows /\ UNCHANGED log
      BY <1>4, UnchangedTypes, TypeInvStorage DEF GetStatuses, storageVars
    <2>2. CASE Wait(w)
      BY <1>2, <2>1, <2>2, EndTypes
    <2>3. CASE ~Wait(w)
      <3>1. /\ UNCHANGED <<rev, modRev, step, barrier, pos, done>>
            /\ \/ /\ statuses[w] # NoStatus
                  /\ myst' = [myst EXCEPT ![w] = statuses[w]]
                  /\ pc' = [pc EXCEPT ![w] = "abort"]
               \/ /\ UNCHANGED myst
                  /\ pc' = [pc EXCEPT ![w] = "update"]
        BY <1>4, <2>3 DEF GetStatuses, Goto
      <3>2. myst' \in [Lrn -> UpdateStatus \cup {NoStatus}]
        BY <1>1, <3>1 DEF WorkerTypeOK, StorageTypeOK
      <3>3. WorkerTypeOK' /\ OthersKeep(w)
        BY <1>1, <3>1, <3>2 DEF WorkerTypeOK, OthersKeep
      <3>4. pc'[w] = "abort" => myst'[w] # NoStatus
        BY <1>1, <3>1 DEF WorkerTypeOK
      <3>5. QED
        BY <1>2, <1>3, <2>1, <3>1, <3>3, <3>4, TypeFrame
    <2>4. QED
      BY <2>2, <2>3
  <1>5. CASE PutOwnAbort(w)
    <2>1. [myst[w] EXCEPT !.cond = "abort"] \in UpdateStatus
      <3>1. myst[w] \in UpdateStatus
        BY <1>1, <1>5 DEF TypeInv, WorkerTypeOK, PutOwnAbort
      <3>2. QED
        BY <3>1, FieldChanges
    <2>2. StorageInv' /\ Grows
      BY <1>5, <2>1, PutStatusTypes, TypeInvStorage DEF PutOwnAbort
    <2>3. QED
      BY <1>2, <1>5, <2>2, EndTypes DEF PutOwnAbort
  <1>6. CASE StartUpdate(w)
    <2>1. Status(req(w).version, 1, "running") \in UpdateStatus
      BY SMT, <1>3, FinalStepAssumption DEF Status, UpdateStatus, UpdateRequest
    <2>2. StorageInv' /\ Grows
      BY <1>6, <2>1, PutStatusTypes, TypeInvStorage DEF StartUpdate
    <2>3. /\ step' \in [Lrn -> 1 .. FinalStep]
          /\ pos' \in [Lrn -> Nat]
      BY SMT, <1>1, <1>3, <1>6, <2>2, FinalStepAssumption
      DEF WorkerTypeOK, StartUpdate, Grows
    <2>4. barrier' \in [Lrn -> SUBSET Lrn]
      BY <1>1, <1>3, <1>6
      DEF WorkerTypeOK, StartUpdate, NewBarrier, UpdateRequest
    <2>5. WorkerTypeOK' /\ OthersKeep(w)
      BY SMT, <1>1, <1>6, <2>3, <2>4 DEF WorkerTypeOK, OthersKeep, StartUpdate, Goto
    <2>6. pc'[w] = "watch" /\ UNCHANGED modRev
      BY <1>1, <1>6 DEF WorkerTypeOK, StartUpdate, Goto
    <2>7. QED
      BY <1>2, <1>3, <2>2, <2>5, <2>6, TypeFrame DEF Grows
  <1>7. QED
    BY <1>4, <1>5, <1>6

\* The status watcher.
LEMMA TypeStepWatch ==
  ASSUME TypeInv, NEW w \in Lrn, HandleEvent(w) \/ WatchFails(w)
  PROVE  TypeInv'
  <1> USE DEF Place, WithRequest
  <1>1. WorkerTypeOK /\ OperatorTypeOK /\ StorageTypeOK
    BY DEF TypeInv, WorkersTypeOK
  <1>2. OperatorTypeOK'
    BY <1>1 DEF OperatorTypeOK, operatorVars, HandleEvent, WatchFails
  <1>3. StorageInv' /\ Grows /\ UNCHANGED log
    BY UnchangedTypes, TypeInvStorage DEF HandleEvent, WatchFails, storageVars
  <1>4. modRev[w] \in 1 .. Len(log) /\ log[modRev[w]].key = "current"
    BY DEF TypeInv, HandleEvent, WatchFails
  <1>5. CASE Wait(w)
    BY <1>2, <1>3, <1>5, EndTypes
  <1>6. CASE Fails(w)
    <2>1. WorkerTypeOK' /\ OthersKeep(w) /\ pc'[w] = "error"
      BY <1>1, <1>6 DEF WorkerTypeOK, OthersKeep, Fails, Goto
    <2>2. QED
      BY <1>2, <1>3, <1>4, <1>6, <2>1, TypeFrame DEF Fails
  <1>7. CASE HandleEvent(w) /\ ~Wait(w) /\ ~Fails(w)
    <2>1. PICK k \in 1 .. Len(log) :
            /\ \/ UNCHANGED <<pc, barrier>>
               \/ Check(w, log[k].lrn)
            /\ pos' = [pos EXCEPT ![w] = k]
            /\ UNCHANGED <<rev, modRev, myst, step, done>>
      BY <1>7 DEF HandleEvent, handleCurrent, handleWorkerStatus
    <2>2. barrier' \in [Lrn -> SUBSET Lrn]
      BY <1>1, <2>1 DEF WorkerTypeOK, Check
    <2>3. pos' \in [Lrn -> Nat]
      BY SMT, <1>1, <1>3, <2>1 DEF WorkerTypeOK, Grows
    <2>4. pc' \in [Lrn -> Place] /\ pc'[w] \in {"watch", "runStep"}
      BY <1>1, <1>7, <2>1 DEF WorkerTypeOK, Check, Goto, HandleEvent
    <2>5. WorkerTypeOK'
      BY <1>1, <2>1, <2>2, <2>3, <2>4 DEF WorkerTypeOK
    <2>6. OthersKeep(w)
      BY <1>1, <2>1 DEF WorkerTypeOK, OthersKeep, Check, Goto
    <2>7. QED
      BY <1>2, <1>3, <1>4, <2>1, <2>4, <2>5, <2>6, TypeFrame
  <1>8. QED
    BY <1>5, <1>6, <1>7 DEF WatchFails

\* runStep: running the step.
LEMMA TypeStepRun ==
  ASSUME TypeInv, NEW w \in Lrn,
         RunStepSucceeds(w) \/ RunStepFails(w) \/ RestartEtcd(w) \/ Crash(w)
  PROVE  TypeInv'
  <1> USE DEF Place, WithRequest
  <1>1. WorkerTypeOK /\ OperatorTypeOK /\ StorageTypeOK
    BY DEF TypeInv, WorkersTypeOK
  <1>2. StorageInv' /\ Grows /\ UNCHANGED log
    BY UnchangedTypes, TypeInvStorage
    DEF RunStepSucceeds, RunStepFails, RestartEtcd, Crash, storageVars
  <1>3. pc[w] = "runStep" =>
          /\ req(w) \in UpdateRequest
          /\ modRev[w] \in 1 .. Len(log)
          /\ log[modRev[w]].key = "current"
    BY RequestInHand DEF TypeInv
  <1>4. OperatorTypeOK'
    <2>1. CASE UNCHANGED operatorVars
      BY <1>1, <2>1 DEF OperatorTypeOK, operatorVars
    <2>2. CASE ~UNCHANGED operatorVars
      <3>1. pc[w] = "runStep" /\ RunStepPartly(w, step[w], req(w).version)
        BY <2>2
        DEF RunStepSucceeds, RunStepFails, RestartEtcd, Crash, RunStepPartly
      <3>2. QED
        BY <1>1, <1>3, <3>1, RunStepTypes DEF UpdateRequest
    <2>3. QED
      BY <2>1, <2>2
  <1>5. CASE Exit(w)
    BY <1>2, <1>4, <1>5, EndTypes
  <1>6. CASE RunStepSucceeds(w)
    <2>1. StepDone(w) \in [lrn : Lrn, version : Version, step : 1 .. FinalStep,
                           at : Nat]
      <3>1. req(w).version \in Version
        BY <1>3, <1>6 DEF UpdateRequest, RunStepSucceeds
      <3>2. step[w] \in 1 .. FinalStep /\ currentRev \in Nat
        BY SMT, <1>1, <1>2 DEF WorkerTypeOK, StorageTypeOK, Grows
      <3>3. QED
        BY <3>1, <3>2 DEF StepDone
    <2>2. WorkerTypeOK'
      BY <1>1, <1>6, <2>1 DEF WorkerTypeOK, RunStepSucceeds, Goto
    <2>3. OthersKeep(w) /\ pc'[w] = "report" /\ UNCHANGED modRev
      BY <1>1, <1>6 DEF WorkerTypeOK, OthersKeep, RunStepSucceeds, Goto
    <2>4. QED
      BY <1>2, <1>3, <1>4, <1>6, <2>2, <2>3, TypeFrame DEF RunStepSucceeds
  <1>7. CASE RunStepFails(w)
    <2>1. WorkerTypeOK'
      BY <1>1, <1>7 DEF WorkerTypeOK, RunStepFails, Goto
    <2>2. OthersKeep(w) /\ pc'[w] = "failed" /\ UNCHANGED modRev
      BY <1>1, <1>7 DEF WorkerTypeOK, OthersKeep, RunStepFails, Goto
    <2>3. QED
      BY <1>2, <1>3, <1>4, <1>7, <2>1, <2>2, TypeFrame DEF RunStepFails
  <1>8. QED
    BY <1>5, <1>6, <1>7 DEF RestartEtcd, Crash

\* w.step and w.barrier at the next step.
LEMMA NextStepTypes ==
  ASSUME TypeInv, NEW w \in Lrn, pc[w] = "report", step[w] # FinalStep,
         NextStep(w)
  PROVE  /\ step[w] + 1 \in 1 .. FinalStep
         /\ step' \in [Lrn -> 1 .. FinalStep]
         /\ step'[w] = step[w] + 1
         /\ barrier' \in [Lrn -> SUBSET Lrn]
         /\ barrier'[w] = req(w).servers
         /\ \A m \in Lrn \ {w} : step'[m] = step[m] /\ barrier'[m] = barrier[m]
  <1>1. WorkerTypeOK
    BY DEF TypeInv, WorkersTypeOK
  <1>2. req(w).servers \in SUBSET Lrn
    BY RequestInHand DEF WithRequest, Place, UpdateRequest
  <1>3. step[w] + 1 \in 1 .. FinalStep
    BY SMT, <1>1, FinalStepAssumption DEF WorkerTypeOK
  <1>4. QED
    BY <1>1, <1>2, <1>3 DEF WorkerTypeOK, NextStep, NewBarrier

\* runStep: reporting.
LEMMA TypeStepReport ==
  ASSUME TypeInv, NEW w \in Lrn,
         \/ ReportFailure(w) \/ ReportNextStep(w) \/ ReportCompletion(w)
         \/ ReportLost(w) \/ registerAbort(w)
  PROVE  TypeInv'
  <1> USE DEF Place, WithRequest
  <1>1. WorkerTypeOK /\ OperatorTypeOK /\ StorageTypeOK
    BY DEF TypeInv, WorkersTypeOK
  <1>2. OperatorTypeOK'
    BY <1>1
    DEF OperatorTypeOK, operatorVars, ReportFailure, ReportNextStep,
        ReportCompletion, ReportLost, registerAbort
  <1>3. /\ req(w) \in UpdateRequest
        /\ modRev[w] \in 1 .. Len(log)
        /\ log[modRev[w]].key = "current"
    BY RequestInHand
    DEF TypeInv, ReportFailure, ReportNextStep, ReportCompletion, ReportLost,
        registerAbort
  <1>4. /\ Status(req(w).version, step[w], "abort") \in UpdateStatus
        /\ Status(req(w).version, FinalStep, "complete") \in UpdateStatus
    <2>1. req(w).version \in Version
      BY <1>3 DEF UpdateRequest
    <2>2. step[w] \in 1 .. FinalStep /\ FinalStep \in 1 .. FinalStep
      BY SMT, <1>1, FinalStepAssumption DEF WorkerTypeOK
    <2>3. QED
      BY <2>1, <2>2 DEF Status, UpdateStatus
  <1>5. CASE ReportFailure(w) \/ ReportCompletion(w)
    <2>1. StorageInv' /\ Grows
      BY <1>4, <1>5, PutStatusTypes, TypeInvStorage
      DEF ReportFailure, ReportCompletion
    <2>2. WorkerTypeOK'
      BY <1>1, <1>5 DEF WorkerTypeOK, ReportFailure, ReportCompletion, Goto
    <2>3. OthersKeep(w) /\ pc'[w] \in {"error", "restart"} /\ UNCHANGED modRev
      BY <1>1, <1>5
      DEF WorkerTypeOK, OthersKeep, ReportFailure, ReportCompletion, Goto
    <2>4. QED
      BY <1>2, <1>3, <2>1, <2>2, <2>3, TypeFrame DEF Grows
  <1>6. CASE ReportNextStep(w)
    <2>1. Status(req(w).version, step[w] + 1, "running") \in UpdateStatus
      BY <1>3, <1>6, NextStepTypes
      DEF ReportNextStep, Status, UpdateStatus, UpdateRequest
    <2>2. StorageInv' /\ Grows
      BY <1>6, <2>1, PutStatusTypes, TypeInvStorage DEF ReportNextStep
    <2>3. WorkerTypeOK'
      BY <1>1, <1>6, NextStepTypes DEF WorkerTypeOK, ReportNextStep, Goto
    <2>4. OthersKeep(w) /\ pc'[w] = "watch" /\ UNCHANGED modRev
      BY <1>1, <1>6, NextStepTypes
      DEF WorkerTypeOK, OthersKeep, ReportNextStep, Goto
    <2>5. QED
      BY <1>2, <1>3, <2>2, <2>3, <2>4, TypeFrame DEF Grows
  <1>7. CASE ReportLost(w)
    <2>1. StorageInv' /\ Grows
      BY <1>7, UnchangedTypes, TypeInvStorage DEF ReportLost
    <2>2. /\ step' \in [Lrn -> 1 .. FinalStep]
          /\ barrier' \in [Lrn -> SUBSET Lrn]
          /\ \A m \in Lrn \ {w} : step'[m] = step[m] /\ barrier'[m] = barrier[m]
      BY <1>1, <1>7, NextStepTypes DEF WorkerTypeOK, ReportLost
    <2>3. WorkerTypeOK'
      BY <1>1, <1>7, <2>2 DEF WorkerTypeOK, ReportLost, Goto
    <2>4. OthersKeep(w) /\ pc'[w] = "error" /\ UNCHANGED modRev
      BY <1>1, <1>7, <2>2 DEF WorkerTypeOK, OthersKeep, ReportLost, Goto
    <2>5. QED
      BY <1>2, <1>3, <2>1, <2>3, <2>4, TypeFrame DEF Grows
  <1>8. CASE registerAbort(w)
    <2>1. StorageInv' /\ Grows
      BY <1>4, <1>8, PutStatusTypes, TypeInvStorage DEF registerAbort
    <2>2. QED
      BY <1>2, <1>8, <2>1, EndTypes DEF registerAbort
  <1>9. QED
    BY <1>5, <1>6, <1>7, <1>8

\* The environment writes to etcd only.
LEMMA TypeStepEnvironment ==
  ASSUME TypeInv, EnvironmentNext \/ UNCHANGED workersVars
  PROVE  TypeInv'
  <1>1. StorageInv' /\ Grows
    <2>1. CASE Recover \/ InfoChanges
      BY <2>1, OtherWriteTypes, TypeInvStorage
      DEF Recover, InfoChanges, InfoWrite
    <2>2. CASE \E version \in Version, servers \in SUBSET Lrn :
                 StartRound(version, servers) \/ RestartRound(version, servers)
      BY <2>2, RequestTypes, TypeInvStorage, PutRequestTypes
      DEF StartRound, RestartRound
    <2>3. CASE StopRound
      BY <2>3, RequestTypes, TypeInvStorage, PutRequestTypes DEF StopRound
    <2>4. CASE UNCHANGED workersVars
      BY <2>4, UnchangedTypes, TypeInvStorage DEF workersVars
    <2>5. QED
      BY <2>1, <2>2, <2>3, <2>4 DEF EnvironmentNext
  <1>2. UNCHANGED <<operatorVars, workerVars>>
    BY DEF EnvironmentNext, StartRound, RestartRound, StopRound, Recover,
           InfoChanges, workersVars
  <1>3. OperatorTypeOK' /\ WorkerTypeOK'
    BY <1>2
    DEF TypeInv, WorkersTypeOK, OperatorTypeOK, WorkerTypeOK, operatorVars,
        workerVars
  <1>4. QED
    BY <1>1, <1>2, <1>3
    DEF TypeInv, WorkersTypeOK, StorageInv, Grows, workerVars

\* Every step keeps the types.
LEMMA TypeStep ==
  ASSUME TypeInv, [WorkersNext]_workersVars
  PROVE  TypeInv'
  BY TypeStepRequest, TypeStepStatuses, TypeStepWatch, TypeStepRun,
     TypeStepReport, TypeStepEnvironment
  DEF WorkersNext, WorkerNext, WorkerStep, WorkerFails

\* TypeInv holds at all times.
LEMMA TypeInvariant == WorkersSpec => []TypeInv
  <1>1. TypeInv /\ [WorkersNext]_workersVars => TypeInv'
    BY TypeStep
  <1>2. QED
    BY <1>1, InitTypeInv, PTL DEF WorkersSpec

\* Every variable keeps to its type, whatever requests are written and
\* whenever workers fail: in particular a worker never steps past FinalStep
\* and only ever writes well-formed requests and statuses.
THEOREM WorkersTypeCorrect == WorkersSpec => []WorkersTypeOK
  <1>1. TypeInv => WorkersTypeOK
    BY DEF TypeInv
  <1>2. QED
    BY <1>1, TypeInvariant, PTL

----------------------------------------------------------------------------
(* What a step may touch. *)

\* A worker changes its own local variables and forgets no finished step.
LEMMA WorkerFrame ==
  ASSUME TypeInv, NEW w \in Lrn, WorkerNext(w)
  PROVE  OthersKeep(w) /\ done \subseteq done'
  <1>1. WorkerTypeOK
    BY DEF TypeInv, WorkersTypeOK
  <1>2. CASE Exit(w) \/ Wait(w)
    BY SMT, <1>1, <1>2 DEF WorkerTypeOK, OthersKeep, Exit, Wait, Forget, Goto
  <1>3. CASE StartProcess(w) \/ GetRequestWithRev(w) \/ WaitRequest(w)
    BY <1>1, <1>3
    DEF WorkerTypeOK, OthersKeep, StartProcess, GetRequestWithRev, WaitRequest,
        Consider, Goto
  <1>4. CASE (GetStatuses(w) /\ ~Wait(w)) \/ StartUpdate(w)
    BY <1>1, <1>4 DEF WorkerTypeOK, OthersKeep, GetStatuses, StartUpdate, Goto
  <1>5. CASE (HandleEvent(w) /\ ~Wait(w)) \/ WatchFails(w)
    <2>1. CASE Fails(w)
      BY <1>1, <2>1 DEF WorkerTypeOK, OthersKeep, Fails, Goto
    <2>2. CASE ~Fails(w)
      <3>1. PICK k \in 1 .. Len(log) :
              /\ UNCHANGED <<pc, barrier>> \/ Check(w, log[k].lrn)
              /\ pos' = [pos EXCEPT ![w] = k]
              /\ UNCHANGED <<rev, modRev, myst, step, done>>
        BY <1>5, <2>2
        DEF HandleEvent, WatchFails, handleCurrent, handleWorkerStatus
      <3>2. QED
        BY <1>1, <3>1 DEF WorkerTypeOK, OthersKeep, Check, Goto
    <2>3. QED
      BY <2>1, <2>2
  <1>6. CASE \/ RunStepSucceeds(w) \/ RunStepFails(w) \/ ReportFailure(w)
             \/ ReportCompletion(w)
    BY <1>1, <1>6
    DEF WorkerTypeOK, OthersKeep, RunStepSucceeds, RunStepFails, ReportFailure,
        ReportCompletion, Goto
  <1>7. CASE ReportNextStep(w) \/ ReportLost(w)
    BY <1>1, <1>7
    DEF WorkerTypeOK, OthersKeep, ReportNextStep, ReportLost, NextStep, Goto
  <1>8. QED
    BY <1>2, <1>3, <1>4, <1>5, <1>6, <1>7
    DEF WorkerNext, WorkerStep, WorkerFails, InstallNeco, InstallFails,
        PutOwnAbort, registerAbort, RestartEtcd, Crash

\* The status that w reports.  It claims a later step, or completion, only
\* after it has run the step before.
Reports(w, st) ==
  /\ PutStatus(w, st)
  /\ st.cond = "running" /\ st.step > 1 =>
       /\ pc[w] = "report"
       /\ st.version = req(w).version
       /\ st.step = step[w] + 1
       /\ step'[w] = step[w] + 1
  /\ st.cond = "complete" =>
       /\ pc[w] = "report"
       /\ st.version = req(w).version
       /\ step[w] = FinalStep

\* The fields of a status.
LEMMA StatusFields ==
  ASSUME NEW v, NEW s, NEW c
  PROVE  /\ Status(v, s, c).version = v
         /\ Status(v, s, c).step = s
         /\ Status(v, s, c).cond = c
  BY DEF Status

\* A worker writes nothing but its own status.
LEMMA WorkerWrites ==
  ASSUME TypeInv, NEW w \in Lrn, WorkerNext(w)
  PROVE  \/ UNCHANGED storageVars
         \/ \E st \in UpdateStatus : Reports(w, st)
  <1>1. WorkerTypeOK
    BY DEF TypeInv, WorkersTypeOK
  <1>2. CASE UNCHANGED storageVars
    BY <1>2
  <1>3. CASE PutOwnAbort(w)
    <2>1. myst[w] \in UpdateStatus
      BY <1>1, <1>3 DEF TypeInv, WorkerTypeOK, PutOwnAbort
    <2>2. [myst[w] EXCEPT !.cond = "abort"] \in UpdateStatus
      BY <2>1, FieldChanges
    <2>3. [myst[w] EXCEPT !.cond = "abort"].cond = "abort"
      BY <2>1 DEF UpdateStatus
    <2>4. QED
      BY <1>3, <2>2, <2>3 DEF PutOwnAbort, Reports
  <1>4. CASE \/ StartUpdate(w) \/ ReportFailure(w) \/ ReportNextStep(w)
             \/ ReportCompletion(w) \/ registerAbort(w)
    <2>1. req(w).version \in Version
      BY <1>4, RequestInHand
      DEF StartUpdate, ReportFailure, ReportNextStep, ReportCompletion,
          registerAbort, WithRequest, Place, UpdateRequest
    <2>2. /\ Status(req(w).version, 1, "running") \in UpdateStatus
          /\ Status(req(w).version, step[w], "abort") \in UpdateStatus
          /\ Status(req(w).version, FinalStep, "complete") \in UpdateStatus
      BY SMT, <1>1, <2>1, FinalStepAssumption DEF WorkerTypeOK, Status, UpdateStatus
    <2>3. CASE ReportNextStep(w)
      <3>1. step[w] + 1 \in 1 .. FinalStep /\ step'[w] = step[w] + 1
        BY <2>3, NextStepTypes DEF ReportNextStep
      <3>2. Status(req(w).version, step[w] + 1, "running") \in UpdateStatus
        BY <2>1, <3>1 DEF Status, UpdateStatus
      <3>3. LET st == Status(req(w).version, step[w] + 1, "running")
            IN  /\ st.version = req(w).version
                /\ st.step = step[w] + 1
                /\ st.cond = "running"
        BY SMT, StatusFields
      <3>4. /\ PutStatus(w, Status(req(w).version, step[w] + 1, "running"))
            /\ pc[w] = "report"
        BY <2>3 DEF ReportNextStep
      <3>5. Reports(w, Status(req(w).version, step[w] + 1, "running"))
        BY <3>1, <3>3, <3>4 DEF Reports
      <3>6. QED
        BY <3>2, <3>5
    <2>4. CASE StartUpdate(w)
      <3>1. PutStatus(w, Status(req(w).version, 1, "running"))
        BY <2>4 DEF StartUpdate
      <3>2. Reports(w, Status(req(w).version, 1, "running"))
        <4>1. LET st == Status(req(w).version, 1, "running")
              IN  st.step = 1 /\ st.cond = "running"
          BY SMT, StatusFields
        <4>2. QED
          BY SMT, <3>1, <4>1 DEF Reports
      <3>3. QED
        BY <2>2, <3>2
    <2>5. CASE ReportCompletion(w)
      <3>1. /\ PutStatus(w, Status(req(w).version, FinalStep, "complete"))
            /\ pc[w] = "report" /\ step[w] = FinalStep
        BY <2>5 DEF ReportCompletion
      <3>2. LET st == Status(req(w).version, FinalStep, "complete")
            IN  st.version = req(w).version /\ st.cond = "complete"
        BY SMT, StatusFields
      <3>3. Reports(w, Status(req(w).version, FinalStep, "complete"))
        BY <3>1, <3>2 DEF Reports
      <3>4. QED
        BY <2>2, <3>3
    <2>6. CASE ReportFailure(w) \/ registerAbort(w)
      <3>1. PutStatus(w, Status(req(w).version, step[w], "abort"))
        BY <2>6 DEF ReportFailure, registerAbort
      <3>2. Status(req(w).version, step[w], "abort").cond = "abort"
        BY SMT, StatusFields
      <3>3. Reports(w, Status(req(w).version, step[w], "abort"))
        BY <3>1, <3>2 DEF Reports
      <3>4. QED
        BY <2>2, <3>3
    <2>7. QED
      BY <1>4, <2>3, <2>4, <2>5, <2>6
  <1>5. QED
    BY <1>2, <1>3, <1>4
    DEF WorkerNext, WorkerStep, WorkerFails, StartProcess, GetRequestWithRev,
        WaitRequest, InstallNeco, InstallFails, GetStatuses, HandleEvent,
        WatchFails, RunStepSucceeds, RunStepFails, ReportLost, RestartEtcd,
        Crash

\* The environment leaves the workers alone and writes no status.
LEMMA EnvironmentWrites ==
  ASSUME TypeInv, EnvironmentNext
  PROVE  /\ UNCHANGED <<operatorVars, workerVars>>
         /\ \A w \in Lrn : statuses'[w] \in {statuses[w], NoStatus}
         /\ \E e \in Event :
              /\ log' = Append(log, e)
              /\ e.key # "status"
              /\ e.key = "current" => currentRev' = Len(log) + 1
              /\ e.key # "current" => currentRev' = currentRev
  <1>1. CASE Recover \/ InfoChanges
    BY <1>1, WritesAreEvents
    DEF Recover, ClearStatusAndContents, InfoChanges, RegisterBootserver,
        DeleteBootServer, UpdateNecoRelease
  <1>2. CASE \E r \in UpdateRequest :
               /\ PutRequest(r) \/ PutReconfigureRequest(r)
               /\ UNCHANGED <<operatorVars, workerVars>>
    BY SMT, <1>2, WritesAreEvents DEF PutRequest, PutReconfigureRequest
  <1>3. QED
    BY <1>1, <1>2, RequestTypes, TypeInvStorage
    DEF EnvironmentNext, StartRound, RestartRound, StopRound

\* etcd's history only grows, and so does the set of finished steps.
LEMMA StepGrows ==
  ASSUME TypeInv, [WorkersNext]_workersVars
  PROVE  Grows /\ done \subseteq done'
  <1>1. CASE \E w \in Lrn : WorkerNext(w)
    BY <1>1, WorkerFrame, WorkerWrites, PutStatusTypes,
       TypeInvStorage, UnchangedTypes
    DEF Reports
  <1>2. CASE EnvironmentNext
    BY <1>2, EnvironmentWrites, OneWrite, TypeInvStorage DEF Grows, workerVars
  <1>3. CASE UNCHANGED workersVars
    BY <1>3, UnchangedTypes, TypeInvStorage DEF workersVars, workerVars
  <1>4. QED
    BY <1>1, <1>2, <1>3 DEF WorkersNext

\* The request in hand does not change under a worker.
LEMMA RequestKept ==
  ASSUME TypeInv, Grows, NEW w \in Lrn, pc[w] \in WithRequest,
         modRev'[w] = modRev[w]
  PROVE  req(w)' = req(w)
  BY DEF TypeInv, Grows, req

\* Places in update(), and the steps that lead there.
InStep == {"watch", "runStep", "report", "restart"}

\* The steps after which a worker is in a step of the round.
LEMMA WhoIsInStep ==
  ASSUME TypeInv, NEW w \in Lrn, WorkerNext(w), pc'[w] \in InStep
  PROVE  \/ StartUpdate(w) /\ pc'[w] = "watch"
         \/ HandleEvent(w) /\ ~Wait(w) /\ pc'[w] \in {"watch", "runStep"}
         \/ RunStepSucceeds(w) /\ pc'[w] = "report"
         \/ ReportNextStep(w) /\ pc'[w] = "watch"
         \/ ReportCompletion(w) /\ pc'[w] = "restart"
  <1> USE DEF InStep, Goto
  <1>1. pc \in [Lrn -> Place]
    BY DEF TypeInv, WorkersTypeOK, WorkerTypeOK
  <1>2. ~Exit(w) /\ ~Wait(w)
    BY <1>1 DEF Exit, Wait
  <1>3. ~StartProcess(w) /\ ~GetRequestWithRev(w) /\ ~WaitRequest(w)
    BY <1>1 DEF StartProcess, GetRequestWithRev, WaitRequest, Consider
  <1>4. ~GetStatuses(w) /\ ~WatchFails(w)
    BY <1>1, <1>2 DEF GetStatuses, WatchFails, Fails
  <1>5. ~RunStepFails(w) /\ ~ReportLost(w) /\ ~ReportFailure(w)
    BY <1>1 DEF RunStepFails, ReportLost, ReportFailure
  <1>6. CASE HandleEvent(w)
    <2>1. pc'[w] \in {"error", "watch", "runStep"}
      BY <1>1, <1>2, <1>6
      DEF HandleEvent, handleCurrent, handleWorkerStatus, Fails, Check
    <2>2. QED
      BY <1>2, <1>6, <2>1
  <1>7. CASE \/ StartUpdate(w) \/ RunStepSucceeds(w) \/ ReportNextStep(w)
             \/ ReportCompletion(w)
    BY <1>1, <1>7
    DEF StartUpdate, RunStepSucceeds, ReportNextStep, ReportCompletion
  <1>8. QED
    BY <1>2, <1>3, <1>4, <1>5, <1>6, <1>7
    DEF WorkerNext, WorkerStep, WorkerFails, InstallNeco, InstallFails,
        PutOwnAbort, registerAbort, RestartEtcd, Crash

----------------------------------------------------------------------------
(* What the history of etcd tells about the steps that were run. *)

RequestAt(k) == log[k].key = "current"
StatusAt(k, m) == log[k].key = "status" /\ log[k].lrn = m

\* The status of a worker that is in the second or a later step.
ClaimsStep(e) == e.key = "status" /\ e.st.cond = "running" /\ e.st.step > 1

\* m has run a step after every request that is followed by a status of m among
\* the first n writes.
FreshRun(m, version, s, n) ==
  \E d \in done :
    /\ d.lrn = m /\ d.version = version /\ d.step = s
    /\ \A j \in 1 .. n : \A r \in 1 .. j :
         StatusAt(j, m) /\ RequestAt(r) => d.at >= r

\* currentRev is the last request.  A status that claims a later step comes
\* after a run of the step before, and so does a worker that is to report; that
\* run came after the worker's previous status.
HistoryInv ==
  /\ \A k \in 1 .. Len(log) : RequestAt(k) => k <= currentRev
  /\ \A k \in 1 .. Len(log) : ClaimsStep(log[k]) =>
       FreshRun(log[k].lrn, log[k].st.version, log[k].st.step - 1, k - 1)
  /\ \A w \in Lrn : pc[w] = "report" =>
       FreshRun(w, req(w).version, step[w], Len(log))

\* A fresh run stays one as the history grows.
LEMMA FreshRunKept ==
  ASSUME Grows, done \subseteq done', NEW m, NEW version, NEW s,
         NEW n \in 0 .. Len(log), FreshRun(m, version, s, n)
  PROVE  FreshRun(m, version, s, n)'
  <1>1. PICK d \in done :
          /\ d.lrn = m /\ d.version = version /\ d.step = s
          /\ \A j \in 1 .. n : \A r \in 1 .. j :
               StatusAt(j, m) /\ RequestAt(r) => d.at >= r
    BY DEF FreshRun
  <1>2. \A i \in 1 .. n : log'[i] = log[i]
    BY SMT DEF Grows
  <1>3. \A j \in 1 .. n : \A r \in 1 .. j : r \in 1 .. n
    BY SMT DEF Grows
  <1>4. \A j \in 1 .. n : \A r \in 1 .. j :
          StatusAt(j, m)' /\ RequestAt(r)' => d.at >= r
    BY <1>1, <1>2, <1>3 DEF StatusAt, RequestAt
  <1>5. d \in done'
    OBVIOUS
  <1>6. QED
    BY <1>1, <1>4, <1>5 DEF FreshRun

\* No request is later than currentRev.
LEMMA RequestsUpToCurrent ==
  ASSUME TypeInv, [WorkersNext]_workersVars,
         \A k \in 1 .. Len(log) : RequestAt(k) => k <= currentRev
  PROVE  (\A k \in 1 .. Len(log) : RequestAt(k) => k <= currentRev)'
  <1>1. CASE UNCHANGED storageVars
    BY <1>1 DEF storageVars, RequestAt
  <1>2. CASE \E e \in Event :
               /\ log' = Append(log, e)
               /\ e.key = "current" => currentRev' = Len(log) + 1
               /\ e.key # "current" => currentRev' = currentRev
    <2>1. PICK e \in Event :
               /\ log' = Append(log, e)
               /\ e.key = "current" => currentRev' = Len(log) + 1
               /\ e.key # "current" => currentRev' = currentRev
      BY <1>2
    <2>2. /\ Len(log) \in Nat
          /\ Len(log') = Len(log) + 1
          /\ \A i \in 1 .. Len(log) : log'[i] = log[i]
          /\ log'[Len(log) + 1] = e
      BY <2>1, OneWrite, TypeInvStorage
    <2>3. QED
      BY SMT, <2>1, <2>2 DEF RequestAt
  <1>3. CASE \E w \in Lrn, st \in UpdateStatus : Reports(w, st)
    BY <1>2, <1>3, WritesAreEvents DEF Reports, PutStatus
  <1>4. QED
    BY <1>1, <1>2, <1>3, WorkerWrites, EnvironmentWrites
    DEF WorkersNext, workersVars

\* HistoryInv holds at the beginning ...
LEMMA InitHistory == WorkersInit => HistoryInv
  <1> SUFFICES ASSUME WorkersInit PROVE HistoryInv
    OBVIOUS
  <1>1. Len(log) = 1 /\ log[1].key = "current" /\ currentRev = 1
    BY InitStorage, WritesAreEvents DEF WorkersInit, StorageInit
  <1>2. QED
    BY SMT, <1>1 DEF WorkersInit, HistoryInv, ClaimsStep, RequestAt

\* The statuses tell the truth.
LEMMA HistoryStatuses ==
  ASSUME TypeInv, HistoryInv, [WorkersNext]_workersVars,
         NEW k \in 1 .. Len(log'), ClaimsStep(log'[k])
  PROVE  FreshRun(log[k].lrn, log[k].st.version, log[k].st.step - 1, k - 1)'
  <1>1. Grows /\ done \subseteq done'
    BY StepGrows
  <1>2. CASE k \in 1 .. Len(log)
    <2>1. k - 1 \in 0 .. Len(log) /\ log'[k] = log[k]
      BY SMT, <1>1, <1>2 DEF Grows
    <2>2. FreshRun(log[k].lrn, log[k].st.version, log[k].st.step - 1, k - 1)
      BY <1>2, <2>1 DEF HistoryInv
    <2>3. PICK d \in done :
            /\ d.lrn = log[k].lrn /\ d.version = log[k].st.version
            /\ d.step = log[k].st.step - 1
            /\ \A j \in 1 .. k - 1 : \A r \in 1 .. j :
                 StatusAt(j, log[k].lrn) /\ RequestAt(r) => d.at >= r
      BY <2>2 DEF FreshRun
    <2>4. \A j \in 1 .. k - 1 :
            log'[j] = log[j] /\ \A r \in 1 .. j : r \in 1 .. k - 1
      BY SMT, <1>1, <2>1 DEF Grows
    <2>5. \A j \in 1 .. k - 1 : \A r \in 1 .. j :
            StatusAt(j, log[k].lrn)' /\ RequestAt(r)' => d.at >= r
      BY <2>1, <2>3, <2>4 DEF StatusAt, RequestAt
    <2>6. QED
      BY <1>1, <2>1, <2>3, <2>5 DEF FreshRun
  <1>3. CASE k \notin 1 .. Len(log)
    <2>1. PICK w \in Lrn, st \in UpdateStatus : Reports(w, st)
      <3>1. ~UNCHANGED log
        BY <1>3
      <3>2. ASSUME EnvironmentNext PROVE FALSE
        <4>1. PICK e \in Event : log' = Append(log, e) /\ e.key # "status"
          BY <3>2, EnvironmentWrites
        <4>2. k = Len(log) + 1 /\ log'[k] = e
          BY SMTT(20), <1>1, <1>3, <4>1, OneWrite, TypeInvStorage DEF Grows
        <4>3. QED
          BY <4>1, <4>2 DEF ClaimsStep
      <3>3. QED
        BY <3>1, <3>2, WorkerWrites
        DEF WorkersNext, storageVars, workersVars
    <2>2. /\ Len(log) \in Nat
          /\ k = Len(log) + 1
          /\ log'[k] = StatusPut(w, st)
      BY SMT, <1>3, <2>1, OneWrite, TypeInvStorage, WritesAreEvents
      DEF Reports, PutStatus
    <2>3. log'[k].lrn = w /\ log'[k].st = st
      BY SMT, <2>2, WritesAreEvents
    <2>4. st.cond = "running" /\ st.step > 1
      BY <2>3 DEF ClaimsStep
    <2>5. FreshRun(w, req(w).version, step[w], Len(log))
      BY <2>1, <2>4 DEF Reports, HistoryInv
    <2>6. st.version = req(w).version /\ st.step - 1 = step[w] /\ k - 1 = Len(log)
      <3>1. step[w] \in Nat
        BY SMT DEF TypeInv, WorkersTypeOK, WorkerTypeOK
      <3>2. QED
        BY SMTT(20), <2>1, <2>2, <2>4, <3>1 DEF Reports
    <2>7. FreshRun(w, st.version, st.step - 1, k - 1)'
      <3>1. FreshRun(w, st.version, st.step - 1, k - 1)
        BY <2>5, <2>6
      <3>2. k - 1 \in 0 .. Len(log)
        BY SMT, <2>2
      <3>3. PICK version, s, n : version = st.version /\ s = st.step - 1 /\ n = k - 1
        OBVIOUS
      <3>4. FreshRun(w, version, s, n)'
        BY <1>1, <3>1, <3>2, <3>3, FreshRunKept
      <3>5. QED
        BY <3>3, <3>4
    <2>8. QED
      BY <2>3, <2>7
  <1>4. QED
    BY <1>2, <1>3

\* A worker that is about to report has just run its step.
LEMMA HistoryRuns ==
  ASSUME TypeInv, HistoryInv, [WorkersNext]_workersVars, NEW w \in Lrn,
         pc'[w] = "report"
  PROVE  FreshRun(w, req(w).version, step[w], Len(log))'
  <1>1. Grows /\ done \subseteq done'
    BY StepGrows
  <1>2. CASE WorkerNext(w)
    <2>1. RunStepSucceeds(w)
      BY <1>2, WhoIsInStep DEF InStep
    <2>2. /\ UNCHANGED <<log, modRev, step>>
          /\ StepDone(w) \in done'
      BY <2>1 DEF RunStepSucceeds, storageVars
    <2>3. \A r \in 1 .. Len(log) : RequestAt(r) => currentRev >= r
      BY DEF HistoryInv, TypeInv, WorkersTypeOK, StorageTypeOK
    <2>4. /\ StepDone(w).lrn = w /\ StepDone(w).version = req(w).version'
          /\ StepDone(w).step = step'[w] /\ StepDone(w).at = currentRev
      <3>1. /\ StepDone(w).lrn = w /\ StepDone(w).version = req(w).version
            /\ StepDone(w).step = step[w] /\ StepDone(w).at = currentRev
        BY DEF StepDone
      <3>2. req(w)' = req(w)
        BY <2>2 DEF req
      <3>3. QED
        BY <2>2, <3>1, <3>2
    <2>5. \A j \in 1 .. Len(log) : \A r \in 1 .. j :
            RequestAt(r) => StepDone(w).at >= r
      <3>1. Len(log) \in Nat
        BY SMT, TypeInvStorage DEF StorageInv, StorageTypeOK
      <3>2. QED
        BY SMT, <2>3, <2>4, <3>1
    <2>6. QED
      BY <2>2, <2>4, <2>5 DEF FreshRun, StatusAt, RequestAt
  <1>3. CASE ~WorkerNext(w)
    <2>1. pc[w] = "report" /\ modRev'[w] = modRev[w] /\ step'[w] = step[w]
      BY <1>3, WorkerFrame, EnvironmentWrites
      DEF WorkersNext, workersVars, workerVars, OthersKeep
    <2>2. FreshRun(w, req(w).version, step[w], Len(log))
      BY <2>1 DEF HistoryInv
    <2>3. FreshRun(w, req(w).version, step[w], Len(log))
            => \E d \in done' :
                 /\ d.lrn = w /\ d.version = req(w).version /\ d.step = step[w]
                 /\ \A j \in 1 .. Len(log) : \A r \in 1 .. j :
                      StatusAt(j, w)' /\ RequestAt(r)' => d.at >= r
      BY SMTT(20), <1>1 DEF FreshRun, StatusAt, RequestAt, Grows
    <2>4. \A j \in 1 .. Len(log') : StatusAt(j, w)' => j \in 1 .. Len(log)
      <3>1. CASE UNCHANGED log
        BY <3>1
      <3>2. CASE \E m \in Lrn, st \in UpdateStatus : m # w /\ Reports(m, st)
        BY SMT, <3>2, OneWrite, TypeInvStorage, WritesAreEvents
        DEF Reports, PutStatus, StatusAt
      <3>3. CASE EnvironmentNext
        BY SMT, <3>3, EnvironmentWrites, OneWrite, TypeInvStorage DEF StatusAt
      <3>4. QED
        BY <1>3, <3>1, <3>2, <3>3, WorkerWrites
        DEF WorkersNext, workersVars, storageVars
    <2>5. req(w)' = req(w)
      BY <1>1, <2>1, RequestKept DEF WithRequest, Place
    <2>6. QED
      BY <2>1, <2>2, <2>3, <2>4, <2>5 DEF FreshRun
  <1>4. QED
    BY <1>2, <1>3

\* ... and after every step.
LEMMA HistoryStep ==
  ASSUME TypeInv, HistoryInv, [WorkersNext]_workersVars
  PROVE  HistoryInv'
  <1>1. (\A k \in 1 .. Len(log) : RequestAt(k) => k <= currentRev)'
    BY RequestsUpToCurrent DEF HistoryInv
  <1>2. QED
    BY <1>1, HistoryStatuses, HistoryRuns DEF HistoryInv

----------------------------------------------------------------------------
(* What a worker has seen. *)

\* A server that w no longer waits for has reported since the request, and has
\* run the step before this one since the request.  At the second and later
\* steps every server has reported.
Seen(w) ==
  /\ modRev[w] <= pos[w] /\ pos[w] <= Len(log)
  /\ pc[w] # "watch" => barrier[w] = {}
  /\ \A m \in req(w).servers : m \notin barrier[w] \/ step[w] > 1 =>
       \E j \in modRev[w] + 1 .. pos[w] : StatusAt(j, m)
  /\ step[w] > 1 => \A m \in req(w).servers \ barrier[w] :
       RanStep(m, req(w).version, step[w] - 1, modRev[w])

SeenInv == \A w \in Lrn : pc[w] \in InStep => Seen(w)

\* The inductive invariant behind BarrierOrder.
LockStepInv == TypeInv /\ HistoryInv /\ SeenInv

----------------------------------------------------------------------------
\* w has run every step before the one it is in, and that one too when it is
\* about to report it.
RanBefore(w) ==
  \A s \in 1 .. FinalStep :
    \/ s < step[w]
    \/ s = step[w] /\ pc[w] \in {"report", "restart"}
    =>
      RanStep(w, req(w).version, s, 0)

\* The inductive invariant behind CompleteMeansAllSteps.
CompleteInv ==
  /\ TypeInv
  /\ \A w \in Lrn : pc[w] \in InStep => RanBefore(w)
  /\ CompleteMeansAllSteps

\* Between StopVault and UpdateVault the worker keeps Vault down; a step that
\* is about to be reported was run since the request was written.
VaultDown(w) ==
  /\ pc[w] \in {"watch", "runStep"} /\ StopVaultStep < step[w]
       /\ step[w] <= UpdateVaultStep => vault[w] = 0
  /\ pc[w] = "report" /\ StopVaultStep <= step[w]
       /\ step[w] < UpdateVaultStep => vault[w] = 0
  /\ pc[w] = "report" => RanStep(w, req(w).version, step[w], modRev[w])

\* The inductive invariant behind VaultStoppedInStep.
VaultInv ==
  /\ TypeInv
  /\ \A k \in 1 .. Len(log) : RequestAt(k) => k <= currentRev
  /\ \A w \in Lrn : VaultDown(w)

----------------------------------------------------------------------------
\* The statuses that w has seen stay in the history.
LEMMA StatusesKept ==
  ASSUME TypeInv, Grows, NEW w \in Lrn, Seen(w)
  PROVE  /\ pos[w] <= Len(log')
         /\ \A m : \A j \in modRev[w] + 1 .. pos[w] :
              StatusAt(j, m) => StatusAt(j, m)'
  <1>1. modRev[w] \in Nat /\ pos[w] \in Nat
    BY DEF TypeInv, WorkersTypeOK, WorkerTypeOK
  <1>2. pos[w] <= Len(log')
    BY SMT, <1>1 DEF Seen, Grows
  <1>3. QED
    BY SMTT(30), <1>1, <1>2 DEF Seen, StatusAt, Grows

\* What w has seen does not change while it does nothing.
LEMMA SeenKept ==
  ASSUME TypeInv, Grows, done \subseteq done', NEW w \in Lrn,
         pc[w] \in InStep, Seen(w),
         pc'[w] = pc[w], modRev'[w] = modRev[w], step'[w] = step[w],
         barrier'[w] = barrier[w], pos'[w] = pos[w]
  PROVE  Seen(w)'
  <1>1. req(w)' = req(w)
    BY RequestKept DEF InStep, WithRequest, Place
  <1>2. /\ modRev'[w] <= pos'[w] /\ pos'[w] <= Len(log')
        /\ pc'[w] # "watch" => barrier'[w] = {}
    BY StatusesKept DEF Seen
  <1>3. \A m \in req(w)'.servers : m \notin barrier'[w] \/ step'[w] > 1 =>
          \E j \in modRev'[w] + 1 .. pos'[w] : StatusAt(j, m)'
    BY <1>1, StatusesKept DEF Seen
  <1>4. step'[w] > 1 => \A m \in req(w)'.servers \ barrier'[w] :
          \E d \in done' : /\ d.lrn = m /\ d.version = req(w)'.version
                          /\ d.step = step'[w] - 1 /\ d.at >= modRev'[w]
    BY SMT, <1>1 DEF Seen, RanStep
  <1>5. QED
    BY <1>2, <1>3, <1>4 DEF Seen, RanStep

\* One status of m, at its place in the history, accepted by w.
LEMMA SeenCheck ==
  ASSUME TypeInv, HistoryInv, NEW w \in Lrn, pc[w] = "watch", Seen(w),
         NEW k \in 1 .. Len(log),
         NextEvent(pos[w], {"current", "status"}, k),
         log[k].key = "status",
         IsMember(req(w), log[k].lrn),
         ~Unexpected(w, log[k].st),
         step[w] > 1
  PROVE  RanStep(log[k].lrn, req(w).version, step[w] - 1, modRev[w])
  <1>1. log \in Seq(Event)
    BY DEF TypeInv, WorkersTypeOK, StorageTypeOK
  <1>2. /\ Len(log) \in Nat
        /\ modRev[w] \in 1 .. Len(log)
        /\ RequestAt(modRev[w])
    BY RequestInHand DEF TypeInv, WithRequest, Place, RequestAt
  <1>3. pos[w] \in Nat /\ step[w] \in Nat
    BY SMTT(30) DEF TypeInv, WorkersTypeOK, WorkerTypeOK
  <1>4. log[k].st.cond \in {"running", "abort", "complete"}
    BY SMT, <1>1, EventFields DEF UpdateStatus
  <1>5. /\ log[k].st.cond = "running"
        /\ log[k].st.version = req(w).version
        /\ log[k].st.step = step[w]
    BY <1>4 DEF Unexpected
  <1>6. FreshRun(log[k].lrn, req(w).version, step[w] - 1, k - 1)
    BY <1>5 DEF HistoryInv, ClaimsStep
  <1>7. PICK j \in modRev[w] + 1 .. pos[w] : StatusAt(j, log[k].lrn)
    BY DEF Seen, IsMember
  <1>8. j \in 1 .. k - 1 /\ modRev[w] \in 1 .. j
    BY SMT, <1>2, <1>3, <1>7 DEF NextEvent
  <1>9. QED
    BY <1>2, <1>6, <1>7, <1>8 DEF FreshRun, RanStep

\* A worker that goes on waiting, or stops to, has seen what it says.
LEMMA SeenEvent ==
  ASSUME TypeInv, HistoryInv, NEW w \in Lrn, Seen(w), HandleEvent(w), ~Wait(w),
         pc'[w] \in {"watch", "runStep"}
  PROVE  Seen(w)'
  <1>1. pc[w] = "watch" /\ UNCHANGED log
    BY DEF HandleEvent, storageVars
  <1>2. WorkerTypeOK /\ Len(log) \in Nat
    BY <1>1, RequestInHand DEF TypeInv, WorkersTypeOK, WithRequest, Place
  <1>3. ~Fails(w)
    BY <1>2 DEF WorkerTypeOK, Fails, Goto
  <1>4. PICK k \in 1 .. Len(log) :
          /\ NextEvent(pos[w], {"current", "status"}, k)
          /\ handleWorkerStatus(w, k)
    BY <1>3 DEF HandleEvent, handleCurrent
  <1>5. /\ pos' = [pos EXCEPT ![w] = k]
        /\ UNCHANGED <<rev, modRev, myst, step, done>>
    BY <1>3, <1>4 DEF handleWorkerStatus
  <1>6. req(w)' = req(w)
    BY <1>1, <1>5 DEF req
  <1>7. pos'[w] = k /\ modRev[w] \in Nat /\ pos[w] \in Nat /\ k > pos[w]
    BY SMTT(20), <1>2, <1>4, <1>5 DEF WorkerTypeOK, NextEvent
  <1>8. \A m : (\E j \in modRev[w] + 1 .. pos[w] : StatusAt(j, m)) =>
                 \E j \in modRev[w] + 1 .. k : StatusAt(j, m)
    BY SMTT(20), <1>7
  <1>9. CASE UNCHANGED <<pc, barrier>>
    <2>1. \A m \in req(w).servers : m \notin barrier[w] \/ step[w] > 1 =>
            \E j \in modRev[w] + 1 .. k : StatusAt(j, m)
      BY <1>8 DEF Seen
    <2>2. QED
      BY SMTT(20), <1>1, <1>5, <1>6, <1>7, <1>9, <2>1 DEF Seen, StatusAt, RanStep
  <1>10. CASE ~UNCHANGED <<pc, barrier>>
    <2>1. /\ log[k].key = "status"
          /\ IsMember(req(w), log[k].lrn)
          /\ ~Unexpected(w, log[k].st)
          /\ Check(w, log[k].lrn)
      BY <1>3, <1>4, <1>10 DEF handleWorkerStatus
    <2>2. /\ barrier'[w] = barrier[w] \ {log[k].lrn}
          /\ pc'[w] # "watch" => barrier'[w] = {}
      BY <1>2, <2>1 DEF WorkerTypeOK, Check, Goto
    <2>3. StatusAt(k, log[k].lrn) /\ k \in modRev[w] + 1 .. k
      <3>1. modRev[w] <= pos[w]
        BY DEF Seen
      <3>2. StatusAt(k, log[k].lrn)
        BY <2>1 DEF StatusAt
      <3>3. QED
        BY SMT, <1>7, <3>1, <3>2
    <2>4. \A m \in req(w).servers : m \notin barrier'[w] \/ step[w] > 1 =>
            \E j \in modRev[w] + 1 .. k : StatusAt(j, m)
      <3>1. ASSUME NEW m \in req(w).servers, m # log[k].lrn,
                   m \notin barrier'[w] \/ step[w] > 1
            PROVE  \E j \in modRev[w] + 1 .. pos[w] : StatusAt(j, m)
        BY <2>2, <3>1 DEF Seen
      <3>2. QED
        BY <1>8, <2>3, <3>1
    <2>5. step[w] > 1 => \A m \in req(w).servers \ barrier'[w] :
            RanStep(m, req(w).version, step[w] - 1, modRev[w])
      BY <1>1, <1>4, <2>1, <2>2, SeenCheck DEF Seen
    <2>6. QED
      BY SMT, <1>1, <1>5, <1>6, <1>7, <2>2, <2>4, <2>5 DEF Seen, StatusAt, RanStep
  <1>11. QED
    BY <1>9, <1>10

\* Every step keeps SeenInv.
LEMMA SeenStep ==
  ASSUME TypeInv, HistoryInv, SeenInv, [WorkersNext]_workersVars
  PROVE  SeenInv'
  <1> SUFFICES ASSUME NEW w \in Lrn, pc'[w] \in InStep PROVE Seen(w)'
    BY DEF SeenInv
  <1>1. Grows /\ done \subseteq done'
    BY StepGrows
  <1>2. WorkerTypeOK
    BY DEF TypeInv, WorkersTypeOK
  <1>3. CASE ~WorkerNext(w)
    <2>1. /\ pc'[w] = pc[w] /\ modRev'[w] = modRev[w] /\ step'[w] = step[w]
          /\ barrier'[w] = barrier[w] /\ pos'[w] = pos[w]
      BY <1>3, WorkerFrame, EnvironmentWrites
      DEF WorkersNext, workersVars, workerVars, OthersKeep
    <2>2. QED
      BY <1>1, <2>1, SeenKept DEF SeenInv
  <1>4. CASE StartUpdate(w) /\ pc'[w] = "watch"
    <2>1. /\ modRev[w] \in 1 .. Len(log)
          /\ Len(log) \in Nat
          /\ req(w)' = req(w)
      BY <1>1, <1>4, RequestInHand, RequestKept
      DEF StartUpdate, WithRequest, Place
    <2>2. /\ pos'[w] = modRev[w] /\ modRev'[w] = modRev[w] /\ step'[w] = 1
          /\ barrier'[w] = req(w).servers
      BY <1>2, <1>4 DEF WorkerTypeOK, StartUpdate, NewBarrier
    <2>3. QED
      BY SMT, <1>1, <1>4, <2>1, <2>2 DEF Seen, Grows
  <1>5. CASE HandleEvent(w) /\ ~Wait(w) /\ pc'[w] \in {"watch", "runStep"}
    <2>1. Seen(w)
      BY <1>5 DEF HandleEvent, SeenInv, InStep
    <2>2. QED
      BY <1>5, <2>1, SeenEvent
  <1>6. CASE \/ RunStepSucceeds(w) /\ pc'[w] = "report"
             \/ ReportCompletion(w) /\ pc'[w] = "restart"
    <2>1. pc[w] \in {"runStep", "report"} /\ Seen(w) /\ barrier[w] = {}
      BY <1>6 DEF RunStepSucceeds, ReportCompletion, SeenInv, Seen, InStep
    <2>2. UNCHANGED <<modRev, step, barrier, pos>>
      BY <1>6 DEF RunStepSucceeds, ReportCompletion
    <2>3. req(w)' = req(w)
      BY <1>1, <2>1, <2>2, RequestKept DEF WithRequest, Place
    <2>4. /\ pos[w] <= Len(log')
          /\ \A m : \A j \in modRev[w] + 1 .. pos[w] :
               StatusAt(j, m) => StatusAt(j, m)'
      BY <1>1, <2>1, StatusesKept
    <2>5. \A m \in req(w).servers :
            \E j \in modRev[w] + 1 .. pos[w] : StatusAt(j, m)'
      BY <2>1, <2>4 DEF Seen
    <2>6. step[w] > 1 => \A m \in req(w).servers :
            RanStep(m, req(w).version, step[w] - 1, modRev[w])
      BY <2>1 DEF Seen
    <2>7. step[w] > 1 => \A m \in req(w).servers : \E d \in done' :
            /\ d.lrn = m /\ d.version = req(w).version
            /\ d.step = step[w] - 1 /\ d.at >= modRev[w]
      BY <1>1, <2>6 DEF RanStep
    <2>8. modRev[w] <= pos[w]
      BY <2>1 DEF Seen
    <2>9. QED
      BY SMTT(20), <2>1, <2>2, <2>3, <2>4, <2>5, <2>7, <2>8 DEF Seen, RanStep
  <1>7. CASE ReportNextStep(w) /\ pc'[w] = "watch"
    <2>1. pc[w] = "report" /\ Seen(w) /\ barrier[w] = {}
      BY <1>7 DEF ReportNextStep, SeenInv, Seen, InStep
    <2>2. UNCHANGED <<modRev, pos>> /\ barrier'[w] = req(w).servers
      BY <1>7, NextStepTypes DEF ReportNextStep
    <2>3. req(w)' = req(w)
      BY <1>1, <2>1, <2>2, RequestKept DEF WithRequest, Place
    <2>4. /\ pos[w] <= Len(log')
          /\ \A m : \A j \in modRev[w] + 1 .. pos[w] :
               StatusAt(j, m) => StatusAt(j, m)'
      BY <1>1, <2>1, StatusesKept
    <2>5. \A m \in req(w).servers :
            \E j \in modRev[w] + 1 .. pos[w] : StatusAt(j, m)'
      BY <2>1, <2>4 DEF Seen
    <2>6. modRev[w] <= pos[w]
      BY <2>1 DEF Seen
    <2>7. QED
      BY <1>7, <2>2, <2>3, <2>4, <2>5, <2>6 DEF Seen
  <1>8. QED
    BY <1>3, <1>4, <1>5, <1>6, <1>7, WhoIsInStep

\* LockStepInv holds at all times.
LEMMA LockStepInvariant == WorkersSpec => []LockStepInv
  <1>1. WorkersInit => LockStepInv
    BY InitTypeInv, InitHistory
    DEF LockStepInv, SeenInv, InStep, WorkersInit
  <1>2. LockStepInv /\ [WorkersNext]_workersVars => LockStepInv'
    BY TypeStep, HistoryStep, SeenStep DEF LockStepInv
  <1>3. QED
    BY <1>1, <1>2, PTL DEF WorkersSpec

\* The barrier works: with any number of servers, steps and rounds, and
\* whatever fails, no worker carries out a step unless every server of its
\* request has run the step before it since the request was written
\* (handleWorkerStatus, Barrier.Check, runStep).
THEOREM LockStep == WorkersSpec => []BarrierOrder
  <1>1. LockStepInv => BarrierOrder
    BY DEF LockStepInv, SeenInv, Seen, BarrierOrder, InStep
  <1>2. QED
    BY <1>1, LockStepInvariant, PTL

----------------------------------------------------------------------------
\* A worker in a step has run those before it.
LEMMA RanBeforeStep ==
  ASSUME CompleteInv, [WorkersNext]_workersVars, NEW w \in Lrn,
         pc'[w] \in InStep
  PROVE  RanBefore(w)'
  <1>1. TypeInv /\ Grows /\ done \subseteq done'
    BY StepGrows DEF CompleteInv
  <1>2. WorkerTypeOK /\ step[w] \in 1 .. FinalStep
    BY <1>1 DEF TypeInv, WorkersTypeOK, WorkerTypeOK
  <1>3. CASE pc[w] \notin InStep
    <2>1. WorkerNext(w)
      BY <1>1, <1>3, WorkerFrame, EnvironmentWrites
      DEF WorkersNext, workersVars, workerVars, OthersKeep
    <2>2. StartUpdate(w) /\ pc'[w] = "watch"
      BY <1>1, <1>3, <2>1, WhoIsInStep
      DEF InStep, HandleEvent, RunStepSucceeds, ReportNextStep,
          ReportCompletion
    <2>3. step'[w] = 1
      BY <1>2, <2>2 DEF WorkerTypeOK, StartUpdate
    <2>4. QED
      BY SMT, <2>2, <2>3 DEF RanBefore
  <1>4. CASE pc[w] \in InStep
    <2>1. RanBefore(w)
      BY <1>4 DEF CompleteInv
    <2>2. ASSUME modRev'[w] = modRev[w], NEW s \in 1 .. FinalStep,
                 s < step[w] \/ (s = step[w] /\ pc[w] \in {"report", "restart"})
          PROVE  RanStep(w, req(w).version, s, 0)'
      <3>1. req(w)' = req(w)
        BY <1>1, <1>4, <2>2, RequestKept DEF InStep, WithRequest, Place
      <3>2. RanStep(w, req(w).version, s, 0)
        BY <2>1, <2>2 DEF RanBefore
      <3>3. QED
        BY <1>1, <3>1, <3>2 DEF RanStep
    <2>3. CASE ~WorkerNext(w)
      <3>1. pc'[w] = pc[w] /\ modRev'[w] = modRev[w] /\ step'[w] = step[w]
        BY <1>1, <2>3, WorkerFrame, EnvironmentWrites
        DEF WorkersNext, workersVars, workerVars, OthersKeep
      <3>2. QED
        BY <2>2, <3>1 DEF RanBefore
    <2>4. CASE HandleEvent(w) /\ ~Wait(w) /\ pc'[w] \in {"watch", "runStep"}
      <3>1. UNCHANGED <<modRev, step>>
        BY <2>4
        DEF HandleEvent, handleCurrent, handleWorkerStatus, Fails
      <3>2. QED
        BY <2>2, <2>4, <3>1 DEF RanBefore
    <2>5. CASE ReportCompletion(w) /\ pc'[w] = "restart"
      BY <2>2, <2>5 DEF ReportCompletion, RanBefore
    <2>6. CASE ReportNextStep(w) /\ pc'[w] = "watch"
      <3>1. pc[w] = "report" /\ UNCHANGED modRev /\ step'[w] = step[w] + 1
        BY <1>1, <2>6, NextStepTypes DEF ReportNextStep
      <3>2. \A s \in 1 .. FinalStep : s < step[w] + 1 =>
              s < step[w] \/ s = step[w]
        BY SMT, <1>2
      <3>3. QED
        BY <2>2, <2>6, <3>1, <3>2 DEF RanBefore
    <2>7. CASE RunStepSucceeds(w) /\ pc'[w] = "report"
      <3>1. /\ pc[w] = "runStep" /\ UNCHANGED <<log, modRev, step>>
            /\ StepDone(w) \in done'
        BY <2>7 DEF RunStepSucceeds, storageVars
      <3>2. currentRev >= 0
        BY SMT, <1>1 DEF TypeInv, WorkersTypeOK, StorageTypeOK
      <3>3. RanStep(w, req(w).version, step[w], 0)'
        BY <3>1, <3>2 DEF RanStep, StepDone, req
      <3>4. QED
        BY <2>2, <3>1, <3>3 DEF RanBefore
    <2>8. CASE StartUpdate(w)
      BY <1>4, <2>8 DEF StartUpdate, InStep
    <2>9. QED
      BY <1>1, <2>3, <2>4, <2>5, <2>6, <2>7, <2>8, WhoIsInStep
  <1>5. QED
    BY <1>3, <1>4

\* A status is set to completed when all steps have been run.
LEMMA CompleteStep ==
  ASSUME CompleteInv, [WorkersNext]_workersVars
  PROVE  CompleteMeansAllSteps'
  <1> SUFFICES ASSUME NEW w \in Lrn, statuses'[w].cond = "complete",
                      NEW s \in 1 .. FinalStep
               PROVE  RanStep(w, statuses[w].version, s, 0)'
    BY DEF CompleteMeansAllSteps
  <1>1. TypeInv /\ Grows /\ done \subseteq done'
    BY StepGrows DEF CompleteInv
  <1>2. CASE statuses'[w] = statuses[w]
    <2>1. RanStep(w, statuses[w].version, s, 0)
      BY <1>2 DEF CompleteInv, CompleteMeansAllSteps
    <2>2. QED
      BY <1>1, <1>2, <2>1 DEF RanStep
  <1>3. CASE statuses'[w] # statuses[w]
    <2>1. ~EnvironmentNext
      BY <1>1, <1>3, EnvironmentWrites, NoValues
    <2>2. PICK m \in Lrn, st \in UpdateStatus : Reports(m, st)
      BY <1>1, <1>3, <2>1, WorkerWrites
      DEF WorkersNext, workersVars, storageVars
    <2>3. m = w /\ statuses'[w] = st
      BY <1>1, <1>3, <2>2
      DEF Reports, PutStatus, TypeInv, WorkersTypeOK, StorageTypeOK
    <2>4. pc[w] = "report" /\ st.version = req(w).version /\ step[w] = FinalStep
      BY <2>2, <2>3 DEF Reports
    <2>5. s < step[w] \/ s = step[w]
      BY SMT, <2>4, FinalStepAssumption
    <2>6. RanStep(w, req(w).version, s, 0)
      BY <2>4, <2>5 DEF CompleteInv, RanBefore, InStep
    <2>7. QED
      BY <1>1, <2>3, <2>4, <2>6 DEF RanStep
  <1>4. QED
    BY <1>2, <1>3

\* "complete" is the truth: a server whose status says so has run every step
\* of that version, however many there are (runStep).
THEOREM CompletionIsEarned == WorkersSpec => []CompleteMeansAllSteps
  <1>1. WorkersInit => CompleteInv
    BY SMT, InitTypeInv, NoValues
    DEF CompleteInv, CompleteMeansAllSteps, InStep, WorkersInit, StorageInit
  <1>2. CompleteInv /\ [WorkersNext]_workersVars => CompleteInv'
    BY TypeStep, RanBeforeStep, CompleteStep DEF CompleteInv
  <1>3. CompleteInv => CompleteMeansAllSteps
    BY DEF CompleteInv
  <1>4. QED
    BY <1>1, <1>2, <1>3, PTL DEF WorkersSpec

----------------------------------------------------------------------------
\* A worker touches the Vault of its own server only.
LEMMA OwnVault ==
  ASSUME TypeInv, NEW w \in Lrn, WorkerNext(w), NEW m \in Lrn \ {w}
  PROVE  vault'[m] = vault[m]
  <1>1. OperatorTypeOK
    BY DEF TypeInv, WorkersTypeOK
  <1>2. CASE UNCHANGED operatorVars
    BY <1>2 DEF operatorVars
  <1>3. CASE StartServices(w)
    BY <1>1, <1>3 DEF OperatorTypeOK, StartServices, StartVault
  <1>4. CASE RunStepPartly(w, step[w], req(w).version)
    BY <1>1, <1>4
   
    DEF OperatorTypeOK, RunStepPartly, RunStep, StopVault, UpdateVault, StopCKE,
        UpdateCKE, StartVault, operatorVars
  <1>5. CASE InstallNeco(w)
    BY <1>5 DEF InstallNeco, UpdateNeco
  <1>6. QED
    BY <1>2, <1>3, <1>4, <1>5
    DEF WorkerNext, WorkerStep, WorkerFails, StartProcess, GetRequestWithRev,
        WaitRequest, InstallFails, GetStatuses, PutOwnAbort, StartUpdate,
        HandleEvent, WatchFails, RunStepSucceeds, RunStepFails, RunStepPartly,
        ReportFailure, ReportNextStep, ReportCompletion, ReportLost,
        registerAbort, RestartEtcd, Crash

\* Every step keeps what a worker knows of its Vault.
LEMMA VaultStep ==
  ASSUME VaultInv, [WorkersNext]_workersVars, NEW w \in Lrn
  PROVE  VaultDown(w)'
  <1>1. TypeInv /\ Grows /\ done \subseteq done' /\ VaultDown(w)
    BY StepGrows DEF VaultInv
  <1>0. /\ StopVaultStep \in Nat /\ UpdateVaultStep \in Nat
        /\ StopVaultStep < UpdateVaultStep
        /\ UpdateVaultStep < StopCKEStep /\ StopCKEStep < UpdateCKEStep
        /\ StopCKEStep \in Nat /\ UpdateCKEStep \in Nat
    BY StepAssumption
  <1>2. WorkerTypeOK /\ OperatorTypeOK /\ step[w] \in Nat
    <2>1. WorkerTypeOK /\ OperatorTypeOK
      BY <1>1 DEF TypeInv, WorkersTypeOK
    <2>2. step[w] \in 1 .. FinalStep
      BY <2>1 DEF WorkerTypeOK
    <2>3. QED
      BY SMT, <2>1, <2>2
  <1>3. CASE ~WorkerNext(w)
    <2>1. /\ pc'[w] = pc[w] /\ modRev'[w] = modRev[w] /\ step'[w] = step[w]
          /\ vault'[w] = vault[w]
      BY <1>1, <1>3, WorkerFrame, EnvironmentWrites, OwnVault
      DEF WorkersNext, workersVars, workerVars, operatorVars, OthersKeep
    <2>2. pc[w] = "report" => req(w)' = req(w)
      BY <1>1, <2>1, RequestKept DEF WithRequest, Place
    <2>3. QED
      BY <1>1, <2>1, <2>2 DEF VaultDown, RanStep
  <1>4. CASE pc'[w] \notin InStep
    BY <1>4 DEF VaultDown, InStep
  <1>5. CASE StartUpdate(w) /\ pc'[w] = "watch"
    <2>1. step'[w] = 1
      BY <1>2, <1>5 DEF WorkerTypeOK, StartUpdate
    <2>2. QED
      BY SMT, <1>5, <2>1, StepAssumption DEF VaultDown
  <1>6. CASE HandleEvent(w) /\ ~Wait(w) /\ pc'[w] \in {"watch", "runStep"}
    <2>1. UNCHANGED <<step, vault>> /\ pc[w] = "watch"
      BY <1>6
      DEF HandleEvent, handleCurrent, handleWorkerStatus, Fails, operatorVars
    <2>2. QED
      BY <1>1, <1>6, <2>1 DEF VaultDown
  <1>7. CASE RunStepSucceeds(w) /\ pc'[w] = "report"
    <2>1. /\ pc[w] = "runStep" /\ UNCHANGED <<log, modRev, step>>
          /\ StepDone(w) \in done'
          /\ RunStep(w, step[w], req(w).version)
      BY <1>7 DEF RunStepSucceeds, storageVars
    <2>2. currentRev >= modRev[w]
      <3>1. modRev[w] \in 1 .. Len(log) /\ RequestAt(modRev[w])
        BY <1>1, <2>1 DEF TypeInv, WithRequest, Place, RequestAt
      <3>2. QED
        BY <1>1, <3>1
        DEF VaultInv, TypeInv, WorkersTypeOK, StorageTypeOK
    <2>3. RanStep(w, req(w).version, step[w], modRev[w])'
      BY <2>1, <2>2 DEF RanStep, StepDone, req
    <2>4. StopVaultStep <= step[w] /\ step[w] < UpdateVaultStep => vault'[w] = 0
      <3>1. CASE step[w] = StopVaultStep
        <4>1. /\ step[w] # UpdateVaultStep /\ step[w] # StopCKEStep
              /\ step[w] # UpdateCKEStep
          BY SMT, <1>0, <3>1
        <4>2. RunStep(w, step[w], req(w).version)
          BY <2>1
        <4>3. StopVault(w)
          BY <3>1, <4>1, <4>2 DEF RunStep
        <4>4. QED
          BY <1>2, <4>3 DEF StopVault, OperatorTypeOK
      <3>2. CASE StopVaultStep < step[w] /\ step[w] < UpdateVaultStep
        <4>1. vault[w] = 0
          BY SMTT(20), <1>0, <1>1, <1>2, <2>1, <3>2 DEF VaultDown
        <4>2. /\ step[w] # StopVaultStep /\ step[w] # UpdateVaultStep
              /\ step[w] # StopCKEStep /\ step[w] # UpdateCKEStep
          BY SMT, <1>0, <1>2, <3>2
        <4>3. UNCHANGED vault
          BY <2>1, <4>2 DEF RunStep, operatorVars
        <4>4. QED
          BY <4>1, <4>3
      <3>3. StopVaultStep <= step[w] =>
              step[w] = StopVaultStep \/ StopVaultStep < step[w]
        BY SMT, <1>0, <1>2
      <3>4. QED
        BY <3>1, <3>2, <3>3
    <2>5. QED
      BY <1>7, <2>1, <2>3, <2>4 DEF VaultDown
  <1>8. CASE ReportNextStep(w) /\ pc'[w] = "watch"
    <2>1. /\ pc[w] = "report" /\ step'[w] = step[w] + 1 /\ UNCHANGED vault
      BY <1>1, <1>8, NextStepTypes DEF ReportNextStep, operatorVars
    <2>2. StopVaultStep < step'[w] /\ step'[w] <= UpdateVaultStep =>
            StopVaultStep <= step[w] /\ step[w] < UpdateVaultStep
      <3>1. \A a, b, s \in Nat : a < s + 1 /\ s + 1 <= b => a <= s /\ s < b
        BY SMT
      <3>2. /\ StopVaultStep \in Nat /\ UpdateVaultStep \in Nat
            /\ step[w] \in Nat
        BY <1>0, <1>2
      <3>3. step'[w] = step[w] + 1
        BY <2>1
      <3>4. QED
        BY SMT, <3>1, <3>2, <3>3
    <2>3. VaultDown(w)
      BY <1>1
    <2>4. QED
      BY <1>8, <2>1, <2>2, <2>3 DEF VaultDown
  <1>9. CASE ReportCompletion(w) /\ pc'[w] = "restart"
    BY <1>9 DEF VaultDown
  <1>10. QED
    BY <1>1, <1>3, <1>4, <1>5, <1>6, <1>7, <1>8, <1>9, WhoIsInStep

\* Whatever the positions of the Vault steps in the list, when the first worker
\* is about to update Vault, it is down on every server that is in that step
\* with it; a Vault that runs belongs to a worker that has left the round
\* (StopVault, UpdateVault, runStep).
THEOREM VaultDownTogether == WorkersSpec => []VaultStoppedInStep
  <1>1. WorkersInit => VaultInv
    <2> SUFFICES ASSUME WorkersInit PROVE VaultInv
      OBVIOUS
    <2>1. TypeInv /\ HistoryInv
      BY InitTypeInv, InitHistory
    <2>2. \A w \in Lrn : VaultDown(w)
      BY DEF WorkersInit, VaultDown
    <2>3. QED
      BY <2>1, <2>2 DEF VaultInv, HistoryInv
  <1>2. VaultInv /\ [WorkersNext]_workersVars => VaultInv'
    BY TypeStep, RequestsUpToCurrent, VaultStep DEF VaultInv
  <1>3. VaultInv => VaultStoppedInStep
    <2> SUFFICES ASSUME VaultInv, NEW w \in Lrn, NEW m \in Lrn,
                        FirstInStep(w, UpdateVaultStep),
                        pc[m] \in {"watch", "runStep", "report"},
                        step[m] = UpdateVaultStep,
                        modRev[m] = modRev[w]
                 PROVE  vault[m] = 0
      BY DEF VaultStoppedInStep
    <2>1. VaultDown(m)
      BY DEF VaultInv
    <2>2. req(m) = req(w)
      BY DEF req
    <2>3. pc[m] # "report"
      BY <2>1, <2>2 DEF VaultDown, FirstInStep
    <2>4. QED
      BY SMT, <2>1, <2>3, StepAssumption DEF VaultDown
  <1>4. QED
    BY <1>1, <1>2, <1>3, PTL DEF WorkersSpec

----------------------------------------------------------------------------
(* The inductive invariant of the updaters. *)

\* What the chosen action says about the snapshot it was chosen for.
Completed(s) == UpdateCompleted(s.request.version, s.request.servers, s.statuses)

Chosen(place, s) ==
  /\ place = "Reconfigure" =>
       s.request # NoRequest /\ ~s.request.stop /\ Completed(s)
  /\ place = "NewVersion" =>
       /\ s.latest # 0
       /\ s.request = NoRequest \/ (~s.request.stop /\ Completed(s))
  /\ place = "Stop" => s.request # NoRequest /\ ~s.request.stop

\* A process that is about to start remembers nothing.
Blank(u) ==
  /\ leaderKey[u] = 0
  /\ ss[u] = NoSnapshot
  /\ known[u] = 0
  /\ found[u] = 0

UpdaterTypeInv ==
  /\ StorageInv
  /\ UpdaterTypeOK
  /\ \A u \in UpdaterHosts : Chosen(upc[u], ss[u])
  /\ \A u \in UpdaterHosts : upc[u] = "start" => Blank(u)

\* u was elected and its key still exists.
Leads(u) == Leading(u) /\ KeyExists(u)

\* The leader's key is the oldest, and no two processes have the same key.
ElectionInv ==
  /\ \A u \in UpdaterHosts : Leads(u) => \A k \in keys : k >= leaderKey[u]
  /\ \A u, v \in UpdaterHosts :
       KeyExists(u) /\ KeyExists(v) /\ leaderKey[u] = leaderKey[v] => u = v

\* The request that a leader has decided on is still the current one, unless it
\* was a stopped one that the administrator has removed.
RequestInv ==
  \A u \in UpdaterHosts : Leads(u) /\ upc[u] \in Actions =>
    \/ current = ss[u].request
    \/ current = NoRequest /\ ss[u].request.stop

LeaderInv == UpdaterTypeInv /\ ElectionInv /\ RequestInv

----------------------------------------------------------------------------
(* Types. *)

\* NextAction chooses what Chosen says.
LEMMA NextActionChosen ==
  ASSUME NEW s \in Snapshot
  PROVE  /\ NextAction(s) \in Actions
         /\ Chosen(NextAction(s), s)
  BY NoValues DEF NextAction, Actions, Chosen, Completed

\* What NewSnapshot reads is a snapshot.
LEMMA SnapshotTypes ==
  /\ NoSnapshot \in Snapshot
  /\ StorageInv => NewSnapshot \in Snapshot
  <1>1. NoSnapshot \in Snapshot
    BY DEF NoSnapshot, Snapshot
  <1>2. ASSUME StorageInv PROVE NewSnapshot \in Snapshot
    <2>1. log \in Seq(Event)
      BY <1>2 DEF StorageInv, StorageTypeOK
    <2>2. Len(log) \in Nat
      BY SMT, <2>1
    <2>3. QED
      BY <1>2, <2>2 DEF StorageInv, StorageTypeOK, NewSnapshot, Snapshot
  <1>3. QED
    BY <1>1, <1>2

\* The types at the beginning.
LEMMA InitUpdaterTypeInv == UpdatersInit => UpdaterTypeInv
  <1> SUFFICES ASSUME UpdatersInit PROVE UpdaterTypeInv
    OBVIOUS
  <1>1. StorageInv
    BY InitStorage DEF UpdatersInit
  <1>2. UpdaterTypeOK
    BY SMT, SnapshotTypes, InitAssumption DEF UpdatersInit, UpdaterTypeOK
  <1>3. QED
    BY <1>1, <1>2 DEF UpdatersInit, UpdaterTypeInv, Chosen, Blank

\* The variables of the other updaters.
OtherUpdatersKeep(u) ==
  \A v \in UpdaterHosts \ {u} :
    /\ upc'[v] = upc[v] /\ leaderKey'[v] = leaderKey[v] /\ ss'[v] = ss[v]
    /\ known'[v] = known[v] /\ found'[v] = found[v]

\* A step of one updater: its own state is all there is to look at.
LEMMA UpdaterTypeFrame ==
  ASSUME UpdaterTypeInv, StorageInv', UpdaterTypeOK', NEW u \in UpdaterHosts,
         OtherUpdatersKeep(u), Chosen(upc'[u], ss'[u]),
         upc'[u] = "start" => Blank(u)'
  PROVE  UpdaterTypeInv'
  BY DEF UpdaterTypeInv, OtherUpdatersKeep, Blank

\* An updater that exits starts anew and keeps nothing.
LEMMA ExitTypes ==
  ASSUME UpdaterTypeInv, StorageInv', NEW u \in UpdaterHosts, UpdaterExit(u)
  PROVE  UpdaterTypeInv' /\ OtherUpdatersKeep(u) /\ upc'[u] = "start"
  <1>1. UpdaterTypeOK
    BY DEF UpdaterTypeInv
  <1>2. /\ upc' \in [UpdaterHosts -> {"start", "campaign", "loop"} \cup Actions]
        /\ upc'[u] = "start"
    BY <1>1 DEF UpdaterTypeOK, UpdaterExit, GotoU
  <1>3. nextKey' \in Nat \ {0} /\ keys' \subseteq 1 .. nextKey' - 1
    BY <1>1 DEF UpdaterTypeOK, UpdaterExit
  <1>4. leaderKey' \in [UpdaterHosts -> 0 .. nextKey' - 1]
    BY SMT, <1>1 DEF UpdaterTypeOK, UpdaterExit
  <1>5. ss' \in [UpdaterHosts -> Snapshot]
    BY <1>1, SnapshotTypes DEF UpdaterTypeOK, UpdaterExit
  <1>6. /\ known' \in [UpdaterHosts -> Version \cup {0}]
        /\ found' \in [UpdaterHosts -> Version \cup {0}]
    BY <1>1 DEF UpdaterTypeOK, UpdaterExit
  <1>7. UpdaterTypeOK'
    BY <1>1, <1>2, <1>3, <1>4, <1>5, <1>6 DEF UpdaterTypeOK, UpdaterExit
  <1>8. OtherUpdatersKeep(u) /\ Blank(u)'
    BY <1>1 DEF UpdaterTypeOK, UpdaterExit, GotoU, OtherUpdatersKeep, Blank
  <1>9. QED
    BY <1>2, <1>7, <1>8, UpdaterTypeFrame DEF Chosen

\* The request that u writes: it has its key, and it has chosen to.
WritesRequest(u) ==
  /\ KeyExists(u)
  /\ \/ /\ upc[u] = "Reconfigure"
        /\ PutReconfigureRequest(
             NewRequest(ss[u].request.version, ss[u].servers))
     \/ /\ upc[u] = "NewVersion"
        /\ PutRequest(NewRequest(ss[u].latest, ss[u].servers))
     \/ /\ upc[u] = "Stop"
        /\ PutRequest([ss[u].request EXCEPT !.stop = TRUE])
  /\ GotoU(u, "loop")
  /\ UNCHANGED <<electionVars, ss, checkerVars, published, timedOut>>

\* An updater dies, or writes a request, or records a release, or changes
\* nothing in etcd.
LEMMA UpdaterCases ==
  ASSUME NEW u \in UpdaterHosts, UpdaterStep(u) \/ UpdaterFault(u)
  PROVE  \/ UpdaterExit(u) /\ UNCHANGED storageVars
         \/ WritesRequest(u)
         \/ RecordRelease(u) /\ KeyExists(u) /\ UpdateNecoRelease(found[u])
         \/ Campaign(u) \/ Elected(u) \/ Decide(u) \/ SessionExpires(u)
         \/ FindRelease(u)
         \/ GotoLoop(u) /\ upc[u] \in {"WaitInfo", "WaitClear", "WaitWorkers"}
  BY DEF UpdaterStep, UpdaterFault, UpdaterCrash, RequestReconfigure,
         RequestNewVersion, RequestStop, IfLeader, WritesRequest, RecordRelease,
         WaitInfo, WaitRequestDeletion, waitComplete

\* The written request is a request.
LEMMA WritesRequestTypes ==
  ASSUME UpdaterTypeInv, NEW u \in UpdaterHosts, WritesRequest(u)
  PROVE  \E r \in UpdateRequest :
           /\ PutRequest(r) \/ PutReconfigureRequest(r)
           /\ upc[u] = "Reconfigure" => r.version = ss[u].request.version
           /\ upc[u] = "NewVersion" => r.version = ss[u].latest
           /\ upc[u] = "Stop" => /\ r.version = ss[u].request.version
                                 /\ r = [ss[u].request EXCEPT !.stop = TRUE]
  <1>1. /\ ss[u].request \in UpdateRequest \cup {NoRequest}
        /\ ss[u].latest \in Version \cup {0}
        /\ ss[u].servers \in SUBSET Lrn
    BY DEF UpdaterTypeInv, UpdaterTypeOK, Snapshot
  <1>2. Chosen(upc[u], ss[u])
    BY DEF UpdaterTypeInv
  <1>3. CASE upc[u] = "Reconfigure"
    <2>1. ss[u].request.version \in Version
      BY <1>1, <1>2, <1>3 DEF Chosen, UpdateRequest
    <2>2. NewRequest(ss[u].request.version, ss[u].servers) \in UpdateRequest
      BY <1>1, <2>1, RequestTypes DEF UpdaterTypeInv
    <2>3. QED
      BY <1>3, <2>2 DEF WritesRequest, NewRequest
  <1>4. CASE upc[u] = "NewVersion"
    <2>1. ss[u].latest \in Version
      BY <1>1, <1>2, <1>4 DEF Chosen
    <2>2. NewRequest(ss[u].latest, ss[u].servers) \in UpdateRequest
      BY <1>1, <2>1, RequestTypes DEF UpdaterTypeInv
    <2>3. QED
      BY <1>4, <2>2 DEF WritesRequest, NewRequest
  <1>5. CASE upc[u] = "Stop"
    <2>1. ss[u].request \in UpdateRequest
      BY <1>1, <1>2, <1>5 DEF Chosen
    <2>2. /\ [ss[u].request EXCEPT !.stop = TRUE] \in UpdateRequest
          /\ [ss[u].request EXCEPT !.stop = TRUE].version
               = ss[u].request.version
      BY <2>1, FieldChanges
    <2>3. QED
      BY <1>5, <2>2 DEF WritesRequest
  <1>6. QED
    BY <1>3, <1>4, <1>5 DEF WritesRequest

\* A step of an updater keeps the types and touches no other updater.
LEMMA UpdaterTypeStep ==
  ASSUME UpdaterTypeInv, NEW u \in UpdaterHosts,
         UpdaterStep(u) \/ UpdaterFault(u)
  PROVE  UpdaterTypeInv' /\ OtherUpdatersKeep(u)
  <1> USE DEF Actions
  <1>1. UpdaterTypeOK /\ StorageInv
    BY DEF UpdaterTypeInv
  <1>2. CASE UpdaterExit(u) /\ UNCHANGED storageVars
    BY <1>1, <1>2, UnchangedTypes, ExitTypes
  <1>3. CASE WritesRequest(u)
    <2>1. StorageInv'
      BY <1>1, <1>3, WritesRequestTypes, PutRequestTypes
    <2>2. UpdaterTypeOK' /\ OtherUpdatersKeep(u) /\ upc'[u] = "loop"
      BY <1>1, <1>3
      DEF UpdaterTypeOK, OtherUpdatersKeep, WritesRequest, GotoU, electionVars,
          checkerVars
    <2>3. QED
      BY <2>1, <2>2, UpdaterTypeFrame DEF Chosen
  <1>4. CASE RecordRelease(u) /\ KeyExists(u) /\ UpdateNecoRelease(found[u])
    <2>1. found[u] \in Version
      BY <1>1, <1>4 DEF UpdaterTypeOK, RecordRelease
    <2>2. StorageInv'
      BY <1>1, <1>4, <2>1, OtherWriteTypes DEF InfoWrite
    <2>3. /\ found' = [found EXCEPT ![u] = 0]
          /\ UNCHANGED <<upc, electionVars, ss, known, published, timedOut>>
      BY <1>4 DEF RecordRelease
    <2>4. UpdaterTypeOK' /\ OtherUpdatersKeep(u)
      BY <1>1, <2>3 DEF UpdaterTypeOK, OtherUpdatersKeep, electionVars
    <2>5. Chosen(upc'[u], ss'[u])
      BY <2>3 DEF UpdaterTypeInv
    <2>6. upc'[u] = "start" => Blank(u)'
      BY <1>1, <2>3 DEF UpdaterTypeInv, UpdaterTypeOK, Blank, electionVars
    <2>7. QED
      BY <2>2, <2>4, <2>5, <2>6, UpdaterTypeFrame
  <1>5. CASE Campaign(u)
    <2>1. StorageInv'
      BY <1>1, <1>5, UnchangedTypes DEF Campaign
    <2>2. /\ upc' \in [UpdaterHosts -> {"start", "campaign", "loop"}
                                          \cup Actions]
          /\ upc'[u] = "campaign"
      BY <1>1, <1>5 DEF UpdaterTypeOK, Campaign, GotoU
    <2>3. /\ nextKey' \in Nat \ {0}
          /\ leaderKey' \in [UpdaterHosts -> 0 .. nextKey' - 1]
          /\ keys' \subseteq 1 .. nextKey' - 1
      BY SMT, <1>1, <1>5 DEF UpdaterTypeOK, Campaign
    <2>4. UpdaterTypeOK'
      BY <1>1, <1>5, <2>2, <2>3 DEF UpdaterTypeOK, Campaign
    <2>5. OtherUpdatersKeep(u)
      BY <1>1, <1>5 DEF UpdaterTypeOK, OtherUpdatersKeep, Campaign, GotoU
    <2>6. QED
      BY <2>1, <2>2, <2>4, <2>5, UpdaterTypeFrame DEF Chosen
  <1>6. CASE Elected(u)
    <2>1. StorageInv'
      BY <1>1, <1>6, UnchangedTypes DEF Elected
    <2>2. known' \in [UpdaterHosts -> Version \cup {0}]
      BY <1>1, <1>6 DEF UpdaterTypeOK, StorageInv, StorageTypeOK, Elected
    <2>3. UpdaterTypeOK' /\ OtherUpdatersKeep(u) /\ upc'[u] = "loop"
      BY <1>1, <1>6, <2>2
      DEF UpdaterTypeOK, OtherUpdatersKeep, Elected, GotoU, electionVars
    <2>4. QED
      BY <2>1, <2>3, UpdaterTypeFrame DEF Chosen
  <1>7. CASE Decide(u)
    <2>1. StorageInv'
      BY <1>1, <1>7, UnchangedTypes DEF Decide
    <2>2. /\ NewSnapshot \in Snapshot
          /\ NextAction(NewSnapshot) \in Actions
          /\ Chosen(NextAction(NewSnapshot), NewSnapshot)
      BY <1>1, SnapshotTypes, NextActionChosen
    <2>3. ss' \in [UpdaterHosts -> Snapshot] /\ ss'[u] = NewSnapshot
      BY <1>1, <1>7, <2>2 DEF UpdaterTypeOK, Decide
    <2>4. /\ upc' \in [UpdaterHosts -> {"start", "campaign", "loop"}
                                          \cup Actions]
          /\ upc'[u] = NextAction(NewSnapshot)
      BY <1>1, <1>7, <2>2 DEF UpdaterTypeOK, Decide, GotoU
    <2>5. UpdaterTypeOK'
      BY <1>1, <1>7, <2>3, <2>4
      DEF UpdaterTypeOK, Decide, electionVars, checkerVars
    <2>6. OtherUpdatersKeep(u)
      BY <1>1, <1>7
      DEF UpdaterTypeOK, OtherUpdatersKeep, Decide, GotoU, electionVars,
          checkerVars
    <2>7. QED
      BY <2>1, <2>2, <2>3, <2>4, <2>5, <2>6, UpdaterTypeFrame
  <1>8. CASE SessionExpires(u)
    <2>1. StorageInv'
      BY <1>1, <1>8, UnchangedTypes DEF SessionExpires
    <2>2. UpdaterTypeOK' /\ OtherUpdatersKeep(u)
      BY <1>1, <1>8 DEF UpdaterTypeOK, OtherUpdatersKeep, SessionExpires
    <2>3. QED
      BY <1>8, <2>1, <2>2 DEF UpdaterTypeInv, SessionExpires, Blank
  <1>9. CASE FindRelease(u)
    <2>1. StorageInv'
      BY <1>1, <1>9, UnchangedTypes DEF FindRelease
    <2>2. /\ known' \in [UpdaterHosts -> Version \cup {0}]
          /\ found' \in [UpdaterHosts -> Version \cup {0}]
      BY <1>1, <1>9 DEF UpdaterTypeOK, FindRelease
    <2>3. UpdaterTypeOK' /\ OtherUpdatersKeep(u)
      BY <1>1, <1>9, <2>2
      DEF UpdaterTypeOK, OtherUpdatersKeep, FindRelease, electionVars
    <2>4. upc'[u] # "start" /\ Chosen(upc'[u], ss'[u])
      BY <1>9 DEF UpdaterTypeInv, FindRelease, Leading
    <2>5. QED
      BY <2>1, <2>3, <2>4, UpdaterTypeFrame
  <1>10. CASE /\ GotoLoop(u)
              /\ upc[u] \in {"WaitInfo", "WaitClear", "WaitWorkers"}
    <2>1. StorageInv'
      BY <1>1, <1>10, UnchangedTypes DEF GotoLoop
    <2>2. UpdaterTypeOK' /\ OtherUpdatersKeep(u) /\ upc'[u] = "loop"
      BY <1>1, <1>10
      DEF UpdaterTypeOK, OtherUpdatersKeep, GotoLoop, GotoU, electionVars,
          checkerVars
    <2>3. QED
      BY <2>1, <2>2, UpdaterTypeFrame DEF Chosen
  <1>11. QED
    BY <1>2, <1>3, <1>4, <1>5, <1>6, <1>7, <1>8, <1>9, <1>10, UpdaterCases

\* What the updaters do not do themselves.
OthersNext ==
  OutsideNext \/ \E w \in Lrn, st \in UpdateStatus : Report(w, st)

\* The environment touches no updater.
LEMMA OthersTypeStep ==
  ASSUME UpdaterTypeInv, OthersNext \/ UNCHANGED updatersVars
  PROVE  UpdaterTypeInv' /\ UNCHANGED <<upc, electionVars, ss, checkerVars>>
  <1>1. UpdaterTypeOK /\ StorageInv
    BY DEF UpdaterTypeInv
  <1>2. StorageInv'
    <2>1. CASE UNCHANGED storageVars
      BY <1>1, <2>1, UnchangedTypes
    <2>2. CASE ClearStatusAndContents \/ InfoWrite
      BY <1>1, <2>2, OtherWriteTypes
    <2>3. CASE \E w \in Lrn, st \in UpdateStatus : Report(w, st)
      BY <1>1, <2>3, PutStatusTypes DEF Report
    <2>4. QED
      BY <2>1, <2>2, <2>3
      DEF OthersNext, OutsideNext, Publish, Timeout, AdminRecovers, Join, Leave,
          InfoWrite, updatersVars
  <1>3. UNCHANGED <<upc, electionVars, ss, checkerVars>>
    BY DEF OthersNext, OutsideNext, Publish, Timeout, AdminRecovers, Join, Leave,
           Report, updatersVars, updaterVars, electionVars, checkerVars
  <1>4. published' \in Version \cup {0} /\ timedOut' \in Nat
    <2>1. current.startedAt \in Nat
      BY SMT, <1>1
      DEF StorageInv, StorageTypeOK, UpdateRequest, NoRequest
    <2>2. QED
      BY <1>1, <2>1
      DEF UpdaterTypeOK, OthersNext, OutsideNext, Publish, Timeout,
          AdminRecovers, Join, Leave, Report, updatersVars, updaterVars
  <1>5. UpdaterTypeOK'
    BY <1>1, <1>3, <1>4 DEF UpdaterTypeOK, electionVars, checkerVars
  <1>6. QED
    BY <1>2, <1>3, <1>5
    DEF UpdaterTypeInv, Blank, electionVars, checkerVars

\* Who takes a step.
LEMMA UpdatersCases ==
  [UpdatersNext]_updatersVars =>
    \/ \E u \in UpdaterHosts : UpdaterStep(u) \/ UpdaterFault(u)
    \/ OthersNext \/ UNCHANGED updatersVars
  BY DEF UpdatersNext, OthersNext

\* Every step keeps the types.
LEMMA UpdatersTypeStep ==
  ASSUME UpdaterTypeInv, [UpdatersNext]_updatersVars
  PROVE  UpdaterTypeInv'
  BY UpdatersCases, UpdaterTypeStep, OthersTypeStep

\* Every variable keeps to its type, whatever the workers report and whichever
\* sessions are lost: in particular only well-formed requests are written.
THEOREM UpdatersTypeCorrect == UpdatersSpec => []UpdatersTypeOK
  <1>1. UpdaterTypeInv /\ [UpdatersNext]_updatersVars => UpdaterTypeInv'
    BY UpdatersTypeStep
  <1>2. UpdaterTypeInv => UpdatersTypeOK
    BY DEF UpdaterTypeInv, StorageInv, UpdatersTypeOK
  <1>3. QED
    BY <1>1, <1>2, InitUpdaterTypeInv, PTL DEF UpdatersSpec

----------------------------------------------------------------------------
(* There is one leader with a key, and only it writes. *)

\* Two processes with the lead are one.
LEMMA OneLeader ==
  ASSUME UpdaterTypeInv, ElectionInv, NEW u \in UpdaterHosts,
         NEW v \in UpdaterHosts, Leads(u), Leads(v)
  PROVE  u = v
  <1>1. leaderKey[u] \in Nat /\ leaderKey[v] \in Nat
    BY SMT DEF UpdaterTypeInv, UpdaterTypeOK
  <1>2. leaderKey[u] = leaderKey[v]
    BY SMT, <1>1 DEF ElectionInv, Leads, KeyExists
  <1>3. QED
    BY <1>2 DEF ElectionInv, Leads

\* Every step keeps ElectionInv.
LEMMA ElectionStep ==
  ASSUME UpdaterTypeInv, ElectionInv, [UpdatersNext]_updatersVars
  PROVE  ElectionInv'
  <1>1. UpdaterTypeOK
    BY DEF UpdaterTypeInv
  <1>2. CASE OthersNext \/ UNCHANGED updatersVars
    BY <1>2, OthersTypeStep
    DEF ElectionInv, Leads, Leading, KeyExists, electionVars
  <1>3. ASSUME NEW u \in UpdaterHosts, UpdaterStep(u) \/ UpdaterFault(u)
        PROVE  ElectionInv'
    <2>0. OtherUpdatersKeep(u)
      BY <1>3, UpdaterTypeStep
    <2>1. CASE UpdaterExit(u)
      <3>1. leaderKey'[u] = 0 /\ 0 \notin keys' /\ keys' \subseteq keys
        BY SMT, <1>1, <2>1 DEF UpdaterTypeOK, UpdaterExit
      <3>2. QED
        BY <2>0, <3>1
        DEF ElectionInv, Leads, Leading, KeyExists, OtherUpdatersKeep
    <2>2. CASE Campaign(u)
      <3>1. /\ upc'[u] = "campaign"
            /\ leaderKey'[u] = nextKey
            /\ keys' = keys \cup {nextKey}
        BY <1>1, <2>2 DEF UpdaterTypeOK, Campaign, GotoU
      <3>2. \A v \in UpdaterHosts : leaderKey[v] \in Nat /\ leaderKey[v] < nextKey
        BY SMT, <1>1 DEF UpdaterTypeOK
      <3>3. nextKey \in Nat
        BY <1>1 DEF UpdaterTypeOK
      <3>4. ASSUME NEW v \in UpdaterHosts, Leads(v)', NEW k \in keys'
            PROVE  k >= leaderKey'[v]
        <4>1. v # u
          BY <3>1, <3>4 DEF Leads, Leading
        <4>2. leaderKey'[v] = leaderKey[v] /\ Leads(v)
          BY SMTT(30), <2>0, <3>1, <3>2, <3>3, <3>4, <4>1
          DEF OtherUpdatersKeep, Leads, Leading, KeyExists
        <4>3. QED
          BY SMT, <3>1, <3>2, <3>3, <4>2 DEF ElectionInv
      <3>5. ASSUME NEW v \in UpdaterHosts, NEW x \in UpdaterHosts,
                   KeyExists(v)', KeyExists(x)', leaderKey'[v] = leaderKey'[x]
            PROVE  v = x
        <4>1. CASE v = u \/ x = u
          BY SMTT(30), <2>0, <3>1, <3>2, <3>3, <3>5, <4>1 DEF OtherUpdatersKeep
        <4>2. CASE v # u /\ x # u
          BY SMTT(30), <2>0, <3>1, <3>2, <3>3, <3>5, <4>2
          DEF OtherUpdatersKeep, KeyExists, ElectionInv
        <4>3. QED
          BY <4>1, <4>2
      <3>6. QED
        BY <3>4, <3>5 DEF ElectionInv
    <2>3. CASE Elected(u)
      <3>1. UNCHANGED <<leaderKey, keys>> /\ \A k \in keys : k >= leaderKey[u]
        BY <2>3 DEF Elected, electionVars
      <3>2. QED
        BY <2>0, <3>1
        DEF ElectionInv, Leads, Leading, KeyExists, OtherUpdatersKeep
    <2>4. CASE SessionExpires(u)
      BY <2>4 DEF SessionExpires, ElectionInv, Leads, Leading, KeyExists
    <2>5. CASE /\ UNCHANGED electionVars
               /\ Leading(u)
      BY <2>0, <2>5
      DEF ElectionInv, Leads, Leading, KeyExists, OtherUpdatersKeep, electionVars
    <2>6. CASE RecordRelease(u) /\ ~UpdaterExit(u)
      BY <2>6
      DEF RecordRelease, ElectionInv, Leads, Leading, KeyExists, electionVars
    <2>7. QED
      BY <1>3, <2>1, <2>2, <2>3, <2>4, <2>5, <2>6, UpdaterCases
      DEF WritesRequest, Decide, FindRelease, GotoLoop, Leading
  <1>4. QED
    BY <1>2, <1>3, UpdatersCases

\* A process that leads after a step had its key before.
LEMMA KeyBefore ==
  ASSUME UpdaterTypeInv, [UpdatersNext]_updatersVars, NEW v \in UpdaterHosts,
         Leads(v)'
  PROVE  KeyExists(v) /\ upc[v] # "start" /\ leaderKey'[v] = leaderKey[v]
  <1>1. UpdaterTypeOK
    BY DEF UpdaterTypeInv
  <1>2. CASE OthersNext \/ UNCHANGED updatersVars
    BY <1>2, OthersTypeStep DEF Leads, Leading, KeyExists, electionVars
  <1>3. ASSUME NEW u \in UpdaterHosts, UpdaterStep(u) \/ UpdaterFault(u)
        PROVE  KeyExists(v) /\ upc[v] # "start" /\ leaderKey'[v] = leaderKey[v]
    <2>0. OtherUpdatersKeep(u)
      BY <1>3, UpdaterTypeStep
    <2>1. CASE UpdaterExit(u)
      <3>1. upc'[u] = "start" /\ keys' \subseteq keys
        BY <1>1, <2>1 DEF UpdaterTypeOK, UpdaterExit, GotoU
      <3>2. QED
        BY <2>0, <3>1 DEF Leads, Leading, KeyExists, OtherUpdatersKeep
    <2>2. CASE Campaign(u)
      <3>1. upc'[u] = "campaign" /\ keys' = keys \cup {nextKey}
        BY <1>1, <2>2 DEF UpdaterTypeOK, Campaign, GotoU
      <3>2. v # u /\ leaderKey[v] # nextKey
        BY SMT, <1>1, <3>1 DEF UpdaterTypeOK, Leads, Leading
      <3>3. QED
        BY <2>0, <3>1, <3>2 DEF Leads, Leading, KeyExists, OtherUpdatersKeep
    <2>3. CASE SessionExpires(u)
      BY <2>3 DEF SessionExpires, Leads, Leading, KeyExists
    <2>4. CASE UNCHANGED electionVars /\ upc[u] # "start"
      BY <2>0, <2>4
      DEF Leads, Leading, KeyExists, OtherUpdatersKeep, electionVars
    <2>5. CASE UNCHANGED <<upc, electionVars>>
      BY <2>5 DEF Leads, Leading, KeyExists, electionVars
    <2>6. QED
      BY <1>3, <2>1, <2>2, <2>3, <2>4, <2>5, UpdaterCases
      DEF WritesRequest, RecordRelease, Elected, Decide, FindRelease, GotoLoop
  <1>4. QED
    BY <1>2, <1>3, UpdatersCases

\* A process that is in an action after a step has just decided on it, or was
\* in it before.
LEMMA InAction ==
  ASSUME UpdaterTypeInv, [UpdatersNext]_updatersVars, NEW v \in UpdaterHosts,
         upc'[v] \in Actions
  PROVE  \/ Decide(v) /\ ss'[v] = NewSnapshot
         \/ upc'[v] = upc[v] /\ ss'[v] = ss[v] /\ ~WritesRequest(v)
  <1> USE DEF Actions
  <1>1. UpdaterTypeOK
    BY DEF UpdaterTypeInv
  <1>2. ~WritesRequest(v)
    BY <1>1 DEF UpdaterTypeOK, WritesRequest, GotoU
  <1>3. CASE OthersNext \/ UNCHANGED updatersVars
    BY <1>2, <1>3, OthersTypeStep
  <1>4. ASSUME NEW u \in UpdaterHosts, UpdaterStep(u) \/ UpdaterFault(u), u # v
        PROVE  upc'[v] = upc[v] /\ ss'[v] = ss[v]
    BY <1>4, UpdaterTypeStep DEF OtherUpdatersKeep
  <1>5. CASE UpdaterStep(v) \/ UpdaterFault(v)
    <2>1. ~UpdaterExit(v) /\ ~Campaign(v) /\ ~Elected(v) /\ ~GotoLoop(v)
      BY <1>1
      DEF UpdaterTypeOK, UpdaterExit, Campaign, Elected, GotoLoop, GotoU
    <2>2. CASE Decide(v)
      BY <1>1, <2>2 DEF UpdaterTypeOK, Decide
    <2>3. CASE RecordRelease(v) \/ SessionExpires(v) \/ FindRelease(v)
      BY <1>2, <2>1, <2>3 DEF RecordRelease, SessionExpires, FindRelease
    <2>4. QED
      BY <1>2, <1>5, <2>1, <2>2, <2>3, UpdaterCases
  <1>6. QED
    BY <1>2, <1>3, <1>4, <1>5, UpdatersCases

\* Who changes the current request.
LEMMA CurrentChanges ==
  ASSUME [UpdatersNext]_updatersVars
  PROVE  \/ current' = current
         \/ current.stop /\ current' = NoRequest
         \/ \E u \in UpdaterHosts : WritesRequest(u)
  <1>1. CASE OthersNext \/ UNCHANGED updatersVars
    BY <1>1
    DEF OthersNext, OutsideNext, Publish, Timeout, AdminRecovers, Join, Leave,
        Report, PutStatus, ClearStatusAndContents, RegisterBootserver,
        DeleteBootServer, updatersVars, storageVars
  <1>2. ASSUME NEW u \in UpdaterHosts, UpdaterStep(u) \/ UpdaterFault(u),
               ~WritesRequest(u)
        PROVE  current' = current
    BY <1>2, UpdaterCases
    DEF UpdateNecoRelease, Campaign, Elected, Decide, SessionExpires,
        FindRelease, GotoLoop, storageVars
  <1>3. QED
    BY <1>1, <1>2, UpdatersCases

\* A writer leads.
LEMMA WriterLeads ==
  ASSUME NEW u \in UpdaterHosts, WritesRequest(u)
  PROVE  Leads(u) /\ upc[u] \in Actions
  BY DEF WritesRequest, Leads, Leading, Actions

\* Every step keeps RequestInv.
LEMMA RequestStep ==
  ASSUME LeaderInv, [UpdatersNext]_updatersVars
  PROVE  RequestInv'
  <1> SUFFICES ASSUME NEW v \in UpdaterHosts, Leads(v)', upc'[v] \in Actions
               PROVE  \/ current' = ss'[v].request
                      \/ current' = NoRequest /\ ss'[v].request.stop
    BY DEF RequestInv
  <1>1. UpdaterTypeInv /\ ElectionInv
    BY DEF LeaderInv
  <1>2. CASE Decide(v) /\ ss'[v] = NewSnapshot
    <2>1. current' = current
      BY <1>2 DEF Decide, storageVars
    <2>2. QED
      BY SMT, <1>2, <2>1 DEF NewSnapshot
  <1>3. CASE upc'[v] = upc[v] /\ ss'[v] = ss[v] /\ ~WritesRequest(v)
    <2>1. Leads(v)
      BY <1>1, <1>3, KeyBefore DEF Leads, Leading
    <2>2. \/ current = ss[v].request
          \/ current = NoRequest /\ ss[v].request.stop
      BY <1>3, <2>1 DEF LeaderInv, RequestInv
    <2>3. \A u \in UpdaterHosts : ~WritesRequest(u)
      BY <1>1, <1>3, <2>1, WriterLeads, OneLeader
    <2>4. QED
      BY <1>3, <2>2, <2>3, CurrentChanges, NoValues
  <1>4. QED
    BY <1>1, <1>2, <1>3, InAction

\* LeaderInv holds at all times.
LEMMA LeaderInvariant == UpdatersSpec => []LeaderInv
  <1>1. UpdatersInit => LeaderInv
    BY InitUpdaterTypeInv
    DEF LeaderInv, ElectionInv, RequestInv, Leads, KeyExists, UpdatersInit
  <1>2. LeaderInv /\ [UpdatersNext]_updatersVars => LeaderInv'
    BY UpdatersTypeStep, ElectionStep, RequestStep DEF LeaderInv
  <1>3. QED
    BY <1>1, <1>2, PTL DEF UpdatersSpec

\* What a writer knows of the request it replaces.
LEMMA WriterKnows ==
  ASSUME LeaderInv, NEW u \in UpdaterHosts, WritesRequest(u)
  PROVE  /\ current = ss[u].request
         /\ ~current.stop
         /\ upc[u] # "Stop" => current = NoRequest \/ SeenCompleted
         /\ upc[u] # "NewVersion" => current # NoRequest
  <1>1. Chosen(upc[u], ss[u]) /\ upc[u] \in {"Reconfigure", "NewVersion", "Stop"}
    BY DEF LeaderInv, UpdaterTypeInv, WritesRequest
  <1>2. ~ss[u].request.stop
    BY <1>1, NoValues DEF Chosen
  <1>3. current = ss[u].request
    BY <1>2, WriterLeads DEF LeaderInv, RequestInv
  <1>4. QED
    BY <1>1, <1>2, <1>3 DEF Chosen, Completed, SeenCompleted

\* However many updaters there are and whenever they lose their sessions, a
\* stopped update stays stopped until the administrator recovers it
\* (NextAction, PutRequest's condition on the leader key).
THEOREM HaltIsKept == UpdatersSpec => HaltsUntilRecovered
  <1>1. LeaderInv /\ [UpdatersNext]_updatersVars =>
          [current.stop => current' \in {current, NoRequest}]_current
    BY CurrentChanges, WriterKnows
  <1>2. QED
    BY <1>1, LeaderInvariant, PTL DEF UpdatersSpec, HaltsUntilRecovered

\* A request gives way only to its own stop, or to another request once every
\* server was seen to have completed it (NextAction, PutRequest's condition on
\* the leader key).
THEOREM RoundsAreNotPreempted == UpdatersSpec => NoPreemption
  <1>1. ASSUME LeaderInv, [UpdatersNext]_updatersVars,
               current # NoRequest, current' # NoRequest, current' # current,
               ~SeenCompleted
        PROVE  current' = [current EXCEPT !.stop = TRUE]
    <2>1. PICK u \in UpdaterHosts : WritesRequest(u)
      BY <1>1, CurrentChanges
    <2>2. upc[u] = "Stop" /\ current = ss[u].request
      BY <1>1, <2>1, WriterKnows
    <2>3. PutRequest([ss[u].request EXCEPT !.stop = TRUE])
      BY <2>1, <2>2 DEF WritesRequest
    <2>4. QED
      BY <2>2, <2>3 DEF PutRequest
  <1>2. LeaderInv /\ [UpdatersNext]_updatersVars =>
          [current # NoRequest /\ current' # NoRequest =>
             current' = [current EXCEPT !.stop = TRUE] \/ SeenCompleted]_current
    BY <1>1
  <1>3. QED
    BY <1>2, LeaderInvariant, PTL DEF UpdatersSpec, NoPreemption

----------------------------------------------------------------------------
(* Versions only go up. *)

\* No request so far asks for a newer version.
Newest(version) ==
  \A k \in 1 .. Len(log) :
    log[k].key = "current" => log[k].req.version <= version

\* The leader's checker knows the recorded release or a newer one, which it is
\* about to record.
CheckerAhead(u) ==
  /\ ~Leading(u) => found[u] = 0
  /\ Leads(u) => /\ release <= known[u]
                 /\ found[u] <= known[u]
                 /\ found[u] # 0 => release <= found[u]

\* No request is ahead of the recorded release, of the current request, or of
\* the release that the leader is about to request.
ReleaseInv ==
  /\ \A u \in UpdaterHosts : CheckerAhead(u)
  /\ Newest(release)
  /\ current # NoRequest => Newest(current.version)
  /\ \A u \in UpdaterHosts : Leads(u) /\ upc[u] = "NewVersion" =>
       ss[u].latest <= release /\ Newest(ss[u].latest)

DowngradeInv == LeaderInv /\ ReleaseInv /\ NoDowngrade

\* The recorded release changes when the leader has found a newer one.
LEMMA ReleaseChanges ==
  ASSUME DowngradeInv, [UpdatersNext]_updatersVars
  PROVE  \/ release' = release
         \/ \E u \in UpdaterHosts :
              /\ Leads(u) /\ RecordRelease(u)
              /\ found[u] # 0 /\ release' = found[u]
              /\ found' = [found EXCEPT ![u] = 0]
              /\ UNCHANGED <<upc, leaderKey, keys, ss, known, current>>
  <1>1. CASE OthersNext \/ UNCHANGED updatersVars
    BY <1>1
    DEF OthersNext, OutsideNext, Publish, Timeout, AdminRecovers, Join, Leave,
        Report, PutStatus, ClearStatusAndContents, RegisterBootserver,
        DeleteBootServer, updatersVars, storageVars
  <1>2. ASSUME NEW u \in UpdaterHosts, RecordRelease(u), KeyExists(u),
               UpdateNecoRelease(found[u])
        PROVE  /\ Leads(u) /\ RecordRelease(u)
               /\ found[u] # 0 /\ release' = found[u]
               /\ found' = [found EXCEPT ![u] = 0]
               /\ UNCHANGED <<upc, leaderKey, keys, ss, known, current>>
    BY <1>2
    DEF DowngradeInv, ReleaseInv, CheckerAhead, Leads, RecordRelease,
        UpdateNecoRelease, electionVars
  <1>3. ASSUME NEW u \in UpdaterHosts, UpdaterStep(u) \/ UpdaterFault(u),
               ~(RecordRelease(u) /\ KeyExists(u) /\ UpdateNecoRelease(found[u]))
        PROVE  release' = release
    BY <1>3, UpdaterCases
    DEF WritesRequest, PutRequest, PutReconfigureRequest, Campaign, Elected,
        Decide, SessionExpires, FindRelease, GotoLoop, storageVars
  <1>4. QED
    BY <1>1, <1>2, <1>3, UpdatersCases

\* The recorded release only goes up.
LEMMA ReleaseGrows ==
  ASSUME DowngradeInv, [UpdatersNext]_updatersVars
  PROVE  release \in Nat /\ release' \in Nat /\ release <= release'
  <1>1. UpdaterTypeInv /\ UpdaterTypeInv'
    BY UpdatersTypeStep DEF DowngradeInv, LeaderInv
  <1>2. release \in Nat /\ release' \in Nat
    <2>1. release \in Version \cup {0} /\ release' \in Version \cup {0}
      BY <1>1 DEF UpdaterTypeInv, StorageInv, StorageTypeOK
    <2>2. \A version \in Version \cup {0} : version \in Nat
      BY SMT, VersionAssumption
    <2>3. QED
      BY <2>1, <2>2
  <1>3. ASSUME NEW u \in UpdaterHosts, Leads(u), found[u] # 0,
               release' = found[u]
        PROVE  release <= release'
    <2>1. CheckerAhead(u)
      BY DEF DowngradeInv, ReleaseInv
    <2>2. QED
      BY <1>3, <2>1 DEF CheckerAhead
  <1>4. QED
    BY SMT, <1>2, <1>3, ReleaseChanges

\* The checker's part of ReleaseInv.
LEMMA CheckerStep ==
  ASSUME DowngradeInv, [UpdatersNext]_updatersVars, NEW v \in UpdaterHosts
  PROVE  CheckerAhead(v)'
  <1>1. UpdaterTypeInv /\ UpdaterTypeOK /\ ElectionInv
    BY DEF DowngradeInv, LeaderInv, UpdaterTypeInv
  <1>2. /\ release \in Nat /\ known[v] \in Nat /\ found[v] \in Nat
        /\ published \in Nat
    <2>1. /\ known[v] \in Version \cup {0} /\ found[v] \in Version \cup {0}
          /\ published \in Version \cup {0}
      BY <1>1 DEF UpdaterTypeOK
    <2>2. release \in Nat
      BY ReleaseGrows
    <2>3. \A version \in Version \cup {0} : version \in Nat
      BY SMT, VersionAssumption
    <2>4. QED
      BY <2>1, <2>2, <2>3
  <1>3. CheckerAhead(v)
    BY DEF DowngradeInv, ReleaseInv
  <1>4. ASSUME NEW u \in UpdaterHosts, Leads(u), RecordRelease(u), found[u] # 0,
               release' = found[u], found' = [found EXCEPT ![u] = 0],
               UNCHANGED <<upc, leaderKey, keys, ss, known, current>>
        PROVE  CheckerAhead(v)'
    <2>1. CASE u = v
      BY SMT, <1>1, <1>2, <1>3, <1>4, <2>1
      DEF UpdaterTypeOK, Leads, Leading, KeyExists, CheckerAhead
    <2>2. CASE u # v
      <3>1. ~Leads(v)
        BY <1>1, <1>4, <2>2, OneLeader
      <3>2. ~Leads(v)' /\ found'[v] = found[v] /\ (Leading(v)' <=> Leading(v))
        BY <1>1, <1>4, <2>2, <3>1 DEF UpdaterTypeOK, Leads, Leading, KeyExists
      <3>3. QED
        BY <1>3, <3>2 DEF CheckerAhead
    <2>3. QED
      BY <2>1, <2>2
  <1>5. ASSUME release' = release, known'[v] = known[v], found'[v] = found[v],
               Leading(v)' <=> Leading(v)
        PROVE  CheckerAhead(v)'
    BY <1>1, <1>3, <1>5, KeyBefore DEF Leads, CheckerAhead
  <1>6. CASE release' = release /\ (OthersNext \/ UNCHANGED updatersVars)
    <2>1. UNCHANGED <<upc, known, found>>
      BY <1>1, <1>6, OthersTypeStep DEF checkerVars
    <2>2. QED
      BY <1>5, <1>6, <2>1 DEF Leading
  <1>7. ASSUME NEW u \in UpdaterHosts, UpdaterStep(u) \/ UpdaterFault(u),
               release' = release, u # v
        PROVE  CheckerAhead(v)'
    BY <1>1, <1>5, <1>7, UpdaterTypeStep DEF OtherUpdatersKeep, Leading
  <1>8. CASE (UpdaterStep(v) \/ UpdaterFault(v)) /\ release' = release
    <2>1. CASE UpdaterExit(v)
      BY <1>1, <2>1
      DEF UpdaterTypeOK, UpdaterExit, GotoU, Leads, Leading, CheckerAhead
    <2>2. CASE Campaign(v)
      <3>1. upc[v] = "start" /\ upc'[v] = "campaign" /\ UNCHANGED found
        BY <1>1, <2>2 DEF UpdaterTypeOK, Campaign, GotoU
      <3>2. QED
        BY <1>3, <3>1 DEF Leads, Leading, CheckerAhead
    <2>3. CASE Elected(v)
      <3>1. /\ upc[v] = "campaign" /\ upc'[v] = "loop"
            /\ known'[v] = release /\ UNCHANGED found
        BY <1>1, <2>3 DEF UpdaterTypeOK, Elected, GotoU
      <3>2. found[v] = 0
        BY <1>3, <3>1 DEF Leading, CheckerAhead
      <3>3. QED
        BY SMT, <1>2, <1>8, <3>1, <3>2 DEF Leading, CheckerAhead
    <2>4. CASE FindRelease(v)
      <3>1. /\ Leading(v) /\ published > known[v]
            /\ known'[v] = published /\ found'[v] = published
            /\ UNCHANGED <<upc, leaderKey, keys>>
        <4>1. known \in [UpdaterHosts -> Version \cup {0}]
          BY <1>1 DEF UpdaterTypeOK
        <4>2. found \in [UpdaterHosts -> Version \cup {0}]
          BY <1>1 DEF UpdaterTypeOK
        <4>3. /\ Leading(v) /\ published > known[v]
              /\ known' = [known EXCEPT ![v] = published]
              /\ found' = [found EXCEPT ![v] = published]
              /\ UNCHANGED <<upc, leaderKey, keys>>
          BY <2>4 DEF FindRelease, electionVars
        <4>4. QED
          BY <4>1, <4>2, <4>3
      <3>2. Leading(v)' /\ (Leads(v)' => Leads(v))
        BY <3>1 DEF Leads, Leading, KeyExists
      <3>3. Leads(v) => release <= published
        BY SMT, <1>2, <1>3, <3>1 DEF CheckerAhead
      <3>4. Leads(v)' => release <= published /\ published <= published
        BY SMTT(30), <1>2, <3>2, <3>3
      <3>5. release' = release
        BY <1>8
      <3>6. QED
        BY <3>1, <3>2, <3>4, <3>5 DEF CheckerAhead
    <2>5. CASE RecordRelease(v) /\ KeyExists(v) /\ UpdateNecoRelease(found[v])
      <3>1. found' = [found EXCEPT ![v] = 0] /\ UNCHANGED <<upc, known>>
        BY <2>5 DEF RecordRelease
      <3>2. QED
        BY SMTT(20), <1>1, <1>2, <1>3, <1>8, <3>1, KeyBefore
        DEF UpdaterTypeOK, Leads, Leading, CheckerAhead
    <2>6. CASE SessionExpires(v)
      BY <1>5, <1>8, <2>6 DEF SessionExpires, Leading
    <2>7. CASE WritesRequest(v) \/ Decide(v) \/
                 (GotoLoop(v) /\ upc[v] \in {"WaitInfo", "WaitClear",
                                              "WaitWorkers"})
      <3>1. UNCHANGED <<known, found>> /\ Leading(v)
        BY <2>7
        DEF WritesRequest, Decide, GotoLoop, checkerVars, Leading
      <3>2. Leading(v)'
        <4>1. NextAction(NewSnapshot) \in Actions
          BY <1>1, SnapshotTypes, NextActionChosen DEF UpdaterTypeInv
        <4>2. upc'[v] \in {"loop"} \cup Actions
          BY <1>1, <2>7, <4>1
          DEF UpdaterTypeOK, WritesRequest, Decide, GotoLoop, GotoU
        <4>3. QED
          BY <4>2 DEF Leading, Actions
      <3>3. QED
        BY <1>5, <1>8, <3>1, <3>2
    <2>8. QED
      BY <1>8, <2>1, <2>2, <2>3, <2>4, <2>5, <2>6, <2>7, UpdaterCases
  <1>9. QED
    BY <1>4, <1>6, <1>7, <1>8, ReleaseChanges, UpdatersCases

\* Writes other than those of requests.
LEMMA QuietWrites ==
  ASSUME UpdaterTypeInv, [UpdatersNext]_updatersVars,
         \A u \in UpdaterHosts : ~WritesRequest(u)
  PROVE  \/ log' = log
         \/ \E e \in Event : e.key # "current" /\ log' = Append(log, e)
  <1>1. CASE OthersNext \/ UNCHANGED updatersVars
    BY <1>1, WritesAreEvents
    DEF OthersNext, OutsideNext, Publish, Timeout, AdminRecovers, Join, Leave,
        Report, PutStatus, ClearStatusAndContents, RegisterBootserver,
        DeleteBootServer, updatersVars, storageVars
  <1>2. ASSUME NEW u \in UpdaterHosts, UpdaterStep(u) \/ UpdaterFault(u)
        PROVE  \/ log' = log
               \/ \E e \in Event : e.key # "current" /\ log' = Append(log, e)
    BY <1>2, UpdaterCases, WritesAreEvents
    DEF UpdateNecoRelease, Campaign, Elected, Decide, SessionExpires,
        FindRelease, GotoLoop, storageVars
  <1>3. QED
    BY <1>1, <1>2, UpdatersCases

\* They leave the history of requests alone.
LEMMA QuietHistory ==
  ASSUME UpdaterTypeInv, [UpdatersNext]_updatersVars,
         \A u \in UpdaterHosts : ~WritesRequest(u)
  PROVE  \A k \in 1 .. Len(log') :
           log'[k].key = "current" => k \in 1 .. Len(log) /\ log'[k] = log[k]
  <1>1. CASE log' = log
    BY <1>1
  <1>2. ASSUME NEW e \in Event, e.key # "current", log' = Append(log, e)
        PROVE  \A k \in 1 .. Len(log') :
                 log'[k].key = "current" => k \in 1 .. Len(log) /\ log'[k] = log[k]
    <2>1. /\ Len(log) \in Nat /\ Len(log') = Len(log) + 1
          /\ \A i \in 1 .. Len(log) : log'[i] = log[i]
          /\ log'[Len(log) + 1] = e
      BY <1>2, OneWrite DEF UpdaterTypeInv
    <2>2. QED
      BY SMT, <1>2, <2>1
  <1>3. QED
    BY <1>1, <1>2, QuietWrites

\* The versions of the history are numbers.
LEMMA VersionsAreNumbers ==
  ASSUME StorageInv
  PROVE  /\ Len(log) \in Nat
         /\ \A k \in 1 .. Len(log) :
              log[k].key = "current" => log[k].req.version \in Nat
  <1>1. log \in Seq(Event)
    BY DEF StorageInv, StorageTypeOK
  <1>2. \A r \in UpdateRequest : r.version \in Nat
    BY VersionAssumption DEF UpdateRequest
  <1>3. QED
    BY SMTT(30), <1>1, <1>2, EventFields

\* A request for a version that no earlier request exceeds.
LEMMA NewestWritten ==
  ASSUME DowngradeInv, NEW r \in UpdateRequest, Newest(r.version),
         PutRequest(r) \/ PutReconfigureRequest(r)
  PROVE  /\ NoDowngrade'
         /\ \A version \in Nat :
              r.version <= version /\ Newest(version) => Newest(version)'
  <1>1. StorageInv
    BY DEF DowngradeInv, LeaderInv, UpdaterTypeInv
  <1>2. RequestPut(r) \in Event /\ RequestPut(r).req = r
    BY WritesAreEvents
  <1>3. /\ Len(log) \in Nat /\ Len(log') = Len(log) + 1
        /\ \A i \in 1 .. Len(log) : log'[i] = log[i]
        /\ log'[Len(log) + 1] = RequestPut(r)
    BY <1>1, <1>2, OneWrite DEF PutRequest, PutReconfigureRequest
  <1>4. \A version \in Nat :
          r.version <= version /\ Newest(version) => Newest(version)'
    BY SMT, <1>2, <1>3 DEF Newest
  <1>5. ASSUME NEW i \in 1 .. Len(log'), NEW j \in 1 .. Len(log'), i < j,
               log'[i].key = "current", log'[j].key = "current"
        PROVE  log'[i].req.version <= log'[j].req.version
    <2>1. i \in 1 .. Len(log) /\ log'[i] = log[i]
      BY SMT, <1>3, <1>5
    <2>2. CASE j = Len(log) + 1
      BY <1>2, <1>3, <1>5, <2>1, <2>2 DEF Newest
    <2>3. CASE j # Len(log) + 1
      <3>1. j \in 1 .. Len(log) /\ log'[j] = log[j]
        BY SMT, <1>3, <1>5, <2>3
      <3>2. QED
        BY <1>5, <2>1, <3>1 DEF DowngradeInv, NoDowngrade
    <2>4. QED
      BY <2>2, <2>3
  <1>6. QED
    BY <1>4, <1>5 DEF NoDowngrade

\* A newer version is newest too.
LEMMA NewerIsNewest ==
  ASSUME StorageInv, NEW old \in Nat, NEW new \in Nat, old <= new, Newest(old)
  PROVE  Newest(new)
  BY SMT, VersionsAreNumbers DEF Newest

\* The current request asks for no more than the recorded release.
LEMMA CurrentIsRecorded ==
  ASSUME DowngradeInv, current # NoRequest
  PROVE  current.version \in Nat /\ current.version <= release
  <1>1. /\ current \in UpdateRequest
        /\ currentRev \in 1 .. Len(log)
        /\ log[currentRev] = RequestPut(current)
    BY DEF DowngradeInv, LeaderInv, UpdaterTypeInv, StorageInv, StorageTypeOK
  <1>2. log[currentRev].key = "current" /\ log[currentRev].req = current
    BY SMT, <1>1, WritesAreEvents
  <1>3. current.version \in Nat
    BY <1>1, VersionAssumption DEF UpdateRequest
  <1>4. QED
    BY <1>1, <1>2, <1>3 DEF DowngradeInv, ReleaseInv, Newest

\* The steps that write a request.
LEMMA WriteStep ==
  ASSUME DowngradeInv, [UpdatersNext]_updatersVars, NEW u \in UpdaterHosts,
         WritesRequest(u)
  PROVE  /\ NoDowngrade'
         /\ Newest(release)'
         /\ Newest(current.version)'
         /\ \A v \in UpdaterHosts : Leads(v)' => upc'[v] # "NewVersion"
  <1>1. LeaderInv /\ UpdaterTypeInv /\ ElectionInv /\ UpdaterTypeOK
    BY DEF DowngradeInv, LeaderInv, UpdaterTypeInv
  <1>2. PICK r \in UpdateRequest :
           /\ PutRequest(r) \/ PutReconfigureRequest(r)
           /\ upc[u] = "Reconfigure" => r.version = ss[u].request.version
           /\ upc[u] = "NewVersion" => r.version = ss[u].latest
           /\ upc[u] = "Stop" => r.version = ss[u].request.version
    BY <1>1, WritesRequestTypes
  <1>3. r.version \in Nat /\ release \in Nat
    BY ReleaseGrows, VersionAssumption DEF UpdateRequest
  <1>4. Newest(r.version) /\ r.version <= release
    <2>1. CASE upc[u] = "NewVersion"
      BY <1>2, <2>1, WriterLeads DEF DowngradeInv, ReleaseInv
    <2>2. CASE upc[u] # "NewVersion"
      <3>1. upc[u] \in {"Reconfigure", "Stop"}
        BY <2>2 DEF WritesRequest
      <3>2. current # NoRequest /\ r.version = current.version
        BY <1>1, <1>2, <3>1, WriterKnows
      <3>3. QED
        BY <3>2, CurrentIsRecorded DEF DowngradeInv, ReleaseInv
    <2>3. QED
      BY <2>1, <2>2
  <1>5. release' = release /\ current' = r
    BY <1>2 DEF PutRequest, PutReconfigureRequest
  <1>6. \A version \in Nat :
          r.version <= version /\ Newest(version) => Newest(version)'
    BY <1>2, <1>4, NewestWritten
  <1>7. NoDowngrade'
    BY <1>2, <1>4, NewestWritten
  <1>8. Newest(release)'
    <2>1. Newest(release)
      BY DEF DowngradeInv, ReleaseInv
    <2>2. \A k \in 1 .. Len(log') :
            log'[k].key = "current" => log'[k].req.version <= release
      BY <1>3, <1>4, <1>6, <2>1 DEF Newest
    <2>3. QED
      BY <1>5, <2>2 DEF Newest
  <1>9. Newest(current.version)'
    <2>1. r.version <= r.version
      BY SMT, <1>3
    <2>2. \A k \in 1 .. Len(log') :
            log'[k].key = "current" => log'[k].req.version <= r.version
      BY <1>3, <1>4, <1>6, <2>1 DEF Newest
    <2>3. QED
      BY <1>5, <2>2 DEF Newest
  <1>10. ASSUME NEW v \in UpdaterHosts, Leads(v)', upc'[v] = "NewVersion"
         PROVE  FALSE
    <2>1. v # u
      BY <1>1, <1>10 DEF UpdaterTypeOK, WritesRequest, GotoU
    <2>2. ~Decide(v) /\ upc'[v] \in Actions
      <3>1. log' = Append(log, RequestPut(r)) /\ RequestPut(r) \in Event
        BY <1>2, WritesAreEvents DEF PutRequest, PutReconfigureRequest
      <3>2. log' # log
        <4>1. StorageInv
          BY <1>1 DEF UpdaterTypeInv
        <4>2. Len(log) \in Nat /\ Len(log') = Len(log) + 1
          BY <3>1, <4>1, OneWrite
        <4>3. QED
          BY SMT, <4>2
      <3>3. QED
        BY <1>10, <3>2 DEF Decide, storageVars, Actions
    <2>3. upc'[v] = upc[v]
      BY <1>1, <2>2, InAction
    <2>4. Leads(v)
      BY <1>1, <1>10, <2>3, KeyBefore DEF Leads, Leading
    <2>5. QED
      BY <1>1, <2>1, <2>4, WriterLeads, OneLeader
  <1>11. QED
    BY <1>7, <1>8, <1>9, <1>10

\* The other steps.
LEMMA QuietStep ==
  ASSUME DowngradeInv, [UpdatersNext]_updatersVars,
         \A u \in UpdaterHosts : ~WritesRequest(u)
  PROVE  /\ NoDowngrade'
         /\ Newest(release)'
         /\ current' # NoRequest => Newest(current.version)'
         /\ \A v \in UpdaterHosts : Leads(v)' /\ upc'[v] = "NewVersion" =>
              ss'[v].latest <= release' /\ Newest(ss[v].latest)'
  <1>1. LeaderInv /\ UpdaterTypeInv /\ UpdaterTypeOK /\ StorageInv
    BY DEF DowngradeInv, LeaderInv, UpdaterTypeInv
  <1>2. \A k \in 1 .. Len(log') :
          log'[k].key = "current" => k \in 1 .. Len(log) /\ log'[k] = log[k]
    BY <1>1, QuietHistory
  <1>3. NoDowngrade'
    BY <1>2 DEF DowngradeInv, NoDowngrade
  <1>4. release \in Nat /\ release' \in Nat /\ release <= release'
    BY ReleaseGrows
  <1>5. Newest(release)'
    <2>1. Newest(release)
      BY DEF DowngradeInv, ReleaseInv
    <2>2. Newest(release')
      BY <1>1, <1>4, <2>1, NewerIsNewest
    <2>3. QED
      BY <1>2, <2>2 DEF Newest
  <1>6. ASSUME current' # NoRequest PROVE Newest(current.version)'
    <2>1. current' = current
      BY <1>6, CurrentChanges
    <2>2. QED
      BY <1>2, <1>6, <2>1 DEF DowngradeInv, ReleaseInv, Newest
  <1>7. ASSUME NEW v \in UpdaterHosts, Leads(v)', upc'[v] = "NewVersion"
        PROVE  ss'[v].latest <= release' /\ Newest(ss[v].latest)'
    <2>1. CASE Decide(v) /\ ss'[v] = NewSnapshot
      <3>1. ss'[v].latest = release' /\ UNCHANGED log
        <4>1. release' = release /\ UNCHANGED log
          BY <2>1 DEF Decide, storageVars
        <4>2. QED
          BY SMT, <2>1, <4>1 DEF NewSnapshot
      <3>2. QED
        BY SMTT(20), <1>4, <1>5, <3>1 DEF Newest
    <2>2. CASE upc'[v] = upc[v] /\ ss'[v] = ss[v]
      <3>1. Leads(v)
        BY <1>1, <1>7, <2>2, KeyBefore DEF Leads, Leading
      <3>2. ss[v].latest <= release /\ Newest(ss[v].latest)
        BY <1>7, <2>2, <3>1 DEF DowngradeInv, ReleaseInv
      <3>3. ss[v].latest \in Nat
        <4>1. ss[v].latest \in Version \cup {0}
          BY <1>1 DEF UpdaterTypeOK, Snapshot
        <4>2. \A version \in Version \cup {0} : version \in Nat
          BY SMTT(30), VersionAssumption
        <4>3. QED
          BY <4>1, <4>2
      <3>4. ss'[v].latest <= release'
        BY SMTT(30), <1>4, <2>2, <3>2, <3>3
      <3>5. QED
        BY <1>2, <2>2, <3>2, <3>4 DEF Newest
    <2>3. upc'[v] \in Actions
      BY <1>7 DEF Actions
    <2>4. QED
      BY <1>1, <2>1, <2>2, <2>3, InAction
  <1>8. QED
    BY <1>3, <1>5, <1>6, <1>7

\* DowngradeInv holds at the beginning ...
LEMMA DowngradeInit == UpdatersInit => DowngradeInv
  <1> SUFFICES ASSUME UpdatersInit PROVE DowngradeInv
    OBVIOUS
  <1>1. LeaderInv
    BY InitUpdaterTypeInv
    DEF LeaderInv, ElectionInv, RequestInv, Leads, KeyExists, UpdatersInit
  <1>2. StorageInit
    BY DEF UpdatersInit
  <1>3. Len(log) = 1 /\ log[1].req = InitRequest
    BY <1>2, InitStorage, WritesAreEvents
  <1>4. InitRequest.version = InitVersion /\ InitVersion \in Nat
    BY InitAssumption, VersionAssumption DEF InitRequest
  <1>5. Newest(InitVersion)
    <2>1. \A k \in 1 .. Len(log) : log[k].req.version = InitVersion
      BY SMT, <1>3, <1>4
    <2>2. QED
      BY SMTT(30), <1>4, <2>1 DEF Newest
  <1>6. current.version = InitVersion /\ release = InitVersion
    BY <1>2, <1>4 DEF StorageInit
  <1>7. \A u \in UpdaterHosts : CheckerAhead(u) /\ ~Leads(u)
    BY DEF UpdatersInit, CheckerAhead, Leads, Leading
  <1>8. ReleaseInv
    BY <1>5, <1>6, <1>7 DEF ReleaseInv
  <1>9. NoDowngrade
    BY SMT, <1>3 DEF NoDowngrade
  <1>10. QED
    BY <1>1, <1>8, <1>9 DEF DowngradeInv

\* ... and after every step.
LEMMA DowngradeStep ==
  ASSUME DowngradeInv, [UpdatersNext]_updatersVars
  PROVE  DowngradeInv'
  <1>1. LeaderInv'
    BY UpdatersTypeStep, ElectionStep, RequestStep DEF DowngradeInv, LeaderInv
  <1>2. \A v \in UpdaterHosts : CheckerAhead(v)'
    BY CheckerStep
  <1>3. CASE \E u \in UpdaterHosts : WritesRequest(u)
    BY <1>1, <1>2, <1>3, WriteStep DEF DowngradeInv, ReleaseInv
  <1>4. CASE \A u \in UpdaterHosts : ~WritesRequest(u)
    BY <1>1, <1>2, <1>4, QuietStep DEF DowngradeInv, ReleaseInv
  <1>5. QED
    BY <1>3, <1>4

\* The requested version never goes down, whatever GitHub presents or
\* withdraws, and however often the lead and the sessions change
\* (ReleaseChecker.update's isNewerThan, Snapshot's Latest, and the leader key
\* in every transaction).
THEOREM VersionsOnlyGoUp == UpdatersSpec => []NoDowngrade
  <1>1. DowngradeInv /\ [UpdatersNext]_updatersVars => DowngradeInv'
    BY DowngradeStep
  <1>2. DowngradeInv => NoDowngrade
    BY DEF DowngradeInv
  <1>3. QED
    BY <1>1, <1>2, DowngradeInit, PTL DEF UpdatersSpec

----------------------------------------------------------------------------
(* The whole. *)

\* Both parts keep to their types, and the leader knows the current request.
JointInv == TypeInv /\ LeaderInv

\* A request that an updater writes is one that Workers expects.
LEMMA RequestsAreExpected ==
  ASSUME JointInv, NEW u \in UpdaterHosts, WritesRequest(u),
         UNCHANGED <<operatorVars, workerVars>>
  PROVE  EnvironmentNext
  <1>1. LeaderInv /\ Chosen(upc[u], ss[u])
    BY DEF JointInv, LeaderInv, UpdaterTypeInv
  <1>2. /\ ss[u].request \in UpdateRequest \cup {NoRequest}
        /\ ss[u].latest \in Version \cup {0}
        /\ ss[u].servers \in SUBSET Lrn
    BY <1>1 DEF LeaderInv, UpdaterTypeInv, UpdaterTypeOK, Snapshot
  <1>3. CASE upc[u] = "Reconfigure"
    <2>1. ss[u].request.version \in Version
      BY <1>1, <1>2, <1>3 DEF Chosen, UpdateRequest
    <2>2. RestartRound(ss[u].request.version, ss[u].servers)
      BY <1>3 DEF WritesRequest, RestartRound
    <2>3. QED
      BY <1>2, <2>1, <2>2 DEF EnvironmentNext
  <1>4. CASE upc[u] = "NewVersion"
    <2>1. ss[u].latest \in Version
      BY <1>1, <1>2, <1>4 DEF Chosen
    <2>2. StartRound(ss[u].latest, ss[u].servers)
      BY <1>4 DEF WritesRequest, StartRound
    <2>3. QED
      BY <1>2, <2>1, <2>2 DEF EnvironmentNext
  <1>5. CASE upc[u] = "Stop"
    <2>1. current = ss[u].request /\ current # NoRequest
      BY <1>1, <1>5, WriterKnows
    <2>2. PutRequest([ss[u].request EXCEPT !.stop = TRUE])
      BY <1>5 DEF WritesRequest
    <2>3. StopRound
      BY <2>1, <2>2 DEF StopRound
    <2>4. QED
      BY <2>3 DEF EnvironmentNext
  <1>6. QED
    BY <1>3, <1>4, <1>5 DEF WritesRequest

\* A step of an updater, as the workers see it.
LEMMA UpdaterSeenByWorkers ==
  ASSUME JointInv, NEW u \in UpdaterHosts, UpdaterStep(u) \/ UpdaterFault(u),
         UNCHANGED <<operatorVars, workerVars>>
  PROVE  EnvironmentNext \/ UNCHANGED workersVars
  <1>1. CASE WritesRequest(u)
    BY <1>1, RequestsAreExpected
  <1>2. CASE RecordRelease(u) /\ KeyExists(u) /\ UpdateNecoRelease(found[u])
    <2>1. found[u] \in Version
      BY <1>2
      DEF JointInv, LeaderInv, UpdaterTypeInv, UpdaterTypeOK, RecordRelease
    <2>2. InfoChanges
      BY <1>2, <2>1 DEF InfoChanges
    <2>3. QED
      BY <2>2 DEF EnvironmentNext
  <1>3. CASE UNCHANGED storageVars
    BY <1>3 DEF workersVars
  <1>4. QED
    BY <1>1, <1>2, <1>3, UpdaterCases
    DEF Campaign, Elected, Decide, SessionExpires, FindRelease, GotoLoop

\* Every step of the whole is a step of the workers or of their environment.
LEMMA WorkersPart ==
  ASSUME JointInv, [Next]_vars
  PROVE  [WorkersNext]_workersVars
  <1>1. CASE \E w \in Lrn : Works(w) \/ WorkerFault(w)
    BY <1>1 DEF Works, Installs, WorkerFault, WorkersNext, WorkerNext
  <1>2. CASE \E u \in UpdaterHosts : Updates(u)
    BY <1>2, UpdaterSeenByWorkers DEF Updates, WorkersNext
  <1>3. CASE /\ \E u \in UpdaterHosts : UpdaterFault(u)
             /\ UNCHANGED <<operatorVars, workerVars>>
    BY <1>3, UpdaterSeenByWorkers DEF WorkersNext
  <1>4. CASE OutsideNext /\ UNCHANGED <<operatorVars, workerVars>>
    <2>1. CASE \E lrn \in Lrn : Join(lrn) \/ Leave(lrn)
      BY <1>4, <2>1 DEF Join, Leave, InfoChanges, EnvironmentNext, WorkersNext
    <2>2. CASE AdminRecovers
      BY <1>4, <2>2 DEF AdminRecovers, Recover, EnvironmentNext, WorkersNext
    <2>3. CASE Timeout \/ \E version \in Version : Publish(version)
      BY <1>4, <2>3 DEF Timeout, Publish, workersVars
    <2>4. QED
      BY <1>4, <2>1, <2>2, <2>3 DEF OutsideNext
  <1>5. CASE UNCHANGED vars
    BY <1>5 DEF vars, workersVars
  <1>6. QED
    BY <1>1, <1>2, <1>3, <1>4, <1>5 DEF Next

\* A step of a worker that does not restart the updater, as updaters see it.
LEMMA WorkerSeenByUpdaters ==
  ASSUME JointInv, NEW w \in Lrn, WorkerNext(w), UNCHANGED updaterVars
  PROVE  [UpdatersNext]_updatersVars
  <1>1. CASE UNCHANGED storageVars
    BY <1>1 DEF updatersVars
  <1>2. ASSUME NEW st \in UpdateStatus, Reports(w, st)
        PROVE  UpdatersNext
    BY <1>2 DEF Reports, Report, UpdatersNext
  <1>3. QED
    BY <1>1, <1>2, WorkerWrites DEF JointInv

\* The installation of the package: the updater dies, or was about to start.
LEMMA InstallSeenByUpdaters ==
  ASSUME JointInv, NEW w \in Lrn, Installs(w)
  PROVE  [UpdatersNext]_updatersVars
  <1>1. InstallNeco(w) /\ UNCHANGED storageVars
    BY DEF Installs, InstallNeco
  <1>2. CASE w \notin UpdaterHosts
    BY <1>1, <1>2 DEF Installs, updatersVars
  <1>3. CASE w \in UpdaterHosts /\ upc[w] # "start"
    <2>1. UpdaterCrash(w)
      BY <1>1, <1>3 DEF Installs, UpdaterCrash
    <2>2. QED
      BY <1>3, <2>1 DEF UpdaterFault, UpdatersNext
  <1>4. CASE w \in UpdaterHosts /\ upc[w] = "start"
    <2>1. UpdaterTypeOK /\ Blank(w) /\ UpdaterExit(w)
      BY <1>4 DEF JointInv, LeaderInv, UpdaterTypeInv, Installs
    <2>2. upc' = upc /\ leaderKey' = leaderKey
      BY <1>4, <2>1 DEF UpdaterTypeOK, Blank, UpdaterExit, GotoU
    <2>3. ss' = ss /\ known' = known /\ found' = found
      BY <1>4, <2>1 DEF UpdaterTypeOK, Blank, UpdaterExit
    <2>4. keys' = keys
      BY SMT, <2>1 DEF UpdaterTypeOK, Blank, UpdaterExit
    <2>5. QED
      BY <1>1, <2>1, <2>2, <2>3, <2>4 DEF UpdaterExit, updatersVars, updaterVars
  <1>5. QED
    BY <1>2, <1>3, <1>4

\* Every step of the whole is a step of the updaters or of their environment.
LEMMA UpdatersPart ==
  ASSUME JointInv, [Next]_vars
  PROVE  [UpdatersNext]_updatersVars
  <1>1. ASSUME NEW w \in Lrn, Works(w) \/ WorkerFault(w)
        PROVE  [UpdatersNext]_updatersVars
    BY <1>1, WorkerSeenByUpdaters, InstallSeenByUpdaters
    DEF Works, WorkerFault, WorkerNext
  <1>2. CASE \E u \in UpdaterHosts : Updates(u)
    BY <1>2 DEF Updates, UpdatersNext
  <1>3. CASE OutsideNext \/ \E u \in UpdaterHosts : UpdaterFault(u)
    BY <1>3 DEF UpdatersNext
  <1>4. CASE UNCHANGED vars
    BY <1>4 DEF vars, updatersVars
  <1>5. QED
    BY <1>1, <1>2, <1>3, <1>4 DEF Next

\* JointInv holds at all times.
LEMMA JointInvariant == Spec => []JointInv
  <1>1. Init => JointInv
    <2>1. UpdatersInit => LeaderInv
      BY DowngradeInit DEF DowngradeInv
    <2>2. QED
      BY <2>1, InitTypeInv DEF Init, JointInv
  <1>2. JointInv /\ [Next]_vars => JointInv'
    BY WorkersPart, UpdatersPart, TypeStep, UpdatersTypeStep, ElectionStep,
       RequestStep
    DEF JointInv, LeaderInv
  <1>3. QED
    BY <1>1, <1>2, PTL DEF Spec

\* The whole system implements Workers: updaters, administrators and the
\* release checker only write requests and records that the workers are proved
\* to cope with (runLoop's three requests, neco recover, join and leave).
THEOREM WholeImplementsWorkers == Spec => WorkersSpec
  <1>1. Init => WorkersInit
    BY DEF Init
  <1>2. JointInv /\ [Next]_vars => [WorkersNext]_workersVars
    BY WorkersPart
  <1>3. QED
    BY <1>1, <1>2, JointInvariant, PTL DEF Spec, WorkersSpec

\* The whole system implements Updaters: workers only write statuses, and an
\* installation only ends an updater (runStep, registerAbort, Run, and the
\* scripts of the neco package).
THEOREM WholeImplementsUpdaters == Spec => UpdatersSpec
  <1>1. Init => UpdatersInit
    BY DEF Init
  <1>2. JointInv /\ [Next]_vars => [UpdatersNext]_updatersVars
    BY UpdatersPart
  <1>3. QED
    BY <1>1, <1>2, JointInvariant, PTL DEF Spec, UpdatersSpec

\* So the promises of both parts hold of the whole system: the steps of a round
\* are taken in lock step and completed truthfully (runStep), Vault is stopped
\* when its update begins wherever no worker was restarted (StopVault), and a
\* halted update stays halted, a round is not preempted and the version never
\* goes back (runLoop).
THEOREM WholeIsCorrect ==
  Spec => /\ [](BarrierOrder /\ CompleteMeansAllSteps)
          /\ [](VaultStoppedInStep /\ NoDowngrade)
          /\ HaltsUntilRecovered /\ NoPreemption
  BY WholeImplementsWorkers, WholeImplementsUpdaters, LockStep, CompletionIsEarned,
     VaultDownTogether, HaltIsKept, RoundsAreNotPreempted, VersionsOnlyGoUp, PTL
=============================================================================
