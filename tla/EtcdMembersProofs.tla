------------------------- MODULE EtcdMembersProofs -------------------------
(***************************************************************************)
(* Proofs about EtcdMembers, for any number of boot servers, requests,     *)
(* joins, leaves and crashes: who changes etcd's members is alone          *)
(* (EtcdTypeCorrect), removeEtcdMembers removes nobody of the current      *)
(* request (RemovalsAreRight), and RestartEtcd has etcd down on one server *)
(* at a time when no two servers have the same place (RestartsAreApart).   *)
(***************************************************************************)
EXTENDS EtcdMembers, TLAPS

\* A leaf is tried with Zenon first; one that needs arithmetic cites SMT.
USE ZenonT(30), SMT

\* What EtcdTypeOK needs to be inductive: the request of a worker at work names
\* its own server, and the worker has reported the steps before the one it is at.
AtWork(w) == pc[w] \notin {"idle", "dead"}

Reported(place) ==
  IF place \in {"etcd", "campaign", "list", "add", "setup", "sync", "files"}
  THEN 0
  ELSE IF place \in {"serf", "campaign2", "restart"} THEN 1
  ELSE IF place = "last" THEN 2 ELSE 3

OwnInv ==
  \A w \in Lrn :
    AtWork(w) => w \in mine[w].servers /\ progress[w] = Reported(pc[w])

\* A place is a number (PlaceAssumption), and so is the time to sleep.
Due(w) == Slot * Index(w) + 1

\* The sleep of RestartEtcd is a positive number.
LEMMA DueType ==
  ASSUME EtcdTypeOK, OwnInv, NEW w \in Lrn, AtWork(w)
  PROVE  Due(w) \in Nat /\ Due(w) > 0 /\ Index(w) \in Nat
<1>1. mine[w].servers \in SUBSET Lrn /\ w \in mine[w].servers
  BY DEF EtcdTypeOK, OwnInv
<1>2. Index(w) \in Nat
  BY <1>1, PlaceAssumption DEF Index
<1>3. QED
  BY SMT, <1>2, EtcdAssumption DEF Due

\* The initial states have the types, and nobody is at work.
LEMMA TypeInit == EtcdInit => EtcdTypeOK /\ OwnInv
<1>1. SUFFICES ASSUME EtcdInit PROVE EtcdTypeOK /\ OwnInv
  OBVIOUS
<1>2. registered \subseteq Lrn
  BY <1>1, EtcdAssumption DEF EtcdInit
<1>3. DOMAIN members \subseteq Lrn /\ members \in [DOMAIN members -> BOOLEAN]
  BY <1>1, EtcdAssumption DEF EtcdInit
<1>4. \A w \in Lrn : pc[w] = "idle"
  BY <1>1 DEF EtcdInit
<1>5. OwnInv
  BY <1>4 DEF OwnInv, AtWork
<1>6. QED
  BY SMT, <1>1, <1>2, <1>3, <1>4, <1>5, EtcdAssumption
  DEF EtcdInit, EtcdTypeOK, Places, Elected

\* A step that leaves the members, etcd and the requests alone, and one that
\* returns an error, keep the types.
LEMMA StepFailsTypes ==
  ASSUME EtcdTypeOK, OwnInv, NEW w \in Lrn, AtWork(w), StepFails(w)
  PROVE  EtcdTypeOK' /\ OwnInv'
<1>1. round' \in [id : Nat, servers : SUBSET Lrn, failed : BOOLEAN]
  BY Zenon DEF EtcdTypeOK, StepFails, Abort
<1>2. QED
  BY <1>1
  DEF EtcdTypeOK, OwnInv, AtWork, Reported, Places, Elected, Goto, StepFails, Resign,
      clusterVars

\* UpdateEtcd, up to replaceEtcdFiles, keeps the types.
LEMMA UpdateTypes ==
  ASSUME EtcdTypeOK, OwnInv, NEW w \in Lrn,
         \/ Begin(w) \/ GiveUp(w) \/ UpdateEtcd(w)
         \/ Campaign(w, "campaign", "list") \/ MemberList(w) \/ MemberAdd(w)
         \/ EtcdSetup(w) \/ waitEtcdSync(w) \/ replaceEtcdFiles(w)
  PROVE  EtcdTypeOK' /\ OwnInv'
<1>. USE DEF EtcdTypeOK, OwnInv, AtWork, Reported, Places, Elected, Goto, roundVars,
             clusterVars
<1>1. CASE Begin(w)
  BY SMT, <1>1 DEF Begin
<1>2. CASE GiveUp(w)
  BY <1>2 DEF GiveUp
<1>3. CASE UpdateEtcd(w)
  BY <1>3 DEF UpdateEtcd
<1>4. CASE Campaign(w, "campaign", "list")
  BY SMT, <1>4, EtcdAssumption DEF Campaign
<1>5. CASE MemberList(w)
  BY <1>5 DEF MemberList
<1>6. CASE MemberAdd(w)
  <2>1. CASE StepFails(w)
    BY <1>6, <2>1, StepFailsTypes DEF MemberAdd
  <2>2. CASE ~StepFails(w)
    <3>1. members' = [m \in DOMAIN members \cup {w} |-> m # w /\ members[m]]
      BY <1>6, <2>2 DEF MemberAdd
    <3>2. /\ DOMAIN members' \subseteq Lrn
          /\ members' \in [DOMAIN members' -> BOOLEAN]
      BY <3>1
    <3>3. /\ pc[w] = "add" /\ pc' = [pc EXCEPT ![w] = "setup"]
          /\ UNCHANGED <<roundVars, etcd, endpoints, serf, leader, mine,
                         progress, timer>>
      BY <1>6, <2>2 DEF MemberAdd
    <3>4. OwnInv'
      BY <3>3
    <3>5. QED
      BY SMT, <3>2, <3>3, <3>4
  <2>3. QED
    BY <2>1, <2>2
<1>7. CASE EtcdSetup(w)
  <2>1. CASE StepFails(w)
    BY <1>7, <2>1, StepFailsTypes DEF EtcdSetup
  <2>2. CASE ~StepFails(w)
    <3>1. /\ pc[w] = "setup" /\ pc' = [pc EXCEPT ![w] = "sync"]
          /\ etcd' = [etcd EXCEPT ![w] = "running"]
          /\ UNCHANGED <<roundVars, endpoints, serf, leader, mine, progress,
                         timer>>
      BY <1>7, <2>2 DEF EtcdSetup
    <3>2. members' = [members EXCEPT ![w] = TRUE]
      BY <1>7, <2>2 DEF EtcdSetup
    <3>3. /\ DOMAIN members' \subseteq Lrn
          /\ members' \in [DOMAIN members' -> BOOLEAN]
      BY <3>2
    <3>4. OwnInv'
      BY <3>1
    <3>5. QED
      BY SMT, <3>1, <3>3, <3>4
  <2>3. QED
    BY <2>1, <2>2
<1>8. CASE waitEtcdSync(w)
  BY <1>8 DEF waitEtcdSync
<1>9. CASE replaceEtcdFiles(w)
  BY SMTT(30), <1>9 DEF replaceEtcdFiles, Report, Resign
<1>10. QED
  BY <1>1, <1>2, <1>3, <1>4, <1>5, <1>6, <1>7, <1>8, <1>9

\* UpdateSerf, RestartEtcd and what follows keep the types.
LEMMA RestartTypes ==
  ASSUME EtcdTypeOK, OwnInv, NEW w \in Lrn,
         \/ replaceSerfFiles(w) \/ Campaign(w, "campaign2", "restart")
         \/ RestartSerf(w) \/ RestartEtcd(w) \/ StopService(w)
         \/ StartService(w) \/ WaitEtcd(w) \/ removeEtcdMembers(w)
  PROVE  EtcdTypeOK' /\ OwnInv'
<1>. USE DEF EtcdTypeOK, OwnInv, AtWork, Reported, Places, Elected, Goto,
             roundVars, clusterVars
<1>1. CASE replaceSerfFiles(w)
  <2>1. pc[w] = "serf" /\ mine' = mine /\ leader' = leader
    BY <1>1 DEF replaceSerfFiles, Report
  <2>2. CASE /\ pc' = [pc EXCEPT ![w] = "last"]
             /\ progress' = [progress EXCEPT ![w] = @ + 1]
    <3>1. OwnInv' /\ progress' \in [Lrn -> 0 .. 3]
      BY SMT, <2>1, <2>2
    <3>2. /\ pc' \in [Lrn -> Places]
          /\ \A v \in Lrn : pc'[v] \in Elected => leader' = v
      BY <2>1, <2>2
    <3>3. QED
      BY <1>1, <2>1, <3>1, <3>2 DEF replaceSerfFiles
  <2>3. CASE pc' = [pc EXCEPT ![w] = "campaign2"] /\ progress' = progress
    <3>1. OwnInv' /\ progress' \in [Lrn -> 0 .. 3]
      BY <2>1, <2>3
    <3>2. /\ pc' \in [Lrn -> Places]
          /\ \A v \in Lrn : pc'[v] \in Elected => leader' = v
      BY <2>1, <2>3
    <3>3. QED
      BY <1>1, <2>1, <3>1, <3>2 DEF replaceSerfFiles
  <2>4. QED
    BY <1>1, <2>2, <2>3 DEF replaceSerfFiles, Report
<1>2. CASE Campaign(w, "campaign2", "restart")
  BY SMT, <1>2, EtcdAssumption DEF Campaign
<1>3. CASE RestartSerf(w)
  <2>1. /\ pc[w] = "restart" /\ mine' = mine
        /\ pc' = [pc EXCEPT ![w] = "last"]
        /\ progress' = [progress EXCEPT ![w] = @ + 1]
    BY <1>3 DEF RestartSerf, Report
  <2>2. OwnInv' /\ progress' \in [Lrn -> 0 .. 3]
    BY SMT, <2>1
  <2>3. /\ pc' \in [Lrn -> Places] /\ leader' \in Lrn \cup {None}
        /\ \A v \in Lrn : pc'[v] \in Elected => leader' = v
    BY <1>3, <2>1 DEF RestartSerf, Resign
  <2>4. QED
    BY <1>3, <2>1, <2>2, <2>3 DEF RestartSerf
<1>4. CASE RestartEtcd(w)
  <2>1. Due(w) \in Nat
    BY <1>4, DueType DEF RestartEtcd, AtLast
  <2>2. timer' \in [Lrn -> Nat]
    BY <1>4, <2>1 DEF RestartEtcd, Due
  <2>3. /\ pc[w] = "last" /\ mine' = mine /\ leader' = leader
        /\ pc' = [pc EXCEPT ![w] = "sleep"]
        /\ progress' = [progress EXCEPT ![w] = @ + 1]
    BY <1>4 DEF RestartEtcd, AtLast, Report
  <2>4. OwnInv' /\ progress' \in [Lrn -> 0 .. 3]
    BY SMT, <2>3
  <2>5. /\ pc' \in [Lrn -> Places]
        /\ \A v \in Lrn : pc'[v] \in Elected => leader' = v
    BY <2>3
  <2>6. QED
    BY SMT, <1>4, <2>2, <2>3, <2>4, <2>5 DEF RestartEtcd
<1>5. CASE StopService(w)
  <2>1. timer' \in [Lrn -> Nat]
    BY SMT, <1>5, EtcdAssumption DEF StopService
  <2>2. QED
    BY SMT, <1>5, <2>1 DEF StopService
<1>6. CASE StartService(w)
  BY <1>6 DEF StartService
<1>7. CASE WaitEtcd(w)
  <2>1. timer' \in [Lrn -> Nat]
    BY SMT, <1>7, EtcdAssumption DEF WaitEtcd
  <2>2. /\ pc[w] = "wait" /\ pc' \in [Lrn -> Places]
        /\ \A v \in Lrn : v # w => pc'[v] = pc[v]
        /\ pc'[w] \in {"calm", "idle"}
    BY SMT, <1>7 DEF WaitEtcd
  <2>3. UNCHANGED <<roundVars, clusterVars, serf, leader, mine, progress>>
    BY <1>7 DEF WaitEtcd
  <2>4. OwnInv'
    BY <2>2, <2>3
  <2>5. QED
    BY <2>1, <2>2, <2>3, <2>4
<1>8. CASE removeEtcdMembers(w)
  <2>1. /\ DOMAIN members' \subseteq Lrn
        /\ members' \in [DOMAIN members' -> BOOLEAN]
    BY SMT, <1>8 DEF removeEtcdMembers
  <2>2. etcd' \in [Lrn -> {"absent", "stopped", "running"}]
    BY SMT, <1>8 DEF removeEtcdMembers
  <2>3. QED
    BY <1>8, <2>1, <2>2 DEF removeEtcdMembers
<1>9. QED
  BY <1>1, <1>2, <1>3, <1>4, <1>5, <1>6, <1>7, <1>8

\* Crashes, the passing of time and changes of the servers keep the types.
LEMMA OtherTypes ==
  ASSUME EtcdTypeOK, OwnInv,
         \/ \E w \in Lrn : Restart(w) \/ Crash(w) \/ Join(w) \/ Leave(w)
         \/ SessionExpires \/ Tick \/ NewRound
  PROVE  EtcdTypeOK' /\ OwnInv'
<1>. USE DEF EtcdTypeOK, OwnInv, AtWork, Reported, Places, Elected, Goto,
             roundVars, clusterVars, workerVars
<1>1. ASSUME NEW w \in Lrn, Restart(w) PROVE EtcdTypeOK' /\ OwnInv'
  <2>1. round' \in [id : Nat, servers : SUBSET Lrn, failed : BOOLEAN]
    BY <1>1 DEF Restart, Abort
  <2>2. /\ DOMAIN members' \subseteq Lrn
        /\ members' \in [DOMAIN members' -> BOOLEAN]
    BY <1>1 DEF Restart
  <2>3. QED
    BY SMT, <1>1, <2>1, <2>2 DEF Restart
<1>2. ASSUME NEW w \in Lrn, Crash(w) PROVE EtcdTypeOK' /\ OwnInv'
  BY SMT, <1>2 DEF Crash
<1>3. ASSUME NEW w \in Lrn, Join(w) PROVE EtcdTypeOK' /\ OwnInv'
  BY <1>3 DEF Join
<1>4. ASSUME NEW w \in Lrn, Leave(w) PROVE EtcdTypeOK' /\ OwnInv'
  BY <1>4 DEF Leave
<1>5. CASE SessionExpires
  BY <1>5 DEF SessionExpires
<1>6. CASE Tick
  <2>1. timer' \in [Lrn -> Nat]
    BY SMT, <1>6 DEF Tick
  <2>2. QED
    BY <1>6, <2>1 DEF Tick
<1>7. CASE NewRound
  BY SMT, <1>7 DEF NewRound
<1>8. QED
  BY <1>1, <1>2, <1>3, <1>4, <1>5, <1>6, <1>7

\* Every step keeps the types.
LEMMA TypeStep ==
  ASSUME EtcdTypeOK, OwnInv, [EtcdNext]_etcdVars
  PROVE  EtcdTypeOK' /\ OwnInv'
<1>1. CASE UNCHANGED etcdVars
  BY <1>1 DEF etcdVars, roundVars, clusterVars, workerVars, EtcdTypeOK, OwnInv,
              AtWork
<1>2. CASE EtcdNext
  BY <1>2, UpdateTypes, RestartTypes, OtherTypes DEF EtcdNext, WorkerStep
<1>3. QED
  BY <1>1, <1>2

\* UpdateEtcd, RestartSerf: whoever is elected is alone, whatever servers join,
\* leave or crash, and the variables have their types.
THEOREM EtcdTypeCorrect == EtcdSpec => []EtcdTypeOK
<1>1. EtcdTypeOK /\ OwnInv /\ [EtcdNext]_etcdVars => EtcdTypeOK' /\ OwnInv'
  BY TypeStep
<1>2. QED
  BY <1>1, TypeInit, PTL DEF EtcdSpec

----------------------------------------------------------------------------
(* Requests and barriers. *)

\* A worker has the servers of the request whose number it has.
RoundInv ==
  /\ round.id > 0
  /\ \A w \in Lrn :
       /\ mine[w].id <= round.id
       /\ mine[w].id = round.id => mine[w].servers = round.servers
  /\ \A v, w \in Lrn :
       mine[v].id = mine[w].id => mine[v].servers = mine[w].servers

\* Before a worker has left the first step, and after it has ended.
Before == {"etcd", "idle", "dead"}

\* Who has passed the first barrier of the current request knows that all have
\* begun it; who has passed the last one, that all have come to the last step.
PassedInv ==
  \A w \in Lrn : mine[w].id = round.id =>
    \A v \in round.servers :
      /\ progress[w] > 0 \/ pc[w] \notin Before => mine[v].id = round.id
      /\ progress[w] = 3 => progress[v] >= 2

\* A step of the workers within the current request that passes neither of these
\* barriers.
Within ==
  /\ mine' = mine /\ round'.id = round.id /\ round'.servers = round.servers
  /\ \A w \in Lrn :
       /\ pc'[w] \notin Before => pc[w] \notin Before
       /\ \/ progress'[w] = progress[w]
          \/ pc[w] \notin Before /\ progress'[w] = progress[w] + 1
             /\ progress'[w] < 3

\* A step that fails is such a step.
LEMMA FailsWithin ==
  ASSUME EtcdTypeOK, NEW w \in Lrn, StepFails(w)
  PROVE  Within
<1>1. pc \in [Lrn -> Places] /\ progress \in [Lrn -> 0 .. 3]
  BY DEF EtcdTypeOK
<1>2. round'.id = round.id /\ round'.servers = round.servers
  BY DEF StepFails, Abort, EtcdTypeOK
<1>3. QED
  BY <1>1, <1>2 DEF StepFails, Goto, Within, Before

\* So is every step but these four.
LEMMA UpdateWithin ==
  ASSUME EtcdTypeOK, OwnInv, NEW w \in Lrn,
         \/ GiveUp(w) \/ Campaign(w, "campaign", "list") \/ MemberList(w)
         \/ MemberAdd(w) \/ EtcdSetup(w) \/ waitEtcdSync(w)
         \/ replaceEtcdFiles(w)
  PROVE  Within
<1>0. pc \in [Lrn -> Places] /\ progress \in [Lrn -> 0 .. 3]
  BY DEF EtcdTypeOK
<1>. USE <1>0 DEF Within, Before, Goto, roundVars
<1>1. CASE GiveUp(w)
  BY <1>1 DEF GiveUp
<1>2. CASE Campaign(w, "campaign", "list")
  BY <1>2 DEF Campaign
<1>3. CASE MemberList(w)
  BY <1>3 DEF MemberList
<1>4. CASE MemberAdd(w)
  BY <1>4, FailsWithin DEF MemberAdd
<1>5. CASE EtcdSetup(w)
  BY <1>5, FailsWithin DEF EtcdSetup
<1>6. CASE waitEtcdSync(w)
  BY <1>6 DEF waitEtcdSync
<1>7. CASE replaceEtcdFiles(w)
  BY SMT, <1>7 DEF replaceEtcdFiles, Report, OwnInv, AtWork, Reported
<1>8. QED
  BY <1>1, <1>2, <1>3, <1>4, <1>5, <1>6, <1>7

\* The steps after UpdateEtcd, but for the last barrier.
LEMMA RestartWithin ==
  ASSUME EtcdTypeOK, OwnInv, NEW w \in Lrn,
         \/ replaceSerfFiles(w) \/ Campaign(w, "campaign2", "restart")
         \/ RestartSerf(w) \/ StopService(w) \/ StartService(w) \/ WaitEtcd(w)
         \/ removeEtcdMembers(w)
  PROVE  Within
<1>0. pc \in [Lrn -> Places] /\ progress \in [Lrn -> 0 .. 3]
  BY DEF EtcdTypeOK
<1>. USE <1>0 DEF Within, Before, Goto, roundVars
<1>1. CASE replaceSerfFiles(w)
  <2>1. pc[w] = "serf" /\ mine' = mine /\ UNCHANGED roundVars
    BY <1>1 DEF replaceSerfFiles, Report
  <2>2. progress[w] = 1
    BY <2>1 DEF OwnInv, AtWork, Reported
  <2>3. \/ /\ pc' = [pc EXCEPT ![w] = "last"]
           /\ progress' = [progress EXCEPT ![w] = @ + 1]
        \/ pc' = [pc EXCEPT ![w] = "campaign2"] /\ progress' = progress
    BY <1>1 DEF replaceSerfFiles, Report
  <2>4. QED
    BY SMT, <2>1, <2>2, <2>3
<1>2. CASE Campaign(w, "campaign2", "restart")
  BY <1>2 DEF Campaign
<1>3. CASE RestartSerf(w)
  BY SMT, <1>3 DEF RestartSerf, Report, OwnInv, AtWork, Reported
<1>4. CASE StopService(w)
  BY <1>4 DEF StopService
<1>5. CASE StartService(w)
  BY <1>5 DEF StartService
<1>6. CASE WaitEtcd(w)
  BY <1>6 DEF WaitEtcd
<1>7. CASE removeEtcdMembers(w)
  BY <1>7 DEF removeEtcdMembers
<1>8. QED
  BY <1>1, <1>2, <1>3, <1>4, <1>5, <1>6, <1>7

\* Crashes, time, and changes of the registered servers.
LEMMA OtherWithin ==
  ASSUME EtcdTypeOK,
         \/ \E w \in Lrn : Restart(w) \/ Crash(w) \/ Join(w) \/ Leave(w)
         \/ SessionExpires \/ Tick \/ UNCHANGED etcdVars
  PROVE  Within
<1>0. pc \in [Lrn -> Places] /\ progress \in [Lrn -> 0 .. 3]
  BY DEF EtcdTypeOK
<1>. USE <1>0 DEF Within, Before, Goto, roundVars, workerVars
<1>1. ASSUME NEW w \in Lrn, Restart(w) PROVE Within
  <2>1. round'.id = round.id /\ round'.servers = round.servers
    BY <1>1 DEF Restart, Abort, EtcdTypeOK
  <2>2. QED
    BY <1>1, <2>1 DEF Restart
<1>2. ASSUME NEW w \in Lrn, Crash(w) PROVE Within
  BY <1>2 DEF Crash
<1>3. ASSUME NEW w \in Lrn, Join(w) \/ Leave(w) PROVE Within
  BY <1>3 DEF Join, Leave
<1>4. CASE SessionExpires \/ Tick \/ UNCHANGED etcdVars
  BY <1>4 DEF SessionExpires, Tick, etcdVars
<1>5. QED
  BY <1>1, <1>2, <1>3, <1>4

\* The steps of a worker that are not.
Turns(w) == Begin(w) \/ UpdateEtcd(w) \/ RestartEtcd(w)

\* Every step stays within the requests, but those and a new request.
LEMMA EveryStepWithin ==
  ASSUME EtcdTypeOK, OwnInv, [EtcdNext]_etcdVars
  PROVE  Within \/ NewRound \/ \E w \in Lrn : Turns(w)
BY UpdateWithin, RestartWithin, OtherWithin DEF EtcdNext, WorkerStep, Turns

\* The requests that the workers have stay consistent.
LEMMA RoundStep ==
  ASSUME EtcdTypeOK, OwnInv, RoundInv, [EtcdNext]_etcdVars
  PROVE  RoundInv'
<1>0. /\ round.id \in Nat /\ mine \in [Lrn -> [id : Nat, servers : SUBSET Lrn]]
  BY DEF EtcdTypeOK
<1>1. CASE Within
  BY <1>0, <1>1 DEF Within, RoundInv
<1>2. CASE NewRound
  <2>1. round'.id = round.id + 1 /\ mine' = mine
    BY <1>2 DEF NewRound, workerVars
  <2>2. \A w \in Lrn : mine[w].id \in Nat /\ mine[w].id <= round.id
    BY <1>0 DEF RoundInv
  <2>3. QED
    BY SMT, <1>0, <2>1, <2>2 DEF RoundInv
<1>3. ASSUME NEW w \in Lrn, Turns(w) PROVE RoundInv'
  <2>1. CASE Begin(w)
    <3>1. /\ round' = round
          /\ \A v \in Lrn : v # w => mine'[v] = mine[v]
          /\ mine'[w].id = round.id /\ mine'[w].servers = round.servers
      BY <1>0, <2>1 DEF Begin, roundVars
    <3>2. QED
      BY SMT, <1>0, <3>1 DEF RoundInv
  <2>2. CASE UpdateEtcd(w) \/ RestartEtcd(w)
    <3>1. mine' = mine /\ round' = round
      BY <2>2 DEF UpdateEtcd, RestartEtcd, Report, roundVars
    <3>2. QED
      BY <3>1 DEF RoundInv
  <2>3. QED
    BY <1>3, <2>1, <2>2 DEF Turns
<1>4. QED
  BY <1>1, <1>2, <1>3, EveryStepWithin

\* The barriers mean what PassedInv says.
LEMMA PassedStep ==
  ASSUME EtcdTypeOK, OwnInv, RoundInv, PassedInv, [EtcdNext]_etcdVars
  PROVE  PassedInv'
<1>0. /\ round.id \in Nat /\ round.servers \subseteq Lrn
      /\ mine \in [Lrn -> [id : Nat, servers : SUBSET Lrn]]
      /\ pc \in [Lrn -> Places] /\ progress \in [Lrn -> 0 .. 3]
  BY DEF EtcdTypeOK
<1>1. CASE Within
  <2>1. SUFFICES ASSUME NEW w \in Lrn, mine[w].id = round.id,
                        NEW v \in round.servers
                 PROVE  /\ progress'[w] > 0 \/ pc'[w] \notin Before
                             => mine[v].id = round.id
                        /\ progress'[w] = 3 => progress'[v] >= 2
    BY <1>1 DEF Within, PassedInv
  <2>2. /\ progress'[w] > 0 \/ pc'[w] \notin Before
             => progress[w] > 0 \/ pc[w] \notin Before
        /\ progress'[w] = 3 => progress[w] = 3
        /\ progress'[v] >= progress[v]
    BY SMT, <1>0, <1>1, <2>1 DEF Within
  <2>3. /\ progress[w] > 0 \/ pc[w] \notin Before => mine[v].id = round.id
        /\ progress[w] = 3 => progress[v] >= 2
    BY <2>1 DEF PassedInv
  <2>4. progress[v] \in 0 .. 3 /\ (progress'[v] = progress[v] \/ progress'[v] = progress[v] + 1)
    BY <1>0, <1>1 DEF Within
  <2>5. QED
    BY SMT, <2>2, <2>3, <2>4
<1>2. CASE NewRound
  <2>1. round'.id = round.id + 1 /\ mine' = mine
    BY <1>2 DEF NewRound, workerVars
  <2>2. \A w \in Lrn : mine'[w].id # round'.id
    BY SMT, <1>0, <2>1 DEF RoundInv
  <2>3. QED
    BY <2>2 DEF PassedInv
<1>3. ASSUME NEW w \in Lrn, Begin(w) PROVE PassedInv'
  <2>1. /\ round' = round /\ w \in round.servers /\ mine[w].id < round.id
        /\ \A v \in Lrn : v # w => /\ mine'[v] = mine[v] /\ pc'[v] = pc[v]
                                  /\ progress'[v] = progress[v]
        /\ mine'[w].id = round.id /\ progress'[w] = 0 /\ pc'[w] = "etcd"
    BY <1>0, <1>3 DEF Begin, Goto, roundVars
  <2>2. ASSUME NEW u \in Lrn, mine[u].id = round.id
        PROVE  ~(progress[u] > 0 \/ pc[u] \notin Before) /\ progress[u] # 3
    <3>1. mine[w].id # round.id
      BY SMT, <1>0, <2>1
    <3>2. ~(progress[u] > 0 \/ pc[u] \notin Before)
      BY <2>1, <2>2, <3>1 DEF PassedInv
    <3>3. QED
      BY SMT, <1>0, <3>2
  <2>3. QED
    BY SMT, <2>1, <2>2 DEF PassedInv, Before
<1>4. ASSUME NEW w \in Lrn, UpdateEtcd(w) PROVE PassedInv'
  <2>1. /\ mine' = mine /\ round' = round /\ progress' = progress
        /\ \A v \in Lrn : v # w => pc'[v] = pc[v]
        /\ mine[w].id = round.id
    BY <1>0, <1>4 DEF UpdateEtcd, Sound, Goto, roundVars
  <2>2. \A v \in round.servers : mine[v].id = round.id
    BY <1>0, <1>4, <2>1 DEF UpdateEtcd, Barrier, RoundInv
  <2>3. QED
    BY <2>1, <2>2 DEF PassedInv
<1>5. ASSUME NEW w \in Lrn, RestartEtcd(w) PROVE PassedInv'
  <2>1. /\ mine' = mine /\ round' = round /\ mine[w].id = round.id
        /\ progress' = [progress EXCEPT ![w] = @ + 1] /\ pc[w] = "last"
    BY <1>0, <1>5 DEF RestartEtcd, AtLast, Sound, Report, roundVars
  <2>2. progress[w] = 2
    BY <2>1 DEF OwnInv, AtWork, Reported
  <2>3. \A v \in round.servers : mine[v].id = round.id /\ progress[v] >= 2
    BY <1>0, <1>5, <2>1, <2>2 DEF RestartEtcd, AtLast, Barrier, RoundInv
  <2>4. \A v \in round.servers : mine'[v].id = round'.id /\ progress'[v] >= 2
    BY SMT, <1>0, <2>1, <2>3
  <2>5. QED
    BY <2>1, <2>4 DEF PassedInv
<1>6. QED
  BY <1>1, <1>2, <1>3, <1>4, <1>5, EveryStepWithin DEF Turns

----------------------------------------------------------------------------
(* The members. *)

\* A worker that has seen its server among the members that have started.
Seen(w) == progress[w] > 0 \/ pc[w] \in {"sync", "files"}

\* As long as its server is a member, it is one that has started.
NamedInv == \A w \in Lrn : w \in DOMAIN members /\ Seen(w) => members[w]

\* A step that neither adds a member nor lets a worker see one.
Keeps ==
  \A w \in Lrn :
    /\ w \in DOMAIN members' =>
         w \in DOMAIN members /\ (members[w] => members'[w])
    /\ Seen(w)' => Seen(w)

\* A step that keeps the members and what was seen of them keeps NamedInv.
LEMMA KeepsNames ==
  ASSUME NamedInv, Keeps
  PROVE  NamedInv'
BY DEF NamedInv, Keeps

\* The steps of UpdateEtcd that only move on.
LEMMA UpdateKeeps ==
  ASSUME EtcdTypeOK, NEW w \in Lrn,
         \/ Begin(w) \/ GiveUp(w) \/ UpdateEtcd(w) \/ waitEtcdSync(w)
         \/ Campaign(w, "campaign", "list") \/ replaceEtcdFiles(w)
         \/ StepFails(w)
  PROVE  Keeps
<1>0. pc \in [Lrn -> Places] /\ progress \in [Lrn -> 0 .. 3]
  BY DEF EtcdTypeOK
<1>. USE <1>0 DEF Keeps, Seen, Goto, clusterVars
<1>1. CASE Begin(w)
  BY SMT, <1>1 DEF Begin
<1>2. CASE GiveUp(w) \/ UpdateEtcd(w) \/ waitEtcdSync(w)
  BY <1>2 DEF GiveUp, UpdateEtcd, waitEtcdSync
<1>3. CASE Campaign(w, "campaign", "list")
  BY <1>3 DEF Campaign
<1>4. CASE replaceEtcdFiles(w)
  BY <1>4 DEF replaceEtcdFiles, Report
<1>5. CASE StepFails(w)
  BY <1>5 DEF StepFails
<1>6. QED
  BY <1>1, <1>2, <1>3, <1>4, <1>5

\* The steps after it, where the worker has seen its member.
LEMMA RestartKeeps ==
  ASSUME EtcdTypeOK, OwnInv, NEW w \in Lrn,
         \/ replaceSerfFiles(w) \/ Campaign(w, "campaign2", "restart")
         \/ RestartSerf(w) \/ RestartEtcd(w) \/ StopService(w)
         \/ StartService(w) \/ WaitEtcd(w) \/ removeEtcdMembers(w)
  PROVE  Keeps
<1>0. pc \in [Lrn -> Places] /\ progress \in [Lrn -> 0 .. 3]
  BY DEF EtcdTypeOK
<1>1. pc[w] \in {"serf", "campaign2", "restart", "last", "sleep", "down",
                 "wait", "calm"}
  BY DEF replaceSerfFiles, Campaign, RestartSerf, RestartEtcd, AtLast,
         StopService, StartService, WaitEtcd, removeEtcdMembers
<1>2. Seen(w)
  BY SMT, <1>1 DEF OwnInv, AtWork, Reported, Seen
<1>3. ASSUME NEW v \in Lrn, v # w
      PROVE  pc'[v] = pc[v] /\ progress'[v] = progress[v]
  BY <1>0, <1>3
  DEF replaceSerfFiles, Campaign, RestartSerf, RestartEtcd, StopService,
      StartService, WaitEtcd, removeEtcdMembers, Goto, Report
<1>4. CASE removeEtcdMembers(w)
  <2>1. \A v \in Lrn : v \in DOMAIN members' =>
          v \in DOMAIN members /\ (members[v] => members'[v])
    BY <1>4 DEF removeEtcdMembers
  <2>2. QED
    BY <1>2, <1>3, <2>1 DEF Keeps, Seen
<1>5. CASE ~removeEtcdMembers(w)
  <2>1. members' = members
    BY <1>5 DEF replaceSerfFiles, Campaign, RestartSerf, RestartEtcd,
                StopService, StartService, WaitEtcd, clusterVars
  <2>2. QED
    BY <1>2, <1>3, <2>1 DEF Keeps, Seen
<1>6. QED
  BY <1>4, <1>5

\* Crashes, restarts, time and requests.
LEMMA OtherKeeps ==
  ASSUME EtcdTypeOK,
         \/ \E w \in Lrn : Restart(w) \/ Crash(w) \/ Join(w) \/ Leave(w)
         \/ SessionExpires \/ Tick \/ NewRound \/ UNCHANGED etcdVars
  PROVE  Keeps
<1>0. /\ pc \in [Lrn -> Places]
      /\ members \in [DOMAIN members -> BOOLEAN]
  BY DEF EtcdTypeOK
<1>. USE <1>0 DEF Keeps, Seen, Goto, clusterVars, workerVars
<1>1. ASSUME NEW w \in Lrn, Restart(w) PROVE Keeps
  <2>1. \A v \in Lrn : v \in DOMAIN members' =>
          v \in DOMAIN members /\ (members[v] => members'[v])
    BY <1>1 DEF Restart
  <2>2. QED
    BY <1>1, <2>1 DEF Restart
<1>2. ASSUME NEW w \in Lrn, Crash(w) PROVE Keeps
  BY <1>2 DEF Crash
<1>3. ASSUME NEW w \in Lrn, Join(w) \/ Leave(w) PROVE Keeps
  BY <1>3 DEF Join, Leave
<1>4. CASE SessionExpires \/ Tick \/ NewRound \/ UNCHANGED etcdVars
  BY <1>4 DEF SessionExpires, Tick, NewRound, etcdVars
<1>5. QED
  BY <1>1, <1>2, <1>3, <1>4

\* Every step keeps NamedInv.
LEMMA NamedStep ==
  ASSUME EtcdTypeOK, OwnInv, NamedInv, [EtcdNext]_etcdVars
  PROVE  NamedInv'
<1>0. /\ pc \in [Lrn -> Places] /\ progress \in [Lrn -> 0 .. 3]
      /\ DOMAIN members \subseteq Lrn
      /\ members \in [DOMAIN members -> BOOLEAN]
  BY DEF EtcdTypeOK
<1>1. ASSUME NEW w \in Lrn, MemberList(w) PROVE NamedInv'
  BY <1>0, <1>1
  DEF MemberList, isMember, NamedInv, Seen, Goto, clusterVars
<1>2. ASSUME NEW w \in Lrn, MemberAdd(w), ~StepFails(w) PROVE NamedInv'
  <2>1. /\ members' = [m \in DOMAIN members \cup {w} |-> m # w /\ members[m]]
        /\ pc[w] = "add" /\ pc' = [pc EXCEPT ![w] = "setup"]
        /\ progress' = progress
    BY <1>2 DEF MemberAdd, Goto
  <2>2. progress[w] = 0
    BY <2>1 DEF OwnInv, AtWork, Reported
  <2>3. QED
    BY SMT, <1>0, <2>1, <2>2 DEF NamedInv, Seen
<1>3. ASSUME NEW w \in Lrn, EtcdSetup(w), ~StepFails(w) PROVE NamedInv'
  <2>1. /\ members' = [members EXCEPT ![w] = TRUE]
        /\ pc' = [pc EXCEPT ![w] = "sync"] /\ progress' = progress
    BY <1>3 DEF EtcdSetup, Goto
  <2>2. QED
    BY <1>0, <2>1 DEF NamedInv, Seen
<1>4. CASE Keeps
  BY <1>4, KeepsNames
<1>5. QED
  BY <1>1, <1>2, <1>3, <1>4, UpdateKeeps, RestartKeeps, OtherKeeps
  DEF EtcdNext, WorkerStep

\* No request has been begun, and the members are the servers that are set up.
LEMMA RequestsInit == EtcdInit => RoundInv /\ PassedInv /\ NamedInv
<1>1. SUFFICES ASSUME EtcdInit PROVE RoundInv /\ PassedInv /\ NamedInv
  OBVIOUS
<1>2. /\ round.id = 1 /\ \A m \in DOMAIN members : members[m]
      /\ \A w \in Lrn : mine[w].id = 0 /\ mine[w].servers = {}
  BY <1>1 DEF EtcdInit
<1>3. RoundInv
  <2>1. /\ round.id > 0
        /\ \A w \in Lrn : mine[w].id <= round.id /\ mine[w].id # round.id
    BY SMT, <1>2, 1 > 0, 0 <= 1, 0 # 1
  <2>2. \A v, w \in Lrn : mine[v].servers = mine[w].servers
    BY <1>2
  <2>3. QED
    BY <2>1, <2>2 DEF RoundInv
<1>4. PassedInv
  BY SMT, <1>2 DEF PassedInv
<1>5. NamedInv
  BY <1>2 DEF NamedInv
<1>6. QED
  BY <1>3, <1>4, <1>5

\* Only removeEtcdMembers removes a member.
LEMMA OnlyRemoval ==
  ASSUME EtcdTypeOK, [EtcdNext]_etcdVars,
         \A w \in Lrn : ~removeEtcdMembers(w)
  PROVE  DOMAIN members \subseteq DOMAIN members'
<1>0. members \in [DOMAIN members -> BOOLEAN]
  BY DEF EtcdTypeOK
<1>1. ASSUME NEW w \in Lrn, StepFails(w)
      PROVE  DOMAIN members \subseteq DOMAIN members'
  BY <1>1 DEF StepFails, clusterVars
<1>2. ASSUME NEW w \in Lrn, MemberAdd(w) \/ EtcdSetup(w) \/ Restart(w)
      PROVE  DOMAIN members \subseteq DOMAIN members'
  BY <1>0, <1>1, <1>2 DEF MemberAdd, EtcdSetup, Restart
<1>3. ASSUME NEW w \in Lrn,
             \/ Begin(w) \/ GiveUp(w) \/ UpdateEtcd(w)
             \/ Campaign(w, "campaign", "list") \/ MemberList(w)
             \/ waitEtcdSync(w) \/ replaceEtcdFiles(w)
             \/ replaceSerfFiles(w) \/ Campaign(w, "campaign2", "restart")
             \/ RestartSerf(w) \/ RestartEtcd(w) \/ StopService(w)
             \/ StartService(w) \/ WaitEtcd(w)
             \/ Crash(w) \/ Join(w) \/ Leave(w)
      PROVE  members' = members
  BY <1>3
  DEF Begin, GiveUp, UpdateEtcd, Campaign, MemberList, waitEtcdSync,
      replaceEtcdFiles, replaceSerfFiles, RestartSerf, RestartEtcd, StopService,
      StartService, WaitEtcd, Crash, Join, Leave, clusterVars
<1>4. CASE SessionExpires \/ Tick \/ NewRound \/ UNCHANGED etcdVars
  BY <1>4 DEF SessionExpires, Tick, NewRound, etcdVars, clusterVars
<1>5. QED
  BY <1>2, <1>3, <1>4 DEF EtcdNext, WorkerStep

\* What RemovesOnlyLeft says of one step.
RemovesRightly ==
  \A m \in DOMAIN members \ DOMAIN members' :
    \/ ~(mine[m].id = round.id /\ m \in round.servers /\ progress[m] > 0)
    \/ \E w \in Lrn \ round.servers : pc[w] = "calm" /\ pc'[w] = "idle"

\* A worker of the current request that removes members goes by this request,
\* since all have begun it when one has passed UpdateEtcd.
LEMMA RemovalStep ==
  ASSUME EtcdTypeOK, OwnInv, RoundInv, PassedInv, NamedInv, [EtcdNext]_etcdVars
  PROVE  RemovesRightly
<1>0. /\ DOMAIN members \subseteq Lrn /\ pc \in [Lrn -> Places]
      /\ members \in [DOMAIN members -> BOOLEAN]
  BY DEF EtcdTypeOK
<1>1. SUFFICES ASSUME NEW m \in DOMAIN members \ DOMAIN members',
                      mine[m].id = round.id, m \in round.servers,
                      progress[m] > 0
               PROVE  \E w \in Lrn \ round.servers :
                        pc[w] = "calm" /\ pc'[w] = "idle"
  BY DEF RemovesRightly
<1>2. PICK w \in Lrn : removeEtcdMembers(w)
  BY <1>1, OnlyRemoval
<1>3. pc[w] = "calm" /\ pc'[w] = "idle"
  BY <1>0, <1>2 DEF removeEtcdMembers, Goto
<1>4. m \in ToRemove(w)
  BY <1>1, <1>2 DEF removeEtcdMembers
<1>5. members[m]
  BY <1>0, <1>1 DEF NamedInv, Seen
<1>6. m \notin mine[w].servers
  BY <1>4, <1>5 DEF ToRemove
<1>7. CASE w \in round.servers
  <2>1. mine[w].id = round.id
    BY <1>0, <1>1, <1>7 DEF PassedInv
  <2>2. QED
    BY <1>1, <1>6, <2>1 DEF RoundInv
<1>8. QED
  BY <1>3, <1>7

\* removeEtcdMembers: while the next request is under way, no worker removes a
\* server that UpdateEtcd has found or made a member in it, but for a worker
\* whose own server is no longer among those of the request.
THEOREM RemovalsAreRight == EtcdSpec => RemovesOnlyLeft
<1>. DEFINE Inv == EtcdTypeOK /\ OwnInv /\ RoundInv /\ PassedInv /\ NamedInv
<1>1. EtcdInit => Inv
  BY TypeInit, RequestsInit
<1>2. Inv /\ [EtcdNext]_etcdVars => Inv'
  BY TypeStep, RoundStep, PassedStep, NamedStep
<1>3. Inv /\ [EtcdNext]_etcdVars => [RemovesRightly]_etcdVars
  BY RemovalStep
<1>4. QED
  BY <1>1, <1>2, <1>3, PTL DEF EtcdSpec, RemovesOnlyLeft, RemovesRightly

----------------------------------------------------------------------------
(* The restarts. *)

\* How long a worker that sleeps in RestartEtcd has slept.
Slept(w) == Due(w) - timer[w]

\* The times of one worker: timer is 0 until all are at the last step.
OwnTime(w) ==
  /\ pc[w] \in {"campaign2", "restart"} => timer[w] = 0
  /\ pc[w] = "last" /\ Sound(w) /\ ~Barrier(w) => timer[w] = 0
  /\ AtLast(w) => timer[w] <= Skew
  /\ pc[w] = "down" => timer[w] <= MaxDown

\* The times of two workers of the same request: they began to sleep within Skew
\* of each other, and what a worker has to sleep has passed when it stops etcd.
PairTime(v, w) ==
  /\ AtLast(v) /\ AtLast(w) => timer[v] = timer[w]
  /\ pc[v] = "sleep" /\ pc[w] = "sleep" => Slept(v) <= Slept(w) + Skew
  /\ pc[v] = "sleep" /\ AtLast(w) => Slept(v) \in 0 .. timer[w]
  /\ pc[v] = "down" /\ pc[w] = "sleep" =>
       /\ Due(v) <= Slept(w) + Skew
       /\ Slept(w) <= Due(v) + MaxDown - timer[v] + Skew
  /\ pc[v] = "down" /\ AtLast(w) => Due(v) <= timer[w]

TimeInv ==
  /\ \A w \in Lrn : OwnTime(w)
  /\ \A v, w \in Lrn : mine[v].id = mine[w].id => PairTime(v, w)

\* The places that the timing sees.
Timed == {"last", "sleep", "down"}

\* A step that brings nobody to one of them.
Untimed ==
  \A w \in Lrn :
    /\ pc'[w] \in Timed =>
         pc'[w] = pc[w] /\ mine'[w] = mine[w] /\ timer'[w] = timer[w]
    /\ pc'[w] \in {"campaign2", "restart"} => 
         pc[w] \in {"campaign2", "restart"} /\ timer'[w] = timer[w]
    /\ pc'[w] = "last" /\ Sound(w)' => Sound(w) /\ (Barrier(w)' <=> Barrier(w))

\* Such a step keeps TimeInv and RestartsApart.
LEMMA UntimedStep ==
  ASSUME TimeInv, Untimed
  PROVE  TimeInv' /\ (RestartsApart => RestartsApart')
<1>1. ASSUME NEW w \in Lrn
      PROVE  /\ AtLast(w)' => AtLast(w)
             /\ pc'[w] \in Timed => Due(w)' = Due(w) /\ timer'[w] = timer[w]
                                   /\ mine'[w] = mine[w] /\ pc'[w] = pc[w]
             /\ pc'[w] \in {"sleep", "down"} => Slept(w)' = Slept(w)
  BY DEF Untimed, Timed, AtLast, Due, Slept, Index
<1>2. ASSUME NEW w \in Lrn PROVE OwnTime(w)'
  <2>1. OwnTime(w)
    BY DEF TimeInv
  <2>2. QED
    BY <1>1, <2>1 DEF OwnTime, Untimed, Timed, AtLast
<1>3. ASSUME NEW v \in Lrn, NEW w \in Lrn, mine'[v].id = mine'[w].id
      PROVE  PairTime(v, w)'
  <2>1. SUFFICES ASSUME pc'[v] \in Timed, pc'[w] \in Timed
                 PROVE  PairTime(v, w)'
    BY DEF PairTime, AtLast, Timed
  <2>2. mine'[v] = mine[v] /\ mine'[w] = mine[w]
    BY <1>1, <2>1
  <2>3. PairTime(v, w)
    BY <1>3, <2>2 DEF TimeInv
  <2>4. QED
    BY <1>1, <2>1, <2>3 DEF PairTime, Timed
<1>4. TimeInv'
  BY <1>2, <1>3 DEF TimeInv
<1>5. QED
  BY <1>1, <1>4 DEF RestartsApart, Timed

\* A step that leaves the requests of the workers and their reports alone, and
\* ends no failure, is one when it brings nobody to a place that counts.
Still ==
  /\ mine' = mine /\ progress' = progress
  /\ \A w \in Lrn : Sound(w)' => Sound(w)
  /\ \A w \in Lrn :
       \/ pc'[w] \notin Timed \cup {"campaign2", "restart"}
       \/ /\ timer'[w] = timer[w]
          /\ pc'[w] = pc[w] \/ (pc[w] = "campaign2" /\ pc'[w] = "restart")

\* A step that stands still is untimed.
LEMMA StillUntimed ==
  ASSUME Still
  PROVE  Untimed
<1>1. \A w \in Lrn : Barrier(w)' <=> Barrier(w)
  BY DEF Still, Barrier
<1>2. QED
  BY <1>1 DEF Still, Untimed, Timed

\* A worker whose step fails stands still for the others.
LEMMA FailsStill ==
  ASSUME EtcdTypeOK, NEW w \in Lrn, StepFails(w)
  PROVE  Still
<1>0. pc \in [Lrn -> Places]
  BY DEF EtcdTypeOK
<1>1. \A v \in Lrn : Sound(v)' => Sound(v)
  BY DEF StepFails, Abort, Sound, EtcdTypeOK
<1>2. QED
  BY <1>0, <1>1 DEF StepFails, Still, Goto, Timed

\* The steps of a worker that are such steps.
LEMMA WorkerStill ==
  ASSUME EtcdTypeOK, NEW w \in Lrn,
         \/ GiveUp(w) \/ UpdateEtcd(w) \/ Campaign(w, "campaign", "list")
         \/ Campaign(w, "campaign2", "restart") \/ MemberList(w)
         \/ MemberAdd(w) \/ EtcdSetup(w) \/ waitEtcdSync(w)
         \/ StartService(w) \/ WaitEtcd(w) \/ removeEtcdMembers(w)
  PROVE  Still
<1>0. pc \in [Lrn -> Places] /\ timer \in [Lrn -> Nat]
  BY DEF EtcdTypeOK
<1>. USE <1>0 DEF Still, Goto, Timed, Sound, roundVars
<1>1. CASE GiveUp(w) \/ UpdateEtcd(w) \/ waitEtcdSync(w) \/ StartService(w)
  BY <1>1 DEF GiveUp, UpdateEtcd, waitEtcdSync, StartService
<1>2. CASE Campaign(w, "campaign", "list")
  BY <1>2 DEF Campaign
<1>3. CASE Campaign(w, "campaign2", "restart")
  BY <1>3 DEF Campaign
<1>4. CASE MemberList(w)
  BY <1>4 DEF MemberList
<1>5. CASE MemberAdd(w)
  BY <1>5, FailsStill DEF MemberAdd
<1>6. CASE EtcdSetup(w)
  BY <1>6, FailsStill DEF EtcdSetup
<1>7. CASE WaitEtcd(w)
  BY <1>7 DEF WaitEtcd
<1>8. CASE removeEtcdMembers(w)
  BY <1>8 DEF removeEtcdMembers
<1>9. QED
  BY <1>1, <1>2, <1>3, <1>4, <1>5, <1>6, <1>7, <1>8

\* The other steps but the passing of time.
LEMMA OtherStill ==
  ASSUME EtcdTypeOK, RoundInv,
         \/ \E w \in Lrn : Restart(w) \/ Crash(w) \/ Join(w) \/ Leave(w)
         \/ SessionExpires \/ NewRound \/ UNCHANGED etcdVars
  PROVE  Still
<1>0. pc \in [Lrn -> Places]
  BY DEF EtcdTypeOK
<1>. USE <1>0 DEF Still, Goto, Timed, roundVars, workerVars
<1>1. ASSUME NEW w \in Lrn, Restart(w) PROVE Still
  <2>1. \A v \in Lrn : Sound(v)' => Sound(v)
    BY <1>1 DEF Restart, Abort, Sound, EtcdTypeOK
  <2>2. QED
    BY <1>1, <2>1 DEF Restart
<1>2. ASSUME NEW w \in Lrn, Crash(w) PROVE Still
  BY <1>2 DEF Crash, Sound
<1>3. ASSUME NEW w \in Lrn, Join(w) \/ Leave(w) PROVE Still
  BY <1>3 DEF Join, Leave, Sound
<1>4. CASE NewRound
  <2>1. mine' = mine /\ round'.id = round.id + 1
    BY <1>4 DEF NewRound
  <2>2. \A v \in Lrn : ~Sound(v)'
    BY SMT, <2>1 DEF RoundInv, Sound, EtcdTypeOK
  <2>3. QED
    BY <1>4, <2>2 DEF NewRound
<1>5. CASE SessionExpires \/ UNCHANGED etcdVars
  BY <1>5 DEF SessionExpires, etcdVars, Sound
<1>6. QED
  BY <1>1, <1>2, <1>3, <1>4, <1>5

\* Begin and replaceEtcdFiles leave a barrier of the last step as it is, since
\* the worker is not there before and not after.
LEMMA EarlyUntimed ==
  ASSUME EtcdTypeOK, OwnInv, RoundInv, NEW w \in Lrn,
         Begin(w) \/ replaceEtcdFiles(w)
  PROVE  Untimed
<1>0. /\ pc \in [Lrn -> Places] /\ progress \in [Lrn -> 0 .. 3]
      /\ mine \in [Lrn -> [id : Nat, servers : SUBSET Lrn]]
      /\ round.id \in Nat
  BY DEF EtcdTypeOK
<1>1. /\ round' = round /\ timer' = timer
      /\ \A v \in Lrn : v # w => pc'[v] = pc[v] /\ mine'[v] = mine[v]
                                /\ progress'[v] = progress[v]
      /\ pc'[w] \in {"etcd", "serf"}
  BY <1>0 DEF Begin, replaceEtcdFiles, Report, Goto, roundVars
<1>2. ~(mine[w].id = round.id /\ progress[w] >= 2)
  BY SMT, <1>0 DEF Begin, replaceEtcdFiles, OwnInv, AtWork, Reported
<1>3. progress'[w] \in {0, 1}
  <2>1. CASE Begin(w)
    BY <1>0, <2>1 DEF Begin
  <2>2. CASE replaceEtcdFiles(w)
    BY SMT, <1>0, <2>2 DEF replaceEtcdFiles, Report, OwnInv, AtWork, Reported
  <2>3. QED
    BY <2>1, <2>2
<1>4. ASSUME NEW v \in Lrn, pc'[v] = "last", Sound(v)'
      PROVE  Sound(v) /\ (Barrier(v)' <=> Barrier(v))
  <2>1. /\ v # w /\ mine'[v] = mine[v] /\ mine[v].id = round.id
        /\ progress'[v] = progress[v] /\ pc[v] = "last"
    BY <1>1, <1>4 DEF Sound
  <2>2. progress[v] = 2
    BY <2>1 DEF OwnInv, AtWork, Reported
  <2>3. \A u \in mine[v].servers :
          (mine'[u].id = round.id /\ progress'[u] >= 2) <=>
          (mine[u].id = round.id /\ progress[u] >= 2)
    <3>1. ~(progress'[w] >= 2)
      BY SMT, <1>3
    <3>2. QED
      BY <1>0, <1>1, <1>2, <3>1
  <2>4. QED
    BY <1>1, <1>4, <2>1, <2>2, <2>3 DEF Sound, Barrier
<1>5. QED
  BY <1>1, <1>4 DEF Untimed, Timed

\* A worker comes to the last step: nobody of its request sleeps yet, and if it
\* is the last one, all of them are at time 0.
LEMMA ArriveStep ==
  ASSUME EtcdTypeOK, OwnInv, RoundInv, PassedInv, TimeInv, NEW u \in Lrn,
         replaceSerfFiles(u) \/ RestartSerf(u)
  PROVE  TimeInv' /\ (RestartsApart => RestartsApart')
<1>0. /\ pc \in [Lrn -> Places] /\ progress \in [Lrn -> 0 .. 3]
      /\ mine \in [Lrn -> [id : Nat, servers : SUBSET Lrn]]
      /\ timer \in [Lrn -> Nat] /\ Skew \in Nat /\ MaxDown \in Nat
  BY EtcdAssumption DEF EtcdTypeOK
<1>1. /\ round' = round /\ mine' = mine
      /\ \A v \in Lrn : v # u => pc'[v] = pc[v] /\ timer'[v] = timer[v]
                                /\ progress'[v] = progress[v]
      /\ pc[u] \in {"serf", "restart"} /\ pc'[u] \in {"last", "campaign2"}
  BY <1>0 DEF replaceSerfFiles, RestartSerf, Report, Goto, roundVars
<1>2. progress[u] = 1 /\ u \in mine[u].servers
  BY <1>1 DEF OwnInv, AtWork, Reported
<1>3. timer'[u] = 0
  <2>1. CASE replaceSerfFiles(u)
    BY <1>0, <2>1 DEF replaceSerfFiles
  <2>2. CASE RestartSerf(u)
    BY <2>2 DEF RestartSerf, TimeInv, OwnTime
  <2>3. QED
    BY <2>1, <2>2
<1>4. \A v \in Lrn : Due(v)' = Due(v)
  BY <1>1 DEF Due, Index
<1>5. ASSUME NEW v \in Lrn, pc'[v] \in {"sleep", "down"}
      PROVE  /\ v # u /\ pc'[v] = pc[v] /\ timer'[v] = timer[v]
             /\ Slept(v)' = Slept(v) /\ progress[v] = 3
             /\ mine[u].id = round.id => mine[v].id # round.id
  <2>1. v # u /\ pc'[v] = pc[v] /\ timer'[v] = timer[v]
    BY <1>1, <1>5
  <2>2. progress[v] = 3
    BY <1>5, <2>1 DEF OwnInv, AtWork, Reported
  <2>3. ASSUME mine[u].id = round.id, mine[v].id = round.id PROVE FALSE
    <3>1. u \in round.servers
      BY <1>2, <2>3 DEF RoundInv
    <3>2. progress[u] >= 2
      BY <2>2, <2>3, <3>1 DEF PassedInv
    <3>3. QED
      BY SMT, <1>2, <3>2
  <2>4. QED
    BY <1>4, <2>1, <2>2, <2>3 DEF Slept
<1>6. ASSUME NEW w \in Lrn, pc'[w] = "last", Sound(w)'
      PROVE  /\ mine[w].id = round.id /\ Sound(w)
             /\ mine[u].id = round.id => timer'[w] = 0
             /\ mine[u].id # round.id =>
                  /\ pc[w] = "last" /\ timer'[w] = timer[w]
                  /\ Barrier(w)' <=> Barrier(w)
  <2>1. mine[w].id = round.id /\ Sound(w)
    BY <1>1, <1>6 DEF Sound
  <2>2. CASE w = u
    BY <1>3, <2>1, <2>2
  <2>3. CASE w # u
    <3>1. /\ pc[w] = "last" /\ timer'[w] = timer[w]
          /\ progress[w] = 2 /\ progress'[w] = 2
      BY <1>1, <1>6, <2>3 DEF OwnInv, AtWork, Reported
    <3>2. CASE mine[u].id = round.id
      <4>1. u \in mine[w].servers
        BY <1>2, <2>1, <3>2 DEF RoundInv
      <4>2. ~Barrier(w)
        BY SMT, <1>2, <3>1, <4>1 DEF Barrier
      <4>3. QED
        BY <2>1, <3>1, <3>2, <4>2 DEF TimeInv, OwnTime
    <3>3. CASE mine[u].id # round.id
      <4>1. \A v \in mine[w].servers :
              (mine[v].id = mine[w].id /\ progress'[v] >= 2) <=>
              (mine[v].id = mine[w].id /\ progress[v] >= 2)
        BY <1>0, <1>1, <2>1, <3>3
      <4>2. Barrier(w)' <=> Barrier(w)
        BY <1>1, <3>1, <4>1 DEF Barrier
      <4>3. QED
        BY <2>1, <3>1, <3>3, <4>2
    <3>4. QED
      BY <3>2, <3>3
  <2>4. QED
    BY <2>2, <2>3
<1>7. ASSUME NEW w \in Lrn PROVE OwnTime(w)'
  <2>1. OwnTime(w)
    BY DEF TimeInv
  <2>2. pc'[w] \in {"campaign2", "restart"} => timer'[w] = 0
    BY <1>1, <1>3, <2>1 DEF OwnTime
  <2>3. pc'[w] = "down" => timer'[w] <= MaxDown
    BY <1>5, <2>1 DEF OwnTime
  <2>4. pc'[w] = "last" /\ Sound(w)' /\ ~Barrier(w)' => timer'[w] = 0
    BY <1>6, <2>1 DEF OwnTime
  <2>5. AtLast(w)' => timer'[w] <= Skew
    BY SMT, <1>0, <1>6, <2>1 DEF OwnTime, AtLast
  <2>6. QED
    BY <2>2, <2>3, <2>4, <2>5 DEF OwnTime
<1>8. ASSUME NEW v \in Lrn, NEW w \in Lrn, mine[v].id = mine[w].id
      PROVE  PairTime(v, w)'
  <2>1. PairTime(v, w)
    BY <1>8 DEF TimeInv
  <2>2. ASSUME NEW x \in Lrn, AtLast(x)'
        PROVE  /\ mine[x].id = round.id
               /\ mine[u].id = round.id => timer'[x] = 0
               /\ mine[u].id # round.id => AtLast(x) /\ timer'[x] = timer[x]
    BY <1>6, <2>2 DEF AtLast
  <2>3. AtLast(v)' /\ AtLast(w)' => timer'[v] = timer'[w]
    BY <2>1, <2>2 DEF PairTime
  <2>4. QED
    BY <1>4, <1>5, <1>8, <2>1, <2>2, <2>3 DEF PairTime
<1>9. QED
  BY SMT, <1>1, <1>5, <1>7, <1>8 DEF TimeInv, RestartsApart

\* The types of what PairTime compares.
LEMMA TimeTypes ==
  ASSUME EtcdTypeOK, OwnInv, NEW w \in Lrn
  PROVE  /\ timer[w] \in Nat /\ {Slot, Skew, MaxDown} \subseteq Nat
         /\ AtWork(w) => Due(w) \in Nat /\ Slept(w) \in Int /\ Due(w) > 0
BY SMT, DueType, EtcdAssumption DEF EtcdTypeOK, Slept

\* A worker begins to sleep, at most Skew after the first one.
LEMMA SleepStep ==
  ASSUME EtcdTypeOK, OwnInv, RoundInv, TimeInv, NEW u \in Lrn, RestartEtcd(u)
  PROVE  TimeInv' /\ (RestartsApart => RestartsApart')
<1>0. /\ pc \in [Lrn -> Places] /\ progress \in [Lrn -> 0 .. 3]
      /\ timer \in [Lrn -> Nat] /\ Skew \in Nat /\ MaxDown \in Nat
  BY EtcdAssumption DEF EtcdTypeOK
<1>1. /\ round' = round /\ mine' = mine /\ AtLast(u) /\ pc[u] = "last"
      /\ \A v \in Lrn : v # u => pc'[v] = pc[v] /\ timer'[v] = timer[v]
                                /\ progress'[v] = progress[v]
      /\ pc'[u] = "sleep" /\ timer'[u] = Due(u)
      /\ progress'[u] = progress[u] + 1
  BY <1>0 DEF RestartEtcd, AtLast, Report, Goto, roundVars, Due
<1>2. \A v \in Lrn : Due(v)' = Due(v)
  BY <1>1 DEF Due, Index
<1>3. Due(u) \in Nat /\ Slept(u)' = 0
  BY SMT, <1>1, <1>2, TimeTypes DEF Slept, AtWork
<1>4. ASSUME NEW v \in Lrn, v # u
      PROVE  /\ pc'[v] = pc[v] /\ timer'[v] = timer[v] /\ Slept(v)' = Slept(v)
             /\ pc[v] = "last" /\ Sound(v)' =>
                  Sound(v) /\ (Barrier(v)' <=> Barrier(v))
  <2>1. pc'[v] = pc[v] /\ timer'[v] = timer[v] /\ Slept(v)' = Slept(v)
    BY <1>1, <1>2, <1>4 DEF Slept
  <2>2. ASSUME pc[v] = "last"
        PROVE  Barrier(v)' <=> Barrier(v)
    <3>1. progress[u] = 2 /\ progress'[u] = 3 /\ progress'[v] = progress[v]
          /\ progress[v] = 2
      BY SMT, <1>1, <1>4, <2>2 DEF OwnInv, AtWork, Reported
    <3>2. \A x \in mine[v].servers : x \in Lrn
      BY DEF EtcdTypeOK
    <3>3. \A x \in Lrn : progress'[x] >= 2 <=> progress[x] >= 2
      BY SMT, <1>0, <1>1, <3>1
    <3>4. QED
      BY <1>1, <3>1, <3>2, <3>3 DEF Barrier
  <2>3. QED
    BY <1>1, <2>1, <2>2 DEF Sound
<1>5. ASSUME NEW w \in Lrn PROVE OwnTime(w)'
  <2>1. OwnTime(w)
    BY DEF TimeInv
  <2>2. QED
    BY <1>1, <1>4, <2>1 DEF OwnTime, AtLast
<1>6. ASSUME NEW v \in Lrn, v # u, mine[v].id = mine[u].id
      PROVE  PairTime(v, u)' /\ PairTime(u, v)'
  <2>1. /\ PairTime(v, u) /\ PairTime(u, v) /\ timer[u] <= Skew
        /\ pc[v] = "down" => timer[v] <= MaxDown
    BY <1>1, <1>6 DEF TimeInv, OwnTime
  <2>2. /\ timer[v] \in Nat /\ timer[u] \in Nat
        /\ pc[v] \in {"sleep", "down"} =>
             Due(v) \in Nat /\ Slept(v) \in Int
    BY TimeTypes DEF AtWork
  <2>3. /\ pc[v] = "sleep" => Slept(v) >= 0 /\ Slept(v) <= Skew
        /\ pc[v] = "down" => Due(v) <= Skew
    BY SMT, <1>0, <1>1, <2>1, <2>2 DEF PairTime
  <2>4. ~AtLast(u)'
    BY <1>1 DEF AtLast
  <2>5. PairTime(v, u)'
    BY SMTT(20), <1>0, <1>1, <1>2, <1>3, <1>4, <1>6, <2>1, <2>2, <2>3, <2>4
    DEF PairTime
  <2>6. PairTime(u, v)'
    BY SMT, <1>0, <1>1, <1>2, <1>3, <1>4, <1>6, <2>1, <2>2, <2>3, <2>4
    DEF PairTime
  <2>7. QED
    BY <2>5, <2>6
<1>7. PairTime(u, u)'
  <2>1. ~AtLast(u)' /\ pc'[u] # "down"
    BY <1>1 DEF AtLast
  <2>2. QED
    BY SMT, <1>0, <1>3, <2>1 DEF PairTime
<1>8. ASSUME NEW v \in Lrn, NEW w \in Lrn, v # u, w # u,
             mine[v].id = mine[w].id
      PROVE  PairTime(v, w)'
  <2>1. PairTime(v, w)
    BY <1>8 DEF TimeInv
  <2>2. (AtLast(v)' => AtLast(v)) /\ (AtLast(w)' => AtLast(w))
    BY <1>4, <1>8 DEF AtLast
  <2>3. QED
    BY <1>2, <1>4, <1>8, <2>1, <2>2 DEF PairTime
<1>9. TimeInv'
  BY SMT, <1>1, <1>5, <1>6, <1>7, <1>8 DEF TimeInv
<1>10. QED
  BY SMT, <1>1, <1>4, <1>9 DEF RestartsApart

\* Different places are a slot apart.
LEMMA Spread ==
  ASSUME NEW a \in Nat, NEW b \in Nat, a < b, NEW s \in Nat
  PROVE  s * a + s <= s * b
<1>1. PICK d \in Nat : b = a + 1 + d
  <2>1. b - a - 1 \in Nat /\ b = a + 1 + (b - a - 1)
    BY SMT
  <2>2. QED
    BY <2>1
<1>2. s * b = s * a + s + s * d
  BY SMT, <1>1
<1>3. s * d \in Nat /\ s * a \in Nat
  BY SMT
<1>4. QED
  BY SMT, <1>2, <1>3

\* Two workers of the same request are due a slot apart.
LEMMA DuesApart ==
  ASSUME PlacesApart, EtcdTypeOK, OwnInv, RoundInv,
         NEW v \in Lrn, NEW w \in Lrn, v # w, AtWork(v), AtWork(w),
         mine[v].id = mine[w].id
  PROVE  Due(v) + Slot <= Due(w) \/ Due(w) + Slot <= Due(v)
<1>1. /\ mine[v].servers = mine[w].servers /\ mine[v].servers \in SUBSET Lrn
      /\ v \in mine[v].servers /\ w \in mine[v].servers
  BY DEF RoundInv, EtcdTypeOK, OwnInv
<1>2. Index(v) # Index(w)
  BY <1>1 DEF PlacesApart, Index
<1>3. Index(v) \in Nat /\ Index(w) \in Nat /\ Slot \in Nat
  BY DueType, EtcdAssumption
<1>4. CASE Index(v) < Index(w)
  <2>1. Slot * Index(v) + Slot <= Slot * Index(w)
    BY <1>3, <1>4, Spread
  <2>2. QED
    BY SMT, <1>3, <2>1 DEF Due
<1>5. CASE Index(w) < Index(v)
  <2>1. Slot * Index(w) + Slot <= Slot * Index(v)
    BY <1>3, <1>5, Spread
  <2>2. QED
    BY SMT, <1>3, <2>1 DEF Due
<1>6. QED
  BY SMT, <1>2, <1>3, <1>4, <1>5

\* A worker stops etcd when its sleep is over: nobody else of its request has
\* stopped etcd and not started it again.
LEMMA StopStep ==
  ASSUME PlacesApart, EtcdTypeOK, OwnInv, RoundInv, TimeInv, RestartsApart,
         NEW u \in Lrn, StopService(u)
  PROVE  TimeInv' /\ RestartsApart'
<1>0. /\ pc \in [Lrn -> Places] /\ timer \in [Lrn -> Nat]
      /\ {Slot, Skew, MaxDown, Calm} \subseteq Nat
      /\ Skew + MaxDown + Calm < Slot
  BY EtcdAssumption DEF EtcdTypeOK
<1>1. /\ round' = round /\ mine' = mine /\ progress' = progress
      /\ pc[u] = "sleep" /\ timer[u] = 0
      /\ \A v \in Lrn : v # u => pc'[v] = pc[v] /\ timer'[v] = timer[v]
      /\ pc'[u] = "down" /\ timer'[u] \in 0 .. MaxDown
  BY <1>0 DEF StopService, Goto, roundVars
<1>2. \A v \in Lrn : Due(v)' = Due(v)
  BY <1>1 DEF Due, Index
<1>3. Due(u) \in Nat /\ Slept(u) = Due(u)
  BY SMT, <1>1, TimeTypes DEF Slept, AtWork
<1>4. ASSUME NEW v \in Lrn, v # u
      PROVE  /\ pc'[v] = pc[v] /\ timer'[v] = timer[v] /\ Slept(v)' = Slept(v)
             /\ Sound(v)' <=> Sound(v)
             /\ Barrier(v)' <=> Barrier(v)
             /\ AtLast(v)' <=> AtLast(v)
  BY <1>1, <1>2, <1>4 DEF Slept, Sound, Barrier, AtLast
<1>5. ~AtLast(u)' /\ ~AtLast(u)
  BY <1>1 DEF AtLast
<1>6. ASSUME NEW w \in Lrn PROVE OwnTime(w)'
  <2>1. OwnTime(w)
    BY DEF TimeInv
  <2>2. QED
    BY SMT, <1>0, <1>1, <1>4, <1>5, <2>1 DEF OwnTime
<1>7. ASSUME NEW v \in Lrn, v # u, mine[v].id = mine[u].id
      PROVE  PairTime(u, v)'
  <2>1. PairTime(v, u) /\ PairTime(u, v)
    BY <1>7 DEF TimeInv
  <2>2. /\ timer[v] \in Nat
        /\ pc[v] = "sleep" => Slept(v) \in Int
    BY TimeTypes DEF AtWork
  <2>3. ASSUME pc[v] = "sleep"
        PROVE  /\ Due(u) <= Slept(v) + Skew
               /\ Slept(v) <= Due(u) + MaxDown - timer'[u] + Skew
    BY SMTT(20), <1>0, <1>1, <1>3, <2>1, <2>2, <2>3 DEF PairTime
  <2>4. ASSUME AtLast(v) PROVE Due(u) <= timer[v]
    BY SMT, <1>1, <1>3, <2>1, <2>2, <2>4 DEF PairTime
  <2>5. QED
    BY <1>1, <1>2, <1>4, <1>5, <1>7, <2>3, <2>4 DEF PairTime
<1>8. ASSUME NEW v \in Lrn PROVE PairTime(v, u)'
  BY <1>1, <1>5 DEF PairTime
<1>9. ASSUME NEW v \in Lrn, NEW w \in Lrn, v # u, w # u,
             mine[v].id = mine[w].id
      PROVE  PairTime(v, w)'
  <2>1. PairTime(v, w)
    BY <1>9 DEF TimeInv
  <2>2. QED
    BY <1>2, <1>4, <1>9, <2>1 DEF PairTime
<1>10. TimeInv'
  BY <1>1, <1>6, <1>7, <1>8, <1>9 DEF TimeInv
<1>11. ASSUME NEW v \in Lrn, v # u, pc[v] = "down", mine[v].id = mine[u].id
       PROVE  FALSE
  <2>1. /\ PairTime(v, u) /\ timer[v] \in Nat /\ Due(v) \in Nat
    BY <1>11, TimeTypes DEF TimeInv, AtWork
  <2>2. Due(v) <= Due(u) + Skew /\ Due(u) <= Due(v) + MaxDown + Skew
    BY SMT, <1>0, <1>1, <1>3, <1>11, <2>1 DEF PairTime
  <2>3. Due(v) + Slot <= Due(u) \/ Due(u) + Slot <= Due(v)
    BY <1>1, <1>11, DuesApart DEF AtWork
  <2>4. QED
    BY SMT, <1>0, <1>3, <2>1, <2>2, <2>3
<1>12. RestartsApart'
  BY SMT, <1>1, <1>11 DEF RestartsApart
<1>13. QED
  BY <1>10, <1>12

\* Time passes for all at once.
LEMMA TickStep ==
  ASSUME EtcdTypeOK, OwnInv, TimeInv, Tick
  PROVE  TimeInv' /\ (RestartsApart => RestartsApart')
<1>0. timer \in [Lrn -> Nat] /\ Skew \in Nat /\ MaxDown \in Nat
  BY EtcdAssumption DEF EtcdTypeOK
<1>1. /\ round' = round /\ mine' = mine /\ progress' = progress /\ pc' = pc
  BY DEF Tick, roundVars, workerVars
<1>2. ASSUME NEW w \in Lrn
      PROVE  /\ Due(w)' = Due(w)
             /\ Sound(w)' <=> Sound(w)
             /\ Barrier(w)' <=> Barrier(w)
             /\ AtLast(w)' <=> AtLast(w)
  BY <1>1 DEF Due, Index, Sound, Barrier, AtLast
<1>3. ASSUME NEW w \in Lrn
      PROVE  /\ timer[w] \in Nat
             /\ pc[w] \in {"sleep", "down"} =>
                  timer[w] > 0 /\ timer'[w] = timer[w] - 1
             /\ AtLast(w) => timer[w] < Skew /\ timer'[w] = timer[w] + 1
             /\ pc[w] \in {"campaign2", "restart"} => timer'[w] = timer[w]
             /\ pc[w] = "last" /\ ~AtLast(w) => timer'[w] = timer[w]
  BY <1>0 DEF Tick, Prompt, AtLast
<1>4. ASSUME NEW w \in Lrn, pc[w] = "sleep"
      PROVE  Slept(w)' = Slept(w) + 1 /\ Slept(w) \in Int
  <2>1. Due(w) \in Nat /\ Slept(w) \in Int
    BY <1>4, TimeTypes DEF AtWork
  <2>2. QED
    BY SMT, <1>2, <1>3, <1>4, <2>1 DEF Slept
<1>5. ASSUME NEW w \in Lrn PROVE OwnTime(w)'
  <2>1. OwnTime(w)
    BY DEF TimeInv
  <2>2. QED
    BY SMT, <1>0, <1>1, <1>2, <1>3, <2>1 DEF OwnTime, AtLast
<1>6. ASSUME NEW v \in Lrn, NEW w \in Lrn, mine[v].id = mine[w].id
      PROVE  PairTime(v, w)'
  <2>1. PairTime(v, w)
    BY <1>6 DEF TimeInv
  <2>2. pc[v] = "down" => Due(v) \in Nat
    BY TimeTypes DEF AtWork
  <2>3. QED
    BY SMT, <1>0, <1>1, <1>2, <1>3, <1>4, <2>1, <2>2 DEF PairTime
<1>7. QED
  BY <1>1, <1>5, <1>6 DEF TimeInv, RestartsApart

\* "Since this function is run almost at once on all boot servers, etcd cluster
\* would become unstable without this jitter" (etcd.go, line 222): RestartEtcd
\* has etcd down on one server of a request at a time, for every set of servers
\* whose places differ.
THEOREM RestartsAreApart == PlacesApart => (EtcdSpec => []RestartsApart)
<1>. SUFFICES ASSUME PlacesApart PROVE EtcdSpec => []RestartsApart
  OBVIOUS
<1>. DEFINE Inv == /\ EtcdTypeOK /\ OwnInv /\ RoundInv /\ PassedInv /\ TimeInv
                  /\ RestartsApart
<1>1. EtcdInit => Inv
  <2>1. SUFFICES ASSUME EtcdInit
                 PROVE  RoundInv /\ PassedInv /\ TimeInv /\ RestartsApart
    BY TypeInit
  <2>2. \A w \in Lrn : pc[w] = "idle"
    BY <2>1 DEF EtcdInit
  <2>3. TimeInv /\ RestartsApart
    BY <2>2 DEF TimeInv, OwnTime, PairTime, AtLast, RestartsApart
  <2>4. QED
    BY <2>1, <2>3, RequestsInit
<1>2. Inv /\ [EtcdNext]_etcdVars => Inv'
  <2>1. SUFFICES ASSUME Inv, [EtcdNext]_etcdVars
                 PROVE  TimeInv' /\ RestartsApart'
    BY TypeStep, RoundStep, PassedStep
  <2>2. CASE Untimed
    BY <2>1, <2>2, UntimedStep
  <2>3. CASE Tick
    BY <2>1, <2>3, TickStep
  <2>4. ASSUME NEW w \in Lrn, WorkerStep(w), ~Untimed
        PROVE  TimeInv' /\ RestartsApart'
    BY <2>1, <2>4, WorkerStill, StillUntimed, EarlyUntimed, ArriveStep,
       SleepStep, StopStep
    DEF WorkerStep
  <2>5. QED
    BY <2>1, <2>2, <2>3, <2>4, OtherStill, StillUntimed DEF EtcdNext
<1>3. QED
  BY <1>1, <1>2, PTL DEF EtcdSpec
=============================================================================
