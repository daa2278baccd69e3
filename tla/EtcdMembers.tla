---------------------------- MODULE EtcdMembers ----------------------------
(***************************************************************************)
(* The etcd cluster of the boot servers during updates (worker/etcd.go,    *)
(* worker/serf.go): the elected worker adds its server to the cluster,     *)
(* serf is restarted server by server, and when all steps are done etcd    *)
(* is restarted everywhere, spread over time, and the first server removes *)
(* the members that have left.                                             *)
(* Rounds are those of Workers and Updaters, reduced to what these steps   *)
(* see.  Time is counted where the code sleeps.                            *)
(***************************************************************************)
EXTENDS Integers, Sequences, FiniteSets

CONSTANTS
  Lrn,          \* the numbers of the boot servers
  InitServers,  \* the servers that neco setup has made
  Requests,     \* for which servers the first request may be
  None,         \* nobody is elected
  Slot,         \* etcdRestartTimeout, 60 s
  Calm,         \* the sleep before members are removed, 6 s
  Skew,         \* workers notice within this time that all are at the last step
  MaxDown       \* etcd stops and starts within this time

ASSUME EtcdAssumption ==
  /\ Lrn \subseteq Nat /\ None \notin Lrn
  /\ InitServers \subseteq Lrn /\ InitServers # {}
  /\ Requests \subseteq (SUBSET Lrn) \ {{}}
  /\ {Slot, Calm, Skew, MaxDown} \subseteq Nat
  /\ Skew + MaxDown + Calm < Slot

VARIABLES
  registered,   \* info/bootservers/
  round,        \* the current request: [id, servers, failed]
  members,      \* the etcd members: has the member started and told its name?
  etcd,         \* etcd of each server: absent, stopped or running
  endpoints,    \* the servers in /etc/neco/config.yml of each server
  serf,         \* the servers named by the configuration file of its serf
  leader,       \* the owner of the key leader/worker/
  pc,           \* where the worker of each server is
  mine,         \* the request it works on: [id, servers]
  progress,     \* how many steps it has reported in that round
  timer         \* how long it sleeps, or how late it is

roundVars == <<registered, round>>
clusterVars == <<members, etcd, endpoints>>
workerVars == <<pc, mine, progress>>
etcdVars == <<roundVars, clusterVars, serf, leader, workerVars, timer>>

Places == {"idle", "dead", "etcd", "campaign", "list", "add", "setup", "sync",
           "files", "serf", "campaign2", "restart", "last", "sleep", "down",
           "wait", "calm"}
Elected == {"list", "add", "setup", "sync", "files", "restart"}

Goto(w, place) == pc' = [pc EXCEPT ![w] = place]

----------------------------------------------------------------------------
(* The order of the servers. *)

Digits[n \in Nat] ==
  IF n < 10 THEN <<n>> ELSE Append(Digits[n \div 10], n % 10)

\* etcd returns info/bootservers/<lrn> in the order of the keys' bytes.
KeyLess(a, b) ==
  LET s == Digits[a]
      t == Digits[b]
  IN  \E k \in DOMAIN t :
        /\ \A i \in 1 .. k - 1 : i \in DOMAIN s /\ s[i] = t[i]
        /\ k \in DOMAIN s => s[k] < t[k]

Servers(S) ==
  CHOOSE s \in [1 .. Cardinality(S) -> S] :
    \A j \in DOMAIN s : \A i \in 1 .. j - 1 : KeyLess(s[i], s[j])

\* sort.SearchInts: the binary search, whatever the order of the list.
SearchInts(s, x) ==
  LET search[i, j \in 0 .. Len(s)] ==
        IF i >= j THEN i
        ELSE LET h == (i + j) \div 2
             IN  IF s[h + 1] < x THEN search[h + 1, j] ELSE search[i, h]
  IN  search[0, Len(s)]

\* The place of a server among those of a request.
Place(S, w) == SearchInts(Servers(S), w)

ASSUME PlaceAssumption == \A S \in SUBSET Lrn : \A w \in S : Place(S, w) \in Nat

\* No two servers of a request find the same place.  It is so when their numbers
\* have one digit.
PlacesApart ==
  \A S \in SUBSET Lrn : \A v, w \in S : Place(S, v) = Place(S, w) => v = w

\* Variant: everyone restarts in the first slot.
IndexZero(w) == 0

Index(w) == Place(mine[w].servers, w)

----------------------------------------------------------------------------
(* etcd. *)

Running(w) == w \in DOMAIN members /\ etcd[w] = "running"

HasQuorum ==
  2 * Cardinality({w \in DOMAIN members : Running(w)})
    > Cardinality(DOMAIN members)

Reachable(servers) == HasQuorum /\ \E e \in servers : Running(e)

\* etcd refuses a member whose peer URL it has, and one that would leave too
\* few started members for a quorum.
MayAdd(w) ==
  /\ w \notin DOMAIN members
  /\ LET n == Cardinality(DOMAIN members) + 1
         started == Cardinality({m \in DOMAIN members : members[m]})
     IN  n = 2 \/ 2 * started > n

isMember(w) == w \in DOMAIN members /\ members[w]

----------------------------------------------------------------------------
(* The round around the steps. *)

\* Variant: nobody is waited for.
BarrierOpen(w) == TRUE

\* Every server of the request has come as far as w.
Barrier(w) ==
  \A v \in mine[w].servers :
    mine[v].id = mine[w].id /\ progress[v] >= progress[w]

Sound(w) == mine[w].id = round.id /\ ~round.failed

Begin(w) ==
  /\ pc[w] = "idle"
  /\ w \in round.servers /\ ~round.failed /\ mine[w].id < round.id
  /\ mine' = [mine EXCEPT ![w] = [id |-> round.id, servers |-> round.servers]]
  /\ progress' = [progress EXCEPT ![w] = 0]
  /\ Goto(w, "etcd")
  /\ UNCHANGED <<roundVars, clusterVars, serf, leader, timer>>

Report(w, place) ==
  /\ progress' = [progress EXCEPT ![w] = @ + 1]
  /\ Goto(w, place)
  /\ UNCHANGED mine

Resign(w) == leader' = IF leader = w THEN None ELSE leader

\* A round that is stopped is over for the workers that wait at a barrier.
GiveUp(w) ==
  /\ pc[w] \in {"etcd", "serf", "last"} /\ ~Sound(w)
  /\ Goto(w, "idle")
  /\ UNCHANGED <<roundVars, clusterVars, serf, leader, mine, progress, timer>>

Abort(w) ==
  round' = [round EXCEPT !.failed = @ \/ mine[w].id = round.id]

\* A step returns an error.
StepFails(w) ==
  /\ Goto(w, "idle") /\ Abort(w) /\ Resign(w)
  /\ UNCHANGED <<registered, clusterVars, serf, mine, progress, timer>>

----------------------------------------------------------------------------
(* UpdateEtcd. *)

\* Variant: the leader key is not waited for.
CampaignNot(w, from, to) ==
  /\ pc[w] = from /\ Reachable(endpoints[w])
  /\ leader' = w
  /\ Goto(w, to)
  /\ UNCHANGED <<roundVars, clusterVars, serf, mine, progress, timer>>

Campaign(w, from, to) ==
  /\ pc[w] = from
  /\ leader = None /\ Reachable(endpoints[w])
  /\ leader' = w
  /\ Goto(w, to)
  /\ UNCHANGED <<roundVars, clusterVars, serf, mine, progress, timer>>

UpdateEtcd(w) ==
  /\ pc[w] = "etcd" /\ Sound(w) /\ Barrier(w)
  /\ Goto(w, "campaign")
  /\ UNCHANGED <<roundVars, clusterVars, serf, leader, mine, progress, timer>>

MemberList(w) ==
  /\ pc[w] = "list"
  /\ Reachable(endpoints[w])
  /\ Goto(w, IF isMember(w) THEN "files" ELSE "add")
  /\ UNCHANGED <<roundVars, clusterVars, serf, leader, mine, progress, timer>>

\* addEtcdMember, first half.
MemberAdd(w) ==
  /\ pc[w] = "add"
  /\ Reachable(endpoints[w])
  /\ IF MayAdd(w)
     THEN /\ members' = [m \in DOMAIN members \cup {w} |-> m # w /\ members[m]]
          /\ Goto(w, "setup")
          /\ UNCHANGED <<roundVars, etcd, endpoints, serf, leader, mine,
                         progress, timer>>
     ELSE StepFails(w)

\* etcd.Setup with GenerateConfForAdd, which gives the own name to every
\* member that has none: with two of them etcd does not start.
EtcdSetup(w) ==
  /\ pc[w] = "setup"
  /\ IF \E m \in DOMAIN members \ {w} : ~members[m]
     THEN StepFails(w)
     ELSE /\ etcd' = [etcd EXCEPT ![w] = "running"]
          /\ members' = [members EXCEPT ![w] = TRUE]
          /\ Goto(w, "sync")
          /\ UNCHANGED <<roundVars, endpoints, serf, leader, mine, progress,
                         timer>>

waitEtcdSync(w) ==
  /\ pc[w] = "sync"
  /\ HasQuorum
  /\ Goto(w, "files")
  /\ UNCHANGED <<roundVars, clusterVars, serf, leader, mine, progress, timer>>

replaceEtcdFiles(w) ==
  /\ pc[w] = "files"
  /\ endpoints' = [endpoints EXCEPT ![w] = mine[w].servers]
  /\ Resign(w)
  /\ Report(w, "serf")
  /\ UNCHANGED <<roundVars, members, etcd, serf, timer>>

----------------------------------------------------------------------------
(* UpdateSerf. *)

\* Nothing to restart when the files are as they were.
replaceSerfFiles(w) ==
  /\ pc[w] = "serf" /\ Sound(w) /\ Barrier(w)
  /\ IF serf[w] = mine[w].servers
     THEN Report(w, "last")
     ELSE Goto(w, "campaign2") /\ UNCHANGED <<mine, progress>>
  /\ serf' = [serf EXCEPT ![w] = mine[w].servers]
  /\ timer' = [timer EXCEPT ![w] = 0]
  /\ UNCHANGED <<roundVars, clusterVars, leader>>

RestartSerf(w) ==
  /\ pc[w] = "restart"
  /\ Resign(w)
  /\ Report(w, "last")
  /\ UNCHANGED <<roundVars, clusterVars, serf, timer>>

----------------------------------------------------------------------------
(* RestartEtcd. *)

AtLast(w) == pc[w] = "last" /\ Sound(w) /\ Barrier(w)

\* The last step does nothing; the worker reports completion and sleeps.
RestartEtcd(w) ==
  /\ AtLast(w)
  /\ Report(w, "sleep")
  /\ timer' = [timer EXCEPT ![w] = Slot * Index(w) + 1]
  /\ UNCHANGED <<roundVars, clusterVars, serf, leader>>

StopService(w) ==
  /\ pc[w] = "sleep" /\ timer[w] = 0
  /\ etcd' = [etcd EXCEPT ![w] = "stopped"]
  /\ \E d \in 0 .. MaxDown : timer' = [timer EXCEPT ![w] = d]
  /\ Goto(w, "down")
  /\ UNCHANGED <<roundVars, members, endpoints, serf, leader, mine, progress>>

StartService(w) ==
  /\ pc[w] = "down" /\ timer[w] = 0
  /\ etcd' = [etcd EXCEPT ![w] = "running"]
  /\ Goto(w, "wait")
  /\ UNCHANGED <<roundVars, members, endpoints, serf, leader, mine, progress,
                 timer>>

\* The worker waits for etcd for a time that is longer than etcd is down anywhere,
\* unless a worker was killed.
Answered == HasQuorum \/ \E v \in Lrn : pc[v] = "dead"

\* It ends by os.Exit(3), after an error too, and systemd starts it again.
WaitEtcd(w) ==
  /\ pc[w] = "wait"
  /\ Answered
  /\ IF HasQuorum /\ Index(w) = 0
     THEN Goto(w, "calm") /\ timer' = [timer EXCEPT ![w] = Calm]
     ELSE Goto(w, "idle") /\ UNCHANGED timer
  /\ UNCHANGED <<roundVars, clusterVars, serf, leader, mine, progress>>

\* Variant: a member that has started is kept.
ToRemoveUnnamed(w) == {m \in DOMAIN members : ~members[m]}

\* removeEtcdMembers: the ones without a name, and the ones not asked for.
ToRemove(w) ==
  {m \in DOMAIN members : ~members[m] \/ m \notin mine[w].servers}

\* etcd ends on a server that is removed.
removeEtcdMembers(w) ==
  /\ pc[w] = "calm" /\ timer[w] = 0
  /\ Answered
  /\ IF HasQuorum
     THEN /\ members' = [m \in DOMAIN members \ ToRemove(w) |-> members[m]]
          /\ etcd' = [v \in Lrn |-> IF v \in ToRemove(w) /\ etcd[v] = "running"
                                    THEN "stopped" ELSE etcd[v]]
     ELSE UNCHANGED <<members, etcd>>
  /\ Goto(w, "idle")
  /\ UNCHANGED <<roundVars, endpoints, serf, leader, mine, progress, timer>>

----------------------------------------------------------------------------
WorkerStep(w) ==
  \/ Begin(w) \/ GiveUp(w) \/ UpdateEtcd(w)
  \/ Campaign(w, "campaign", "list") \/ MemberList(w) \/ MemberAdd(w)
  \/ EtcdSetup(w) \/ waitEtcdSync(w) \/ replaceEtcdFiles(w)
  \/ replaceSerfFiles(w) \/ Campaign(w, "campaign2", "restart")
  \/ RestartSerf(w) \/ RestartEtcd(w) \/ StopService(w) \/ StartService(w)
  \/ WaitEtcd(w) \/ removeEtcdMembers(w)

\* Nobody is late: what is due has been done.
Prompt ==
  \A w \in Lrn :
    /\ pc[w] \in {"sleep", "down"} => timer[w] > 0
    /\ pc[w] \in {"wait", "calm"} /\ HasQuorum => timer[w] > 0
    /\ AtLast(w) => timer[w] < Skew

Tick ==
  /\ Prompt
  /\ \E w \in Lrn : pc[w] \in {"sleep", "down", "calm"} \/ AtLast(w)
  /\ timer' = [w \in Lrn |->
       IF pc[w] \in {"sleep", "down", "calm"} /\ timer[w] > 0
       THEN timer[w] - 1
       ELSE IF AtLast(w) THEN timer[w] + 1 ELSE timer[w]]
  /\ UNCHANGED <<roundVars, clusterVars, serf, leader, workerVars>>

\* The worker is killed.  In etcd.Setup the unit file may have been written.
Crash(w) ==
  /\ pc[w] \notin {"idle", "dead"}
  /\ Goto(w, "dead")
  /\ \/ UNCHANGED etcd
     \/ pc[w] = "setup" /\ etcd' = [etcd EXCEPT ![w] = "stopped"]
  /\ UNCHANGED <<roundVars, members, endpoints, serf, leader, mine, progress,
                 timer>>

\* It starts again: StartServices starts etcd where it is installed, and the
\* worker aborts a round that it has begun and not completed.
Restart(w) ==
  /\ pc[w] = "dead"
  /\ Goto(w, "idle")
  /\ IF etcd[w] = "stopped" /\ w \in DOMAIN members
     THEN /\ etcd' = [etcd EXCEPT ![w] = "running"]
          /\ members' = [members EXCEPT ![w] = TRUE]
     ELSE UNCHANGED <<etcd, members>>
  /\ IF progress[w] < 3 THEN Abort(w) ELSE UNCHANGED round
  /\ UNCHANGED <<registered, endpoints, serf, leader, mine, progress, timer>>

\* The session of a worker that was killed expires.
SessionExpires ==
  /\ leader # None /\ pc[leader] \notin Elected
  /\ leader' = None
  /\ UNCHANGED <<roundVars, clusterVars, serf, workerVars, timer>>

----------------------------------------------------------------------------
(* neco join, neco leave, and the updater. *)

Join(w) ==
  /\ w \notin registered
  /\ registered' = registered \cup {w}
  /\ endpoints' = [endpoints EXCEPT ![w] = registered]
  /\ UNCHANGED <<round, members, etcd, serf, leader, workerVars, timer>>

Leave(w) ==
  /\ w \in registered /\ registered # {w}
  /\ registered' = registered \ {w}
  /\ UNCHANGED <<round, clusterVars, serf, leader, workerVars, timer>>

Completed ==
  \A w \in round.servers : mine[w].id = round.id /\ progress[w] = 3

\* A request for other servers or another version, or one after a recovery.
NewRound ==
  /\ round.failed \/ Completed
  /\ round' = [id |-> round.id + 1, servers |-> registered, failed |-> FALSE]
  /\ UNCHANGED <<registered, clusterVars, serf, leader, workerVars, timer>>

EtcdInit ==
  /\ registered \in Requests
  /\ round = [id |-> 1, servers |-> registered, failed |-> FALSE]
  /\ members = [w \in InitServers |-> TRUE]
  /\ etcd = [w \in Lrn |-> IF w \in InitServers THEN "running" ELSE "absent"]
  /\ endpoints = [w \in Lrn |->
       IF w \in InitServers \cup registered THEN InitServers ELSE {}]
  /\ serf = [w \in Lrn |-> IF w \in InitServers THEN InitServers ELSE {}]
  /\ leader = None
  /\ pc = [w \in Lrn |-> "idle"]
  /\ mine = [w \in Lrn |-> [id |-> 0, servers |-> {}]]
  /\ progress = [w \in Lrn |-> 3]
  /\ timer = [w \in Lrn |-> 0]

EtcdNext ==
  \/ \E w \in Lrn :
       WorkerStep(w) \/ Restart(w) \/ Crash(w) \/ Join(w) \/ Leave(w)
  \/ SessionExpires \/ Tick \/ NewRound

EtcdSpec == EtcdInit /\ [][EtcdNext]_etcdVars

----------------------------------------------------------------------------
\* The types of the variables; and who works on etcd's members or restarts
\* serf owns the leader key, so that it is alone.
EtcdTypeOK ==
  /\ registered \subseteq Lrn
  /\ round \in [id : Nat, servers : SUBSET Lrn, failed : BOOLEAN]
  /\ DOMAIN members \subseteq Lrn /\ members \in [DOMAIN members -> BOOLEAN]
  /\ etcd \in [Lrn -> {"absent", "stopped", "running"}]
  /\ endpoints \in [Lrn -> SUBSET Lrn] /\ serf \in [Lrn -> SUBSET Lrn]
  /\ leader \in Lrn \cup {None}
  /\ pc \in [Lrn -> Places] /\ progress \in [Lrn -> 0 .. 3]
  /\ mine \in [Lrn -> [id : Nat, servers : SUBSET Lrn]]
  /\ timer \in [Lrn -> Nat]
  /\ \A w \in Lrn : pc[w] \in Elected => leader = w

\* "Since this function is run almost at once on all boot servers, etcd cluster
\* would become unstable without this jitter" (etcd.go, line 222): RestartEtcd
\* never has etcd down on two servers of a request at once.
RestartsApart ==
  \A v, w \in Lrn :
    pc[v] = "down" /\ pc[w] = "down" /\ mine[v].id = mine[w].id => v = w

\* removeEtcdMembers goes by a request that was completed some time ago, while
\* the next one may be under way: it never removes a member that UpdateEtcd has
\* found or made in the current request, unless the server that removes it has
\* itself left before its worker was done.
RemovesOnlyLeft ==
  [][\A m \in DOMAIN members \ DOMAIN members' :
       \/ ~(mine[m].id = round.id /\ m \in round.servers /\ progress[m] > 0)
       \/ \E w \in Lrn \ round.servers :
            pc[w] = "calm" /\ pc'[w] = "idle"]_etcdVars

\* A registered server whose worker was killed after MemberAdd and before the
\* unit of etcd was written: etcd refuses to add it again.
Stuck == \E w \in registered \cap DOMAIN members : ~members[w]

\* After the last request the members of etcd are the registered servers, whoever
\* joined, left or was killed in the requests before (UpdateEtcd, RestartEtcd),
\* unless one is stuck.  It takes that the servers change once per request.
MembersConverge ==
  <>[](Stuck \/ members = [w \in registered |-> TRUE])
=============================================================================
