------------------------------- MODULE Setup --------------------------------
(***************************************************************************)
(* "neco setup", run at once on all boot servers (setup/setup.go,          *)
(* setup/vault.go): certificates from a temporary Vault of the leader, the *)
(* etcd cluster, the real Vault, two rounds of "everybody has finished     *)
(* this stage", and the leader's first update request.  "neco join" adds a *)
(* server later and "neco leave" takes one out.                            *)
(*                                                                         *)
(* Time is counted in ticks of half a second, and only where the code      *)
(* measures it: between two GetFinished calls, in the sleep before etcd is *)
(* restarted, between two retries.  Every other step takes as long as it   *)
(* takes.  A due GetFinished is called before the next tick.               *)
(***************************************************************************)
EXTENDS Integers, FiniteSets

CONSTANTS
    Server,         \* the LRNs given to "neco setup"
    Leader,         \* the lowest of them
    Newcomer,       \* servers that run "neco join" later
    PollInterval,   \* ticks between two GetFinished calls (500 ms)
    Settle,         \* ticks slept before etcd is restarted (1 s)
    RetryInterval,  \* ticks slept after GetFinished failed (10 s)
    MaxRetries,     \* failures of GetFinished survived after the restart (10)
    Outage,         \* the longest restart of etcd, in ticks
    LowVersion      \* whether etcd may report a version below 3.1.0

ASSUME SetupAssumption ==
    /\ Leader \in Server
    /\ Newcomer \cap Server = {}
    /\ {PollInterval, Settle, RetryInterval, Outage} \subseteq Nat \ {0}
    /\ MaxRetries \in Nat
    /\ PollInterval < Settle
    /\ LowVersion \in BOOLEAN
    /\ "ready" \notin Server

VARIABLES
    pc,        \* where each server is in Setup or Join
    timer,     \* ticks before its next timed call
    retries,   \* nRetries of the second loop
    failed,    \* the servers whose command returned an error
    broken,    \* those of them for which a call failed by itself
    devVault,  \* whether the leader's temporary Vault runs
    bootstrap, \* the keys under secret/ in it: "ready" and the servers done
    certs,     \* the certificates on disk of each server
    members,   \* the servers whose etcd has been started
    outage,    \* ticks until the etcd of a server answers again
    client,    \* the user the etcd client of a server connects as
    unsealed,  \* the servers whose Vault is unsealed
    token,     \* the root token: "none", "stored" or "revoked"
    unsealKey, \* whether the unseal key is stored
    finished,  \* finish/<lrn> in etcd, -1 when absent
    registered,\* bootservers/<lrn>
    request,   \* whether the first update request is stored
    auth,      \* whether etcd asks for authorization
    services   \* the servers whose neco-worker and neco-updater run

clock == <<timer, retries>>
ends == <<failed, broken, devVault>>
ca == <<bootstrap, certs>>
etcd == <<members, outage, client>>
vault == <<unsealed, token, unsealKey>>
keys == <<finished, registered, request, auth, services>>

svars == <<pc, clock, ends, ca, etcd, vault, keys>>

Host == Server \cup Newcomer

(***************************************************************************)
(* The places of a server.  Several early ones differ for the leader.      *)
(***************************************************************************)
Preparing == {"install", "createCA", "localCerts", "issue", "sync", "etcd",
              "waitEtcd", "waitVault", "vault", "boot", "putKey", "unseal",
              "token", "reissue", "backup", "neco", "register", "finish0"}
Restarting == {"waitEtcd2", "vault2", "unseal2", "vaultLeader", "finish1"}
Released == {"request", "revoke", "auth", "start", "done"}
Joining == {"join", "joinStart", "joinRegister", "joined", "left"}
Places == Preparing \cup Restarting \cup Released \cup Joining
            \cup {"poll0", "settle", "poll1"}

At(b, p) == pc[b] = p /\ b \notin failed
Goto(b, p) == pc' = [pc EXCEPT ![b] = p]

\* A command that returns an error; the leader's temporary Vault is stopped
\* by a deferred call.
Return(b) ==
    /\ failed' = failed \cup {b}
    /\ devVault' = (devVault /\ b # Leader)
    /\ UNCHANGED broken

Up == {b \in members : outage[b] = 0}
Quorum == 2 * Cardinality(Up) > Cardinality(Server)

(***************************************************************************)
(* Certificates from the temporary Vault (prepareCA).                      *)
(***************************************************************************)
Install(b) ==
    /\ At(b, "install")
    /\ Goto(b, IF b = Leader THEN "createCA" ELSE "localCerts")
    /\ devVault' = (devVault \/ b = Leader)
    /\ UNCHANGED <<failed, broken, clock, ca, etcd, vault, keys>>

createCA(b) ==
    /\ At(b, "createCA")
    /\ Goto(b, "localCerts")
    /\ bootstrap' = {"ready"}
    /\ UNCHANGED <<certs, clock, ends, etcd, vault, keys>>

\* Reading secret/bootstrap is repeated until it succeeds.
ReadBootstrap(b) ==
    /\ At(b, "localCerts")
    /\ devVault /\ "ready" \in bootstrap
    /\ Goto(b, "issue")
    /\ UNCHANGED <<clock, ends, ca, etcd, vault, keys>>

\* Issuing the three certificates and writing bootstrap_done/<lrn> is not.
setupLocalCerts(b) ==
    /\ At(b, "issue")
    /\ IF devVault
       THEN /\ certs' = [certs EXCEPT ![b] = "bootstrap"]
            /\ bootstrap' = bootstrap \cup {b}
            /\ Goto(b, IF b = Leader THEN "sync" ELSE "etcd")
            /\ UNCHANGED ends
       ELSE Return(b) /\ UNCHANGED <<certs, bootstrap, pc>>
    /\ UNCHANGED <<clock, etcd, vault, keys>>

\* AllDone with the wait for the others left out.
AllDoneHere == Leader \in bootstrap

AllDone == Server \subseteq bootstrap

\* The leader waits for the key of every server, then its Vault is stopped.
prepareCA(b) ==
    /\ At(b, "sync")
    /\ AllDone
    /\ devVault' = FALSE
    /\ Goto(b, "etcd")
    /\ UNCHANGED <<failed, broken, clock, ca, etcd, vault, keys>>

(***************************************************************************)
(* etcd.                                                                   *)
(***************************************************************************)
EtcdSetup(b) ==
    /\ At(b, "etcd")
    /\ members' = members \cup {b}
    /\ Goto(b, "waitEtcd")
    /\ UNCHANGED <<outage, client, clock, ends, ca, vault, keys>>

\* Clients with the certificate that is there from the beginning.
ClientsFirst(b) == {"vault"}

\* etcdClient: the certificate of "neco" once it is there, else the one of
\* Vault.  When the version is too low, tryWait returns neither a client nor
\* an error, and the first use of the client is a nil dereference.
Clients(b) ==
    {IF certs[b] = "neco" THEN "neco" ELSE "vault"}
        \cup (IF LowVersion THEN {"nil"} ELSE {})

WaitEtcdForVault(b) ==
    /\ At(b, "waitEtcd") \/ At(b, "waitEtcd2")
    /\ Quorum /\ b \in Up
    /\ \E c \in Clients(b) :
        /\ client' = [client EXCEPT ![b] = c]
        /\ IF c = "nil"
           THEN Return(b) /\ UNCHANGED pc
           ELSE /\ Goto(b, IF pc[b] = "waitEtcd2" THEN "vault2"
                           ELSE IF b = Leader THEN "vault" ELSE "waitVault")
                /\ UNCHANGED ends
    /\ UNCHANGED <<members, outage, clock, ca, vault, keys>>

(***************************************************************************)
(* Vault.  The leader stores the root token before the unseal key the      *)
(* others wait for.                                                        *)
(***************************************************************************)
setupVault(b) ==
    /\ At(b, "vault")
    /\ Goto(b, IF b = Leader THEN "boot" ELSE "unseal")
    /\ UNCHANGED <<clock, ends, ca, etcd, vault, keys>>

bootVault(b) ==
    /\ \/ /\ At(b, "boot")
          /\ unsealed' = unsealed \cup {b}
          /\ token' = "stored"
          /\ Goto(b, "putKey")
          /\ UNCHANGED unsealKey
       \/ /\ At(b, "putKey")
          /\ unsealKey' = TRUE
          /\ Goto(b, "token")
          /\ UNCHANGED <<unsealed, token>>
    /\ UNCHANGED <<clock, ends, ca, etcd, keys>>

waitVault(b) ==
    /\ At(b, "waitVault")
    /\ unsealKey
    /\ Goto(b, "vault")
    /\ UNCHANGED <<clock, ends, ca, etcd, vault, keys>>

Unseal(b) ==
    /\ At(b, "unseal")
    /\ unsealed' = unsealed \cup {b}
    /\ Goto(b, "token")
    /\ UNCHANGED <<token, unsealKey, clock, ends, ca, etcd, keys>>

GetVaultRootToken(b) ==
    /\ At(b, "token")
    /\ IF token = "stored"
       THEN Goto(b, "reissue") /\ UNCHANGED ends
       ELSE Return(b) /\ UNCHANGED pc
    /\ UNCHANGED <<clock, ca, etcd, vault, keys>>

(***************************************************************************)
(* Long-lived certificates, the etcd backup timer and the files of neco.   *)
(* Each asks the server's own Vault for a certificate.                     *)
(***************************************************************************)
Issue(b, kind, next) ==
    /\ IF token = "stored" /\ b \in unsealed
       THEN /\ certs' = [certs EXCEPT ![b] = kind]
            /\ Goto(b, next)
            /\ UNCHANGED ends
       ELSE Return(b) /\ UNCHANGED <<certs, pc>>
    /\ UNCHANGED <<bootstrap, clock, etcd, vault, keys>>

reissueCerts(b) == At(b, "reissue") /\ Issue(b, "long", "backup")

\* The certificate is for the backup timer, and nobody else uses it.
setupEtcdBackup(b) == At(b, "backup") /\ Issue(b, certs[b], "neco")

setupNecoFiles(b) == At(b, "neco") /\ Issue(b, "neco", "register")

RegisterBootserver(b) ==
    /\ At(b, "register")
    /\ registered' = registered \cup {b}
    /\ Goto(b, "finish0")
    /\ UNCHANGED <<finished, request, auth, services, clock, ends, ca, etcd, vault>>

(***************************************************************************)
(* The two stages.  One key per server holds the stage it has finished, so *)
(* finishing the second stage ends the first in the eyes of the others.    *)
(***************************************************************************)
Stage(p) == IF p = "finish0" THEN 0 ELSE 1

Finish(b) ==
    /\ At(b, "finish0") \/ At(b, "finish1")
    /\ finished' = [finished EXCEPT ![b] = Stage(pc[b])]
    /\ Goto(b, IF pc[b] = "finish0" THEN "poll0" ELSE "poll1")
    /\ timer' = [timer EXCEPT ![b] = 0]
    /\ UNCHANGED <<retries, registered, request, auth, services, ends, ca, etcd, vault>>

\* GetFinished that does not compare the stage.
GetFinishedAny(stage) == {b \in Server : finished[b] >= 0}

GetFinished(stage) == {b \in Server : finished[b] = stage}

\* A member that is away moves the leadership of etcd, and a request in
\* flight fails; without a majority every request does.
Answers(b) ==
    {ok \in BOOLEAN : IF ok THEN Quorum /\ b \in Up
                            ELSE \E m \in members : outage[m] > 0}

\* SettleDown without the sleep.
SettleDownNot(b) == Goto(b, "settle") /\ timer' = [timer EXCEPT ![b] = 0]

SettleDown(b) == Goto(b, "settle") /\ timer' = [timer EXCEPT ![b] = Settle]

AskAgain(b) == timer' = [timer EXCEPT ![b] = PollInterval] /\ UNCHANGED pc

\* The first loop returns on an error.
WaitFinished(b) ==
    /\ At(b, "poll0") /\ timer[b] = 0
    /\ \E ok \in Answers(b) :
        IF ok
        THEN /\ IF GetFinished(0) = Server THEN SettleDown(b) ELSE AskAgain(b)
             /\ UNCHANGED ends
        ELSE Return(b) /\ UNCHANGED <<pc, timer>>
    /\ UNCHANGED <<retries, ca, etcd, vault, keys>>

\* RestartEtcd that does not wait for the sleep to end.
RestartEtcdAtOnce(b) ==
    /\ At(b, "settle")
    /\ \E d \in 1 .. Outage : outage' = [outage EXCEPT ![b] = d]
    /\ Goto(b, "waitEtcd2")
    /\ UNCHANGED <<members, client, clock, ends, ca, vault, keys>>

RestartEtcd(b) ==
    /\ At(b, "settle") /\ timer[b] = 0
    /\ \E d \in 1 .. Outage : outage' = [outage EXCEPT ![b] = d]
    /\ Goto(b, "waitEtcd2")
    /\ UNCHANGED <<members, client, clock, ends, ca, vault, keys>>

RestartVault(b) ==
    /\ At(b, "vault2")
    /\ unsealed' = unsealed \ {b}
    /\ Goto(b, "unseal2")
    /\ UNCHANGED <<token, unsealKey, clock, ends, ca, etcd, keys>>

\* The unit runs "neco vault unseal" after the start, which does nothing before
\* the files of neco are there, and nothing without the key in etcd.
VaultUnseal(b) ==
    /\ At(b, "unseal2")
    /\ Quorum
    /\ unsealed' = IF certs[b] = "neco" /\ unsealKey THEN unsealed \cup {b}
                   ELSE unsealed
    /\ Goto(b, "vaultLeader")
    /\ UNCHANGED <<token, unsealKey, clock, ends, ca, etcd, keys>>

\* A hundred tries to list the authentication methods with the root token.
WaitVaultLeader(b) ==
    /\ At(b, "vaultLeader")
    /\ IF token = "stored" /\ b \in unsealed
       THEN Goto(b, "finish1") /\ UNCHANGED ends
       ELSE Return(b) /\ UNCHANGED pc
    /\ UNCHANGED <<clock, ca, etcd, vault, keys>>

\* The second loop survives MaxRetries errors.  Once etcd asks for
\* authorization, the user "vault" may not read these keys.
WaitRestarted(b) ==
    /\ At(b, "poll1") /\ timer[b] = 0
    /\ \E ok \in Answers(b) :
        IF ok /\ ~(auth /\ client[b] = "vault")
        THEN /\ IF GetFinished(1) = Server
                THEN /\ Goto(b, IF b = Leader THEN "request" ELSE "start")
                     /\ UNCHANGED timer
                ELSE AskAgain(b)
             /\ UNCHANGED <<retries, ends>>
        ELSE /\ IF retries[b] < MaxRetries
                THEN /\ retries' = [retries EXCEPT ![b] = @ + 1]
                     /\ timer' = [timer EXCEPT ![b] = RetryInterval]
                     /\ UNCHANGED ends
                ELSE Return(b) /\ UNCHANGED clock
             /\ UNCHANGED pc
    /\ UNCHANGED <<ca, etcd, vault, keys>>

(***************************************************************************)
(* The leader's last writes: the release, the proxy and the first update   *)
(* request, on condition that the unseal key exists; the root token        *)
(* revoked unless --no-revoke is given; the users of etcd.                 *)
(***************************************************************************)
PutRequest(b) ==
    /\ At(b, "request")
    /\ IF unsealKey
       THEN /\ request' = TRUE
            /\ \E revoke \in BOOLEAN : Goto(b, IF revoke THEN "revoke" ELSE "auth")
            /\ UNCHANGED ends
       ELSE Return(b) /\ UNCHANGED <<request, pc>>
    /\ UNCHANGED <<finished, registered, auth, services, clock, ca, etcd, vault>>

revokeRootToken(b) ==
    /\ At(b, "revoke")
    /\ token' = "revoked"
    /\ Goto(b, "auth")
    /\ UNCHANGED <<unsealed, unsealKey, clock, ends, ca, etcd, keys>>

enableEtcdAuth(b) ==
    /\ At(b, "auth")
    /\ auth' = TRUE
    /\ Goto(b, "start")
    /\ UNCHANGED <<finished, registered, request, services, clock, ends, ca,
                   etcd, vault>>

StartServices(b) ==
    /\ At(b, "start")
    /\ services' = services \cup {b}
    /\ Goto(b, "done")
    /\ UNCHANGED <<finished, registered, request, auth, clock, ends, ca, etcd,
                   vault>>

(***************************************************************************)
(* "neco join": certificates with the token of a human, the daemons, and   *)
(* the registration last.  "neco leave" removes the registration.          *)
(***************************************************************************)
Join(b) ==
    \/ /\ At(b, "join")
       /\ unsealed # {} /\ auth
       /\ certs' = [certs EXCEPT ![b] = "neco"]
       /\ Goto(b, "joinStart")
       /\ UNCHANGED <<bootstrap, clock, ends, etcd, vault, keys>>
    \/ /\ At(b, "joinStart")
       /\ services' = services \cup {b}
       /\ Goto(b, "joinRegister")
       /\ UNCHANGED <<finished, registered, request, auth, clock, ends, ca,
                      etcd, vault>>
    \/ /\ At(b, "joinRegister")
       /\ registered' = registered \cup {b}
       /\ Goto(b, "joined")
       /\ UNCHANGED <<finished, request, auth, services, clock, ends, ca, etcd,
                      vault>>

Leave(b) ==
    /\ At(b, "joined")
    /\ registered' = registered \ {b}
    /\ Goto(b, "left")
    /\ UNCHANGED <<finished, request, auth, services, clock, ends, ca, etcd,
                   vault>>

(***************************************************************************)
(* Time, and calls that fail by themselves.                                *)
(***************************************************************************)
Minus1(n) == IF n = 0 THEN 0 ELSE n - 1

\* A due GetFinished is not put off to the next tick.
Due(b) == (At(b, "poll0") \/ At(b, "poll1")) /\ timer[b] = 0

Tick ==
    /\ \A b \in Server : ~Due(b)
    /\ \E b \in Server : timer[b] > 0 \/ outage[b] > 0
    /\ timer' = [b \in Server |-> Minus1(timer[b])]
    /\ outage' = [b \in Server |-> Minus1(outage[b])]
    /\ UNCHANGED <<pc, retries, members, client, ends, ca, vault, keys>>

Breaks(b) ==
    /\ pc[b] \notin {"done", "joined", "left"} /\ b \notin failed
    /\ failed' = failed \cup {b}
    /\ broken' = broken \cup {b}
    /\ devVault' = (devVault /\ b # Leader)
    /\ UNCHANGED <<pc, clock, ca, etcd, vault, keys>>

(***************************************************************************)
(* The specification.                                                      *)
(***************************************************************************)
SetupInit ==
    /\ pc = [b \in Host |-> IF b \in Server THEN "install" ELSE "join"]
    /\ timer = [b \in Server |-> 0]
    /\ retries = [b \in Server |-> 0]
    /\ failed = {} /\ broken = {}
    /\ devVault = FALSE /\ bootstrap = {}
    /\ certs = [b \in Host |-> "none"]
    /\ members = {}
    /\ outage = [b \in Server |-> 0]
    /\ client = [b \in Server |-> "none"]
    /\ unsealed = {} /\ token = "none" /\ unsealKey = FALSE
    /\ finished = [b \in Server |-> -1]
    /\ registered = {} /\ services = {}
    /\ request = FALSE /\ auth = FALSE

SetupStep(b) ==
    \/ Install(b) \/ createCA(b) \/ ReadBootstrap(b) \/ setupLocalCerts(b)
    \/ prepareCA(b) \/ EtcdSetup(b) \/ WaitEtcdForVault(b)
    \/ setupVault(b) \/ bootVault(b) \/ waitVault(b) \/ Unseal(b)
    \/ GetVaultRootToken(b) \/ reissueCerts(b) \/ setupEtcdBackup(b)
    \/ setupNecoFiles(b) \/ RegisterBootserver(b)
    \/ Finish(b) \/ WaitFinished(b) \/ RestartEtcd(b) \/ RestartVault(b)
    \/ VaultUnseal(b) \/ WaitVaultLeader(b) \/ WaitRestarted(b) \/ PutRequest(b)
    \/ revokeRootToken(b) \/ enableEtcdAuth(b) \/ StartServices(b)

SetupNext ==
    \/ \E b \in Server : SetupStep(b)
    \/ \E b \in Newcomer : Join(b) \/ Leave(b)
    \/ \E b \in Host : Breaks(b)
    \/ Tick

SetupSpec == SetupInit /\ [][SetupNext]_svars

(***************************************************************************)
(* Properties.                                                             *)
(***************************************************************************)
\* The types of the variables of Setup.
SetupTypeOK ==
    /\ pc \in [Host -> Places]
    /\ timer \in [Server -> Nat] /\ retries \in [Server -> 0 .. MaxRetries]
    /\ broken \subseteq failed /\ failed \subseteq Host
    /\ devVault \in BOOLEAN /\ bootstrap \subseteq Server \cup {"ready"}
    /\ certs \in [Host -> {"none", "bootstrap", "long", "neco"}]
    /\ members \subseteq Server /\ outage \in [Server -> 0 .. Outage]
    /\ client \in [Server -> {"none", "vault", "neco", "nil"}]
    /\ unsealed \subseteq Server
    /\ token \in {"none", "stored", "revoked"} /\ unsealKey \in BOOLEAN
    /\ finished \in [Server -> {-1, 0, 1}]
    /\ registered \subseteq Host /\ services \subseteq Host
    /\ request \in BOOLEAN /\ auth \in BOOLEAN

\* The sleep of one second before the restart (setup.go, line 166) is what it
\* is for: no etcd is restarted while a server is still in the first loop,
\* where a failed GetFinished ends the command.
UndisturbedPolling ==
    \A b, c \in Server : outage[b] > 0 => ~At(c, "poll0") /\ pc[c] \notin Preparing

\* Servers that run "neco setup" together do not fail each other: unless a
\* call fails by itself, no command returns an error.  The temporary Vault is
\* there as long as somebody needs it, the root token is stored before the
\* key the others wait for and revoked after its last use, and the last
\* GetFinished is allowed by the etcd that by then asks for authorization.
NobodyFails == failed # {} => broken # {}

\* The first update request is stored only when every server has restarted
\* its etcd with its long-lived certificates and is registered, so that the
\* workers the request addresses can all act on it.
RequestAfterAll ==
    request => \A b \in Server : /\ finished[b] = 1 /\ outage[b] = 0
                                 /\ certs[b] = "neco"
                                 /\ b \in registered

\* Unless a call fails by itself, "neco setup" ends on every server, with its
\* daemons started.
SetupCompletes == <>(broken # {} \/ Server \subseteq services)

(***************************************************************************)
(* The two stages implement a barrier.                                     *)
(***************************************************************************)
PhaseOf(p) ==
    CASE p = "poll0" -> "asking"
      [] p = "settle" -> "told"
      [] p \in Restarting -> "restarting"
      [] p = "poll1" -> "back"
      [] p \in Released -> "released"
      [] OTHER -> "preparing"

Barrier == INSTANCE SetupBarrier WITH
    phase <- [b \in Server |-> PhaseOf(pc[b])],
    gone <- failed \cap Server

\* Setup implements the barrier it is built around: the ticks, the one key
\* per server that holds both stages, and the retries are a way to do this.
ImplementsBarrier == Barrier!BarrierSpec
=============================================================================
