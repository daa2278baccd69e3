---------------------------- MODULE SetupProofs -----------------------------
(***************************************************************************)
(* That "neco setup" keeps the servers out of each other's way: the        *)
(* one-second pause before etcd is restarted is long enough, the first     *)
(* request is stored after every server has come back, and the finish keys *)
(* implement a barrier of two stages; for any set of servers, any failures *)
(* and any delays with a poll interval below the pause.  And that servers  *)
(* which run it together do not fail each other, as long as the retries of *)
(* the second loop last for the restarts of all others (Patient).          *)
(***************************************************************************)
EXTENDS Setup, TLAPS

\* A leaf is tried with Zenon first; one that needs arithmetic cites SMT.
USE ZenonT(30), SMT

\* The types are right at the beginning.
LEMMA TypeInit == SetupInit => SetupTypeOK
<1> SUFFICES ASSUME SetupInit PROVE SetupTypeOK
  OBVIOUS
<1>1. pc \in [Host -> Places]
  BY DEF SetupInit, Host, Places, Preparing, Joining
<1>2. /\ timer \in [Server -> Nat] /\ retries \in [Server -> 0 .. MaxRetries]
      /\ outage \in [Server -> 0 .. Outage] /\ finished \in [Server -> {-1, 0, 1}]
  BY SMT, SetupAssumption DEF SetupInit
<1>3. /\ certs \in [Host -> {"none", "bootstrap", "long", "neco"}]
      /\ client \in [Server -> {"none", "vault", "neco", "nil"}]
  BY DEF SetupInit
<1> QED BY <1>1, <1>2, <1>3 DEF SetupInit, SetupTypeOK

USE DEF clock, ends, ca, etcd, vault, keys

\* A command that returns an error keeps the types.
LEMMA TypeReturn ==
  ASSUME SetupTypeOK, NEW b \in Host, Return(b),
         UNCHANGED <<pc, clock, ca, members, outage, vault, keys>>,
         client' \in [Server -> {"none", "vault", "neco", "nil"}]
  PROVE  SetupTypeOK'
<1>1. broken' \subseteq failed' /\ failed' \subseteq Host /\ devVault' \in BOOLEAN
  BY DEF SetupTypeOK, Return
<1> QED BY <1>1 DEF SetupTypeOK

\* One that issues a certificate, too.
LEMMA TypeIssue ==
  ASSUME SetupTypeOK, NEW b \in Server, NEW next \in Places,
         NEW kind \in {"none", "bootstrap", "long", "neco"}, Issue(b, kind, next)
  PROVE  SetupTypeOK'
<1>1. CASE token = "stored" /\ b \in unsealed
  BY SMT, <1>1 DEF SetupTypeOK, Issue, Goto, Host
<1>2. CASE ~(token = "stored" /\ b \in unsealed)
  BY <1>2, TypeReturn DEF SetupTypeOK, Issue, Host
<1> QED BY <1>1, <1>2

\* Each step of a server keeps the types.
LEMMA TypeStep ==
  ASSUME SetupTypeOK, NEW b \in Server, SetupStep(b)
  PROVE  SetupTypeOK'
<1> USE SetupAssumption DEF At, Goto, Host, Places, Preparing, Restarting, Released
<1> b \in Host
  OBVIOUS
<1>1. CASE Install(b)
  BY <1>1 DEF SetupTypeOK, Install
<1>2. CASE createCA(b)
  BY <1>2 DEF SetupTypeOK, createCA
<1>3. CASE ReadBootstrap(b)
  BY <1>3 DEF SetupTypeOK, ReadBootstrap
<1>4. CASE setupLocalCerts(b)
  BY SMT, <1>4 DEF SetupTypeOK, setupLocalCerts, Return
<1>5. CASE prepareCA(b)
  BY <1>5 DEF SetupTypeOK, prepareCA
<1>6. CASE EtcdSetup(b)
  BY <1>6 DEF SetupTypeOK, EtcdSetup
<1>7. CASE WaitEtcdForVault(b)
  <2>1. PICK c \in Clients(b) :
          /\ client' = [client EXCEPT ![b] = c]
          /\ IF c = "nil"
             THEN Return(b) /\ UNCHANGED pc
             ELSE /\ Goto(b, IF pc[b] = "waitEtcd2" THEN "vault2"
                             ELSE IF b = Leader THEN "vault" ELSE "waitVault")
                  /\ UNCHANGED ends
    BY <1>7 DEF WaitEtcdForVault
  <2>2. client' \in [Server -> {"none", "vault", "neco", "nil"}]
    BY <2>1 DEF SetupTypeOK, Clients
  <2>3. UNCHANGED <<members, outage, clock, ca, vault, keys>>
    BY <1>7 DEF WaitEtcdForVault
  <2>4. CASE c = "nil"
    BY <2>1, <2>2, <2>3, <2>4, TypeReturn
  <2>5. CASE c # "nil"
    BY SMT, <2>1, <2>2, <2>3, <2>5 DEF SetupTypeOK
  <2> QED BY <2>4, <2>5
<1>8. CASE setupVault(b)
  BY <1>8 DEF SetupTypeOK, setupVault
<1>9. CASE bootVault(b)
  <2>1. CASE At(b, "boot")
    BY SMT, <1>9, <2>1 DEF SetupTypeOK, bootVault
  <2>2. CASE At(b, "putKey")
    BY <1>9, <2>2 DEF SetupTypeOK, bootVault
  <2> QED BY <1>9, <2>1, <2>2 DEF bootVault
<1>10. CASE waitVault(b)
  BY <1>10 DEF SetupTypeOK, waitVault
<1>11. CASE Unseal(b)
  BY <1>11 DEF SetupTypeOK, Unseal
<1>12. CASE GetVaultRootToken(b)
  <2>1. CASE token = "stored"
    BY SMT, <1>12, <2>1 DEF SetupTypeOK, GetVaultRootToken
  <2>2. CASE token # "stored"
    BY <1>12, <2>2, TypeReturn DEF SetupTypeOK, GetVaultRootToken
  <2> QED BY <2>1, <2>2
<1>13. CASE reissueCerts(b)
  BY <1>13, TypeIssue DEF reissueCerts
<1>14. CASE setupEtcdBackup(b)
  BY SMT, <1>14, TypeIssue DEF SetupTypeOK, setupEtcdBackup
<1>15. CASE setupNecoFiles(b)
  BY <1>15, TypeIssue DEF setupNecoFiles
<1>16. CASE RegisterBootserver(b)
  BY <1>16 DEF SetupTypeOK, RegisterBootserver
<1>17. CASE Finish(b)
  BY <1>17 DEF SetupTypeOK, Finish, Stage
<1>18. CASE WaitFinished(b)
  <2>1. UNCHANGED <<retries, ca, etcd, vault, keys>>
    BY <1>18 DEF WaitFinished
  <2>2. CASE SettleDown(b) /\ UNCHANGED ends
    BY <2>1, <2>2 DEF SetupTypeOK, SettleDown
  <2>3. CASE AskAgain(b) /\ UNCHANGED ends
    BY <2>1, <2>3 DEF SetupTypeOK, AskAgain
  <2>4. CASE Return(b) /\ UNCHANGED <<pc, timer>>
    BY <2>1, <2>4, TypeReturn DEF SetupTypeOK
  <2> QED BY <1>18, <2>2, <2>3, <2>4 DEF WaitFinished
<1>19. CASE RestartEtcd(b)
  BY SMT, <1>19 DEF SetupTypeOK, RestartEtcd
<1>20. CASE RestartVault(b)
  BY <1>20 DEF SetupTypeOK, RestartVault
<1>21. CASE VaultUnseal(b)
  BY <1>21 DEF SetupTypeOK, VaultUnseal
<1>22. CASE WaitVaultLeader(b)
  <2>1. CASE token = "stored" /\ b \in unsealed
    BY SMT, <1>22, <2>1 DEF SetupTypeOK, WaitVaultLeader
  <2>2. CASE ~(token = "stored" /\ b \in unsealed)
    BY <1>22, <2>2, TypeReturn DEF SetupTypeOK, WaitVaultLeader
  <2> QED BY <2>1, <2>2
<1>23. CASE WaitRestarted(b)
  <2>1. UNCHANGED <<ca, etcd, vault, keys>>
    BY <1>23 DEF WaitRestarted
  <2>2. CASE /\ Goto(b, IF b = Leader THEN "request" ELSE "start")
             /\ UNCHANGED <<timer, retries, ends>>
    BY <2>1, <2>2 DEF SetupTypeOK
  <2>3. CASE AskAgain(b) /\ UNCHANGED <<retries, ends>>
    BY <2>1, <2>3 DEF SetupTypeOK, AskAgain
  <2>4. CASE /\ retries[b] < MaxRetries
             /\ retries' = [retries EXCEPT ![b] = @ + 1]
             /\ timer' = [timer EXCEPT ![b] = RetryInterval]
             /\ UNCHANGED <<ends, pc>>
    BY SMT, <2>1, <2>4 DEF SetupTypeOK
  <2>5. CASE Return(b) /\ UNCHANGED <<clock, pc>>
    BY <2>1, <2>5, TypeReturn DEF SetupTypeOK
  <2> QED BY <1>23, <2>2, <2>3, <2>4, <2>5 DEF WaitRestarted
<1>24. CASE PutRequest(b)
  <2>1. CASE unsealKey
    <3>1. PICK revoke \in BOOLEAN : Goto(b, IF revoke THEN "revoke" ELSE "auth")
      BY <1>24, <2>1 DEF PutRequest
    <3> QED BY <3>1, <1>24, <2>1 DEF SetupTypeOK, PutRequest
  <2>2. CASE ~unsealKey
    BY <1>24, <2>2, TypeReturn DEF SetupTypeOK, PutRequest
  <2> QED BY <2>1, <2>2
<1>25. CASE revokeRootToken(b)
  BY <1>25 DEF SetupTypeOK, revokeRootToken
<1>26. CASE enableEtcdAuth(b)
  BY <1>26 DEF SetupTypeOK, enableEtcdAuth
<1>27. CASE StartServices(b)
  BY <1>27 DEF SetupTypeOK, StartServices
<1> QED
  BY <1>1, <1>2, <1>3, <1>4, <1>5, <1>6, <1>7, <1>8, <1>9, <1>10, <1>11, <1>12,
     <1>13, <1>14, <1>15, <1>16, <1>17, <1>18, <1>19, <1>20, <1>21, <1>22, <1>23,
     <1>24, <1>25, <1>26, <1>27 DEF SetupStep

\* So does every other step.
LEMMA TypeInductive ==
  ASSUME SetupTypeOK, [SetupNext]_svars
  PROVE  SetupTypeOK'
<1>1. CASE \E b \in Server : SetupStep(b)
  BY <1>1, TypeStep
<1>2. ASSUME NEW b \in Newcomer, Join(b) PROVE SetupTypeOK'
  <2> USE DEF At, Goto, Host, Places, Joining
  <2> b \in Host
    OBVIOUS
  <2>1. CASE At(b, "join")
    BY SMT, <1>2, <2>1 DEF SetupTypeOK, Join
  <2>2. CASE At(b, "joinStart")
    BY SMT, <1>2, <2>2 DEF SetupTypeOK, Join
  <2>3. CASE At(b, "joinRegister")
    BY SMT, <1>2, <2>3 DEF SetupTypeOK, Join
  <2> QED BY <1>2, <2>1, <2>2, <2>3 DEF Join
<1>3. ASSUME NEW b \in Newcomer, Leave(b) PROVE SetupTypeOK'
  BY <1>3 DEF SetupTypeOK, Leave, Goto, Host, Places, Joining
<1>4. ASSUME NEW b \in Host, Breaks(b) PROVE SetupTypeOK'
  BY <1>4 DEF SetupTypeOK, Breaks
<1>5. CASE Tick
  <2>1. /\ timer' = [b \in Server |-> Minus1(timer[b])]
        /\ outage' = [b \in Server |-> Minus1(outage[b])]
        /\ UNCHANGED <<pc, retries, members, client, ends, ca, vault, keys>>
    BY <1>5 DEF Tick
  <2>2. timer' \in [Server -> Nat] /\ outage' \in [Server -> 0 .. Outage]
    BY SMT, <2>1, SetupAssumption DEF SetupTypeOK, Minus1
  <2> QED BY <2>1, <2>2 DEF SetupTypeOK
<1>6. CASE UNCHANGED svars
  BY <1>6 DEF svars, SetupTypeOK
<1> QED BY <1>1, <1>2, <1>3, <1>4, <1>5, <1>6 DEF SetupNext

----------------------------------------------------------------------------
(* The inductive invariant, in terms of how far a server is. *)

Back == {"poll1"} \cup Released
Certified == Restarting \cup Back \cup {"register", "finish0", "poll0", "settle"}

\* One server: its key in etcd, its own etcd and its certificates.
Own(b) ==
  /\ pc[b] \in Preparing \cup Restarting \cup Back \cup {"poll0", "settle"}
  /\ pc[b] \in Preparing => finished[b] = -1
  /\ pc[b] \in Restarting \cup {"poll0", "settle"} => finished[b] = 0
  /\ pc[b] \in Back => finished[b] = 1
  /\ outage[b] > 0 => pc[b] = "waitEtcd2"
  /\ pc[b] \in Certified => certs[b] = "neco"
  /\ pc[b] \in Certified \ {"register"} => b \in registered
  /\ pc[b] = "poll0" => timer[b] <= PollInterval

\* Two servers.  Whoever sleeps before the restart has set its timer when all
\* had finished, after the last of those that still ask did so.
Pair(b, c) ==
  /\ pc[b] \in {"settle"} \cup Restarting \cup Back => pc[c] \notin Preparing
  /\ pc[b] \in Restarting \cup Back => ~At(c, "poll0")
  /\ pc[b] = "settle" /\ At(c, "poll0") => timer[c] < timer[b]
  /\ pc[b] \in Released => pc[c] \in Back

SetupInv ==
  /\ SetupTypeOK
  /\ \A b \in Server : Own(b)
  /\ \A b, c \in Server : Pair(b, c)
  /\ request => \A b \in Server : pc[b] \in Back

\* The groups of places do not overlap.
LEMMA Groups ==
  /\ Preparing \cap Restarting = {} /\ Preparing \cap Back = {}
  /\ Restarting \cap Back = {}
  /\ "poll0" \notin Preparing \cup Restarting \cup Back
  /\ "settle" \notin Preparing \cup Restarting \cup Back
  /\ Released \subseteq Back /\ Back = {"poll1"} \cup Released
  /\ Certified \cap Preparing = {"register", "finish0"}
  /\ "waitEtcd2" \in Restarting /\ "poll1" \notin Released
BY DEF Preparing, Restarting, Released, Back, Certified

\* It holds at the beginning.
LEMMA SetupInvInit == SetupInit => SetupInv
<1> SUFFICES ASSUME SetupInit PROVE SetupInv
  OBVIOUS
<1>1. \A b \in Server : /\ pc[b] = "install" /\ finished[b] = -1 /\ outage[b] = 0
  BY SetupAssumption DEF SetupInit, Host
<1>2. "install" \in Preparing /\ "install" \notin Certified /\ "install" # "poll0"
  BY DEF Preparing, Certified, Restarting, Back, Released
<1>3. \A b \in Server : Own(b)
  BY SMT, <1>1, <1>2, Groups DEF Own
<1>4. \A b, c \in Server : Pair(b, c)
  BY <1>1, <1>2, Groups DEF Pair
<1>5. request = FALSE
  BY DEF SetupInit
<1> QED BY <1>3, <1>4, <1>5, TypeInit DEF SetupInv

\* A step of one server that stays in its group of places, keeps the timers of
\* the first stage and restarts no etcd.
LEMMA QuietStep ==
  ASSUME SetupInv, SetupTypeOK', NEW b \in Server,
         \A c \in Server \ {b} : pc'[c] = pc[c] /\ certs'[c] = certs[c],
         \/ pc'[b] = pc[b]
         \/ {pc[b], pc'[b]} \subseteq Preparing
         \/ {pc[b], pc'[b]} \subseteq Restarting
         \/ {pc[b], pc'[b]} \subseteq Back,
         pc'[b] \in Released => pc[b] \in Released \/ \A c \in Server : pc[c] \in Back,
         \A c \in Server : pc[c] \in {"poll0", "settle"} => timer'[c] = timer[c],
         outage' = outage, outage[b] > 0 => pc'[b] = "waitEtcd2",
         finished' = finished, failed \subseteq failed',
         registered \cap Server \subseteq registered',
         pc'[b] \in Certified => certs'[b] = "neco",
         pc'[b] \in Certified \ {"register"} => b \in registered',
         request' => request \/ pc[b] \in Released
  PROVE  SetupInv'
<1>1. ASSUME NEW c \in Server
      PROVE  /\ pc'[c] \in Preparing <=> pc[c] \in Preparing
             /\ pc'[c] \in Restarting <=> pc[c] \in Restarting
             /\ pc'[c] \in Back <=> pc[c] \in Back
             /\ pc'[c] = "poll0" <=> pc[c] = "poll0"
             /\ pc'[c] = "settle" <=> pc[c] = "settle"
             /\ At(c, "poll0")' => At(c, "poll0")
  BY SMT, Groups DEF At
<1>2. ASSUME NEW c \in Server PROVE Own(c)'
  <2>1. Own(c)
    BY DEF SetupInv
  <2>2. CASE c = b
    BY <2>1, <2>2, <1>1 DEF Own
  <2>3. CASE c # b
    BY <2>1, <2>3, <1>1 DEF Own
  <2> QED BY <2>2, <2>3
<1>3. ASSUME NEW c \in Server, NEW d \in Server PROVE Pair(c, d)'
  <2>1. Pair(c, d) /\ Pair(b, d)
    BY DEF SetupInv
  <2>2. pc'[c] \in Released => pc'[d] \in Back
    BY <2>1, <1>1 DEF Pair
  <2>3. pc'[c] = "settle" /\ At(d, "poll0")' => timer'[d] < timer'[c]
    BY <2>1, <1>1 DEF Pair, At
  <2> QED BY <2>1, <2>2, <2>3, <1>1 DEF Pair
<1>4. request' => \A c \in Server : pc'[c] \in Back
  BY <1>1 DEF SetupInv, Pair
<1> QED BY <1>2, <1>3, <1>4 DEF SetupInv

\* A step that moves no server: an error, a retry, a newcomer's step.
LEMMA StandStill ==
  ASSUME SetupInv, SetupTypeOK',
         \A c \in Server : pc'[c] = pc[c] /\ certs'[c] = certs[c],
         \A c \in Server : pc[c] \in {"poll0", "settle"} => timer'[c] = timer[c],
         UNCHANGED <<outage, finished, request>>, failed \subseteq failed',
         registered \cap Server \subseteq registered'
  PROVE  SetupInv'
<1> Leader \in Server
  BY SetupAssumption
<1>1. Own(Leader)
  BY DEF SetupInv
<1> QED BY <1>1, QuietStep DEF Own

\* A step from one place to another of the same group, which does not issue
\* the certificates of neco nor register the server.
LEMMA QuietMove ==
  ASSUME SetupInv, SetupTypeOK', NEW b \in Server, NEW q,
         pc' = [pc EXCEPT ![b] = q],
         \/ {pc[b], q} \subseteq Preparing
         \/ {pc[b], q} \subseteq Restarting
         \/ {pc[b], q} \subseteq Released,
         q \in Certified => pc[b] \in Certified \ {"register"},
         pc[b] = "waitEtcd2" => outage[b] = 0,
         \A c \in Server \ {b} : certs'[c] = certs[c],
         pc[b] \in Certified => certs'[b] = certs[b],
         UNCHANGED <<timer, outage, finished, registered>>, failed \subseteq failed',
         request' => request \/ pc[b] \in Released
  PROVE  SetupInv'
<1>1. pc \in [Host -> Places] /\ b \in Host /\ outage[b] \in 0 .. Outage
  BY DEF SetupInv, SetupTypeOK, Host
<1>2. pc'[b] = q /\ \A c \in Server \ {b} : pc'[c] = pc[c]
  BY <1>1 DEF Host
<1>3. Own(b)
  BY DEF SetupInv
<1>4. /\ outage[b] > 0 => pc'[b] = "waitEtcd2"
      /\ pc'[b] \in Certified => certs'[b] = "neco"
      /\ pc'[b] \in Certified \ {"register"} => b \in registered'
  BY SMT, <1>2, <1>3 DEF Own
<1>5. /\ \/ {pc[b], pc'[b]} \subseteq Preparing
         \/ {pc[b], pc'[b]} \subseteq Restarting
         \/ {pc[b], pc'[b]} \subseteq Back
      /\ pc'[b] \in Released => pc[b] \in Released
  BY <1>2, Groups
<1> QED BY <1>2, <1>4, <1>5, QuietStep

\* The command returns an error.
LEMMA InvReturn ==
  ASSUME SetupInv, SetupTypeOK', NEW b \in Server, Return(b),
         UNCHANGED <<pc, timer, certs, outage, finished, registered, request>>
  PROVE  SetupInv'
BY StandStill DEF Return

\* The quiet steps up to the certificates, and those that follow the barrier.
LEMMA InvQuiet ==
  ASSUME SetupInv, SetupTypeOK', NEW b \in Server,
         \/ Install(b) \/ createCA(b) \/ ReadBootstrap(b) \/ setupLocalCerts(b)
         \/ prepareCA(b) \/ EtcdSetup(b) \/ setupVault(b) \/ bootVault(b)
         \/ waitVault(b) \/ Unseal(b) \/ GetVaultRootToken(b)
         \/ RestartVault(b) \/ VaultUnseal(b) \/ WaitVaultLeader(b)
         \/ PutRequest(b) \/ revokeRootToken(b) \/ enableEtcdAuth(b) \/ StartServices(b)
  PROVE  SetupInv'
<1> USE DEF At, Goto, Preparing, Restarting, Released, Back, Certified
<1> b \in Host /\ certs \in [Host -> {"none", "bootstrap", "long", "neco"}]
  BY DEF Host, SetupInv, SetupTypeOK
<1>1. CASE Install(b)
  BY <1>1, QuietMove DEF Install
<1>2. CASE createCA(b)
  BY <1>2, QuietMove DEF createCA
<1>3. CASE ReadBootstrap(b)
  BY <1>3, QuietMove DEF ReadBootstrap
<1>4. CASE setupLocalCerts(b)
  <2>1. CASE devVault
    <3>1. certs' = [certs EXCEPT ![b] = "bootstrap"]
      BY <1>4, <2>1 DEF setupLocalCerts
    <3>2. \A c \in Server \ {b} : certs'[c] = certs[c]
      BY <3>1 DEF Host
    <3> QED BY <1>4, <2>1, <3>2, QuietMove DEF setupLocalCerts
  <2>2. CASE ~devVault
    BY <1>4, <2>2, InvReturn DEF setupLocalCerts
  <2> QED BY <2>1, <2>2
<1>5. CASE prepareCA(b)
  BY <1>5, QuietMove DEF prepareCA
<1>6. CASE EtcdSetup(b)
  BY <1>6, QuietMove DEF EtcdSetup
<1>7. CASE setupVault(b)
  BY <1>7, QuietMove DEF setupVault
<1>8. CASE bootVault(b)
  <2>1. UNCHANGED <<clock, ends, ca, etcd, keys>>
    BY <1>8 DEF bootVault
  <2>2. CASE At(b, "boot") /\ Goto(b, "putKey")
    BY <2>1, <2>2, QuietMove
  <2>3. CASE At(b, "putKey") /\ Goto(b, "token")
    BY <2>1, <2>3, QuietMove
  <2> QED BY <1>8, <2>2, <2>3 DEF bootVault
<1>9. CASE waitVault(b)
  BY <1>9, QuietMove DEF waitVault
<1>10. CASE Unseal(b)
  BY <1>10, QuietMove DEF Unseal
<1>11. CASE GetVaultRootToken(b)
  <2>1. CASE token = "stored"
    BY <1>11, <2>1, QuietMove DEF GetVaultRootToken
  <2>2. CASE token # "stored"
    BY <1>11, <2>2, InvReturn DEF GetVaultRootToken
  <2> QED BY <2>1, <2>2
<1>12. CASE RestartVault(b)
  BY <1>12, QuietMove DEF RestartVault
<1>13. CASE VaultUnseal(b)
  BY <1>13, QuietMove DEF VaultUnseal
<1>14. CASE WaitVaultLeader(b)
  <2>1. CASE token = "stored" /\ b \in unsealed
    BY <1>14, <2>1, QuietMove DEF WaitVaultLeader
  <2>2. CASE ~(token = "stored" /\ b \in unsealed)
    BY <1>14, <2>2, InvReturn DEF WaitVaultLeader
  <2> QED BY <2>1, <2>2
<1>15. CASE PutRequest(b)
  <2>1. CASE unsealKey
    <3>1. PICK revoke \in BOOLEAN : Goto(b, IF revoke THEN "revoke" ELSE "auth")
      BY <1>15, <2>1 DEF PutRequest
    <3>2. pc[b] = "request" /\ UNCHANGED <<finished, registered, clock, ca, etcd, ends>>
      BY <1>15, <2>1 DEF PutRequest
    <3>3. CASE revoke
      BY <3>1, <3>2, <3>3, QuietMove
    <3>4. CASE ~revoke
      BY <3>1, <3>2, <3>4, QuietMove
    <3> QED BY <3>3, <3>4
  <2>2. CASE ~unsealKey
    BY <1>15, <2>2, InvReturn DEF PutRequest
  <2> QED BY <2>1, <2>2
<1>16. CASE revokeRootToken(b)
  BY <1>16, QuietMove DEF revokeRootToken
<1>17. CASE enableEtcdAuth(b)
  BY <1>17, QuietMove DEF enableEtcdAuth
<1>18. CASE StartServices(b)
  BY <1>18, QuietMove DEF StartServices
<1> QED BY <1>1, <1>2, <1>3, <1>4, <1>5, <1>6, <1>7, <1>8, <1>9, <1>10, <1>11,
           <1>12, <1>13, <1>14, <1>15, <1>16, <1>17, <1>18

\* Both waits for etcd: the server's own etcd answers.
LEMMA InvWaitEtcd ==
  ASSUME SetupInv, SetupTypeOK', NEW b \in Server, WaitEtcdForVault(b)
  PROVE  SetupInv'
<1>1. /\ At(b, "waitEtcd") \/ At(b, "waitEtcd2")
      /\ outage[b] = 0
      /\ UNCHANGED <<members, outage, clock, ca, vault, keys>>
      /\ \/ Return(b) /\ UNCHANGED pc
         \/ /\ Goto(b, IF pc[b] = "waitEtcd2" THEN "vault2"
                        ELSE IF b = Leader THEN "vault" ELSE "waitVault")
            /\ UNCHANGED ends
  BY DEF WaitEtcdForVault, Up
<1>2. CASE Return(b) /\ UNCHANGED pc
  BY <1>1, <1>2, InvReturn
<1>3. CASE UNCHANGED ends /\ pc[b] = "waitEtcd2" /\ Goto(b, "vault2")
  BY <1>1, <1>3, QuietMove DEF Goto, Restarting, Certified
<1>4. ASSUME UNCHANGED ends, pc[b] = "waitEtcd", NEW q \in {"vault", "waitVault"},
             Goto(b, q)
      PROVE  SetupInv'
  BY <1>1, <1>4, QuietMove DEF Goto, Preparing, Certified, Restarting, Back, Released
<1> QED BY <1>1, <1>2, <1>3, <1>4 DEF At

\* The certificates of a server, its registration.
LEMMA InvCerts ==
  ASSUME SetupInv, SetupTypeOK', NEW b \in Server,
         \/ reissueCerts(b) \/ setupEtcdBackup(b) \/ setupNecoFiles(b)
         \/ RegisterBootserver(b)
  PROVE  SetupInv'
<1> USE DEF At, Goto
<1>1. /\ b \in Host /\ certs \in [Host -> {"none", "bootstrap", "long", "neco"}]
      /\ pc \in [Host -> Places] /\ outage[b] \in 0 .. Outage
  BY DEF Host, SetupInv, SetupTypeOK
<1>2. ASSUME NEW kind, NEW next, Issue(b, kind, next),
             <<pc[b], next>> \in {<<"reissue", "backup">>, <<"backup", "neco">>}
      PROVE  SetupInv'
  <2>1. CASE token = "stored" /\ b \in unsealed
    <3>1. /\ pc' = [pc EXCEPT ![b] = next] /\ certs' = [certs EXCEPT ![b] = kind]
          /\ UNCHANGED <<timer, outage, finished, registered, request, failed>>
      BY <1>2, <2>1 DEF Issue
    <3>2. \A c \in Server \ {b} : certs'[c] = certs[c]
      BY <3>1, <1>1 DEF Host
    <3>3. /\ {pc[b], next} \subseteq Preparing /\ next \notin Certified
          /\ pc[b] \notin Certified /\ pc[b] # "waitEtcd2"
      BY <1>2 DEF Preparing, Certified, Restarting, Back, Released
    <3> QED BY <3>1, <3>2, <3>3, QuietMove
  <2>2. CASE ~(token = "stored" /\ b \in unsealed)
    BY <1>2, <2>2, InvReturn DEF Issue
  <2> QED BY <2>1, <2>2
<1>3. CASE reissueCerts(b)
  BY <1>2, <1>3 DEF reissueCerts
<1>4. CASE setupEtcdBackup(b)
  BY <1>2, <1>4 DEF setupEtcdBackup
<1>5. Own(b)
  BY DEF SetupInv
<1>6. CASE setupNecoFiles(b)
  <2>1. CASE token = "stored" /\ b \in unsealed
    <3>1. /\ pc[b] = "neco" /\ pc' = [pc EXCEPT ![b] = "register"]
          /\ certs' = [certs EXCEPT ![b] = "neco"]
          /\ UNCHANGED <<timer, outage, finished, registered, request, failed>>
      BY <1>6, <2>1 DEF setupNecoFiles, Issue
    <3>2. /\ pc'[b] = "register" /\ certs'[b] = "neco"
          /\ \A c \in Server \ {b} : certs'[c] = certs[c] /\ pc'[c] = pc[c]
      BY <3>1, <1>1 DEF Host
    <3>3. {pc[b], pc'[b]} \subseteq Preparing /\ pc'[b] \notin Released /\ ~(outage[b] > 0)
      BY <3>1, <3>2, <1>5 DEF Preparing, Released, Own
    <3> QED BY <3>1, <3>2, <3>3, QuietStep
  <2>2. CASE ~(token = "stored" /\ b \in unsealed)
    BY <1>6, <2>2, InvReturn DEF setupNecoFiles, Issue
  <2> QED BY <2>1, <2>2
<1>7. CASE RegisterBootserver(b)
  <2>1. /\ pc[b] = "register" /\ pc' = [pc EXCEPT ![b] = "finish0"]
        /\ registered' = registered \cup {b}
        /\ UNCHANGED <<timer, outage, finished, certs, request, failed>>
    BY <1>7 DEF RegisterBootserver
  <2>2. pc'[b] = "finish0" /\ \A c \in Server \ {b} : pc'[c] = pc[c]
    BY <2>1, <1>1 DEF Host
  <2>3. /\ {pc[b], pc'[b]} \subseteq Preparing /\ pc'[b] \notin Released
        /\ ~(outage[b] > 0) /\ certs[b] = "neco" /\ b \in registered'
        /\ registered \cap Server \subseteq registered'
    BY <2>1, <2>2, <1>5 DEF Preparing, Released, Own, Certified
  <2> QED BY <2>1, <2>2, <2>3, QuietStep
<1> QED BY <1>3, <1>4, <1>6, <1>7

USE DEF clock, ends, ca, etcd, vault, keys

(* The steps of the barrier. *)

\* What a server has written tells where it is.
LEMMA FinishedTells ==
  ASSUME SetupInv, NEW stage \in {0, 1}, GetFinished(stage) = Server, NEW c \in Server
  PROVE  /\ stage = 0 => pc[c] \in Restarting \cup {"poll0", "settle"}
         /\ stage = 1 => pc[c] \in Back
<1>1. finished[c] = stage
  BY DEF GetFinished
<1> QED BY SMT, <1>1 DEF SetupInv, Own

\* A server reports a stage.
LEMMA InvFinish ==
  ASSUME SetupInv, SetupTypeOK', NEW b \in Server, Finish(b)
  PROVE  SetupInv'
<1>1. /\ pc[b] \in {"finish0", "finish1"} /\ b \notin failed
      /\ finished' = [finished EXCEPT ![b] = Stage(pc[b])]
      /\ pc' = [pc EXCEPT ![b] = IF pc[b] = "finish0" THEN "poll0" ELSE "poll1"]
      /\ timer' = [timer EXCEPT ![b] = 0]
      /\ UNCHANGED <<registered, request, failed, certs, outage>>
  BY DEF Finish, At, Goto
<1>2. /\ pc \in [Host -> Places] /\ b \in Host /\ Server \subseteq Host
      /\ finished \in [Server -> {-1, 0, 1}] /\ timer \in [Server -> Nat]
      /\ outage \in [Server -> 0 .. Outage]
  BY DEF SetupInv, SetupTypeOK, Host
<1>3. /\ pc'[b] = IF pc[b] = "finish0" THEN "poll0" ELSE "poll1"
      /\ finished'[b] = (IF pc[b] = "finish0" THEN 0 ELSE 1) /\ timer'[b] = 0
      /\ \A c \in Server \ {b} :
           pc'[c] = pc[c] /\ finished'[c] = finished[c] /\ timer'[c] = timer[c]
  BY <1>1, <1>2 DEF Stage
<1>4. /\ "finish0" \in Preparing /\ "finish1" \in Restarting /\ "poll1" \in Back
      /\ "poll1" \notin Released /\ {"finish0", "finish1", "poll0", "poll1"} \subseteq Certified
  BY DEF Preparing, Restarting, Back, Released, Certified
<1>5. PollInterval \in Nat
  BY SetupAssumption
<1>6. ASSUME NEW c \in Server PROVE Own(c)'
  <2>1. Own(c)
    BY DEF SetupInv
  <2>2. CASE c # b
    BY <2>1, <2>2, <1>1, <1>3 DEF Own
  <2>3. CASE c = b
    <3>1. certs'[b] = "neco" /\ b \in registered' /\ ~(outage'[b] > 0)
      BY <2>1, <2>3, <1>1, <1>4 DEF Own
    <3>2. CASE pc[b] = "finish0"
      <4>1. pc'[b] = "poll0" /\ finished'[b] = 0 /\ timer'[b] <= PollInterval
        BY SMT, <3>2, <1>3, <1>5
      <4> QED BY <4>1, <3>1, <2>3, Groups DEF Own
    <3>3. CASE pc[b] = "finish1"
      <4>1. pc'[b] = "poll1" /\ finished'[b] = 1
        BY <3>3, <1>3
      <4> QED BY <4>1, <3>1, <2>3, <1>4, Groups DEF Own
    <3> QED BY <3>2, <3>3, <1>1
  <2> QED BY <2>2, <2>3
<1>7. ASSUME NEW c \in Server, NEW d \in Server PROVE Pair(c, d)'
  <2>1. Pair(c, d) /\ Pair(c, b) /\ Pair(b, d)
    BY DEF SetupInv
  <2>2. CASE pc[b] = "finish0"
    <3>1. pc[c] \notin {"settle"} \cup Restarting \cup Back
      BY <2>1, <2>2, <1>4 DEF Pair
    <3>2. pc'[c] \notin {"settle"} \cup Restarting \cup Back
      BY <3>1, <2>2, <1>3, Groups
    <3> QED BY <3>2, Groups DEF Pair
  <2>3. CASE pc[b] = "finish1"
    <3>1. /\ pc[d] \notin Preparing /\ ~At(d, "poll0")
          /\ pc[c] \notin Released \/ pc[b] \in Back
      BY <2>1, <2>3, <1>4 DEF Pair
    <3>2. pc'[d] \notin Preparing /\ ~At(d, "poll0")'
      BY SMT, <3>1, <2>3, <1>1, <1>3, <1>4, Groups DEF At
    <3>3. pc'[c] \notin Released
      BY SMT, <3>1, <2>3, <1>3, <1>4, Groups
    <3> QED BY <3>2, <3>3 DEF Pair
  <2> QED BY <1>1, <2>2, <2>3
<1>8. request' => \A c \in Server : pc'[c] \in Back
  BY <1>1, <1>3, <1>4, Groups DEF SetupInv
<1> QED BY <1>6, <1>7, <1>8 DEF SetupInv

\* A server asks in the first loop: either all have finished, and it sleeps for
\* longer than any other is to wait for its next call, or nobody sleeps yet.
LEMMA InvWaitFinished ==
  ASSUME SetupInv, SetupTypeOK', NEW b \in Server, WaitFinished(b)
  PROVE  SetupInv'
<1>1. /\ At(b, "poll0") /\ UNCHANGED <<retries, ca, etcd, vault, keys>>
      /\ \/ GetFinished(0) = Server /\ SettleDown(b) /\ UNCHANGED ends
         \/ GetFinished(0) # Server /\ AskAgain(b) /\ UNCHANGED ends
         \/ Return(b) /\ UNCHANGED <<pc, timer>>
  BY DEF WaitFinished
<1>2. /\ pc \in [Host -> Places] /\ b \in Host /\ Server \subseteq Host
      /\ timer \in [Server -> Nat] /\ outage \in [Server -> 0 .. Outage]
  BY DEF SetupInv, SetupTypeOK, Host
<1>3. PollInterval \in Nat /\ Settle \in Nat /\ PollInterval < Settle
  BY SetupAssumption
<1>4. pc[b] = "poll0" /\ \A c \in Server : pc[c] \notin Restarting \cup Back
  BY <1>1 DEF At, SetupInv, Pair
<1>5. CASE GetFinished(0) = Server /\ SettleDown(b) /\ UNCHANGED ends
  <2>1. /\ pc'[b] = "settle" /\ timer'[b] = Settle
        /\ \A c \in Server \ {b} : pc'[c] = pc[c] /\ timer'[c] = timer[c]
        /\ UNCHANGED <<certs, outage, finished, registered, request, failed>>
    BY <1>1, <1>2, <1>5 DEF SettleDown, Goto
  <2>2. \A c \in Server : pc'[c] \in {"poll0", "settle"}
    BY <2>1, <1>4, <1>5, FinishedTells
  <2>3. ASSUME NEW c \in Server PROVE Own(c)'
    <3>1. Own(c)
      BY DEF SetupInv
    <3>2. CASE c = b
      BY <3>1, <3>2, <2>1, <1>4, Groups DEF Own, Certified
    <3>3. CASE c # b
      BY <3>1, <3>3, <2>1 DEF Own
    <3> QED BY <3>2, <3>3
  <2>4. ASSUME NEW c \in Server, NEW d \in Server PROVE Pair(c, d)'
    <3>1. Pair(c, d) /\ Own(d)
      BY DEF SetupInv
    <3>2. pc'[c] = "settle" /\ At(d, "poll0")' => timer'[d] < timer'[c]
      BY SMT, <3>1, <2>1, <1>2, <1>3, <1>4 DEF Pair, Own, At
    <3> QED BY <3>2, <2>2, Groups DEF Pair
  <2>5. request' => \A c \in Server : pc'[c] \in Back
    BY <2>1, <1>4, Groups DEF SetupInv
  <2> QED BY <2>3, <2>4, <2>5 DEF SetupInv
<1>6. CASE GetFinished(0) # Server /\ AskAgain(b) /\ UNCHANGED ends
  <2>1. /\ timer'[b] = PollInterval /\ \A c \in Server \ {b} : timer'[c] = timer[c]
        /\ UNCHANGED <<pc, certs, outage, finished, registered, request, failed>>
    BY <1>1, <1>2, <1>6 DEF AskAgain
  <2>2. \A c \in Server : pc[c] # "settle"
    <3> SUFFICES ASSUME NEW c \in Server, pc[c] = "settle" PROVE FALSE
      OBVIOUS
    <3>1. ASSUME NEW d \in Server PROVE finished[d] = 0
      <4>1. Pair(c, d) /\ Own(d)
        BY DEF SetupInv
      <4> QED BY <4>1, <1>4 DEF Pair, Own
    <3> QED BY <3>1, <1>6 DEF GetFinished
  <2>3. ASSUME NEW c \in Server PROVE Own(c)'
    <3>1. Own(c)
      BY DEF SetupInv
    <3>2. pc[c] = "poll0" => timer'[c] <= PollInterval
      <4>1. CASE c = b
        BY SMT, <4>1, <2>1, <1>3
      <4>2. CASE c # b
        BY <4>2, <3>1, <2>1 DEF Own
      <4> QED BY <4>1, <4>2
    <3> QED BY <3>1, <3>2, <2>1 DEF Own
  <2>4. ASSUME NEW c \in Server, NEW d \in Server PROVE Pair(c, d)'
    <3>1. Pair(c, d)
      BY DEF SetupInv
    <3> QED BY <3>1, <2>1, <2>2 DEF Pair, At
  <2>5. request' => \A c \in Server : pc'[c] \in Back
    BY <2>1 DEF SetupInv
  <2> QED BY <2>3, <2>4, <2>5 DEF SetupInv
<1>7. CASE Return(b) /\ UNCHANGED <<pc, timer>>
  BY <1>1, <1>7, InvReturn
<1> QED BY <1>1, <1>5, <1>6, <1>7

\* Whoever restarts etcd has slept for longer than anybody's poll interval, and
\* nobody is in the first loop any more.
LEMMA NobodyAsks ==
  ASSUME SetupInv, NEW b \in Server, pc[b] = "settle", timer[b] = 0, NEW c \in Server
  PROVE  ~At(c, "poll0") /\ pc[c] \notin Preparing
<1>1. Pair(b, c) /\ timer[c] \in Nat
  BY DEF SetupInv, SetupTypeOK
<1> QED BY SMT, <1>1 DEF Pair

\* The restart of etcd with the new certificates.
LEMMA InvRestartEtcd ==
  ASSUME SetupInv, SetupTypeOK', NEW b \in Server, RestartEtcd(b)
  PROVE  SetupInv'
<1>1. /\ pc[b] = "settle" /\ timer[b] = 0 /\ pc' = [pc EXCEPT ![b] = "waitEtcd2"]
      /\ \E d \in 1 .. Outage : outage' = [outage EXCEPT ![b] = d]
      /\ UNCHANGED <<timer, failed, certs, finished, registered, request>>
  BY DEF RestartEtcd, At, Goto
<1>2. /\ pc \in [Host -> Places] /\ b \in Host /\ Server \subseteq Host
      /\ outage \in [Server -> 0 .. Outage]
  BY DEF SetupInv, SetupTypeOK, Host
<1>3. /\ pc'[b] = "waitEtcd2"
      /\ \A c \in Server \ {b} : pc'[c] = pc[c] /\ outage'[c] = outage[c]
  BY <1>1, <1>2
<1>4. "settle" \in Certified /\ "waitEtcd2" \in Certified
  BY DEF Certified, Restarting
<1>5. ASSUME NEW c \in Server PROVE Own(c)'
  <2>1. Own(c)
    BY DEF SetupInv
  <2>2. CASE c = b
    BY SMT, <2>1, <2>2, <1>1, <1>3, <1>4, Groups DEF Own
  <2>3. CASE c # b
    BY <2>1, <2>3, <1>1, <1>3 DEF Own
  <2> QED BY <2>2, <2>3
<1>6. ASSUME NEW c \in Server, NEW d \in Server PROVE Pair(c, d)'
  <2>1. Pair(c, d) /\ Pair(c, b)
    BY DEF SetupInv
  <2>2. ~At(d, "poll0") /\ pc[d] \notin Preparing
    BY <1>1, NobodyAsks
  <2>3. ~At(d, "poll0")' /\ pc'[d] \notin Preparing
    BY <2>2, <1>1, <1>3, Groups DEF At
  <2>4. pc[c] \notin Released
    BY <2>1, <1>1, Groups DEF Pair
  <2>5. pc'[c] \notin Released
    BY <2>4, <1>3, Groups
  <2> QED BY <2>3, <2>5 DEF Pair
<1>7. request' => \A c \in Server : pc'[c] \in Back
  BY <1>1, Groups DEF SetupInv
<1> QED BY <1>5, <1>6, <1>7 DEF SetupInv

\* The second loop.
LEMMA InvWaitRestarted ==
  ASSUME SetupInv, SetupTypeOK', NEW b \in Server, WaitRestarted(b)
  PROVE  SetupInv'
<1>1. /\ pc[b] = "poll1" /\ UNCHANGED <<ca, etcd, vault, keys>>
      /\ \/ /\ GetFinished(1) = Server
            /\ Goto(b, IF b = Leader THEN "request" ELSE "start")
            /\ UNCHANGED <<timer, ends>>
         \/ AskAgain(b) /\ UNCHANGED ends
         \/ timer' = [timer EXCEPT ![b] = RetryInterval] /\ UNCHANGED <<ends, pc>>
         \/ Return(b) /\ UNCHANGED <<timer, pc>>
  BY DEF WaitRestarted, At
<1>2. /\ pc \in [Host -> Places] /\ b \in Host /\ Server \subseteq Host
      /\ timer \in [Server -> Nat] /\ outage \in [Server -> 0 .. Outage]
  BY DEF SetupInv, SetupTypeOK, Host
<1>3. CASE Return(b) /\ UNCHANGED <<timer, pc>>
  BY <1>1, <1>3, InvReturn
<1>4. CASE \E t : timer' = [timer EXCEPT ![b] = t] /\ UNCHANGED <<ends, pc>>
  <2>1. \A c \in Server : pc[c] \in {"poll0", "settle"} => timer'[c] = timer[c]
    BY <1>1, <1>2, <1>4
  <2> QED BY <2>1, <1>1, <1>4, StandStill
<1>5. CASE /\ GetFinished(1) = Server
           /\ Goto(b, IF b = Leader THEN "request" ELSE "start")
           /\ UNCHANGED <<timer, ends>>
  <2>1. /\ pc'[b] \in {"request", "start"}
        /\ \A c \in Server \ {b} : pc'[c] = pc[c]
    BY <1>2, <1>5 DEF Goto
  <2>2. \A c \in Server : pc[c] \in Back
    BY <1>5, FinishedTells
  <2>3. pc'[b] \in Back
    BY <2>1 DEF Back, Released
  <2>4. Own(b)
    BY DEF SetupInv
  <2>5. "poll1" \in Certified \ {"register"} /\ "poll1" # "waitEtcd2"
    BY DEF Certified, Back
  <2>6. pc[b] \in Back /\ certs[b] = "neco" /\ b \in registered /\ ~(outage[b] > 0)
    BY <2>2, <2>4, <2>5, <1>1 DEF Own
  <2>7. UNCHANGED <<certs, outage, finished, registered, request, timer, failed>>
    BY <1>1, <1>5
  <2>8. {pc[b], pc'[b]} \subseteq Back
    BY <2>3, <2>6
  <2> QED BY <2>1, <2>2, <2>6, <2>7, <2>8, QuietStep
<1> QED BY <1>1, <1>3, <1>4, <1>5 DEF AskAgain

\* Half a second passes: nobody's call is due, so that the timers of those who
\* ask and of those who sleep all go down.
LEMMA InvTick ==
  ASSUME SetupInv, SetupTypeOK', Tick
  PROVE  SetupInv'
<1>1. /\ \A b \in Server : ~Due(b)
      /\ timer' = [b \in Server |-> Minus1(timer[b])]
      /\ outage' = [b \in Server |-> Minus1(outage[b])]
      /\ UNCHANGED <<pc, failed, certs, finished, registered, request>>
  BY DEF Tick
<1>2. timer \in [Server -> Nat] /\ outage \in [Server -> 0 .. Outage]
  BY DEF SetupInv, SetupTypeOK
<1>3. PollInterval \in Nat
  BY SetupAssumption
<1>4. ASSUME NEW c \in Server PROVE Own(c)'
  <2>1. Own(c) /\ timer[c] \in Nat /\ outage[c] \in Nat
    BY SMT, <1>2 DEF SetupInv
  <2>2. timer'[c] <= timer[c] /\ (outage'[c] > 0 => outage[c] > 0) /\ timer'[c] \in Nat
    <3>1. timer'[c] = Minus1(timer[c]) /\ outage'[c] = Minus1(outage[c])
      BY <1>1
    <3> QED BY SMT, <2>1, <3>1 DEF Minus1
  <2>3. pc[c] = "poll0" => timer'[c] <= PollInterval
    BY SMT, <2>1, <2>2, <1>3 DEF Own
  <2>4. UNCHANGED <<pc, certs, finished, registered>>
    BY <1>1
  <2> QED BY <2>1, <2>2, <2>3, <2>4 DEF Own
<1>5. ASSUME NEW c \in Server, NEW d \in Server PROVE Pair(c, d)'
  <2>1. Pair(c, d) /\ timer[c] \in Nat /\ timer[d] \in Nat
    BY <1>2 DEF SetupInv
  <2>2. At(d, "poll0") => timer[d] # 0
    BY <1>1 DEF Due
  <2>3. pc[c] = "settle" /\ At(d, "poll0") => timer'[d] < timer'[c]
    BY SMT, <2>1, <2>2, <1>1 DEF Pair, Minus1
  <2> QED BY <2>1, <2>3, <1>1 DEF Pair, At
<1>6. request' => \A c \in Server : pc'[c] \in Back
  BY <1>1 DEF SetupInv
<1> QED BY <1>4, <1>5, <1>6 DEF SetupInv

\* What newcomers do, and calls that fail by themselves.
LEMMA InvOthers ==
  ASSUME SetupInv, SetupTypeOK',
         \/ \E b \in Newcomer : Join(b) \/ Leave(b)
         \/ \E b \in Host : Breaks(b)
         \/ UNCHANGED svars
  PROVE  SetupInv'
<1>1. pc \in [Host -> Places] /\ certs \in [Host -> {"none", "bootstrap", "long", "neco"}]
  BY DEF SetupInv, SetupTypeOK
<1>2. ASSUME NEW b \in Newcomer, Join(b) \/ Leave(b) PROVE SetupInv'
  <2>1. b \in Host /\ Server \subseteq Host /\ b \notin Server
    BY SetupAssumption DEF Host
  <2>2. /\ UNCHANGED <<timer, outage, finished, request, failed>>
        /\ \E q : pc' = [pc EXCEPT ![b] = q]
        /\ certs' = certs \/ certs' = [certs EXCEPT ![b] = "neco"]
        /\ registered \ {b} \subseteq registered'
    BY <1>2 DEF Join, Leave, Goto
  <2>3. /\ \A c \in Server : pc'[c] = pc[c] /\ certs'[c] = certs[c]
        /\ registered \cap Server \subseteq registered'
    BY <2>1, <2>2, <1>1
  <2> QED BY <2>2, <2>3, StandStill
<1>3. ASSUME NEW b \in Host, Breaks(b) PROVE SetupInv'
  BY <1>3, StandStill DEF Breaks
<1>4. CASE UNCHANGED svars
  BY <1>4, StandStill DEF svars
<1> QED BY <1>2, <1>3, <1>4

\* SetupInv holds at all times.
LEMMA SetupInductive == SetupSpec => []SetupInv
<1>1. SetupInv /\ [SetupNext]_svars => SetupInv'
  <2> SUFFICES ASSUME SetupInv, [SetupNext]_svars PROVE SetupInv'
    OBVIOUS
  <2>1. SetupTypeOK'
    BY TypeInductive DEF SetupInv
  <2>2. ASSUME NEW b \in Server, SetupStep(b) PROVE SetupInv'
    BY <2>1, <2>2, InvQuiet, InvWaitEtcd, InvCerts, InvFinish, InvWaitFinished,
       InvRestartEtcd, InvWaitRestarted DEF SetupStep
  <2>3. CASE Tick
    BY <2>1, <2>3, InvTick
  <2> QED BY <2>1, <2>2, <2>3, InvOthers DEF SetupNext
<1> QED BY <1>1, SetupInvInit, PTL DEF SetupSpec

\* The types of the variables.
THEOREM SetupTypeCorrect == SetupSpec => []SetupTypeOK
<1>1. SetupInv => SetupTypeOK
  BY DEF SetupInv
<1> QED BY <1>1, SetupInductive, PTL

\* Nobody restarts etcd while another server is in the first loop or before it:
\* a poll interval below the pause is all that this takes.
THEOREM PollingIsUndisturbed == SetupSpec => []UndisturbedPolling
<1>1. SetupInv => UndisturbedPolling
  <2> SUFFICES ASSUME SetupInv, NEW b \in Server, NEW c \in Server, outage[b] > 0
               PROVE  ~At(c, "poll0") /\ pc[c] \notin Preparing
    BY DEF UndisturbedPolling
  <2>1. Own(b) /\ Pair(b, c)
    BY DEF SetupInv
  <2> QED BY <2>1, Groups DEF Own, Pair
<1> QED BY <1>1, SetupInductive, PTL

\* The first update request is stored after every server is back with its
\* certificates, registered and with its etcd up.
THEOREM RequestIsAfterAll == SetupSpec => []RequestAfterAll
<1>1. SetupInv => RequestAfterAll
  <2> SUFFICES ASSUME SetupInv, request, NEW b \in Server
               PROVE  finished[b] = 1 /\ outage[b] = 0 /\ certs[b] = "neco" /\ b \in registered
    BY DEF RequestAfterAll
  <2>1. Own(b) /\ pc[b] \in Back /\ outage[b] \in 0 .. Outage
    BY DEF SetupInv, SetupTypeOK
  <2>2. pc[b] \in Certified \ {"register"} /\ pc[b] # "waitEtcd2"
    BY <2>1, Groups DEF Certified
  <2> QED BY SMT, <2>1, <2>2 DEF Own
<1> QED BY <1>1, SetupInductive, PTL

----------------------------------------------------------------------------
(* The barrier. *)

\* The phase of a server.
LEMMA PhaseIs ==
  ASSUME NEW p
  PROVE  /\ p \in Preparing => PhaseOf(p) = "preparing"
         /\ p = "poll0" => PhaseOf(p) = "asking"
         /\ p = "settle" => PhaseOf(p) = "told"
         /\ p \in Restarting => PhaseOf(p) = "restarting"
         /\ p = "poll1" => PhaseOf(p) = "back"
         /\ p \in Released => PhaseOf(p) = "released"
BY DEF PhaseOf, Preparing, Restarting, Released

\* Steps within a phase, and errors.
WithinPhase(b) ==
  \/ UNCHANGED pc /\ failed' = failed \cup {b}
  \/ /\ failed' = failed
     /\ \E q : /\ pc' = [pc EXCEPT ![b] = q]
               /\ \/ {pc[b], q} \subseteq Preparing
                  \/ {pc[b], q} \subseteq Restarting
                  \/ {pc[b], q} \subseteq Released

\* A step to another place of the phase.
LEMMA Moves ==
  ASSUME NEW b \in Server, NEW q, Goto(b, q), failed' = failed,
         \/ {pc[b], q} \subseteq Preparing
         \/ {pc[b], q} \subseteq Restarting
         \/ {pc[b], q} \subseteq Released
  PROVE  WithinPhase(b)
BY DEF Goto, WithinPhase

\* Most steps are such.
LEMMA MostWithinPhase ==
  ASSUME NEW b \in Server, SetupStep(b)
  PROVE  \/ WithinPhase(b)
         \/ Finish(b) \/ WaitFinished(b) \/ RestartEtcd(b) \/ WaitRestarted(b)
<1> USE DEF At, Preparing, Restarting, Released
<1>1. CASE Install(b)
  BY <1>1, Moves DEF Install
<1>2. CASE createCA(b)
  BY <1>2, Moves DEF createCA
<1>3. CASE ReadBootstrap(b)
  BY <1>3, Moves DEF ReadBootstrap
<1>4. CASE setupLocalCerts(b)
  BY SMT, <1>4, Moves DEF setupLocalCerts, Return, WithinPhase
<1>5. CASE prepareCA(b)
  BY <1>5, Moves DEF prepareCA
<1>6. CASE EtcdSetup(b)
  BY <1>6, Moves DEF EtcdSetup
<1>7. CASE WaitEtcdForVault(b)
  <2>1. /\ pc[b] \in {"waitEtcd", "waitEtcd2"}
        /\ \/ Return(b) /\ UNCHANGED pc
           \/ /\ Goto(b, IF pc[b] = "waitEtcd2" THEN "vault2"
                          ELSE IF b = Leader THEN "vault" ELSE "waitVault")
              /\ UNCHANGED ends
    <3> HIDE DEF Preparing, Restarting, Released
    <3> QED BY <1>7 DEF WaitEtcdForVault
  <2>2. CASE Return(b) /\ UNCHANGED pc
    BY <2>2 DEF Return, WithinPhase
  <2>3. CASE pc[b] = "waitEtcd2" /\ Goto(b, "vault2") /\ UNCHANGED ends
    BY <2>3, Moves
  <2>4. ASSUME pc[b] = "waitEtcd", NEW q \in {"vault", "waitVault"}, Goto(b, q),
               UNCHANGED ends
        PROVE  WithinPhase(b)
    BY <2>4, Moves
  <2> QED BY <2>1, <2>2, <2>3, <2>4
<1>8. CASE setupVault(b)
  BY <1>8, Moves DEF setupVault
<1>9. CASE bootVault(b)
  BY <1>9, Moves DEF bootVault
<1>10. CASE waitVault(b)
  BY <1>10, Moves DEF waitVault
<1>11. CASE Unseal(b)
  BY <1>11, Moves DEF Unseal
<1>12. CASE GetVaultRootToken(b)
  BY SMT, <1>12, Moves DEF GetVaultRootToken, Return, WithinPhase
<1>13. CASE reissueCerts(b)
  BY <1>13, Moves DEF reissueCerts, Issue, Return, WithinPhase
<1>14. CASE setupEtcdBackup(b)
  BY <1>14, Moves DEF setupEtcdBackup, Issue, Return, WithinPhase
<1>15. CASE setupNecoFiles(b)
  BY <1>15, Moves DEF setupNecoFiles, Issue, Return, WithinPhase
<1>16. CASE RegisterBootserver(b)
  BY <1>16, Moves DEF RegisterBootserver
<1>17. CASE RestartVault(b)
  BY <1>17, Moves DEF RestartVault
<1>18. CASE VaultUnseal(b)
  BY <1>18, Moves DEF VaultUnseal
<1>19. CASE WaitVaultLeader(b)
  BY <1>19, Moves DEF WaitVaultLeader, Return, WithinPhase
<1>20. CASE PutRequest(b)
  <2>1. CASE unsealKey
    <3>1. PICK revoke \in BOOLEAN : Goto(b, IF revoke THEN "revoke" ELSE "auth")
      BY <1>20, <2>1 DEF PutRequest
    <3>2. pc[b] = "request" /\ failed' = failed
      BY <1>20, <2>1 DEF PutRequest
    <3> QED BY <3>1, <3>2, Moves
  <2>2. CASE ~unsealKey
    BY <1>20, <2>2 DEF PutRequest, Return, WithinPhase
  <2> QED BY <2>1, <2>2
<1>21. CASE revokeRootToken(b)
  BY <1>21, Moves DEF revokeRootToken
<1>22. CASE enableEtcdAuth(b)
  BY <1>22, Moves DEF enableEtcdAuth
<1>23. CASE StartServices(b)
  BY <1>23, Moves DEF StartServices
<1> QED
  BY <1>1, <1>2, <1>3, <1>4, <1>5, <1>6, <1>7, <1>8, <1>9, <1>10, <1>11, <1>12,
     <1>13, <1>14, <1>15, <1>16, <1>17, <1>18, <1>19, <1>20, <1>21, <1>22, <1>23
  DEF SetupStep

USE DEF Barrier!bvars, Barrier!Advance

\* A step that keeps all phases, after which at most one more has given up.
LEMMA KeepsPhases ==
  ASSUME \A c \in Server : PhaseOf(pc'[c]) = PhaseOf(pc[c]),
         \/ (failed \cap Server)' = failed \cap Server
         \/ \E b \in Server : (failed \cap Server)' = (failed \cap Server) \cup {b}
  PROVE  [Barrier!BarrierNext]_(Barrier!bvars)
<1>1. [b \in Server |-> PhaseOf(pc[b])]' = [b \in Server |-> PhaseOf(pc[b])]
  OBVIOUS
<1> QED BY <1>1 DEF Barrier!BarrierNext, Barrier!GiveUp

\* A step of one server into another phase.
LEMMA NextPhase ==
  ASSUME SetupTypeOK, NEW b \in Server, NEW q, b \notin failed, failed' = failed,
         pc' = [pc EXCEPT ![b] = q]
  PROVE  Barrier!Advance(b, PhaseOf(pc[b]), PhaseOf(q))
<1>1. pc \in [Host -> Places] /\ b \in Host /\ Server \subseteq Host
  BY DEF SetupTypeOK, Host
<1>2. pc'[b] = q /\ \A c \in Server \ {b} : pc'[c] = pc[c]
  BY <1>1
<1>3. [c \in Server |-> PhaseOf(pc[c])]' =
        [[c \in Server |-> PhaseOf(pc[c])] EXCEPT ![b] = PhaseOf(q)]
  <2>1. \A c \in Server : PhaseOf(pc'[c]) = IF c = b THEN PhaseOf(q) ELSE PhaseOf(pc[c])
    BY SMT, <1>2
  <2>2. [c \in Server |-> PhaseOf(pc[c])]' =
          [c \in Server |-> IF c = b THEN PhaseOf(q) ELSE PhaseOf(pc[c])]
    BY <2>1
  <2> QED BY <2>2
<1> QED BY <1>3

\* Every step of Setup is a step of the barrier or keeps its state.
LEMMA BarrierStep ==
  ASSUME SetupInv, SetupTypeOK', [SetupNext]_svars
  PROVE  [Barrier!BarrierNext]_(Barrier!bvars)
<1>1. pc \in [Host -> Places] /\ Server \subseteq Host
  BY DEF SetupInv, SetupTypeOK, Host
<1>2. ASSUME NEW b \in Server, WithinPhase(b) PROVE [Barrier!BarrierNext]_(Barrier!bvars)
  <2>1. CASE UNCHANGED pc /\ failed' = failed \cup {b}
    BY <2>1, KeepsPhases
  <2>2. ASSUME failed' = failed, NEW q, pc' = [pc EXCEPT ![b] = q],
               \/ {pc[b], q} \subseteq Preparing
               \/ {pc[b], q} \subseteq Restarting
               \/ {pc[b], q} \subseteq Released
        PROVE  [Barrier!BarrierNext]_(Barrier!bvars)
    <3>1. PhaseOf(pc[b]) = PhaseOf(q)
      BY SMT, <2>2, PhaseIs
    <3>2. pc'[b] = q /\ \A c \in Server \ {b} : pc'[c] = pc[c]
      BY <2>2, <1>1
    <3> QED BY <3>1, <3>2, <2>2, KeepsPhases
  <2> QED BY <1>2, <2>1, <2>2 DEF WithinPhase
<1>3. ASSUME NEW b \in Server, Finish(b) PROVE Barrier!BarrierNext
  <2>1. CASE pc[b] = "finish0"
    <3>1. Barrier!Advance(b, PhaseOf("finish0"), PhaseOf("poll0"))
      BY <1>3, <2>1, NextPhase DEF Finish, At, Goto, SetupInv
    <3>2. PhaseOf("finish0") = "preparing" /\ PhaseOf("poll0") = "asking"
      BY PhaseIs DEF Preparing
    <3> HIDE DEF Barrier!Advance
    <3> QED BY <3>1, <3>2 DEF Barrier!BarrierNext, Barrier!Arrive
  <2>2. CASE pc[b] = "finish1"
    <3>1. Barrier!Advance(b, PhaseOf("finish1"), PhaseOf("poll1"))
      BY <1>3, <2>2, NextPhase DEF Finish, At, Goto, SetupInv
    <3>2. PhaseOf("finish1") = "restarting" /\ PhaseOf("poll1") = "back"
      BY PhaseIs DEF Restarting
    <3> HIDE DEF Barrier!Advance
    <3> QED BY <3>1, <3>2 DEF Barrier!BarrierNext, Barrier!Return
  <2> QED BY <1>3, <2>1, <2>2 DEF Finish, At
<1>4. ASSUME NEW b \in Server, WaitFinished(b) PROVE [Barrier!BarrierNext]_(Barrier!bvars)
  <2>1. /\ pc[b] = "poll0" /\ b \notin failed
        /\ \/ GetFinished(0) = Server /\ SettleDown(b) /\ UNCHANGED ends
           \/ AskAgain(b) /\ UNCHANGED ends
           \/ Return(b) /\ UNCHANGED pc
    BY <1>4 DEF WaitFinished, At
  <2>2. CASE (AskAgain(b) /\ UNCHANGED ends) \/ (Return(b) /\ UNCHANGED pc)
    BY <2>2, KeepsPhases DEF AskAgain, Return
  <2>3. CASE GetFinished(0) = Server /\ SettleDown(b) /\ UNCHANGED ends
    <3>1. Barrier!Advance(b, PhaseOf("poll0"), PhaseOf("settle"))
      BY <2>1, <2>3, NextPhase DEF SettleDown, Goto, SetupInv
    <3>2. PhaseOf("poll0") = "asking" /\ PhaseOf("settle") = "told"
      BY PhaseIs
    <3>3. \A o \in Server : PhaseOf(pc[o]) # "preparing"
      BY <2>3, FinishedTells, PhaseIs
    <3> HIDE DEF Barrier!Advance
    <3> QED BY <3>1, <3>2, <3>3 DEF Barrier!BarrierNext, Barrier!Hear
  <2> QED BY <2>1, <2>2, <2>3
<1>5. ASSUME NEW b \in Server, RestartEtcd(b) PROVE Barrier!BarrierNext
  <2>1. Barrier!Advance(b, PhaseOf("settle"), PhaseOf("waitEtcd2"))
    BY <1>5, NextPhase DEF RestartEtcd, At, Goto, SetupInv
  <2>2. PhaseOf("settle") = "told" /\ PhaseOf("waitEtcd2") = "restarting"
    BY PhaseIs DEF Restarting
  <2>3. ASSUME NEW o \in Server
        PROVE  /\ PhaseOf(pc[o]) # "preparing"
               /\ PhaseOf(pc[o]) = "asking" => o \in failed \cap Server
    <3>1. ~At(o, "poll0") /\ pc[o] \notin Preparing /\ Own(o)
      BY <1>5, NobodyAsks DEF RestartEtcd, At, SetupInv
    <3>2. pc[o] \in Restarting \cup {"poll0", "settle", "poll1"} \cup Released
      BY <3>1 DEF Own, Back
    <3> QED BY <3>1, <3>2, PhaseIs DEF At
  <2> HIDE DEF Barrier!Advance
  <2> QED BY <2>1, <2>2, <2>3 DEF Barrier!BarrierNext, Barrier!Restart
<1>6. ASSUME NEW b \in Server, WaitRestarted(b) PROVE [Barrier!BarrierNext]_(Barrier!bvars)
  <2>1. /\ pc[b] = "poll1" /\ b \notin failed
        /\ \/ /\ GetFinished(1) = Server /\ UNCHANGED ends
              /\ Goto(b, IF b = Leader THEN "request" ELSE "start")
           \/ UNCHANGED <<pc, ends>>
           \/ Return(b) /\ UNCHANGED pc
    BY <1>6 DEF WaitRestarted, At, AskAgain
  <2>2. CASE UNCHANGED <<pc, ends>> \/ (Return(b) /\ UNCHANGED pc)
    BY <2>2, KeepsPhases DEF Return
  <2>3. ASSUME GetFinished(1) = Server, UNCHANGED ends, NEW q \in {"request", "start"},
               Goto(b, q)
        PROVE  Barrier!BarrierNext
    <3>1. Barrier!Advance(b, PhaseOf("poll1"), PhaseOf(q))
      BY <2>1, <2>3, NextPhase DEF Goto, SetupInv
    <3>2. PhaseOf("poll1") = "back" /\ PhaseOf(q) = "released"
      BY <2>3, PhaseIs DEF Released
    <3>3. \A o \in Server : PhaseOf(pc[o]) \in {"back", "released"}
      BY <2>3, FinishedTells, PhaseIs DEF Back
    <3> HIDE DEF Barrier!Advance
    <3> QED BY <3>1, <3>2, <3>3 DEF Barrier!BarrierNext, Barrier!Release
  <2> QED BY <2>1, <2>2, <2>3
<1>7. ASSUME NEW b \in Newcomer, Join(b) \/ Leave(b)
      PROVE  [Barrier!BarrierNext]_(Barrier!bvars)
  <2>1. failed' = failed /\ \E q : pc' = [pc EXCEPT ![b] = q]
    BY <1>7 DEF Join, Leave, Goto
  <2>2. \A c \in Server : pc'[c] = pc[c]
    BY <2>1, <1>1, SetupAssumption
  <2> QED BY <2>1, <2>2, KeepsPhases
<1>8. ASSUME NEW b \in Host, Breaks(b) PROVE [Barrier!BarrierNext]_(Barrier!bvars)
  <2>1. pc' = pc /\ failed' = failed \cup {b}
    BY <1>8 DEF Breaks
  <2>2. \/ (failed \cap Server)' = failed \cap Server
        \/ b \in Server /\ (failed \cap Server)' = (failed \cap Server) \cup {b}
    BY <2>1
  <2> QED BY <2>1, <2>2, KeepsPhases
<1>9. CASE Tick \/ UNCHANGED svars
  BY <1>9, KeepsPhases DEF Tick, svars
<1> QED
  BY <1>2, <1>3, <1>4, <1>5, <1>6, <1>7, <1>8, <1>9, MostWithinPhase DEF SetupNext

\* The finish keys and the pause implement a barrier of two stages.
THEOREM SetupImplementsBarrier == SetupSpec => ImplementsBarrier
<1>1. SetupInit => Barrier!BarrierInit
  <2> SUFFICES ASSUME SetupInit PROVE Barrier!BarrierInit
    OBVIOUS
  <2>1. \A b \in Server : PhaseOf(pc[b]) = "preparing"
    BY PhaseIs DEF SetupInit, Host, Preparing
  <2>2. failed \cap Server = {}
    BY DEF SetupInit
  <2> QED BY <2>1, <2>2 DEF Barrier!BarrierInit
<1>2. SetupInv /\ [SetupNext]_svars => [Barrier!BarrierNext]_(Barrier!bvars)
  BY BarrierStep, TypeInductive DEF SetupInv
<1> QED
  BY <1>1, <1>2, SetupInductive, PTL DEF SetupSpec, ImplementsBarrier, Barrier!BarrierSpec

USE DEF clock, ends, ca, etcd, vault, keys

----------------------------------------------------------------------------
(* Nobody fails because of the others: the inductive invariant. *)

\* There are n different elements of S.
AtLeast(n, S) ==
  \E f \in [1 .. n -> S] : \A i, j \in 1 .. n : f[i] = f[j] => i = j

\* What it takes: etcd is recent, a restart of etcd is over when GetFinished is
\* called again, and each of the other servers may cost a retry: there are no
\* more than MaxRetries + 1 servers.
Patient ==
  /\ ~LowVersion
  /\ ~AtLeast(MaxRetries + 2, Server)
  /\ Outage <= RetryInterval

\* The places where the temporary Vault is needed.
Early == {"install", "createCA", "localCerts", "issue", "sync"}

\* The temporary Vault runs until the leader has seen the key of every server.
CAInv ==
  /\ devVault <=> pc[Leader] \in Early \ {"install"}
  /\ \A b \in Server :
       /\ b \in bootstrap <=> pc[b] \notin Early \ {"sync"}
       /\ pc[b] \in {"createCA", "sync"} => b = Leader
       /\ pc[b] \notin {"install", "createCA", "localCerts"} => "ready" \in bootstrap
  /\ "ready" \in bootstrap <=> pc[Leader] \notin {"install", "createCA"}
  /\ pc[Leader] \notin Early => Server \subseteq bootstrap

\* The places of the leader before its Vault is initialized.
Unbooted == Early \cup {"etcd", "waitEtcd", "vault", "boot"}

\* The root token is there from the initialization until the leader has seen
\* everybody come back; a server that uses its Vault has unsealed it.
VaultInv ==
  /\ pc[Leader] \notin {"waitVault", "unseal"}
  /\ token = "none" <=> pc[Leader] \in Unbooted
  /\ token = "revoked" => pc[Leader] \in {"auth", "start", "done"}
  /\ unsealKey <=> pc[Leader] \notin Unbooted \cup {"putKey"}
  /\ \A b \in Server :
       /\ b # Leader /\ pc[b] \notin Early \cup {"etcd", "waitEtcd", "waitVault"}
            => unsealKey
       /\ pc[b] \in {"boot", "putKey", "request", "revoke"} => b = Leader
       /\ pc[b] \in {"putKey", "token", "reissue", "backup", "neco", "vaultLeader"}
            => b \in unsealed

\* The servers whose restart GetFinished on b will not see any more.
Spent(b) ==
  {c \in Server \ {b} : pc[c] \in Restarting \cup Back /\ outage[c] <= timer[b]}

\* Every retry was because of another of them.
RetryInv ==
  \A b \in Server :
    /\ pc[b] \in {"vault2", "unseal2", "vaultLeader", "finish1", "poll1"}
         => client[b] = "neco"
    /\ pc[b] \notin Back => retries[b] = 0
    /\ pc[b] = "poll1" => AtLeast(retries[b], Spent(b))

----------------------------------------------------------------------------
(* No step returns an error. *)

\* Any set has no elements, one that grows has as many, and another one makes
\* one more.
LEMMA AtLeastNone == ASSUME NEW S PROVE AtLeast(0, S)
<1>1. 1 .. 0 = {}
  BY SMT
<1>2. [i \in 1 .. 0 |-> i] \in [1 .. 0 -> S]
  BY <1>1
<1> QED BY <1>1, <1>2 DEF AtLeast

LEMMA AtLeastGrows ==
  ASSUME NEW n \in Nat, NEW S, NEW T, S \subseteq T, AtLeast(n, S)
  PROVE  AtLeast(n, T)
<1>1. PICK f \in [1 .. n -> S] : \A i, j \in 1 .. n : f[i] = f[j] => i = j
  BY DEF AtLeast
<1>2. f \in [1 .. n -> T]
  OBVIOUS
<1> QED BY <1>1, <1>2 DEF AtLeast

LEMMA AtLeastMore ==
  ASSUME NEW n \in Nat, NEW S, NEW T, S \subseteq T, NEW x \in T \ S, AtLeast(n, S)
  PROVE  AtLeast(n + 1, T)
<1>1. PICK f \in [1 .. n -> S] : \A i, j \in 1 .. n : f[i] = f[j] => i = j
  BY DEF AtLeast
<1> DEFINE g == [i \in 1 .. n + 1 |-> IF i = n + 1 THEN x ELSE f[i]]
<1>2. g \in [1 .. n + 1 -> T]
  BY SMT
<1>3. ASSUME NEW i \in 1 .. n + 1, NEW j \in 1 .. n + 1, g[i] = g[j]
      PROVE  i = j
  BY SMT, <1>1, <1>3
<1> QED BY <1>2, <1>3 DEF AtLeast

\* A retry is left when GetFinished fails.
LEMMA RetryLeft ==
  ASSUME Patient, SetupInv, RetryInv, NEW b \in Server, pc[b] = "poll1",
         timer[b] = 0, NEW m \in members, outage[m] > 0
  PROVE  /\ retries[b] < MaxRetries /\ m \in Server \ ({b} \cup Spent(b))
         /\ pc[m] = "waitEtcd2"
<1>1. m \in Server /\ outage[m] \in Nat /\ pc[m] = "waitEtcd2"
  <2>1. m \in Server /\ outage[m] \in 0 .. Outage
    BY DEF SetupInv, SetupTypeOK
  <2>2. Own(m)
    BY <2>1 DEF SetupInv
  <2> QED BY SMT, <2>1, <2>2, SetupAssumption DEF Own
<1>2. m # b /\ m \notin Spent(b)
  BY SMT, <1>1 DEF Spent
<1>3. retries[b] \in 0 .. MaxRetries /\ MaxRetries \in Nat
  BY SetupAssumption DEF SetupInv, SetupTypeOK
<1>4. retries[b] \in Nat /\ AtLeast(retries[b], Spent(b))
  BY SMT, <1>3 DEF RetryInv
<1>5. AtLeast(retries[b] + 1, Spent(b) \cup {m})
  BY <1>2, <1>4, AtLeastMore
<1>6. Spent(b) \cup {m} \subseteq Server /\ b \in Server \ (Spent(b) \cup {m})
  BY <1>1, <1>2 DEF Spent
<1>7. AtLeast((retries[b] + 1) + 1, Server)
  <2>1. retries[b] + 1 \in Nat
    BY SMT, <1>4
  <2> QED BY <1>5, <1>6, <2>1, AtLeastMore
<1>8. retries[b] # MaxRetries
  <2>1. (MaxRetries + 1) + 1 = MaxRetries + 2
    BY SMT, <1>3
  <2> QED BY <1>7, <2>1 DEF Patient
<1>9. retries[b] < MaxRetries
  BY SMT, <1>3, <1>8
<1> QED BY <1>1, <1>2, <1>9

\* The root token is there for whoever uses it, and so is the unseal key.
LEMMA TokenThere ==
  ASSUME SetupInv, VaultInv, NEW b \in Server,
         pc[b] \in {"token", "reissue", "backup", "neco", "vaultLeader"}
  PROVE  token = "stored" /\ b \in unsealed
<1>1. pc[b] \in Preparing \cup Restarting /\ pc[b] \notin Back
  BY DEF Preparing, Restarting, Back, Released
<1>2. token # "revoked"
  <2>1. Pair(Leader, b)
    BY SetupAssumption DEF SetupInv
  <2>2. pc[Leader] \notin Released
    BY <1>1, <2>1 DEF Pair
  <2> QED BY <2>2 DEF VaultInv, Released
<1>3. token # "none"
  <2>1. CASE b = Leader
    BY <2>1 DEF VaultInv, Unbooted, Early
  <2>2. CASE b # Leader
    <3>1. unsealKey
      BY <2>2 DEF VaultInv, Early
    <3> QED BY <3>1 DEF VaultInv
  <2> QED BY <2>1, <2>2
<1>4. b \in unsealed
  BY DEF VaultInv
<1> QED BY <1>2, <1>3, <1>4 DEF SetupInv, SetupTypeOK

\* No step returns an error.
LEMMA NoErrors ==
  ASSUME Patient, SetupInv, CAInv, VaultInv, RetryInv, failed = {},
         NEW b \in Server, SetupStep(b)
  PROVE  failed' = {}
<1> USE DEF At
<1>1. CASE setupLocalCerts(b)
  <2>1. pc[b] = "issue"
    BY <1>1 DEF setupLocalCerts
  <2>2. "ready" \in bootstrap /\ b \notin bootstrap
    BY <2>1 DEF CAInv, Early
  <2>3. devVault
    BY <2>2 DEF CAInv, Early
  <2> QED BY <1>1, <2>3 DEF setupLocalCerts
<1>2. CASE WaitEtcdForVault(b)
  <2>1. "nil" \notin Clients(b)
    BY DEF Clients, Patient
  <2> QED BY <1>2, <2>1 DEF WaitEtcdForVault
<1>3. CASE GetVaultRootToken(b)
  BY <1>3, TokenThere DEF GetVaultRootToken
<1>4. CASE reissueCerts(b) \/ setupEtcdBackup(b) \/ setupNecoFiles(b)
  BY <1>4, TokenThere DEF reissueCerts, setupEtcdBackup, setupNecoFiles, Issue
<1>5. CASE WaitFinished(b)
  <2>1. FALSE \notin Answers(b)
    <3>1. ASSUME NEW m \in members, outage[m] > 0 PROVE FALSE
      <4>1. m \in Server /\ Own(m) /\ Pair(m, b)
        BY DEF SetupInv, SetupTypeOK
      <4>2. pc[m] \in Restarting
        BY <3>1, <4>1, Groups DEF Own
      <4> QED BY <1>5, <4>1, <4>2 DEF Pair, WaitFinished
    <3> QED BY <3>1 DEF Answers
  <2>2. \A ok \in Answers(b) : ok
    BY <2>1 DEF Answers
  <2> QED BY <1>5, <2>2 DEF WaitFinished
<1>6. CASE WaitVaultLeader(b)
  BY <1>6, TokenThere DEF WaitVaultLeader
<1>7. CASE WaitRestarted(b)
  <2>1. pc[b] = "poll1" /\ timer[b] = 0 /\ client[b] = "neco"
    BY <1>7 DEF WaitRestarted, RetryInv
  <2>2. PICK ok \in Answers(b) :
          \/ ok /\ UNCHANGED failed
          \/ ~ok /\ (retries[b] < MaxRetries => UNCHANGED failed)
    BY <1>7, <2>1 DEF WaitRestarted
  <2>3. CASE ok
    BY <2>2, <2>3
  <2>4. CASE ~ok
    <3>1. PICK m \in members : outage[m] > 0
      BY <2>4 DEF Answers
    <3> QED BY <2>1, <2>2, <2>4, <3>1, RetryLeft
  <2> QED BY <2>3, <2>4
<1>8. CASE PutRequest(b)
  <2>1. pc[b] = "request"
    BY <1>8 DEF PutRequest
  <2>2. Pair(b, Leader)
    BY SetupAssumption DEF SetupInv
  <2>3. pc[Leader] \in Back
    BY <2>1, <2>2 DEF Pair, Released
  <2>4. unsealKey
    BY <2>3 DEF VaultInv, Back, Released, Unbooted, Early
  <2> QED BY <1>8, <2>4 DEF PutRequest
<1>9. CASE \/ Install(b) \/ createCA(b) \/ ReadBootstrap(b) \/ prepareCA(b)
           \/ EtcdSetup(b) \/ setupVault(b) \/ bootVault(b) \/ waitVault(b)
           \/ Unseal(b) \/ RegisterBootserver(b) \/ Finish(b) \/ RestartEtcd(b)
           \/ RestartVault(b) \/ VaultUnseal(b) \/ revokeRootToken(b)
           \/ enableEtcdAuth(b) \/ StartServices(b)
  BY <1>9 DEF Install, createCA, ReadBootstrap, prepareCA, EtcdSetup, setupVault,
              bootVault, waitVault, Unseal, RegisterBootserver, Finish,
              RestartEtcd, RestartVault, VaultUnseal, revokeRootToken,
              enableEtcdAuth, StartServices
<1> QED
  BY <1>1, <1>2, <1>3, <1>4, <1>5, <1>6, <1>7, <1>8, <1>9 DEF SetupStep

----------------------------------------------------------------------------
(* The temporary Vault. *)

\* A step that goes on from one of the later places.
Late(b) ==
  /\ UNCHANGED <<devVault, bootstrap>>
  /\ pc[b] \notin Early /\ pc'[b] \notin Early
  /\ \A c \in Server \ {b} : pc'[c] = pc[c]

\* Apart from the first five, every step is late.
LEMMA LateSteps ==
  ASSUME SetupTypeOK, failed = {}, failed' = {}, NEW b \in Server, SetupStep(b)
  PROVE  \/ Late(b)
         \/ Install(b) \/ createCA(b) \/ ReadBootstrap(b) \/ setupLocalCerts(b)
         \/ prepareCA(b)
<1>0. pc \in [Host -> Places] /\ b \in Host /\ Server \subseteq Host
  BY DEF SetupTypeOK, Host
<1>1. ~Return(b)
  BY DEF Return
<1> USE <1>0 DEF At, Late, Early, Goto
<1>2. CASE EtcdSetup(b) \/ setupVault(b) \/ waitVault(b) \/ Unseal(b)
  BY <1>2 DEF EtcdSetup, setupVault, waitVault, Unseal
<1>3. CASE WaitEtcdForVault(b)
  BY <1>1, <1>3 DEF WaitEtcdForVault
<1>4. CASE bootVault(b)
  BY <1>4 DEF bootVault
<1>5. CASE GetVaultRootToken(b)
  BY <1>1, <1>5 DEF GetVaultRootToken
<1>6. CASE reissueCerts(b) \/ setupEtcdBackup(b) \/ setupNecoFiles(b)
  BY <1>1, <1>6 DEF reissueCerts, setupEtcdBackup, setupNecoFiles, Issue
<1>7. CASE RegisterBootserver(b) \/ Finish(b)
  BY <1>7 DEF RegisterBootserver, Finish
<1>8. CASE WaitFinished(b)
  BY <1>1, <1>8 DEF WaitFinished, SettleDown, AskAgain
<1>9. CASE RestartEtcd(b) \/ RestartVault(b) \/ VaultUnseal(b)
  BY <1>9 DEF RestartEtcd, RestartVault, VaultUnseal
<1>10. CASE WaitVaultLeader(b)
  BY <1>1, <1>10 DEF WaitVaultLeader
<1>11. CASE WaitRestarted(b)
  BY <1>1, <1>11 DEF WaitRestarted, AskAgain
<1>12. CASE PutRequest(b)
  <2>1. PICK revoke \in BOOLEAN : Goto(b, IF revoke THEN "revoke" ELSE "auth")
    BY <1>1, <1>12 DEF PutRequest
  <2> QED BY <1>1, <1>12, <2>1 DEF PutRequest
<1>13. CASE revokeRootToken(b) \/ enableEtcdAuth(b) \/ StartServices(b)
  BY <1>13 DEF revokeRootToken, enableEtcdAuth, StartServices
<1> QED
  BY <1>2, <1>3, <1>4, <1>5, <1>6, <1>7, <1>8, <1>9, <1>10, <1>11, <1>12, <1>13
  DEF SetupStep

\* The temporary Vault is there for all.
LEMMA CAStep ==
  ASSUME SetupTypeOK, CAInv, failed = {}, failed' = {}, NEW b \in Server,
         SetupStep(b)
  PROVE  CAInv'
<1>0. /\ pc \in [Host -> Places] /\ b \in Host /\ Server \subseteq Host
      /\ Leader \in Server /\ "ready" \notin Server /\ bootstrap \subseteq Server \cup {"ready"}
  BY SetupAssumption DEF SetupTypeOK, Host
<1>1. CASE Late(b)
  BY <1>0, <1>1 DEF Late, CAInv, Early
<1>2. CASE Install(b)
  <2>1. /\ pc[b] = "install" /\ bootstrap' = bootstrap
        /\ pc' = [pc EXCEPT ![b] = IF b = Leader THEN "createCA" ELSE "localCerts"]
        /\ devVault' = (devVault \/ b = Leader)
    BY <1>2 DEF Install, At, Goto
  <2>2. CASE b = Leader
    BY <1>0, <2>1, <2>2 DEF CAInv, Early
  <2>3. CASE b # Leader
    BY <1>0, <2>1, <2>3 DEF CAInv, Early
  <2> QED BY <2>2, <2>3
<1>3. CASE createCA(b)
  <2>1. /\ pc[b] = "createCA" /\ pc' = [pc EXCEPT ![b] = "localCerts"]
        /\ bootstrap' = {"ready"} /\ devVault' = devVault /\ b = Leader
    BY <1>3 DEF createCA, At, Goto, CAInv
  <2>2. bootstrap = {}
    BY <1>0, <2>1 DEF CAInv, Early
  <2> QED BY <1>0, <2>1, <2>2 DEF CAInv, Early
<1>4. CASE ReadBootstrap(b)
  BY <1>0, <1>4 DEF ReadBootstrap, At, Goto, CAInv, Early
<1>5. CASE setupLocalCerts(b)
  <2>1. /\ pc[b] = "issue" /\ devVault' = devVault
        /\ bootstrap' = bootstrap \cup {b}
        /\ pc' = [pc EXCEPT ![b] = IF b = Leader THEN "sync" ELSE "etcd"]
    BY <1>5 DEF setupLocalCerts, At, Goto, Return
  <2>2. CASE b = Leader
    BY <1>0, <2>1, <2>2 DEF CAInv, Early
  <2>3. CASE b # Leader
    BY <1>0, <2>1, <2>3 DEF CAInv, Early
  <2> QED BY <2>2, <2>3
<1>6. CASE prepareCA(b)
  <2>1. /\ pc[b] = "sync" /\ pc' = [pc EXCEPT ![b] = "etcd"] /\ b = Leader
        /\ ~devVault' /\ bootstrap' = bootstrap /\ Server \subseteq bootstrap
    BY <1>6 DEF prepareCA, At, Goto, CAInv, AllDone
  <2> QED BY <1>0, <2>1 DEF CAInv, Early
<1> QED
  BY <1>1, <1>2, <1>3, <1>4, <1>5, <1>6, LateSteps

----------------------------------------------------------------------------
(* The root token and the unseal key. *)

\* What a move of a server must respect when Vault is left as it is.
MayGo(b, q) ==
  /\ b = Leader =>
       /\ q \notin {"waitVault", "unseal"}
       /\ pc[b] \in Unbooted <=> q \in Unbooted
       /\ pc[b] # "putKey" /\ q # "putKey"
       /\ pc[b] \in {"auth", "start"} => q \in {"auth", "start", "done"}
       /\ pc[b] # "done"
  /\ b # Leader =>
       /\ q \notin {"boot", "putKey", "request", "revoke"}
       /\ unsealKey \/ q \in Early \cup {"etcd", "waitEtcd", "waitVault"}
  /\ q \in {"token", "reissue", "backup", "neco", "vaultLeader"} => b \in unsealed

\* A move that respects MayGo keeps VaultInv.
LEMMA VaultMove ==
  ASSUME SetupTypeOK, VaultInv, UNCHANGED vault, NEW b \in Server, NEW q \in Places,
         pc' = [pc EXCEPT ![b] = q], MayGo(b, q)
  PROVE  VaultInv'
<1>0. /\ pc \in [Host -> Places] /\ b \in Host /\ Server \subseteq Host
      /\ Leader \in Server
  BY SetupAssumption DEF SetupTypeOK, Host
<1>1. /\ pc'[b] = q /\ \A c \in Server \ {b} : pc'[c] = pc[c]
      /\ unsealed' = unsealed /\ token' = token /\ unsealKey' = unsealKey
  BY <1>0
<1>2. /\ pc'[Leader] \notin {"waitVault", "unseal"}
      /\ pc'[Leader] \in Unbooted <=> pc[Leader] \in Unbooted
      /\ pc'[Leader] = "putKey" <=> pc[Leader] = "putKey"
      /\ pc[Leader] \in {"auth", "start", "done"} => pc'[Leader] \in {"auth", "start", "done"}
  BY <1>0, <1>1 DEF VaultInv, MayGo
<1>3. ASSUME NEW c \in Server
      PROVE  /\ c # Leader /\ pc'[c] \notin Early \cup {"etcd", "waitEtcd", "waitVault"}
                  => unsealKey
             /\ pc'[c] \in {"boot", "putKey", "request", "revoke"} => c = Leader
             /\ pc'[c] \in {"putKey", "token", "reissue", "backup", "neco", "vaultLeader"}
                  => c \in unsealed
  <2>1. CASE c = b
    BY <1>1, <2>1 DEF MayGo
  <2>2. CASE c # b
    BY <1>1, <2>2 DEF VaultInv
  <2> QED BY <2>1, <2>2
<1> QED BY SMT, <1>1, <1>2, <1>3 DEF VaultInv

\* Nobody moves, and Vault is left as it is.
LEMMA VaultStill ==
  ASSUME VaultInv, UNCHANGED <<vault, pc>>
  PROVE  VaultInv'
BY DEF VaultInv

\* The early steps.
LEMMA VaultEarly ==
  ASSUME SetupTypeOK, VaultInv, CAInv, failed = {}, failed' = {}, NEW b \in Server,
         \/ Install(b) \/ createCA(b) \/ ReadBootstrap(b) \/ setupLocalCerts(b)
         \/ prepareCA(b) \/ EtcdSetup(b)
  PROVE  VaultInv'
<1>0. ~Return(b)
  BY DEF Return
<1>1. PICK q \in Early \cup {"etcd", "waitEtcd"} :
        /\ pc' = [pc EXCEPT ![b] = q] /\ UNCHANGED vault
        /\ pc[b] \in Early \cup {"etcd"}
  <2>1. CASE Install(b)
    BY <2>1 DEF Install, At, Goto, Early
  <2>2. CASE createCA(b) \/ ReadBootstrap(b) \/ prepareCA(b) \/ EtcdSetup(b)
    BY <2>2 DEF createCA, ReadBootstrap, prepareCA, EtcdSetup, At, Goto, Early
  <2>3. CASE setupLocalCerts(b)
    BY <1>0, <2>3 DEF setupLocalCerts, At, Goto, Early
  <2> QED BY <2>1, <2>2, <2>3
<1>2. q \in Places
  BY DEF Early, Places, Preparing
<1>3. MayGo(b, q)
  BY <1>1 DEF MayGo, Early, Unbooted
<1> QED BY <1>1, <1>2, <1>3, VaultMove

\* From the first use of etcd until Vault runs.
LEMMA VaultBegins ==
  ASSUME SetupTypeOK, VaultInv, failed = {}, failed' = {}, NEW b \in Server,
         WaitEtcdForVault(b) \/ setupVault(b) \/ waitVault(b)
  PROVE  VaultInv'
<1>0. ~Return(b)
  BY DEF Return
<1>1. PICK q \in {"vault2", "vault", "waitVault", "boot", "unseal"} :
        /\ pc' = [pc EXCEPT ![b] = q] /\ UNCHANGED vault
        /\ \/ pc[b] = "waitEtcd2" /\ q = "vault2"
           \/ pc[b] = "waitEtcd" /\ q = (IF b = Leader THEN "vault" ELSE "waitVault")
           \/ pc[b] = "vault" /\ q = (IF b = Leader THEN "boot" ELSE "unseal")
           \/ pc[b] = "waitVault" /\ unsealKey /\ q = "vault"
  <2>1. CASE WaitEtcdForVault(b)
    BY <1>0, <2>1 DEF WaitEtcdForVault, At, Goto
  <2>2. CASE setupVault(b)
    BY <2>2 DEF setupVault, At, Goto
  <2>3. CASE waitVault(b)
    BY <2>3 DEF waitVault, At, Goto
  <2> QED BY <2>1, <2>2, <2>3
<1>2. q \in Places
  BY DEF Places, Preparing, Restarting
<1>3. CASE b = Leader
  <2>1. pc[b] # "waitVault"
    BY <1>3 DEF VaultInv
  <2> QED BY <1>1, <1>2, <1>3, <2>1, VaultMove DEF MayGo, Early, Unbooted
<1>4. CASE b # Leader
  <2>1. pc[b] \in {"waitEtcd2", "vault"} => unsealKey
    BY <1>4 DEF VaultInv, Early
  <2>2. MayGo(b, q)
    BY <1>1, <1>4, <2>1 DEF MayGo, Early
  <2> QED BY <1>1, <1>2, <2>2, VaultMove
<1> QED BY <1>3, <1>4

\* Between the places where Vault is used and the end.
LEMMA VaultUsed ==
  ASSUME SetupTypeOK, VaultInv, failed = {}, failed' = {}, NEW b \in Server,
         \/ GetVaultRootToken(b) \/ reissueCerts(b) \/ setupEtcdBackup(b)
         \/ setupNecoFiles(b) \/ RegisterBootserver(b)
         \/ Finish(b) \/ WaitFinished(b) \/ RestartEtcd(b)
         \/ WaitVaultLeader(b) \/ WaitRestarted(b) \/ PutRequest(b)
         \/ enableEtcdAuth(b) \/ StartServices(b)
  PROVE  VaultInv'
<1>0. ~Return(b)
  BY DEF Return
<1> DEFINE Using == {"token", "reissue", "backup", "neco"}
           Quiet == {"register", "finish0", "poll0", "settle", "waitEtcd2",
                     "finish1", "poll1", "request", "revoke"}
           Last == {"auth", "start", "done"}
           Goes(q) == /\ pc' = [pc EXCEPT ![b] = q] /\ UNCHANGED vault
                      /\ q \in {"request", "revoke"} => b = Leader
                      /\ \/ pc[b] \in Using /\ b \in unsealed /\ q \in Using \cup Quiet
                         \/ pc[b] \in Quiet \cup {"vaultLeader"} /\ q \in Quiet \cup Last
                         \/ pc[b] \in Last \ {"done"} /\ q \in Last
<1>1. UNCHANGED <<vault, pc>> \/ \E q \in Using \cup Quiet \cup Last : Goes(q)
  <2>1. CASE GetVaultRootToken(b)
    <3>1. Goto(b, "reissue") /\ UNCHANGED vault /\ pc[b] = "token"
      BY <1>0, <2>1 DEF GetVaultRootToken, At
    <3> QED BY <3>1 DEF VaultInv, Goto
  <2>2. CASE reissueCerts(b) \/ setupEtcdBackup(b) \/ setupNecoFiles(b)
    BY <1>0, <2>2 DEF reissueCerts, setupEtcdBackup, setupNecoFiles, Issue, At, Goto
  <2>3. CASE RegisterBootserver(b) \/ RestartEtcd(b) \/ enableEtcdAuth(b) \/ StartServices(b)
    BY <2>3 DEF RegisterBootserver, RestartEtcd, enableEtcdAuth, StartServices, At, Goto
  <2>4. CASE Finish(b)
    BY <2>4 DEF Finish, At, Goto
  <2>5. CASE WaitFinished(b)
    BY <1>0, <2>5 DEF WaitFinished, SettleDown, AskAgain, At, Goto
  <2>6. CASE WaitVaultLeader(b)
    BY <1>0, <2>6 DEF WaitVaultLeader, At, Goto
  <2>7. CASE WaitRestarted(b)
    <3>1. pc[b] = "poll1" /\ UNCHANGED vault
      BY <2>7 DEF WaitRestarted, At
    <3>2. pc' = pc \/ Goto(b, IF b = Leader THEN "request" ELSE "start")
      BY <1>0, <2>7 DEF WaitRestarted, AskAgain
    <3> QED BY <3>1, <3>2 DEF Goto
  <2>8. CASE PutRequest(b)
    <3>1. PICK revoke \in BOOLEAN : Goto(b, IF revoke THEN "revoke" ELSE "auth")
      BY <1>0, <2>8 DEF PutRequest
    <3>2. b = Leader
      BY <2>8 DEF PutRequest, At, VaultInv
    <3>3. pc[b] = "request" /\ UNCHANGED vault
      BY <2>8 DEF PutRequest, At
    <3> QED BY <3>1, <3>2, <3>3 DEF Goto
  <2> QED BY <2>1, <2>2, <2>3, <2>4, <2>5, <2>6, <2>7, <2>8
<1>2. ASSUME NEW q \in Using \cup Quiet \cup Last, Goes(q) PROVE VaultInv'
  <2>1. q \in Places
    BY DEF Places, Preparing, Restarting, Released
  <2>2. CASE b = Leader
    BY <1>2, <2>1, <2>2, VaultMove DEF MayGo, Early, Unbooted
  <2>3. CASE b # Leader
    <3>1. unsealKey
      BY <1>2, <2>3 DEF VaultInv, Early
    <3>2. MayGo(b, q)
      BY <1>2, <2>3, <3>1 DEF MayGo
    <3> QED BY <1>2, <2>1, <3>2, VaultMove
  <2> QED BY <2>2, <2>3
<1> QED BY <1>1, <1>2, VaultStill

\* The root token, the unseal key and the server's Vault.
LEMMA VaultChanges ==
  ASSUME SetupInv, VaultInv, NEW b \in Server,
         \/ bootVault(b) \/ Unseal(b) \/ RestartVault(b) \/ VaultUnseal(b)
         \/ revokeRootToken(b)
  PROVE  VaultInv'
<1>0. /\ pc \in [Host -> Places] /\ b \in Host /\ Server \subseteq Host
      /\ Leader \in Server /\ unsealKey \in BOOLEAN
  BY SetupAssumption DEF SetupInv, SetupTypeOK, Host
<1>1. CASE bootVault(b) /\ pc[b] = "boot"
  <2>1. /\ unsealed' = unsealed \cup {b} /\ token' = "stored"
        /\ pc' = [pc EXCEPT ![b] = "putKey"] /\ unsealKey' = unsealKey
    BY <1>1 DEF bootVault, At, Goto
  <2>2. b = Leader
    BY <1>1 DEF VaultInv
  <2>3. ~unsealKey
    BY <1>1, <2>2 DEF VaultInv, Unbooted
  <2> QED BY <1>0, <1>1, <2>1, <2>2, <2>3 DEF VaultInv, Unbooted, Early
<1>2. CASE bootVault(b) /\ pc[b] = "putKey"
  <2>1. /\ unsealed' = unsealed /\ token' = token
        /\ pc' = [pc EXCEPT ![b] = "token"] /\ unsealKey' = TRUE
    BY <1>2 DEF bootVault, At, Goto
  <2>2. b = Leader /\ b \in unsealed
    BY <1>2 DEF VaultInv
  <2>3. token \notin {"none", "revoked"}
    BY <1>2, <2>2 DEF VaultInv, Unbooted, Early
  <2> QED BY <1>0, <1>2, <2>1, <2>2, <2>3 DEF VaultInv, Unbooted, Early
<1>3. CASE Unseal(b)
  <2>1. /\ unsealed' = unsealed \cup {b} /\ token' = token
        /\ pc' = [pc EXCEPT ![b] = "token"] /\ unsealKey' = unsealKey
        /\ pc[b] = "unseal"
    BY <1>3 DEF Unseal, At, Goto
  <2>2. b # Leader
    BY <2>1 DEF VaultInv
  <2>3. unsealKey
    BY <2>1, <2>2 DEF VaultInv, Early
  <2> QED BY <1>0, <2>1, <2>2, <2>3 DEF VaultInv
<1>4. CASE RestartVault(b)
  <2>1. /\ unsealed' = unsealed \ {b} /\ token' = token
        /\ pc' = [pc EXCEPT ![b] = "unseal2"] /\ unsealKey' = unsealKey
        /\ pc[b] = "vault2"
    BY <1>4 DEF RestartVault, At, Goto
  <2> QED BY <1>0, <2>1 DEF VaultInv, Unbooted, Early
<1>5. CASE VaultUnseal(b)
  <2>1. /\ unsealed' = (IF certs[b] = "neco" /\ unsealKey THEN unsealed \cup {b}
                        ELSE unsealed)
        /\ token' = token /\ pc[b] = "unseal2"
        /\ pc' = [pc EXCEPT ![b] = "vaultLeader"] /\ unsealKey' = unsealKey
    BY <1>5 DEF VaultUnseal, At, Goto
  <2>2. certs[b] = "neco"
    BY <2>1 DEF SetupInv, Own, Certified, Restarting
  <2>3. unsealKey
    BY <2>1 DEF VaultInv, Unbooted, Early
  <2>4. unsealed' = unsealed \cup {b}
    BY <2>1, <2>2, <2>3
  <2> QED BY <1>0, <2>1, <2>3, <2>4 DEF VaultInv, Unbooted, Early
<1>6. CASE revokeRootToken(b)
  <2>1. /\ unsealed' = unsealed /\ token' = "revoked" /\ pc[b] = "revoke"
        /\ pc' = [pc EXCEPT ![b] = "auth"] /\ unsealKey' = unsealKey
    BY <1>6 DEF revokeRootToken, At, Goto
  <2>2. b = Leader
    BY <2>1 DEF VaultInv
  <2> QED BY <1>0, <2>1, <2>2 DEF VaultInv, Unbooted, Early
<1>7. bootVault(b) => pc[b] \in {"boot", "putKey"}
  BY DEF bootVault, At
<1> QED BY <1>1, <1>2, <1>3, <1>4, <1>5, <1>6, <1>7

\* The root token and the unseal key are there for all.
LEMMA VaultStep ==
  ASSUME SetupInv, CAInv, VaultInv, failed = {}, failed' = {}, NEW b \in Server,
         SetupStep(b)
  PROVE  VaultInv'
<1>1. SetupTypeOK
  BY DEF SetupInv
<1> QED BY <1>1, VaultEarly, VaultBegins, VaultUsed, VaultChanges DEF SetupStep

----------------------------------------------------------------------------
(* The retries. *)

\* A server that has restarted its etcd, or is about to ask about it.
Renewed == {"vault2", "unseal2", "vaultLeader", "finish1", "poll1"}

\* A step of a server other than a failed GetFinished of the second loop.
Steady(b) ==
  /\ retries' = retries
  /\ \A c \in Server \ {b} : /\ pc'[c] = pc[c] /\ timer'[c] = timer[c]
                             /\ client'[c] = client[c] /\ outage'[c] = outage[c]
  /\ pc[b] \in Restarting \cup Back
       => pc'[b] \in Restarting \cup Back /\ outage'[b] = outage[b]
  /\ pc[b] \in Back => pc'[b] \in Back
  /\ pc'[b] \in Renewed => client'[b] = "neco"
  /\ pc'[b] = "poll1" => pc[b] \notin Back \/ (pc[b] = "poll1" /\ timer[b] <= timer'[b])

\* A steady step keeps RetryInv.
LEMMA SteadyStep ==
  ASSUME Patient, SetupTypeOK, SetupTypeOK', RetryInv, NEW b \in Server, Steady(b)
  PROVE  RetryInv'
<1>0. /\ timer \in [Server -> Nat] /\ timer' \in [Server -> Nat]
      /\ outage \in [Server -> 0 .. Outage] /\ Outage \in Nat
      /\ retries \in [Server -> 0 .. MaxRetries] /\ MaxRetries \in Nat
  BY SetupAssumption DEF SetupTypeOK
<1>1. ASSUME NEW c \in Server
      PROVE  /\ pc'[c] \in Renewed => client'[c] = "neco"
             /\ pc'[c] \notin Back => retries'[c] = 0
  BY DEF RetryInv, Steady, Renewed
<1>2. ASSUME NEW c \in Server, pc'[c] = "poll1"
      PROVE  AtLeast(retries'[c], Spent(c)')
  <2>1. CASE pc[c] \in Back
    <3>1. pc[c] = "poll1" /\ timer[c] <= timer'[c]
      <4>1. CASE c = b
        BY <1>2, <2>1, <4>1 DEF Steady
      <4>2. CASE c # b
        BY SMT, <1>0, <1>2, <4>2 DEF Steady
      <4> QED BY <4>1, <4>2
    <3>2. ASSUME NEW d \in Spent(c) PROVE d \in Spent(c)'
      <4>1. /\ d \in Server \ {c} /\ pc[d] \in Restarting \cup Back
            /\ outage[d] <= timer[c]
        BY DEF Spent
      <4>2. pc'[d] \in Restarting \cup Back /\ outage'[d] = outage[d]
        BY <4>1 DEF Steady
      <4>3. outage[d] <= timer'[c]
        BY SMT, <1>0, <3>1, <4>1
      <4> QED BY <4>1, <4>2, <4>3 DEF Spent, Restarting, Back, Released
    <3>3. AtLeast(retries[c], Spent(c))
      BY <3>1 DEF RetryInv
    <3>4. retries'[c] = retries[c] /\ retries[c] \in Nat
      BY SMT, <1>0 DEF Steady
    <3> QED BY <3>2, <3>3, <3>4, AtLeastGrows
  <2>2. CASE pc[c] \notin Back
    <3>1. retries'[c] = 0
      BY <2>2 DEF RetryInv, Steady
    <3> QED BY <3>1, AtLeastNone
  <2> QED BY <2>1, <2>2
<1> QED BY <1>1, <1>2 DEF RetryInv, Renewed

\* A move that leaves clocks, outages and clients alone is steady.
LEMMA SteadyMove ==
  ASSUME SetupTypeOK, RetryInv, NEW b \in Server, NEW q, pc' = [pc EXCEPT ![b] = q],
         UNCHANGED <<clock, outage, client>>, q # "poll1",
         pc[b] \in Restarting => q \in Restarting, pc[b] \in Back => q \in Back,
         q \in Renewed => pc[b] \in Renewed
  PROVE  Steady(b)
<1>1. pc \in [Host -> Places] /\ b \in Host /\ Server \subseteq Host
  BY DEF SetupTypeOK, Host
<1>2. pc'[b] = q /\ \A c \in Server \ {b} : pc'[c] = pc[c]
  BY <1>1
<1>3. q \in Renewed => client[b] = "neco"
  BY DEF RetryInv, Renewed
<1> QED BY <1>2, <1>3 DEF Steady

\* A failed GetFinished of the second loop.
Retries(b) ==
  /\ pc[b] = "poll1" /\ timer[b] = 0
  /\ \E m \in members : outage[m] > 0
  /\ retries' = [retries EXCEPT ![b] = @ + 1]
  /\ timer' = [timer EXCEPT ![b] = RetryInterval]
  /\ UNCHANGED <<pc, client, outage>>

\* Steps up to the first stage.
LEMMA SteadyBefore ==
  ASSUME SetupTypeOK, RetryInv, NEW b \in Server, failed = {}, failed' = {},
         \/ Install(b) \/ createCA(b) \/ ReadBootstrap(b) \/ setupLocalCerts(b)
         \/ prepareCA(b) \/ EtcdSetup(b) \/ setupVault(b) \/ bootVault(b)
         \/ waitVault(b) \/ Unseal(b) \/ GetVaultRootToken(b) \/ reissueCerts(b)
         \/ setupEtcdBackup(b) \/ setupNecoFiles(b) \/ RegisterBootserver(b)
  PROVE  Steady(b)
<1>1. ~Return(b)
  BY DEF Return
<1>2. PICK q \in Preparing :
        pc[b] \in Preparing /\ Goto(b, q) /\ UNCHANGED <<clock, outage, client>>
  <2> USE DEF At, Preparing
  <2>1. CASE Install(b)
    BY <2>1 DEF Install
  <2>2. CASE createCA(b) \/ ReadBootstrap(b) \/ prepareCA(b) \/ EtcdSetup(b)
    BY <2>2 DEF createCA, ReadBootstrap, prepareCA, EtcdSetup
  <2>3. CASE setupLocalCerts(b)
    BY <1>1, <2>3 DEF setupLocalCerts
  <2>4. CASE setupVault(b) \/ waitVault(b) \/ Unseal(b)
    BY <2>4 DEF setupVault, waitVault, Unseal
  <2>5. CASE bootVault(b)
    BY <2>5 DEF bootVault
  <2>6. CASE GetVaultRootToken(b)
    BY <1>1, <2>6 DEF GetVaultRootToken
  <2>7. CASE reissueCerts(b) \/ setupEtcdBackup(b) \/ setupNecoFiles(b)
    BY <1>1, <2>7 DEF reissueCerts, setupEtcdBackup, setupNecoFiles, Issue
  <2>8. CASE RegisterBootserver(b)
    BY <2>8 DEF RegisterBootserver
  <2> QED BY <2>1, <2>2, <2>3, <2>4, <2>5, <2>6, <2>7, <2>8
<1>3. /\ q # "poll1" /\ pc[b] \notin Restarting /\ pc[b] \notin Back
      /\ q \notin Renewed
  BY <1>2, Groups DEF Renewed, Preparing
<1> QED BY <1>2, <1>3, SteadyMove DEF Goto

\* Steps of the second stage and after it that ask nothing of the others.
LEMMA SteadyAfter ==
  ASSUME SetupTypeOK, RetryInv, NEW b \in Server, failed = {}, failed' = {},
         \/ RestartVault(b) \/ VaultUnseal(b) \/ WaitVaultLeader(b)
         \/ PutRequest(b) \/ revokeRootToken(b) \/ enableEtcdAuth(b)
         \/ StartServices(b)
  PROVE  Steady(b)
<1>1. ~Return(b)
  BY DEF Return
<1>2. CASE RestartVault(b)
  BY <1>2, SteadyMove DEF RestartVault, At, Goto, Restarting, Back, Released, Renewed
<1>3. CASE VaultUnseal(b)
  BY <1>3, SteadyMove DEF VaultUnseal, At, Goto, Restarting, Back, Released, Renewed
<1>4. CASE WaitVaultLeader(b)
  BY <1>1, <1>4, SteadyMove
  DEF WaitVaultLeader, At, Goto, Restarting, Back, Released, Renewed
<1>5. CASE PutRequest(b) \/ revokeRootToken(b) \/ enableEtcdAuth(b) \/ StartServices(b)
  <2>1. PICK q \in Released :
          pc[b] \in Released /\ Goto(b, q) /\ UNCHANGED <<clock, outage, client>>
    <3>1. CASE PutRequest(b)
      <4>1. PICK revoke \in BOOLEAN : Goto(b, IF revoke THEN "revoke" ELSE "auth")
        BY <1>1, <3>1 DEF PutRequest
      <4>2. pc[b] = "request" /\ UNCHANGED <<clock, outage, client>>
        BY <3>1 DEF PutRequest, At
      <4> QED BY <4>1, <4>2 DEF Released
    <3>2. CASE revokeRootToken(b) \/ enableEtcdAuth(b) \/ StartServices(b)
      BY <3>2 DEF revokeRootToken, enableEtcdAuth, StartServices, At, Released
    <3> QED BY <1>5, <3>1, <3>2
  <2>2. q # "poll1" /\ pc[b] \notin Restarting /\ q \in Back /\ q \notin Renewed
    BY <2>1, Groups DEF Renewed, Released
  <2> QED BY <2>1, <2>2, SteadyMove DEF Goto
<1> QED BY <1>2, <1>3, <1>4, <1>5

\* The waits for etcd, the stages and the restart.
LEMMA SteadyStages ==
  ASSUME Patient, SetupInv, RetryInv, NEW b \in Server, failed = {}, failed' = {},
         \/ WaitEtcdForVault(b) \/ Finish(b) \/ WaitFinished(b) \/ RestartEtcd(b)
         \/ WaitRestarted(b)
  PROVE  Steady(b) \/ Retries(b)
<1>0. /\ pc \in [Host -> Places] /\ b \in Host /\ Server \subseteq Host
      /\ client \in [Server -> {"none", "vault", "neco", "nil"}]
      /\ timer \in [Server -> Nat] /\ outage \in [Server -> 0 .. Outage]
      /\ PollInterval \in Nat
  BY SetupAssumption DEF SetupInv, SetupTypeOK, Host
<1>1. ~Return(b)
  BY DEF Return
<1>2. CASE WaitEtcdForVault(b)
  <2>1. PICK c \in Clients(b) :
          /\ client' = [client EXCEPT ![b] = c]
          /\ pc' = [pc EXCEPT ![b] = IF pc[b] = "waitEtcd2" THEN "vault2"
                                     ELSE IF b = Leader THEN "vault" ELSE "waitVault"]
          /\ pc[b] \in {"waitEtcd", "waitEtcd2"} /\ UNCHANGED <<clock, outage>>
    BY <1>1, <1>2 DEF WaitEtcdForVault, At, Goto
  <2>2. pc[b] = "waitEtcd2" => c = "neco"
    <3>1. pc[b] = "waitEtcd2" => certs[b] = "neco"
      BY DEF SetupInv, Own, Certified, Restarting
    <3> QED BY <3>1 DEF Clients, Patient
  <2>3. pc'[b] = "vault2" \/ (pc[b] = "waitEtcd" /\ pc'[b] \in {"vault", "waitVault"})
    BY <1>0, <2>1
  <2>4. client'[b] = c /\ (pc'[b] = "vault2" => c = "neco")
    BY <1>0, <2>1, <2>2
  <2>5. \A d \in Server \ {b} : pc'[d] = pc[d] /\ client'[d] = client[d]
    BY <1>0, <2>1
  <2> QED BY <2>1, <2>3, <2>4, <2>5 DEF Steady, Restarting, Back, Released, Renewed
<1>3. CASE Finish(b)
  <2>1. /\ timer' = [timer EXCEPT ![b] = 0] /\ UNCHANGED <<retries, outage, client>>
        /\ \/ pc[b] = "finish0" /\ pc' = [pc EXCEPT ![b] = "poll0"]
           \/ pc[b] = "finish1" /\ pc' = [pc EXCEPT ![b] = "poll1"]
    BY <1>3 DEF Finish, At, Goto
  <2>2. pc[b] = "finish1" => client[b] = "neco"
    BY DEF RetryInv
  <2> QED BY <1>0, <2>1, <2>2 DEF Steady, Restarting, Back, Released, Renewed
<1>4. CASE WaitFinished(b)
  <2>1. /\ pc[b] = "poll0" /\ UNCHANGED <<retries, outage, client>>
        /\ \E n : timer' = [timer EXCEPT ![b] = n]
        /\ pc' = pc \/ pc' = [pc EXCEPT ![b] = "settle"]
    BY <1>1, <1>4 DEF WaitFinished, At, SettleDown, AskAgain, Goto
  <2>2. /\ pc'[b] \in {"poll0", "settle"}
        /\ \A c \in Server \ {b} : pc'[c] = pc[c] /\ timer'[c] = timer[c]
    BY <1>0, <2>1
  <2> QED BY <2>1, <2>2 DEF Steady, Restarting, Back, Released, Renewed
<1>5. CASE RestartEtcd(b)
  <2>1. /\ pc[b] = "settle" /\ pc' = [pc EXCEPT ![b] = "waitEtcd2"]
        /\ UNCHANGED <<clock, client>>
        /\ \E d : outage' = [outage EXCEPT ![b] = d]
    BY <1>5 DEF RestartEtcd, At, Goto
  <2>2. /\ pc'[b] = "waitEtcd2"
        /\ \A c \in Server \ {b} : pc'[c] = pc[c] /\ outage'[c] = outage[c]
    BY <1>0, <2>1
  <2> QED BY <2>1, <2>2 DEF Steady, Restarting, Back, Released, Renewed
<1>6. CASE WaitRestarted(b)
  <2>1. /\ pc[b] = "poll1" /\ timer[b] = 0 /\ client[b] = "neco"
        /\ UNCHANGED <<client, outage>>
    BY <1>6 DEF WaitRestarted, At, RetryInv
  <2>2. PICK ok \in Answers(b) :
          IF ok
          THEN /\ UNCHANGED retries
               /\ \/ /\ Goto(b, IF b = Leader THEN "request" ELSE "start")
                     /\ UNCHANGED timer
                  \/ AskAgain(b)
          ELSE /\ retries' = [retries EXCEPT ![b] = @ + 1]
               /\ timer' = [timer EXCEPT ![b] = RetryInterval]
               /\ UNCHANGED pc
    BY <1>1, <1>6, <2>1 DEF WaitRestarted
  <2>3. CASE ~ok
    <3>1. \E m \in members : outage[m] > 0
      BY <2>3 DEF Answers
    <3> QED BY <2>1, <2>2, <2>3, <3>1 DEF Retries
  <2>4. CASE ok /\ AskAgain(b)
    <3>1. /\ timer'[b] = PollInterval /\ pc' = pc /\ timer[b] <= PollInterval
          /\ \A c \in Server \ {b} : timer'[c] = timer[c]
      BY SMT, <1>0, <2>1, <2>4 DEF AskAgain
    <3> QED BY <2>1, <2>2, <2>4, <3>1 DEF Steady
  <2>5. CASE ok /\ UNCHANGED timer /\ Goto(b, IF b = Leader THEN "request" ELSE "start")
    <3>1. /\ pc'[b] \in {"request", "start"}
          /\ \A c \in Server \ {b} : pc'[c] = pc[c]
      BY <1>0, <2>5 DEF Goto
    <3> QED BY <2>1, <2>2, <2>5, <3>1 DEF Steady, Back, Released, Renewed
  <2> QED BY <2>2, <2>3, <2>4, <2>5
<1> QED BY <1>2, <1>3, <1>4, <1>5, <1>6

\* A retry is paid for by a restart that GetFinished will not see again.
LEMMA RetriesStep ==
  ASSUME Patient, SetupInv, RetryInv, NEW b \in Server, Retries(b)
  PROVE  RetryInv'
<1>0. /\ SetupTypeOK /\ timer \in [Server -> Nat] /\ retries \in [Server -> 0 .. MaxRetries]
      /\ outage \in [Server -> 0 .. Outage] /\ members \subseteq Server
      /\ Outage \in Nat /\ RetryInterval \in Nat /\ MaxRetries \in Nat
      /\ Outage <= RetryInterval
  BY SetupAssumption DEF SetupInv, SetupTypeOK, Patient
<1>1. /\ pc[b] = "poll1" /\ timer[b] = 0 /\ UNCHANGED <<pc, client, outage>>
      /\ retries'[b] = retries[b] + 1 /\ timer'[b] = RetryInterval
      /\ \A c \in Server \ {b} : retries'[c] = retries[c] /\ timer'[c] = timer[c]
  BY <1>0 DEF Retries
<1>2. PICK m \in members : outage[m] > 0
  BY DEF Retries
<1>3. m \in Server \ ({b} \cup Spent(b)) /\ pc[m] = "waitEtcd2"
  BY <1>1, <1>2, RetryLeft
<1>4. \A c \in Server : outage[c] <= RetryInterval
  BY SMT, <1>0
<1>5. AtLeast(retries'[b], Spent(b)')
  <2>1. m \in Spent(b)' \ Spent(b) /\ Spent(b) \subseteq Spent(b)'
    BY <1>1, <1>3, <1>4 DEF Spent, Restarting
  <2>2. AtLeast(retries[b], Spent(b)) /\ retries[b] \in Nat
    BY SMT, <1>0, <1>1 DEF RetryInv
  <2> QED BY <1>1, <2>1, <2>2, AtLeastMore, ZenonT(90)
<1>6. ASSUME NEW c \in Server \ {b} PROVE Spent(c)' = Spent(c)
  BY <1>1 DEF Spent
<1>7. pc[b] \in Back
  BY <1>1 DEF Back
<1> QED BY <1>1, <1>5, <1>6, <1>7 DEF RetryInv

\* A tick brings the end of an outage as near as the next GetFinished.
LEMMA RetryTick ==
  ASSUME Patient, SetupTypeOK, RetryInv, failed = {}, Tick
  PROVE  RetryInv'
<1>0. /\ timer \in [Server -> Nat] /\ retries \in [Server -> 0 .. MaxRetries]
      /\ outage \in [Server -> 0 .. Outage] /\ Outage \in Nat /\ MaxRetries \in Nat
  BY SetupAssumption DEF SetupTypeOK
<1>1. /\ \A c \in Server : ~Due(c)
      /\ timer' = [c \in Server |-> Minus1(timer[c])]
      /\ outage' = [c \in Server |-> Minus1(outage[c])]
      /\ UNCHANGED <<pc, retries, client>>
  BY DEF Tick
<1>2. ASSUME NEW c \in Server, pc[c] = "poll1"
      PROVE  AtLeast(retries[c], Spent(c)')
  <2>1. timer[c] # 0 /\ timer[c] \in Nat
    BY <1>0, <1>1, <1>2 DEF Due, At
  <2>2. ASSUME NEW d \in Spent(c) PROVE d \in Spent(c)'
    <3>1. d \in Server \ {c} /\ outage[d] <= timer[c] /\ pc[d] \in Restarting \cup Back
      BY DEF Spent
    <3>2. outage[d] \in Nat /\ outage'[d] = Minus1(outage[d]) /\ timer'[c] = Minus1(timer[c])
      BY SMT, <1>0, <1>1, <3>1
    <3>3. outage'[d] <= timer'[c]
      BY SMT, <2>1, <3>1, <3>2 DEF Minus1
    <3> QED BY <1>1, <3>1, <3>3 DEF Spent
  <2>3. AtLeast(retries[c], Spent(c)) /\ retries[c] \in Nat
    BY SMT, <1>0, <1>2 DEF RetryInv
  <2> QED BY <2>2, <2>3, AtLeastGrows
<1> QED BY <1>1, <1>2 DEF RetryInv

----------------------------------------------------------------------------
(* Nobody fails the others. *)

\* A step that moves none of the servers that run "neco setup".
LEMMA Untouched ==
  ASSUME \A c \in Server : pc'[c] = pc[c], UNCHANGED <<devVault, bootstrap, vault>>
  PROVE  (CAInv => CAInv') /\ (VaultInv => VaultInv')
<1>1. pc'[Leader] = pc[Leader]
  BY SetupAssumption
<1> QED BY <1>1 DEF CAInv, VaultInv

\* The same for the retries.
LEMMA RetryUntouched ==
  ASSUME RetryInv, \A c \in Server : pc'[c] = pc[c],
         UNCHANGED <<clock, outage, client>>
  PROVE  RetryInv'
<1>1. ASSUME NEW c \in Server PROVE Spent(c)' = Spent(c)
  BY DEF Spent
<1> QED BY <1>1 DEF RetryInv

\* What holds as long as no call has failed by itself.
Helpful == broken = {} => failed = {} /\ CAInv /\ VaultInv /\ RetryInv

\* Helpful holds at the beginning ...
LEMMA HelpfulInit == SetupInit => Helpful
<1> SUFFICES ASSUME SetupInit PROVE CAInv /\ VaultInv /\ RetryInv
  BY DEF Helpful, SetupInit
<1>1. \A b \in Server : pc[b] = "install" /\ retries[b] = 0
  BY DEF SetupInit, Host
<1>2. Leader \in Server /\ "ready" \notin bootstrap
  BY SetupAssumption DEF SetupInit
<1>3. CAInv
  BY <1>1, <1>2 DEF CAInv, Early, SetupInit
<1>4. VaultInv
  BY <1>1, <1>2 DEF VaultInv, Unbooted, Early, SetupInit
<1>5. RetryInv
  BY <1>1 DEF RetryInv
<1> QED BY <1>3, <1>4, <1>5

\* A step of a server makes no call fail by itself.
LEMMA BreaksOnly ==
  ASSUME NEW b \in Server, SetupStep(b)
  PROVE  broken' = broken
BY DEF SetupStep, Install, createCA, ReadBootstrap, setupLocalCerts, prepareCA,
       EtcdSetup, WaitEtcdForVault, setupVault, bootVault, waitVault, Unseal,
       GetVaultRootToken, reissueCerts, setupEtcdBackup, setupNecoFiles, Issue,
       RegisterBootserver, Finish, WaitFinished, RestartEtcd, RestartVault,
       VaultUnseal, WaitVaultLeader, WaitRestarted, PutRequest, revokeRootToken,
       enableEtcdAuth, StartServices, Return

\* ... and after every step.
LEMMA HelpfulStep ==
  ASSUME Patient, SetupInv, SetupInv', Helpful, [SetupNext]_svars
  PROVE  Helpful'
<1>0. SetupTypeOK /\ SetupTypeOK'
  BY DEF SetupInv
<1>1. ASSUME NEW b \in Server, SetupStep(b), broken' = {}
      PROVE  failed' = {} /\ CAInv' /\ VaultInv' /\ RetryInv'
  <2>1. broken = {}
    BY <1>1, BreaksOnly
  <2>2. failed = {} /\ CAInv /\ VaultInv /\ RetryInv
    BY <2>1 DEF Helpful
  <2>3. failed' = {}
    BY <1>1, <2>2, NoErrors
  <2>4. CAInv' /\ VaultInv'
    BY <1>0, <1>1, <2>2, <2>3, CAStep, VaultStep
  <2>5. Steady(b) \/ Retries(b)
    BY <1>0, <1>1, <2>2, <2>3, SteadyBefore, SteadyAfter, SteadyStages DEF SetupStep
  <2>6. RetryInv'
    BY <1>0, <2>2, <2>5, SteadyStep, RetriesStep
  <2> QED BY <2>3, <2>4, <2>6
<1>2. ASSUME NEW b \in Newcomer, Join(b) \/ Leave(b) PROVE Helpful'
  <2>1. /\ UNCHANGED <<ends, bootstrap, vault, clock, outage, client>>
        /\ \E q : pc' = [pc EXCEPT ![b] = q]
    BY <1>2 DEF Join, Leave, Goto
  <2>2. \A c \in Server : pc'[c] = pc[c]
    BY SMTT(30), <1>0, <2>1, SetupAssumption DEF SetupTypeOK, Host
  <2> QED BY <2>1, <2>2, Untouched, RetryUntouched DEF Helpful
<1>3. ASSUME NEW b \in Host, Breaks(b) PROVE Helpful'
  BY <1>3 DEF Breaks, Helpful
<1>4. CASE Tick
  <2>1. UNCHANGED <<pc, ends, bootstrap, vault>>
    BY <1>4 DEF Tick
  <2> QED BY <1>0, <1>4, <2>1, Untouched, RetryTick DEF Helpful
<1>5. CASE UNCHANGED svars
  <2>1. UNCHANGED <<pc, ends, bootstrap, vault, clock, outage, client>>
    BY <1>5 DEF svars
  <2> QED BY <2>1, Untouched, RetryUntouched DEF Helpful
<1> QED BY <1>1, <1>2, <1>3, <1>4, <1>5 DEF SetupNext, Helpful

\* The servers do not fail each other, provided that each of the others may
\* cost a retry and that a restart of etcd is over when GetFinished is called
\* again: of all errors some call that failed by itself is the first.
THEOREM NobodyFailsOthers == Patient => (SetupSpec => []NobodyFails)
<1> SUFFICES ASSUME Patient PROVE SetupSpec => []NobodyFails
  OBVIOUS
<1>1. SetupInit => Helpful
  BY HelpfulInit
<1>2. SetupInv /\ SetupInv' /\ Helpful /\ [SetupNext]_svars => Helpful'
  BY HelpfulStep
<1>3. Helpful => NobodyFails
  BY DEF Helpful, NobodyFails
<1> QED BY <1>1, <1>2, <1>3, SetupInductive, PTL DEF SetupSpec
=============================================================================
