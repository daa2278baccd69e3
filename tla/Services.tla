------------------------------ MODULE Services ------------------------------
(***************************************************************************)
(* The steps of an update that change the services of one boot server      *)
(* (worker/vault.go, setuphw.go, serf.go, setup_serf_tags.go,              *)
(* etcdpasswd.go, sabakan.go, sabakan_state_setter.go, cke.go,             *)
(* promtail.go): the tag that is in use is recorded in etcd, files are     *)
(* replaced where they differ, and the service is restarted, some only     *)
(* when one of the two has changed.  Errors and crashes cut a step short   *)
(* anywhere, and a later round begins with what is left.                   *)
(* The barriers are in Workers, and the elections of serf and of the       *)
(* contents in EtcdMembers and Contents.                                   *)
(***************************************************************************)
EXTENDS Integers, Sequences, FiniteSets

CONSTANTS
  Version,    \* versions of neco, in the order of release
  ServerSets, \* the sets of boot servers that requests name
  Tag         \* the tag of each service in the artifacts of each version

Steps == <<"images", "stop-vault", "vault", "setup-hw", "serf", "serf-tags",
           "etcdpasswd", "sabakan", "state-setter", "stop-cke", "cke", "promtail">>

Service == {"vault", "setup-hw", "serf", "serf-tags", "etcdpasswd", "sabakan",
            "state-setter", "cke", "promtail"}

\* neco.BootImages but etcd.
Images == {"vault", "setup-hw", "serf", "sabakan", "promtail"}

\* Their configuration files name the boot servers.
Clustered == {"vault", "serf", "etcdpasswd", "sabakan", "cke"}

\* In the neco package: the maintainer scripts restart them.
Packaged == {"cke", "state-setter"}

\* Restarted only when the tag or a file has changed.
OnChange == {"setup-hw", "serf", "promtail", "etcdpasswd"}

ASSUME ServicesAssumption ==
  /\ Version \subseteq Nat \ {0} /\ Version # {}
  /\ ServerSets # {} /\ {} \notin ServerSets
  /\ Tag \in [Service -> [Version -> Nat \ {0}]]

VARIABLES
  request,    \* the current request: [version, servers]
  status,     \* of the round
  images,     \* the container images that have been pulled: <<name, tag>>
  recorded,   \* containers/<lrn>/ and debs/<lrn>/
  files,      \* what the unit and configuration files say
  running,    \* what the service was started with
  step, pc,   \* where the worker is
  need, replaced, \* local variables of a step
  skipped     \* services that missed the restart due to a change (history)

etcVars == <<images, recorded, files, running>>
servicesVars ==
  <<request, status, etcVars, step, pc, need, replaced, skipped>>

Nothing == [tag |-> 0, servers |-> {}]

\* What the templates make of the artifacts and of the request.
Content(s, r) == [tag |-> Tag[s][r.version],
                  servers |-> IF s \in Clustered THEN r.servers ELSE {}]
Wanted(s) == Content(s, request)

First(i) == CASE Steps[i] \in Images -> "need"
              [] Steps[i] \in {"serf-tags", "etcdpasswd", "cke"} -> "files"
              [] OTHER -> "act"

At(s, p) == status = "updating" /\ Steps[step] = s /\ pc = p
Goto(p) == pc' = p /\ UNCHANGED <<request, status, step>>

\* The step returns nil, and all workers go on to the next one.
Done ==
  /\ IF step = Len(Steps)
     THEN status' = "completed" /\ UNCHANGED <<step, pc>>
     ELSE step' = step + 1 /\ pc' = First(step + 1) /\ UNCHANGED status
  /\ need' = FALSE /\ replaced' = FALSE
  /\ UNCHANGED request

----------------------------------------------------------------------------
\* systemctl.  A container without an image (--pull=never) does not run.
Starts(s) ==
  IF s \in Images /\ <<s, files[s].tag>> \notin images THEN Nothing ELSE files[s]

RestartService(s) ==
  /\ running' = [running EXCEPT ![s] = Starts(s)]
  /\ skipped' = skipped \ {s}

StartService(s) ==
  /\ running' = [running EXCEPT ![s] = IF @ = Nothing THEN Starts(s) ELSE @]
  /\ UNCHANGED skipped

\* A service that has never been recorded needs an update too.
needContainerImageUpdate(s) == recorded[s] # Tag[s][request.version]

RecordContainerTag(s) ==
  /\ At(s, "need")
  /\ need' = needContainerImageUpdate(s)
  /\ recorded' = [recorded EXCEPT ![s] = Tag[s][request.version]]
  /\ Goto("files")
  /\ UNCHANGED <<images, files, running, replaced, skipped>>

replaceFile(s, after) ==
  /\ At(s, "files")
  /\ replaced' = (files[s] # Wanted(s))
  /\ files' = [files EXCEPT ![s] = Wanted(s)]
  /\ Goto(after)
  /\ UNCHANGED <<images, recorded, running, need, skipped>>

RestartAlways(s) ==
  /\ At(s, "act")
  /\ RestartService(s)
  /\ Done
  /\ UNCHANGED <<images, recorded, files>>

RestartWhen(s, changed) ==
  /\ At(s, "act")
  /\ IF changed THEN RestartService(s) ELSE UNCHANGED <<running, skipped>>
  /\ Done
  /\ UNCHANGED <<images, recorded, files>>

----------------------------------------------------------------------------
(* The steps, in the order of RunStep. *)

Pulled(s) == <<s, Tag[s][request.version]>>

\* Variant: only what is running is looked up.
FetchImagesOld ==
  /\ At("images", "act")
  /\ images' = images \cup {<<s, recorded[s]>> : s \in Images}
  /\ Done
  /\ UNCHANGED <<recorded, files, running, skipped>>

FetchImages ==
  /\ At("images", "act")
  /\ images' = images \cup {Pulled(s) : s \in Images}
  /\ Done
  /\ UNCHANGED <<recorded, files, running, skipped>>

\* stopService does nothing when there is no unit file in /etc/systemd/system.
\* The package has its units in /lib/systemd/system.
stopService(s) ==
  running' = IF s \in Packaged THEN running ELSE [running EXCEPT ![s] = Nothing]

StopVault ==
  /\ At("stop-vault", "act")
  /\ stopService("vault")
  /\ Done
  /\ UNCHANGED <<images, recorded, files, skipped>>

\* Variant: started when something has changed.
UpdateVaultOnChange ==
  \/ RecordContainerTag("vault")
  \/ replaceFile("vault", "act")
  \/ RestartWhen("vault", need \/ replaced)

\* Vault has been stopped by the step before.
UpdateVault ==
  \/ RecordContainerTag("vault")
  \/ replaceFile("vault", "act")
  \/ /\ At("vault", "act")
     /\ StartService("vault")
     /\ Done
     /\ UNCHANGED <<images, recorded, files>>

UpdateSetupHW ==
  \/ RecordContainerTag("setup-hw")
  \/ replaceFile("setup-hw", "act")
  \/ RestartWhen("setup-hw", need \/ replaced)

UpdateSerf ==
  \/ RecordContainerTag("serf")
  \/ replaceFile("serf", "act")
  \/ RestartWhen("serf", need \/ replaced)

\* The script that is replaced is what the timer runs every minute.
UpdateSetupSerfTags ==
  \/ replaceFile("serf-tags", "act")
  \/ RestartAlways("serf-tags")

\* The package's scripts restart ep-agent.  The version is recorded after that.
InstallDebianPackage ==
  /\ At("etcdpasswd", "need")
  /\ need' = (recorded["etcdpasswd"] # Tag["etcdpasswd"][request.version])
  /\ IF need' THEN RestartService("etcdpasswd") ELSE UNCHANGED <<running, skipped>>
  /\ Goto("record")
  /\ UNCHANGED <<images, recorded, files, replaced>>

RecordDebVersion ==
  /\ At("etcdpasswd", "record")
  /\ recorded' = IF need
                 THEN [recorded EXCEPT !["etcdpasswd"] =
                         Tag["etcdpasswd"][request.version]]
                 ELSE recorded
  /\ Goto("act")
  /\ UNCHANGED <<images, files, running, need, replaced, skipped>>

UpdateEtcdpasswd ==
  \/ replaceFile("etcdpasswd", "need")
  \/ InstallDebianPackage
  \/ RecordDebVersion
  \/ RestartWhen("etcdpasswd", replaced /\ ~need)

\* Variant: restarted like the services before.
UpdateSabakanOnChange ==
  \/ RecordContainerTag("sabakan")
  \/ replaceFile("sabakan", "act")
  \/ RestartWhen("sabakan", need \/ replaced)

UpdateSabakan ==
  \/ RecordContainerTag("sabakan")
  \/ replaceFile("sabakan", "act")
  \/ RestartAlways("sabakan")

UpdateSabakanStateSetter == RestartAlways("state-setter")

StopCKE ==
  /\ At("stop-cke", "act")
  /\ stopService("cke")
  /\ Done
  /\ UNCHANGED <<images, recorded, files, skipped>>

UpdateCKE ==
  \/ replaceFile("cke", "act")
  \/ RestartAlways("cke")

UpdatePromtail ==
  \/ RecordContainerTag("promtail")
  \/ replaceFile("promtail", "act")
  \/ RestartWhen("promtail", need \/ replaced)

RunStep ==
  \/ FetchImages \/ StopVault \/ UpdateVault \/ UpdateSetupHW \/ UpdateSerf
  \/ UpdateSetupSerfTags \/ UpdateEtcdpasswd \/ UpdateSabakan
  \/ UpdateSabakanStateSetter \/ StopCKE \/ UpdateCKE \/ UpdatePromtail

----------------------------------------------------------------------------
(* Failures and rounds. *)

\* replaceFile truncates, then writes; there are two files for most services,
\* and which of them is the first differs.
Torn(s) ==
  {Nothing} \cup
  IF s \in {"sabakan", "promtail"}
  THEN {[files[s] EXCEPT !.servers = Wanted(s).servers]}
  ELSE {[files[s] EXCEPT !.tag = Wanted(s).tag]}

\* What a step has done when it returns an error or the worker is killed in it.
\* To be cut short after the last of its effects is to be cut short at the
\* beginning of the next step.
CutShort ==
  \/ UNCHANGED etcVars
  \/ /\ At("images", "act")
     /\ \E p \in SUBSET {Pulled(s) : s \in Images} : images' = images \cup p
     /\ UNCHANGED <<recorded, files, running>>
  \/ \E s \in Service :
       /\ At(s, "files") /\ files[s] # Wanted(s)
       /\ \E c \in Torn(s) : files' = [files EXCEPT ![s] = c]
       /\ UNCHANGED <<images, recorded, running>>

Stop(how) ==
  /\ status = "updating"
  /\ CutShort
  /\ status' = how
  /\ step' = 1 /\ pc' = First(1) /\ need' = FALSE /\ replaced' = FALSE
  /\ skipped' = {s \in OnChange : running[s] # files'[s]}
  /\ UNCHANGED request

\* The step fails, or the round is aborted by another server.
Fails == Stop("aborted")

Crash == Stop("dead")

\* restoreService: Vault is started if its unit file exists.
StartServices == StartService("vault")

\* The worker starts again and aborts the update it was in.
Run ==
  /\ status = "dead"
  /\ StartServices
  /\ status' = "aborted"
  /\ UNCHANGED <<request, images, recorded, files, step, pc, need, replaced>>

\* After a recovery, or a completed round, the next request.  For another
\* version the neco package is installed, which restarts what it contains; the
\* worker is one of them.
NewRequest(r) ==
  /\ status \in {"aborted", "completed"}
  /\ r.version >= request.version
  /\ LET new == IF r.version = request.version THEN {} ELSE Packaged
         installed == [s \in Service |->
           IF s \in new THEN [files[s] EXCEPT !.tag = Tag[s][r.version]] ELSE files[s]]
     IN /\ files' = installed
        /\ running' = [s \in Service |->
             CASE s \in new -> installed[s]
               [] s = "vault" /\ new # {} /\ running[s] = Nothing -> Starts(s)
               [] OTHER -> running[s]]
  /\ request' = r /\ status' = "updating" /\ step' = 1 /\ pc' = First(1)
  /\ UNCHANGED <<images, recorded, need, replaced, skipped>>

----------------------------------------------------------------------------
Request == [version : Version, servers : ServerSets]

\* A server on which a round has been completed.
ServicesInit ==
  /\ \E r \in Request :
       /\ \A q \in Request : r.version <= q.version
       /\ request = r
       /\ files = [s \in Service |-> Content(s, r)]
  /\ running = files
  /\ recorded = [s \in Images \cup {"etcdpasswd"} |-> files[s].tag]
  /\ images = {<<s, files[s].tag>> : s \in Images}
  /\ status = "completed" /\ step = 1 /\ pc = First(1)
  /\ need = FALSE /\ replaced = FALSE /\ skipped = {}

ServicesNext ==
  \/ RunStep \/ Fails \/ Crash \/ Run
  \/ \E r \in Request : NewRequest(r)

ServicesSpec == ServicesInit /\ [][ServicesNext]_servicesVars

----------------------------------------------------------------------------
(* Properties. *)

\* The services have the state that the code gives them, the record in etcd is
\* never ahead of the images on the server, and the local variables of a step
\* do not outlive it.
ServicesTypeOK ==
  /\ request \in Request
  /\ status \in {"updating", "completed", "aborted", "dead"}
  /\ recorded \in [Images \cup {"etcdpasswd"} -> Nat \ {0}]
  /\ \A s \in Images : <<s, recorded[s]>> \in images
  /\ \A s \in Service : {files[s], running[s]} \subseteq [tag : Nat, servers : SUBSET UNION ServerSets]
  /\ step \in 1 .. Len(Steps) /\ pc \in {"need", "files", "record", "act"}
  /\ (need \/ replaced) => status = "updating" /\ pc # First(step)
  /\ skipped \subseteq OnChange

\* When a round is completed, every service of the server runs the requested
\* version with a configuration for the requested servers, whatever was left by
\* rounds that failed before: the record and the files alone decide what a step
\* does, and each step records, replaces and restarts in an order that can be
\* cut anywhere.  The exception is a service that is restarted on changes only
\* and whose files were replaced by a step that did not live to restart it: the
\* next round finds nothing changed and leaves the old one running.
CompletedIsCurrent ==
  status = "completed" =>
    \A s \in Service :
      /\ files[s] = Wanted(s)
      /\ running[s] = Wanted(s) \/ s \in skipped

\* An update never takes a service down for longer than a restart: the image it
\* needs is there before its unit names it (FetchImages is the first step).
\* Vault alone is down, from the step that stops it until the one that updates
\* it, or while the round in which it was stopped is aborted.  CKE is not down
\* at all: StopCKE does not find its unit.
StaysUp ==
  \A s \in Service :
    running[s] = Nothing =>
      /\ s = "vault"
      /\ status # "completed"
      /\ status = "updating" => Steps[step] \in {"images", "stop-vault", "vault"}

\* In the end, when failures stop and aborted rounds are retried, all services
\* run what was requested last (but for the restarts that were skipped); Vault
\* above all is up again wherever the failed rounds left it.
EventuallyCurrent ==
  <>[](\A s \in Service : running[s] = Wanted(s) \/ s \in skipped)
=============================================================================
