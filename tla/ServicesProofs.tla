--------------------------- MODULE ServicesProofs ---------------------------
(***************************************************************************)
(* That the steps of an update leave every service of a boot server up and *)
(* current, for any versions, tags and sets of servers, any number of      *)
(* rounds, and steps that fail or are killed anywhere.                     *)
(***************************************************************************)
EXTENDS Services, TLAPS

\* A leaf is tried with Zenon first; one that needs arithmetic cites SMT.
USE ZenonT(30), SMT

Conf == [tag : Nat, servers : SUBSET UNION ServerSets]

\* The places of a step, and those at which its files have been replaced.
PlacesOf(s) ==
  CASE s \in Images -> {"need", "files", "act"}
    [] s \in {"serf-tags", "cke"} -> {"files", "act"}
    [] s = "etcdpasswd" -> {"files", "need", "record", "act"}
    [] OTHER -> {"act"}

FilesReplaced(s) ==
  pc \in {"act", "record"} \/ (s = "etcdpasswd" /\ pc = "need")

\* The restart of s is still to come in the present step.
Due(s) ==
  /\ status = "updating" /\ Steps[step] = s /\ FilesReplaced(s) /\ replaced
  /\ s = "etcdpasswd" /\ pc # "need" => ~need

Current(s) == files[s] = Wanted(s) /\ (running[s] = Wanted(s) \/ s \in skipped)

TypeInv ==
  /\ request \in Request
  /\ status \in {"updating", "completed", "aborted", "dead"}
  /\ recorded \in [Images \cup {"etcdpasswd"} -> Nat \ {0}]
  /\ files \in [Service -> Conf] /\ running \in [Service -> Conf]
  /\ step \in 1 .. 12 /\ pc \in PlacesOf(Steps[step])
  /\ need \in BOOLEAN /\ replaced \in BOOLEAN
  /\ (need \/ replaced) => status = "updating" /\ pc # First(step)
  /\ skipped \subseteq OnChange

\* Images are there before they are recorded or named by a unit.
ImageInv ==
  /\ \A s \in Images : <<s, recorded[s]>> \in images
  /\ status = "updating" /\ step # 1 => \A s \in Images : Pulled(s) \in images

FileInv ==
  /\ files["state-setter"] = Wanted("state-setter")
  /\ status = "updating" /\ Steps[step] \in Service /\ FilesReplaced(Steps[step])
       => files[Steps[step]] = Wanted(Steps[step])

\* What is restarted on changes only runs what its files say, unless the restart
\* is due or was skipped.
RunInv ==
  /\ \A s \in OnChange : running[s] = files[s] \/ s \in skipped \/ Due(s)
  /\ status = "updating" /\ Steps[step] = "vault" => running["vault"] = Nothing

DoneInv ==
  \A i \in 1 .. 12 :
    /\ Steps[i] \in Service
    /\ status = "completed" \/ (status = "updating" /\ i < step)
    => Current(Steps[i])

ServicesInv ==
  TypeInv /\ ImageInv /\ FileInv /\ RunInv /\ DoneInv /\ StaysUp

----------------------------------------------------------------------------
\* The steps of RunStep in their order; no two are the same.
LEMMA StepsAre ==
  /\ Len(Steps) = 12
  /\ Steps[1] = "images" /\ Steps[2] = "stop-vault" /\ Steps[3] = "vault"
  /\ Steps[4] = "setup-hw" /\ Steps[5] = "serf" /\ Steps[6] = "serf-tags"
  /\ Steps[7] = "etcdpasswd" /\ Steps[8] = "sabakan"
  /\ Steps[9] = "state-setter" /\ Steps[10] = "stop-cke" /\ Steps[11] = "cke"
  /\ Steps[12] = "promtail"
BY DEF Steps

\* A step is known by its name.
LEMMA StepsDiffer ==
  ASSUME NEW i \in 1 .. 12, NEW j \in 1 .. 12, Steps[i] = Steps[j]
  PROVE  i = j
BY StepsAre, SMTT(60)

\* Every service has a step.
LEMMA EveryServiceHasAStep ==
  ASSUME NEW s \in Service
  PROVE  \E i \in 1 .. 12 : Steps[i] = s
<1>1. /\ 3 \in 1 .. 12 /\ 4 \in 1 .. 12 /\ 5 \in 1 .. 12 /\ 6 \in 1 .. 12
      /\ 7 \in 1 .. 12 /\ 8 \in 1 .. 12 /\ 9 \in 1 .. 12 /\ 11 \in 1 .. 12
      /\ 12 \in 1 .. 12
  BY SMT
<1> QED BY <1>1, StepsAre DEF Service

\* The step begins at one of its places.
LEMMA FirstPlace ==
  ASSUME NEW i \in 1 .. 12
  PROVE  First(i) \in PlacesOf(Steps[i])
<1>1. i \in {1,2,3,4,5,6,7,8,9,10,11,12}
  BY SMT
<1> QED BY <1>1, StepsAre DEF First, PlacesOf, Images

\* What a file should say is well formed and is something.
LEMMA ContentConf ==
  ASSUME NEW s \in Service, NEW r \in Request
  PROVE  /\ Content(s, r) \in Conf /\ Content(s, r) # Nothing
         /\ Content(s, r).tag = Tag[s][r.version]
         /\ Tag[s][r.version] \in Nat \ {0}
<1>1. r.version \in Version /\ r.servers \in ServerSets
  BY DEF Request
<1>2. Tag[s][r.version] \in Nat \ {0}
  BY <1>1, ServicesAssumption
<1>3. r.servers \in SUBSET UNION ServerSets
  BY <1>1
<1> QED BY <1>2, <1>3 DEF Content, Conf, Nothing

----------------------------------------------------------------------------
\* The server on which a round has been completed satisfies the invariant.
LEMMA InitInv == ServicesInit => ServicesInv
<1> SUFFICES ASSUME ServicesInit PROVE ServicesInv
  OBVIOUS
<1>1. PICK r \in Request : request = r /\ files = [s \in Service |-> Content(s, r)]
  BY DEF ServicesInit
<1>2. /\ running = files
      /\ recorded = [s \in Images \cup {"etcdpasswd"} |-> files[s].tag]
      /\ images = {<<s, files[s].tag>> : s \in Images}
      /\ status = "completed" /\ step = 1 /\ pc = First(1)
      /\ need = FALSE /\ replaced = FALSE /\ skipped = {}
  BY DEF ServicesInit
<1>3. \A s \in Service : /\ files[s] = Content(s, r) /\ files[s] \in Conf
                         /\ files[s] # Nothing /\ files[s].tag \in Nat \ {0}
                         /\ files[s] = Wanted(s)
  BY <1>1, ContentConf DEF Wanted
<1>4. Images \cup {"etcdpasswd"} \subseteq Service
  BY DEF Images, Service
<1>5. files \in [Service -> Conf]
  BY <1>1, <1>3
<1>6. recorded \in [Images \cup {"etcdpasswd"} -> Nat \ {0}]
  BY <1>2, <1>3, <1>4
<1>7. 1 \in 1 .. 12 /\ First(1) \in PlacesOf(Steps[1])
  BY SMT, FirstPlace
<1>8. TypeInv
  BY <1>1, <1>2, <1>5, <1>6, <1>7 DEF TypeInv
<1>9. ImageInv
  BY <1>2, <1>4 DEF ImageInv
<1>10. "state-setter" \in Service /\ OnChange \subseteq Service
  BY DEF Service, OnChange
<1>11. FileInv
  BY <1>2, <1>3, <1>10 DEF FileInv
<1>12. RunInv
  BY <1>2, <1>10 DEF RunInv
<1>13. DoneInv
  BY <1>2, <1>3 DEF DoneInv, Current
<1>14. StaysUp
  BY <1>2, <1>3 DEF StaysUp
<1> QED BY <1>8, <1>9, <1>11, <1>12, <1>13, <1>14 DEF ServicesInv

----------------------------------------------------------------------------
\* A step that ends well: it has touched t alone, which no earlier step is
\* about, and what it is about is current.
LEMMA StepEnds ==
  ASSUME ServicesInv, Done, status = "updating",
         NEW t \in Service,
         files' = files, recorded' = recorded, images \subseteq images',
         running' \in [Service -> Conf], skipped' \subseteq OnChange,
         \A s \in Service \ {t} :
           running'[s] = running[s] /\ (s \in skipped' <=> s \in skipped),
         \A i \in 1 .. 12 : i < step => Steps[i] # t,
         Steps[step] \in Service => t = Steps[step] /\ Current(t)',
         t \in OnChange => running'[t] = files[t] \/ t \in skipped',
         ~(Steps[step] \in OnChange) => t \notin OnChange,
         running'[t] = Nothing => t = "vault" /\ Steps[step] = "stop-vault",
         Steps[step] = "stop-vault" => running'["vault"] = Nothing,
         step = 1 => \A s \in Images : Pulled(s) \in images'
  PROVE  ServicesInv'
<1>1. step \in 1 .. 12 /\ need' = FALSE /\ replaced' = FALSE /\ request' = request
  BY DEF ServicesInv, TypeInv, Done
<1>2. \/ step = 12 /\ status' = "completed" /\ step' = step /\ pc' = pc
      \/ /\ step # 12 /\ step' = step + 1 /\ pc' = First(step + 1)
         /\ status' = "updating"
  BY StepsAre DEF Done
<1>3. step' \in 1 .. 12
  BY SMT, <1>1, <1>2
<1>4. \A s \in Service : Wanted(s)' = Wanted(s)
  BY <1>1 DEF Wanted, Content
<1>5. TypeInv'
  <2>1. pc' \in PlacesOf(Steps[step'])
    BY <1>2, <1>3, FirstPlace DEF ServicesInv, TypeInv
  <2>2. /\ request' \in Request /\ recorded' \in [Images \cup {"etcdpasswd"} -> Nat \ {0}]
        /\ files' \in [Service -> Conf]
    BY <1>1 DEF ServicesInv, TypeInv
  <2> QED BY <2>1, <2>2, <1>1, <1>2, <1>3 DEF TypeInv, PlacesOf
<1>6. ImageInv'
  <2>1. \A s \in Images : Pulled(s)' = Pulled(s)
    BY <1>1 DEF Pulled
  <2>2. \A s \in Images : <<s, recorded[s]>> \in images'
    BY DEF ServicesInv, ImageInv
  <2>3. step' # 1 /\ step # 1 => \A s \in Images : Pulled(s) \in images'
    BY DEF ServicesInv, ImageInv
  <2> QED BY <2>1, <2>2, <2>3 DEF ImageInv
<1>7. FileInv'
  <2>1. "state-setter" \in Service
    BY DEF Service
  <2>2. files'["state-setter"] = Wanted("state-setter")'
    BY <2>1, <1>4 DEF ServicesInv, FileInv
  <2>3. ASSUME status' = "updating", Steps[step'] \in Service,
               FilesReplaced(Steps[step])'
        PROVE  files'[Steps[step']] = Wanted(Steps[step])'
    <3>1. pc' = First(step') /\ step' = step + 1
      BY <2>3, <1>2
    <3>2. Steps[step'] = "state-setter"
      <4>1. step' \in {1,2,3,4,5,6,7,8,9,10,11,12}
        BY SMT, <1>3
      <4>2. First(step') \in {"act", "record"} \/ (Steps[step'] = "etcdpasswd" /\ First(step') = "need")
        BY <2>3, <3>1 DEF FilesReplaced
      <4>3. Steps[step'] \in Images => First(step') = "need"
        BY DEF First, Images
      <4>4. Steps[step'] \in {"serf-tags", "etcdpasswd", "cke"} => First(step') = "files"
        BY DEF First, Images
      <4>5. Steps[step'] \notin Images
        BY <4>2, <4>3 DEF Images
      <4>6. Steps[step'] \notin {"serf-tags", "etcdpasswd", "cke"}
        BY <4>2, <4>4
      <4> QED BY <4>5, <4>6, <2>3 DEF Service, Images
    <3> QED BY <3>2, <2>2 DEF Wanted
  <2> QED BY <2>2, <2>3 DEF FileInv
<1>8. RunInv'
  <2>1. OnChange \subseteq Service
    BY DEF OnChange, Service
  <2>2. ASSUME NEW s \in OnChange
        PROVE  running'[s] = files'[s] \/ s \in skipped'
    <3>1. CASE s = t
      BY <3>1
    <3>2. CASE s # t
      <4>1. ~Due(s)
        BY <3>2, <2>1 DEF Due
      <4>2. running[s] = files[s] \/ s \in skipped
        BY <4>1 DEF ServicesInv, RunInv
      <4> QED BY <4>2, <3>2, <2>1
    <3> QED BY <3>1, <3>2
  <2>3. ASSUME status' = "updating", Steps[step'] = "vault"
        PROVE  running'["vault"] = Nothing
    <3>1. step' = 3 /\ step = 2
      <4>1. step' = 3
        BY SMT, <2>3, <1>3, StepsAre, StepsDiffer
      <4> QED BY SMT, <4>1, <2>3, <1>1, <1>2
    <3> QED BY <3>1, StepsAre
  <2> QED BY <2>2, <2>3 DEF RunInv
<1>9. DoneInv'
  <2> SUFFICES ASSUME NEW i \in 1 .. 12, Steps[i] \in Service,
                      status' = "completed" \/ (status' = "updating" /\ i < step')
               PROVE  Current(Steps[i])'
    BY DEF DoneInv
  <2>1. CASE i = step
    BY <2>1
  <2>2. CASE i # step
    <3>1. i < step
      BY SMT, <2>2, <1>1, <1>2
    <3>2. Current(Steps[i])
      BY <3>1 DEF ServicesInv, DoneInv
    <3>3. Steps[i] # t
      BY <3>1
    <3> QED BY <3>2, <3>3, <1>4 DEF Current
  <2> QED BY <2>1, <2>2
<1>10. StaysUp'
  <2> SUFFICES ASSUME NEW s \in Service, running'[s] = Nothing
               PROVE  /\ s = "vault" /\ status' # "completed"
                      /\ status' = "updating" =>
                           Steps[step'] \in {"images", "stop-vault", "vault"}
    BY DEF StaysUp
  <2>1. s = "vault" /\ Steps[step] \in {"images", "stop-vault", "vault"}
    BY DEF ServicesInv, StaysUp
  <2>2. Steps[step] # "vault"
    <3>1. ASSUME Steps[step] = "vault" PROVE FALSE
      <4>1. t = "vault"
        BY <3>1 DEF Service
      <4> QED BY <4>1, <3>1, <2>1
    <3> QED BY <3>1
  <2>3. step \in {1, 2}
    <3>1. step \in {1,2,3,4,5,6,7,8,9,10,11,12}
      BY SMT, <1>1
    <3> QED BY <3>1, <2>1, <2>2, StepsAre
  <2> QED BY SMT, <2>1, <2>3, <1>2, StepsAre
<1> QED BY <1>5, <1>6, <1>7, <1>8, <1>9, <1>10 DEF ServicesInv

----------------------------------------------------------------------------
\* A service that is started when its files have been replaced runs what was
\* asked for: its image was fetched in the first step.
LEMMA StartsWanted ==
  ASSUME ServicesInv, status = "updating", NEW s \in Service,
         Steps[step] = s, FilesReplaced(s)
  PROVE  /\ files[s] = Wanted(s) /\ Starts(s) = Wanted(s)
         /\ Wanted(s) \in Conf /\ Wanted(s) # Nothing
<1>1. files[s] = Wanted(s)
  BY DEF ServicesInv, FileInv
<1>2. step # 1
  BY StepsAre DEF Service
<1>3. Wanted(s) \in Conf /\ Wanted(s) # Nothing /\ Wanted(s).tag = Tag[s][request.version]
  BY ContentConf DEF Wanted, ServicesInv, TypeInv
<1>4. s \in Images => <<s, files[s].tag>> \in images
  BY <1>1, <1>2, <1>3 DEF ServicesInv, ImageInv, Pulled
<1> QED BY <1>1, <1>3, <1>4 DEF Starts

\* A step that is at work has not been passed.
LEMMA NotPassed ==
  ASSUME ServicesInv, NEW s, Steps[step] = s
  PROVE  \A i \in 1 .. 12 : i < step => Steps[i] # s
<1>1. step \in 1 .. 12
  BY DEF ServicesInv, TypeInv
<1> SUFFICES ASSUME NEW i \in 1 .. 12, i < step, Steps[i] = s PROVE FALSE
  OBVIOUS
<1>2. i = step
  BY <1>1, StepsDiffer
<1> QED BY SMT, <1>1, <1>2

\* A step that ends by restarting its service.
LEMMA RestartInv ==
  ASSUME ServicesInv, NEW s \in Service, At(s, "act"), RestartService(s), Done,
         UNCHANGED <<images, recorded, files>>
  PROVE  ServicesInv'
<1>1. status = "updating" /\ Steps[step] = s /\ FilesReplaced(s)
  BY DEF At, FilesReplaced
<1>2. /\ files[s] = Wanted(s) /\ Starts(s) = Wanted(s)
      /\ Wanted(s) \in Conf /\ Wanted(s) # Nothing
  BY <1>1, StartsWanted
<1>3. /\ running \in [Service -> Conf] /\ skipped \subseteq OnChange
      /\ running' = [running EXCEPT ![s] = Wanted(s)] /\ skipped' = skipped \ {s}
  BY <1>2 DEF RestartService, ServicesInv, TypeInv
<1>4. /\ running' \in [Service -> Conf] /\ skipped' \subseteq OnChange
      /\ running'[s] = Wanted(s)
      /\ \A x \in Service \ {s} :
           running'[x] = running[x] /\ (x \in skipped' <=> x \in skipped)
  BY <1>2, <1>3
<1>5. Wanted(s)' = Wanted(s)
  BY DEF Done, Wanted, Content
<1>6. Current(s)'
  BY <1>2, <1>4, <1>5 DEF Current
<1>7. Steps[step] # "stop-vault" /\ step # 1
  BY <1>1, StepsAre DEF Service
<1>8. \A i \in 1 .. 12 : i < step => Steps[i] # s
  BY <1>1, NotPassed
<1> QED BY <1>1, <1>2, <1>4, <1>6, <1>7, <1>8, StepEnds

\* sabakan, sabakan-state-setter, CKE and the timer of the tags are restarted
\* in every round.
LEMMA RestartAlwaysInv ==
  ASSUME ServicesInv, NEW s \in Service, RestartAlways(s)
  PROVE  ServicesInv'
BY RestartInv DEF RestartAlways

\* A step that ends without a restart: nothing has changed, or the restart has
\* been done.
LEMMA RestartWhenInv ==
  ASSUME ServicesInv, NEW s \in OnChange, NEW changed \in BOOLEAN,
         RestartWhen(s, changed), ~changed => ~Due(s)
  PROVE  ServicesInv'
<1> s \in Service
  BY DEF OnChange, Service
<1>1. CASE changed
  BY <1>1, RestartInv DEF RestartWhen
<1>2. CASE ~changed
  <2>1. /\ status = "updating" /\ Steps[step] = s /\ FilesReplaced(s) /\ Done
        /\ UNCHANGED <<images, recorded, files, running, skipped>>
    BY <1>2 DEF RestartWhen, At, FilesReplaced
  <2>2. files[s] = Wanted(s)
    BY <2>1, StartsWanted
  <2>3. running[s] = files[s] \/ s \in skipped
    BY <1>2 DEF ServicesInv, RunInv
  <2>4. Wanted(s)' = Wanted(s)
    BY DEF Done, Wanted, Content, RestartWhen
  <2>5. Current(s)'
    BY <2>1, <2>2, <2>3, <2>4 DEF Current
  <2>6. Steps[step] # "stop-vault" /\ step # 1 /\ s # "vault"
    BY <2>1, StepsAre DEF Service, OnChange
  <2>7. \A i \in 1 .. 12 : i < step => Steps[i] # s
    BY <2>1, NotPassed
  <2>8. running \in [Service -> Conf] /\ skipped \subseteq OnChange
    BY DEF ServicesInv, TypeInv
  <2>9. running[s] # Nothing
    BY <2>6 DEF ServicesInv, StaysUp
  <2> QED BY <2>1, <2>2, <2>3, <2>5, <2>6, <2>7, <2>8, <2>9, StepEnds
<1> QED BY <1>1, <1>2

\* The first half of a container's step.
LEMMA RecordContainerTagInv ==
  ASSUME ServicesInv, NEW s \in Images, RecordContainerTag(s)
  PROVE  ServicesInv'
<1>1. /\ status = "updating" /\ Steps[step] = s /\ pc = "need" /\ pc' = "files"
      /\ UNCHANGED <<request, status, step, images, files, running, replaced, skipped>>
      /\ need' \in BOOLEAN
      /\ recorded' = [recorded EXCEPT ![s] = Tag[s][request.version]]
  BY DEF RecordContainerTag, At, Goto, needContainerImageUpdate
<1>2. s \in Service /\ s # "etcdpasswd" /\ step # 1
  BY <1>1, StepsAre DEF Images, Service
<1>3. First(step) = "need" /\ "files" \in PlacesOf(s)
  BY <1>1 DEF First, PlacesOf, Images
<1>4. Tag[s][request.version] \in Nat \ {0}
  BY <1>2, ContentConf DEF ServicesInv, TypeInv
<1>5. recorded' \in [Images \cup {"etcdpasswd"} -> Nat \ {0}]
  BY <1>1, <1>4 DEF ServicesInv, TypeInv
<1>6. TypeInv'
  <2>1. First(step)' = "need"
    BY <1>1, <1>3 DEF First
  <2>2. /\ request \in Request /\ files \in [Service -> Conf]
        /\ running \in [Service -> Conf] /\ step \in 1 .. 12
        /\ replaced \in BOOLEAN /\ skipped \subseteq OnChange
    BY DEF ServicesInv, TypeInv
  <2> QED BY <1>1, <1>3, <1>5, <2>1, <2>2 DEF TypeInv
<1>7. ImageInv'
  <2>1. \A x \in Images : <<x, recorded[x]>> \in images /\ Pulled(x) \in images
    BY <1>1, <1>2 DEF ServicesInv, ImageInv
  <2>2. \A x \in Images : recorded'[x] = IF x = s THEN Tag[s][request.version] ELSE recorded[x]
    BY <1>1 DEF ServicesInv, TypeInv
  <2>3. \A x \in Images : <<x, recorded'[x]>> \in images
    BY <2>1, <2>2 DEF Pulled
  <2> QED BY <1>1, <2>1, <2>3 DEF ImageInv, Pulled
<1>8. FileInv'
  BY <1>1, <1>2 DEF ServicesInv, FileInv, FilesReplaced, Wanted, Content
<1>9. \A x \in OnChange : ~Due(x)
  BY <1>1, <1>2 DEF Due, FilesReplaced
<1>10. RunInv'
  BY <1>1, <1>9 DEF ServicesInv, RunInv
<1>11. DoneInv'
  BY <1>1 DEF ServicesInv, DoneInv, Current, Wanted, Content
<1>12. StaysUp'
  BY <1>1 DEF ServicesInv, StaysUp
<1> QED BY <1>6, <1>7, <1>8, <1>10, <1>11, <1>12 DEF ServicesInv

\* The files of a service are replaced.
LEMMA ReplaceFileInv ==
  ASSUME ServicesInv, NEW s \in Service, NEW after, replaceFile(s, after),
         after = IF s = "etcdpasswd" THEN "need" ELSE "act"
  PROVE  ServicesInv'
<1>1. /\ status = "updating" /\ Steps[step] = s /\ pc = "files" /\ pc' = after
      /\ UNCHANGED <<request, status, step, images, recorded, running, need, skipped>>
      /\ replaced' = (files[s] # Wanted(s))
      /\ files' = [files EXCEPT ![s] = Wanted(s)]
  BY DEF replaceFile, At, Goto
<1>2. /\ request \in Request /\ files \in [Service -> Conf]
      /\ recorded \in [Images \cup {"etcdpasswd"} -> Nat \ {0}]
      /\ running \in [Service -> Conf] /\ step \in 1 .. 12
      /\ pc \in PlacesOf(s)
      /\ need \in BOOLEAN /\ replaced \in BOOLEAN /\ skipped \subseteq OnChange
  BY <1>1 DEF ServicesInv, TypeInv
<1>3. Wanted(s) \in Conf
  BY <1>2, ContentConf DEF Wanted
<1>4. s # "state-setter"
  BY <1>1, <1>2 DEF PlacesOf, Images
<1>5. after \in PlacesOf(s) /\ after # First(step)
  <2>1. CASE s \in Images
    BY <2>1, <1>1 DEF PlacesOf, First, Images
  <2>2. CASE s = "etcdpasswd"
    BY <2>2, <1>1 DEF PlacesOf, First, Images
  <2>3. CASE s \in {"serf-tags", "cke"}
    BY <2>3, <1>1 DEF PlacesOf, First, Images
  <2> QED BY <2>1, <2>2, <2>3, <1>4 DEF Service, Images
<1>6. /\ files' \in [Service -> Conf] /\ files'[s] = Wanted(s)
      /\ \A x \in Service \ {s} : files'[x] = files[x]
  BY <1>1, <1>2, <1>3
<1>7. \A x : Wanted(x)' = Wanted(x)
  BY <1>1 DEF Wanted, Content
<1>8. TypeInv'
  <2>1. First(step)' = First(step)
    BY <1>1 DEF First
  <2> QED BY <1>1, <1>2, <1>5, <1>6, <2>1 DEF TypeInv
<1>9. ImageInv'
  BY <1>1 DEF ServicesInv, ImageInv, Pulled
<1>10. FileInv'
  <2>1. "state-setter" \in Service
    BY DEF Service
  <2> QED BY <1>1, <1>4, <1>6, <1>7, <2>1 DEF ServicesInv, FileInv
<1>11. RunInv'
  <2>1. OnChange \subseteq Service
    BY DEF OnChange, Service
  <2>2. ASSUME NEW x \in OnChange
        PROVE  running[x] = files[x] \/ x \in skipped
    BY <1>1 DEF ServicesInv, RunInv, Due, FilesReplaced
  <2>3. ASSUME NEW x \in OnChange
        PROVE  running'[x] = files'[x] \/ x \in skipped' \/ Due(x)'
    <3>1. CASE x # s \/ files[s] = Wanted(s)
      BY <3>1, <2>1, <2>2, <1>1, <1>6
    <3>2. CASE x = s /\ files[s] # Wanted(s)
      BY <3>2, <1>1 DEF Due, FilesReplaced
    <3> QED BY <3>1, <3>2
  <2>4. status' = "updating" /\ Steps[step'] = "vault" => running'["vault"] = Nothing
    BY <1>1 DEF ServicesInv, RunInv
  <2> QED BY <2>3, <2>4 DEF RunInv
<1>12. DoneInv'
  <2> SUFFICES ASSUME NEW i \in 1 .. 12, Steps[i] \in Service,
                      status' = "completed" \/ (status' = "updating" /\ i < step')
               PROVE  Current(Steps[i])'
    BY DEF DoneInv
  <2>1. Current(Steps[i]) /\ i < step
    BY <1>1 DEF ServicesInv, DoneInv
  <2>2. Steps[i] # s
    BY <2>1, <1>1, NotPassed
  <2> QED BY <2>1, <2>2, <1>1, <1>6, <1>7 DEF Current
<1>13. StaysUp'
  BY <1>1 DEF ServicesInv, StaysUp
<1> QED BY <1>8, <1>9, <1>10, <1>11, <1>12, <1>13 DEF ServicesInv

\* The package of etcdpasswd is installed if it is another version, and its
\* agent is restarted, with the files that have been replaced before.
LEMMA InstallDebianPackageInv ==
  ASSUME ServicesInv, InstallDebianPackage
  PROVE  ServicesInv'
<1> DEFINE s == "etcdpasswd"
<1>1. /\ status = "updating" /\ Steps[step] = s /\ pc = "need" /\ pc' = "record"
      /\ UNCHANGED <<request, status, step, images, recorded, files, replaced>>
      /\ need' = (recorded[s] # Tag[s][request.version])
      /\ IF need' THEN RestartService(s) ELSE UNCHANGED <<running, skipped>>
  BY DEF InstallDebianPackage, At, Goto
<1>2. s \in Service /\ s \in OnChange /\ FilesReplaced(s)
  BY <1>1 DEF Service, OnChange, FilesReplaced
<1>3. files[s] = Wanted(s) /\ Starts(s) = Wanted(s) /\ Wanted(s) \in Conf /\ Wanted(s) # Nothing
  BY <1>1, <1>2, StartsWanted
<1>4. /\ request \in Request /\ files \in [Service -> Conf]
      /\ recorded \in [Images \cup {"etcdpasswd"} -> Nat \ {0}]
      /\ running \in [Service -> Conf] /\ step \in 1 .. 12
      /\ replaced \in BOOLEAN /\ skipped \subseteq OnChange
  BY DEF ServicesInv, TypeInv
<1>5. /\ running' \in [Service -> Conf] /\ skipped' \subseteq OnChange
      /\ \A x \in Service \ {s} :
           running'[x] = running[x] /\ (x \in skipped' <=> x \in skipped)
  <2>1. CASE need'
    <3>1. running' = [running EXCEPT ![s] = Wanted(s)] /\ skipped' = skipped \ {s}
      BY <2>1, <1>1, <1>3 DEF RestartService
    <3> QED BY <3>1, <1>2, <1>3, <1>4
  <2>2. CASE ~need'
    BY <2>2, <1>1, <1>4
  <2> QED BY <2>1, <2>2
<1>6. need' => running'[s] = Wanted(s)
  BY <1>1, <1>2, <1>3, <1>4 DEF RestartService
<1>7. ~need' => running'[s] = running[s] /\ skipped' = skipped
  BY <1>1
<1>8. \A x : Wanted(x)' = Wanted(x)
  BY <1>1 DEF Wanted, Content
<1>9. TypeInv'
  <2>1. First(step)' = "files" /\ "record" \in PlacesOf(s) /\ need' \in BOOLEAN
    BY <1>1 DEF First, Images, PlacesOf
  <2> QED BY <1>1, <1>4, <1>5, <2>1 DEF TypeInv
<1>10. ImageInv'
  BY <1>1 DEF ServicesInv, ImageInv, Pulled
<1>11. FileInv'
  BY <1>1, <1>3, <1>8 DEF ServicesInv, FileInv
<1>12. RunInv'
  <2>1. OnChange \subseteq Service
    BY DEF OnChange, Service
  <2>2. ASSUME NEW x \in OnChange, x # s
        PROVE  running'[x] = files'[x] \/ x \in skipped'
    BY <2>1, <2>2, <1>1, <1>5 DEF ServicesInv, RunInv, Due
  <2>3. running'[s] = files'[s] \/ s \in skipped' \/ Due(s)'
    <3>1. CASE need'
      BY <3>1, <1>1, <1>3, <1>6
    <3>2. CASE ~need' /\ replaced
      BY <3>2, <1>1 DEF Due, FilesReplaced
    <3>3. CASE ~need' /\ ~replaced
      BY <3>3, <1>1, <1>2, <1>7 DEF ServicesInv, RunInv, Due
    <3> QED BY <3>1, <3>2, <3>3, <1>4
  <2>4. Steps[step'] # "vault"
    BY <1>1
  <2> QED BY <2>2, <2>3, <2>4 DEF RunInv
<1>13. DoneInv'
  <2> SUFFICES ASSUME NEW i \in 1 .. 12, Steps[i] \in Service,
                      status' = "completed" \/ (status' = "updating" /\ i < step')
               PROVE  Current(Steps[i])'
    BY DEF DoneInv
  <2>1. Current(Steps[i]) /\ i < step
    BY <1>1 DEF ServicesInv, DoneInv
  <2>2. Steps[i] # s
    BY <2>1, <1>1, NotPassed
  <2> QED BY <2>1, <2>2, <1>1, <1>5, <1>8 DEF Current
<1>14. StaysUp'
  <2>1. running'[s] # Nothing
    <3>1. running[s] # Nothing
      BY <1>2 DEF ServicesInv, StaysUp
    <3> QED BY <3>1, <1>3, <1>6, <1>7
  <2> QED BY <2>1, <1>1, <1>5 DEF ServicesInv, StaysUp
<1> QED BY <1>9, <1>10, <1>11, <1>12, <1>13, <1>14 DEF ServicesInv

\* Recording the version of the package leaves the services alone.
LEMMA RecordDebVersionInv ==
  ASSUME ServicesInv, RecordDebVersion
  PROVE  ServicesInv'
<1> DEFINE s == "etcdpasswd"
<1>1. /\ status = "updating" /\ Steps[step] = s /\ pc = "record" /\ pc' = "act"
      /\ UNCHANGED <<request, status, step, images, files, running, need, replaced, skipped>>
      /\ recorded' = IF need THEN [recorded EXCEPT ![s] = Tag[s][request.version]]
                     ELSE recorded
  BY DEF RecordDebVersion, At, Goto
<1>2. s \in Service /\ s \notin Images
  BY DEF Service, Images
<1>3. /\ request \in Request /\ files \in [Service -> Conf]
      /\ recorded \in [Images \cup {"etcdpasswd"} -> Nat \ {0}]
      /\ running \in [Service -> Conf] /\ step \in 1 .. 12
      /\ need \in BOOLEAN /\ replaced \in BOOLEAN /\ skipped \subseteq OnChange
  BY DEF ServicesInv, TypeInv
<1>4. /\ recorded' \in [Images \cup {"etcdpasswd"} -> Nat \ {0}]
      /\ \A x \in Images : recorded'[x] = recorded[x]
  <2>1. Tag[s][request.version] \in Nat \ {0}
    BY <1>2, <1>3, ContentConf
  <2> QED BY <2>1, <1>1, <1>2, <1>3
<1>5. TypeInv'
  <2>1. First(step)' = "files" /\ "act" \in PlacesOf(s)
    BY <1>1 DEF First, Images, PlacesOf
  <2> QED BY <1>1, <1>3, <1>4, <2>1 DEF TypeInv
<1>6. ImageInv'
  BY <1>1, <1>4 DEF ServicesInv, ImageInv, Pulled
<1>7. FileInv'
  BY <1>1 DEF ServicesInv, FileInv, FilesReplaced, Wanted, Content
<1>8. RunInv'
  BY <1>1 DEF ServicesInv, RunInv, Due, FilesReplaced
<1>9. DoneInv'
  BY <1>1 DEF ServicesInv, DoneInv, Current, Wanted, Content
<1>10. StaysUp'
  BY <1>1 DEF ServicesInv, StaysUp
<1> QED BY <1>5, <1>6, <1>7, <1>8, <1>9, <1>10 DEF ServicesInv

----------------------------------------------------------------------------
\* The first step pulls what all units will name.
LEMMA FetchImagesInv ==
  ASSUME ServicesInv, FetchImages
  PROVE  ServicesInv'
<1>1. /\ status = "updating" /\ Steps[step] = "images" /\ Done
      /\ images' = images \cup {Pulled(s) : s \in Images}
      /\ UNCHANGED <<recorded, files, running, skipped>>
  BY DEF FetchImages, At
<1>2. /\ "sabakan" \in Service /\ "sabakan" \notin OnChange
      /\ "images" \notin Service /\ "images" \notin OnChange
  BY DEF Service, OnChange
<1>3. /\ running \in [Service -> Conf] /\ skipped \subseteq OnChange
      /\ step \in 1 .. 12 /\ running["sabakan"] # Nothing
  BY <1>2 DEF ServicesInv, TypeInv, StaysUp
<1>4. step = 1
  <2>1. 1 \in 1 .. 12 /\ Steps[1] = Steps[step]
    BY SMT, <1>1, StepsAre
  <2> QED BY <2>1, <1>3, StepsDiffer
<1>5. \A i \in 1 .. 12 : i < step => Steps[i] # "sabakan"
  BY SMT, <1>4
<1>6. \A s \in Images : Pulled(s) \in images'
  BY <1>1
<1>7. images \subseteq images'
  BY <1>1
<1> QED BY <1>1, <1>2, <1>3, <1>5, <1>6, <1>7, StepEnds

\* Vault alone is stopped by a step of its own.
LEMMA StopVaultInv ==
  ASSUME ServicesInv, StopVault
  PROVE  ServicesInv'
<1>1. /\ status = "updating" /\ Steps[step] = "stop-vault" /\ Done
      /\ running' = [running EXCEPT !["vault"] = Nothing]
      /\ UNCHANGED <<images, recorded, files, skipped>>
  BY DEF StopVault, At, stopService, Packaged
<1>2. /\ "vault" \in Service /\ "vault" \notin OnChange
      /\ "stop-vault" \notin Service /\ "stop-vault" \notin OnChange
  BY DEF Service, OnChange
<1>3. /\ running \in [Service -> Conf] /\ skipped \subseteq OnChange
      /\ step \in 1 .. 12
  BY DEF ServicesInv, TypeInv
<1>4. step = 2
  <2>1. 2 \in 1 .. 12 /\ Steps[2] = Steps[step]
    BY SMT, <1>1, StepsAre
  <2> QED BY <2>1, <1>3, StepsDiffer
<1>5. \A i \in 1 .. 12 : i < step => Steps[i] # "vault"
  BY SMT, <1>4, StepsAre
<1>6. Nothing \in Conf
  BY DEF Nothing, Conf
<1>7. /\ running' \in [Service -> Conf] /\ running'["vault"] = Nothing
      /\ \A s \in Service \ {"vault"} : running'[s] = running[s]
  BY <1>1, <1>2, <1>3, <1>6
<1>8. images \subseteq images'
  BY <1>1
<1> QED BY SMT, <1>1, <1>2, <1>3, <1>4, <1>5, <1>7, <1>8, StepEnds

\* Vault was stopped in the step before, so that the start is a real one.
LEMMA StartVaultInv ==
  ASSUME ServicesInv, At("vault", "act"), StartService("vault"), Done,
         UNCHANGED <<images, recorded, files>>
  PROVE  ServicesInv'
<1>1. /\ "vault" \in Service /\ running \in [Service -> Conf]
      /\ running["vault"] = Nothing
  BY DEF Service, ServicesInv, TypeInv, RunInv, At
<1>2. /\ status = "updating" /\ Steps[step] = "vault" /\ FilesReplaced("vault")
      /\ skipped' = skipped
  BY DEF At, FilesReplaced, StartService
<1>3. /\ files["vault"] = Wanted("vault") /\ Starts("vault") = Wanted("vault")
      /\ Wanted("vault") \in Conf /\ Wanted("vault") # Nothing
  BY <1>1, <1>2, StartsWanted
<1>4. running' = [running EXCEPT !["vault"] = Wanted("vault")]
  BY <1>1, <1>3 DEF StartService
<1>5. /\ running' \in [Service -> Conf] /\ running'["vault"] = Wanted("vault")
      /\ \A s \in Service \ {"vault"} : running'[s] = running[s]
  BY <1>1, <1>3, <1>4
<1>6. Wanted("vault")' = Wanted("vault")
  BY DEF Done, Wanted, Content
<1>7. Current("vault")'
  BY <1>3, <1>5, <1>6 DEF Current
<1>8. "vault" \notin OnChange /\ skipped \subseteq OnChange /\ step # 1
  BY <1>2, StepsAre DEF OnChange, ServicesInv, TypeInv
<1>9. \A i \in 1 .. 12 : i < step => Steps[i] # "vault"
  BY <1>2, NotPassed
<1> QED BY <1>1, <1>2, <1>3, <1>5, <1>7, <1>8, <1>9, StepEnds

\* The step that is to stop CKE finds no unit file, and does nothing.
LEMMA StopCKEInv ==
  ASSUME ServicesInv, StopCKE
  PROVE  ServicesInv'
<1>1. /\ status = "updating" /\ Steps[step] = "stop-cke" /\ Done
      /\ UNCHANGED <<images, recorded, files, running, skipped>>
  BY DEF StopCKE, At, stopService, Packaged
<1>2. /\ "cke" \in Service /\ "cke" \notin OnChange
      /\ "stop-cke" \notin Service /\ "stop-cke" \notin OnChange
  BY DEF Service, OnChange
<1>3. /\ running \in [Service -> Conf] /\ skipped \subseteq OnChange
      /\ step \in 1 .. 12 /\ running["cke"] # Nothing
  BY <1>2 DEF ServicesInv, TypeInv, StaysUp
<1>4. step = 10
  <2>1. 10 \in 1 .. 12 /\ Steps[10] = Steps[step]
    BY SMT, <1>1, StepsAre
  <2> QED BY <2>1, <1>3, StepsDiffer
<1>5. ASSUME NEW i \in 1 .. 12, i < step PROVE Steps[i] # "cke"
  <2>1. 11 \in 1 .. 12 /\ i # 11
    BY SMT, <1>4, <1>5
  <2> QED BY <2>1, StepsAre, StepsDiffer
<1> QED BY SMT, <1>1, <1>2, <1>3, <1>4, <1>5, StepEnds

----------------------------------------------------------------------------
\* A restart on changes is not due when nothing has changed; that of etcdpasswd
\* is done by its package when the package is installed.
LEMMA OnChangeInv ==
  ASSUME ServicesInv,
         \/ \E s \in {"setup-hw", "serf", "promtail"} : RestartWhen(s, need \/ replaced)
         \/ RestartWhen("etcdpasswd", replaced /\ ~need)
  PROVE  ServicesInv'
<1>1. need \in BOOLEAN /\ replaced \in BOOLEAN
  BY DEF ServicesInv, TypeInv
<1>2. ASSUME NEW s \in {"setup-hw", "serf", "promtail"}, RestartWhen(s, need \/ replaced)
      PROVE  ServicesInv'
  <2>1. s \in OnChange /\ (~(need \/ replaced) => ~Due(s)) /\ (need \/ replaced) \in BOOLEAN
    BY <1>1 DEF OnChange, Due
  <2> QED BY <2>1, <1>2, RestartWhenInv
<1>3. ASSUME RestartWhen("etcdpasswd", replaced /\ ~need)
      PROVE  ServicesInv'
  <2>1. pc = "act"
    BY <1>3 DEF RestartWhen, At
  <2>2. /\ "etcdpasswd" \in OnChange /\ (replaced /\ ~need) \in BOOLEAN
        /\ ~(replaced /\ ~need) => ~Due("etcdpasswd")
    BY <2>1, <1>1 DEF OnChange, Due
  <2> QED BY <2>2, <1>3, RestartWhenInv
<1> QED BY <1>2, <1>3

\* Every step of RunStep.
LEMMA RunStepInv ==
  ASSUME ServicesInv, RunStep
  PROVE  ServicesInv'
<1>1. ASSUME NEW s \in Images, RecordContainerTag(s) PROVE ServicesInv'
  BY <1>1, RecordContainerTagInv
<1>2. ASSUME NEW s \in Service \ {"etcdpasswd"}, replaceFile(s, "act") PROVE ServicesInv'
  BY <1>2, ReplaceFileInv
<1>3. ASSUME replaceFile("etcdpasswd", "need") PROVE ServicesInv'
  BY <1>3, ReplaceFileInv DEF Service
<1>4. CASE FetchImages \/ StopVault \/ StopCKE
  BY <1>4, FetchImagesInv, StopVaultInv, StopCKEInv
<1>5. CASE UpdateVault
  BY <1>5, <1>1, <1>2, StartVaultInv DEF UpdateVault, Images, Service
<1>6. CASE UpdateSetupHW
  BY <1>6, <1>1, <1>2, OnChangeInv DEF UpdateSetupHW, Images, Service
<1>7. CASE UpdateSerf
  BY <1>7, <1>1, <1>2, OnChangeInv DEF UpdateSerf, Images, Service
<1>8. CASE UpdatePromtail
  BY <1>8, <1>1, <1>2, OnChangeInv DEF UpdatePromtail, Images, Service
<1>9. CASE UpdateSetupSerfTags \/ UpdateCKE \/ UpdateSabakanStateSetter
  BY <1>9, <1>2, RestartAlwaysInv
  DEF UpdateSetupSerfTags, UpdateCKE, UpdateSabakanStateSetter, Service
<1>10. CASE UpdateEtcdpasswd
  BY <1>10, <1>3, InstallDebianPackageInv, RecordDebVersionInv, OnChangeInv
  DEF UpdateEtcdpasswd
<1>11. CASE UpdateSabakan
  BY <1>11, <1>1, <1>2, RestartAlwaysInv DEF UpdateSabakan, Images, Service
<1> QED BY <1>4, <1>5, <1>6, <1>7, <1>8, <1>9, <1>10, <1>11 DEF RunStep

\* A step may be cut anywhere: what it leaves is well formed, no record names an
\* image that is missing, and what should have been restarted is skipped.
LEMMA StopInv ==
  ASSUME ServicesInv, NEW how \in {"aborted", "dead"}, Stop(how)
  PROVE  ServicesInv'
<1>1. /\ status = "updating" /\ CutShort /\ status' = how
      /\ step' = 1 /\ pc' = First(1) /\ need' = FALSE /\ replaced' = FALSE
      /\ skipped' = {s \in OnChange : running[s] # files'[s]}
      /\ request' = request
  BY DEF Stop
<1>2. /\ request \in Request /\ files \in [Service -> Conf]
      /\ recorded \in [Images \cup {"etcdpasswd"} -> Nat \ {0}]
      /\ running \in [Service -> Conf]
      /\ pc \in PlacesOf(Steps[step])
  BY DEF ServicesInv, TypeInv
<1>3. /\ recorded' = recorded /\ running' = running /\ images \subseteq images'
  BY <1>1 DEF CutShort, etcVars
<1>4. files' \in [Service -> Conf] /\ files'["state-setter"] = files["state-setter"]
  <2>1. CASE files' = files
    BY <2>1, <1>2
  <2>2. ASSUME NEW s \in Service, At(s, "files"), NEW c \in Torn(s),
               files' = [files EXCEPT ![s] = c]
        PROVE  files' \in [Service -> Conf] /\ files'["state-setter"] = files["state-setter"]
    <3>1. s # "state-setter"
      BY <2>2, <1>2 DEF At, PlacesOf, Images
    <3>2. Wanted(s) \in Conf /\ Nothing \in Conf /\ files[s] \in Conf
      BY <1>2, ContentConf DEF Wanted, Nothing, Conf
    <3>3. c \in Conf
      BY <3>2, <2>2 DEF Torn, Conf
    <3> QED BY SMT, <3>1, <3>3, <2>2, <1>2
  <2> QED BY <2>1, <2>2, <1>1 DEF CutShort, etcVars
<1>5. TypeInv'
  <2>1. 1 \in 1 .. 12 /\ First(1) \in PlacesOf(Steps[1])
    BY SMT, FirstPlace
  <2> QED BY <2>1, <1>1, <1>2, <1>3, <1>4 DEF TypeInv
<1>6. ImageInv'
  BY <1>1, <1>3 DEF ServicesInv, ImageInv
<1>7. FileInv'
  BY <1>1, <1>4 DEF ServicesInv, FileInv, Wanted, Content
<1>8. RunInv'
  BY <1>1, <1>3 DEF RunInv
<1>9. DoneInv'
  BY <1>1 DEF DoneInv
<1>10. StaysUp'
  BY <1>1, <1>3 DEF ServicesInv, StaysUp
<1> QED BY <1>5, <1>6, <1>7, <1>8, <1>9, <1>10 DEF ServicesInv

\* A worker that starts again after a crash starts Vault.
LEMMA RunInvariant ==
  ASSUME ServicesInv, Run
  PROVE  ServicesInv'
<1>1. /\ status = "dead" /\ status' = "aborted"
      /\ UNCHANGED <<request, images, recorded, files, step, pc, need, replaced, skipped>>
      /\ running' = [running EXCEPT !["vault"] =
                       IF @ = Nothing THEN Starts("vault") ELSE @]
  BY DEF Run, StartServices, StartService
<1>2. "vault" \in Service /\ "vault" \notin OnChange /\ OnChange \subseteq Service
  BY DEF Service, OnChange
<1>3. /\ files \in [Service -> Conf] /\ running \in [Service -> Conf]
  BY DEF ServicesInv, TypeInv
<1>4. Starts("vault") \in Conf
  BY <1>2, <1>3 DEF Starts, Nothing, Conf
<1>5. /\ running' \in [Service -> Conf]
      /\ \A s \in Service \ {"vault"} : running'[s] = running[s]
  BY <1>1, <1>2, <1>3, <1>4
<1>6. TypeInv'
  BY <1>1, <1>5 DEF ServicesInv, TypeInv, First
<1>7. ImageInv'
  BY <1>1 DEF ServicesInv, ImageInv
<1>8. FileInv'
  BY <1>1 DEF ServicesInv, FileInv, Wanted, Content
<1>9. RunInv'
  BY <1>1, <1>2, <1>5 DEF ServicesInv, RunInv, Due
<1>10. DoneInv'
  BY <1>1 DEF DoneInv
<1>11. StaysUp'
  BY <1>1, <1>5 DEF ServicesInv, StaysUp
<1> QED BY <1>6, <1>7, <1>8, <1>9, <1>10, <1>11 DEF ServicesInv

\* A new request begins a round; for another version, the package brings new
\* files for what it contains and restarts it.
LEMMA NewRequestInv ==
  ASSUME ServicesInv, NEW r \in Request, NewRequest(r)
  PROVE  ServicesInv'
<1> DEFINE new == IF r.version = request.version THEN {} ELSE Packaged
           installed == [s \in Service |->
             IF s \in new THEN [files[s] EXCEPT !.tag = Tag[s][r.version]] ELSE files[s]]
<1>1. /\ status \in {"aborted", "completed"}
      /\ files' = installed
      /\ running' = [s \in Service |->
           CASE s \in new -> installed[s]
             [] s = "vault" /\ new # {} /\ running[s] = Nothing -> Starts(s)
             [] OTHER -> running[s]]
      /\ request' = r /\ status' = "updating" /\ step' = 1 /\ pc' = First(1)
      /\ UNCHANGED <<images, recorded, need, replaced, skipped>>
  BY DEF NewRequest
<1>2. /\ request \in Request /\ files \in [Service -> Conf]
      /\ recorded \in [Images \cup {"etcdpasswd"} -> Nat \ {0}]
      /\ running \in [Service -> Conf] /\ skipped \subseteq OnChange
      /\ need = FALSE /\ replaced = FALSE
  BY <1>1 DEF ServicesInv, TypeInv
<1>3. /\ new \subseteq {"cke", "state-setter"} /\ "state-setter" \in Service
      /\ "vault" \in Service /\ new \subseteq Service /\ "vault" \notin new
  BY DEF Packaged, Service
<1>4. \A s \in Service : Tag[s][r.version] \in Nat \ {0}
  BY ContentConf
<1>5. \A s \in Service : /\ files'[s] \in Conf
                         /\ s \in new => files'[s] # Nothing
                         /\ s \notin new => files'[s] = files[s]
  BY <1>1, <1>2, <1>4 DEF Conf, Nothing
<1>6. \A s \in Service \ {"vault"} :
        running'[s] = IF s \in new THEN files'[s] ELSE running[s]
  BY <1>1
<1>7. running'["vault"] \in {Starts("vault"), running["vault"]}
  BY <1>1, <1>3
<1>8. Starts("vault") \in Conf
  BY <1>2, <1>3 DEF Starts, Nothing, Conf
<1>9. /\ files' = [s \in Service |-> files'[s]]
      /\ running' = [s \in Service |-> running'[s]]
      /\ \A s \in new : files'[s] = [files[s] EXCEPT !.tag = Tag[s][r.version]]
  BY <1>1, <1>3
<1> HIDE DEF new, installed
<1>10. files' \in [Service -> Conf]
  BY <1>5, <1>9
<1>11. running' \in [Service -> Conf]
  <2>1. \A s \in Service : running'[s] \in Conf
    BY <1>2, <1>3, <1>5, <1>6, <1>7, <1>8
  <2> QED BY <2>1, <1>9
<1>12. TypeInv'
  <2>1. 1 \in 1 .. 12 /\ First(1) \in PlacesOf(Steps[1])
    BY SMT, FirstPlace
  <2> QED BY <2>1, <1>1, <1>2, <1>10, <1>11 DEF TypeInv
<1>13. ImageInv'
  BY <1>1 DEF ServicesInv, ImageInv
<1>14. FileInv'
  <2> DEFINE f == files["state-setter"]
  <2>1. f = [tag |-> Tag["state-setter"][request.version], servers |-> {}]
    BY DEF ServicesInv, FileInv, Wanted, Content, Clustered
  <2>2. files'["state-setter"] = [tag |-> Tag["state-setter"][r.version], servers |-> {}]
    <3>1. CASE r.version = request.version
      BY <3>1, <2>1, <1>3, <1>5 DEF new
    <3>2. CASE r.version # request.version
      <4>1. "state-setter" \in new
        BY <3>2 DEF Packaged, new
      <4>2. files'["state-setter"] = [f EXCEPT !.tag = Tag["state-setter"][r.version]]
        BY <4>1, <1>9
      <4> HIDE DEF f
      <4> QED BY <4>2, <2>1
    <3> QED BY <3>1, <3>2
  <2>3. Wanted("state-setter")' = [tag |-> Tag["state-setter"][r.version], servers |-> {}]
    BY <1>1 DEF Wanted, Content, Clustered
  <2>4. Steps[step'] \notin Service
    BY <1>1, StepsAre DEF Service
  <2> QED BY <2>2, <2>3, <2>4 DEF FileInv
<1>15. RunInv'
  <2>1. OnChange \subseteq Service \ ({"vault"} \cup new)
    BY <1>3 DEF OnChange, Service
  <2>2. \A s \in OnChange : running'[s] = files'[s] \/ s \in skipped'
    BY <2>1, <1>1, <1>5, <1>6 DEF ServicesInv, RunInv, Due
  <2>3. Steps[step'] # "vault"
    BY <1>1, StepsAre
  <2> QED BY <2>2, <2>3 DEF RunInv
<1>16. DoneInv'
  <2>1. \A i \in 1 .. 12 : ~(i < step') /\ status' # "completed"
    BY SMT, <1>1
  <2> QED BY <2>1 DEF DoneInv
<1>17. StaysUp'
  <2>1. \A s \in Service \ {"vault"} : running'[s] # Nothing
    <3>1. \A s \in Service \ {"vault"} : running[s] # Nothing
      BY DEF ServicesInv, StaysUp
    <3> QED BY <3>1, <1>5, <1>6
  <2>2. status' = "updating" /\ Steps[step'] = "images"
    BY <1>1, StepsAre
  <2> QED BY <2>1, <2>2 DEF StaysUp
<1> QED BY <1>12, <1>13, <1>14, <1>15, <1>16, <1>17 DEF ServicesInv

\* Steps that change nothing.
LEMMA StutterInv ==
  ASSUME ServicesInv, UNCHANGED servicesVars
  PROVE  ServicesInv'
<1>1. UNCHANGED <<request, status, images, recorded, files, running, step, pc,
                  need, replaced, skipped>>
  BY DEF servicesVars, etcVars
<1>2. TypeInv'
  BY <1>1 DEF ServicesInv, TypeInv, First
<1>3. ImageInv'
  BY <1>1 DEF ServicesInv, ImageInv, Pulled
<1>4. FileInv'
  BY <1>1 DEF ServicesInv, FileInv, FilesReplaced, Wanted, Content
<1>5. RunInv'
  BY <1>1 DEF ServicesInv, RunInv, Due, FilesReplaced
<1>6. DoneInv'
  BY <1>1 DEF ServicesInv, DoneInv, Current, Wanted, Content
<1>7. StaysUp'
  BY <1>1 DEF ServicesInv, StaysUp
<1> QED BY <1>2, <1>3, <1>4, <1>5, <1>6, <1>7 DEF ServicesInv

\* ServicesInv holds at all times.
LEMMA ServicesInductive == ServicesSpec => []ServicesInv
<1>1. ServicesInv /\ [ServicesNext]_servicesVars => ServicesInv'
  <2> SUFFICES ASSUME ServicesInv, [ServicesNext]_servicesVars PROVE ServicesInv'
    OBVIOUS
  <2>1. CASE RunStep
    BY <2>1, RunStepInv
  <2>2. CASE Fails \/ Crash
    BY <2>2, StopInv DEF Fails, Crash
  <2>3. CASE Run
    BY <2>3, RunInvariant
  <2>4. CASE \E r \in Request : NewRequest(r)
    BY <2>4, NewRequestInv
  <2>5. CASE UNCHANGED servicesVars
    BY <2>5, StutterInv
  <2> QED BY <2>1, <2>2, <2>3, <2>4, <2>5 DEF ServicesNext
<1> QED BY <1>1, InitInv, PTL DEF ServicesSpec

\* The services have their types, and the record in etcd is never ahead of the
\* images on the server.
THEOREM ServicesTypeCorrect == ServicesSpec => []ServicesTypeOK
<1>1. ServicesInv => ServicesTypeOK
  <2> SUFFICES ASSUME ServicesInv PROVE ServicesTypeOK
    OBVIOUS
  <2>1. /\ request \in Request /\ status \in {"updating", "completed", "aborted", "dead"}
        /\ recorded \in [Images \cup {"etcdpasswd"} -> Nat \ {0}]
        /\ files \in [Service -> Conf] /\ running \in [Service -> Conf]
        /\ step \in 1 .. 12 /\ pc \in PlacesOf(Steps[step])
        /\ (need \/ replaced) => status = "updating" /\ pc # First(step)
        /\ skipped \subseteq OnChange
    BY DEF ServicesInv, TypeInv
  <2>2. \A s \in Service : {files[s], running[s]} \subseteq Conf
    BY <2>1
  <2>3. pc \in {"need", "files", "record", "act"}
    BY <2>1 DEF PlacesOf, Images
  <2>4. \A s \in Images : <<s, recorded[s]>> \in images
    BY DEF ServicesInv, ImageInv
  <2>5. Len(Steps) = 12
    BY StepsAre
  <2> QED BY <2>1, <2>2, <2>3, <2>4, <2>5 DEF ServicesTypeOK, Conf
<1> QED BY <1>1, ServicesInductive, PTL

\* A completed round leaves every service with the requested version and the
\* requested servers, but for the restarts that a cut step has skipped.
THEOREM CompletedMeansCurrent == ServicesSpec => []CompletedIsCurrent
<1>1. ServicesInv => CompletedIsCurrent
  <2> SUFFICES ASSUME ServicesInv, status = "completed", NEW s \in Service
               PROVE  Current(s)
    BY DEF CompletedIsCurrent, Current
  <2>1. PICK i \in 1 .. 12 : Steps[i] = s
    BY EveryServiceHasAStep
  <2> QED BY <2>1 DEF ServicesInv, DoneInv
<1> QED BY <1>1, ServicesInductive, PTL

\* No service but Vault is ever down: FetchImages has pulled every image before
\* a unit names it.
THEOREM ServicesStayUp == ServicesSpec => []StaysUp
<1>1. ServicesInv => StaysUp
  BY DEF ServicesInv
<1> QED BY <1>1, ServicesInductive, PTL
=============================================================================
