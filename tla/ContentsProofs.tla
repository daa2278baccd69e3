--------------------------- MODULE ContentsProofs ---------------------------
(***************************************************************************)
(* That the record of an upload is true, that ignitions refer to nothing   *)
(* that is missing, that a worker leaves no leader key behind and that     *)
(* undisturbed workers agree, for any number of workers, roles, targets    *)
(* and rounds, with uploads that fail, workers that die and sessions that  *)
(* expire at any time.                                                     *)
(***************************************************************************)
EXTENDS Contents, TLAPS

\* A leaf is tried with Zenon first; one that needs arithmetic cites SMT.
USE ZenonT(30), SMT

Item == [version : Nat, servers : SUBSET Worker]
Asked == [round : Nat, version : Nat, servers : SUBSET Worker, stop : BOOLEAN]

TypeInv ==
  /\ request \in Asked /\ mine \in [Worker -> Asked]
  /\ status \in [Target -> [version : Nat, success : BOOLEAN]]
  /\ results \in [Worker -> Seq({"ok", "skip", "error"})]
  /\ pc \in [Worker -> {"idle", "campaign", "upload", "failed"}]
  /\ parts \in [Worker -> SUBSET Part] /\ outcome \in [Worker -> BOOLEAN]
  /\ loaded \in [Part -> Seq(Item)]

\* A request that names a server has a version.
Versioned(r) == r.servers # {} => r.version > 0

RequestInv == Versioned(request) /\ \A w \in Worker : Versioned(mine[w])

\* A worker in a step has a version to work for; what it no longer has to
\* upload is there.
WorkOf(w) ==
  /\ pc[w] \in {"campaign", "upload"} =>
       mine[w].version > 0 /\ Len(results[w]) < Len(Targets)
  /\ pc[w] = "upload" =>
       /\ parts[w] \subseteq Parts(Current(w))
       /\ \A p \in Parts(Current(w)) \ parts[w] : Has(p, mine[w].version)

WorkInv == \A w \in Worker : WorkOf(w)

ContentsInv ==
  TypeInv /\ RequestInv /\ WorkInv /\ SuccessMeansUploaded /\ IgnitionsComplete

----------------------------------------------------------------------------
(* What uploads do. *)

HasIn(items, v) == \E i \in DOMAIN items : items[i].version = v

\* Nothing that was uploaded goes away.
Grows ==
  \A p \in Part : \A v \in Nat : HasIn(loaded[p], v) => HasIn(loaded'[p], v)

\* The target of a step is one of the targets.
LEMMA CurrentTarget ==
  ASSUME TypeInv, NEW w \in Worker, Len(results[w]) < Len(Targets)
  PROVE  /\ Current(w) \in Target
         /\ Parts(Current(w)) \subseteq Part
<1>1. Len(results[w]) \in Nat /\ Len(Targets) \in Nat
  BY SMT, ContentsAssumption DEF TypeInv
<1>2. Len(results[w]) + 1 \in DOMAIN Targets
  BY SMT, <1>1, ContentsAssumption
<1> QED BY <1>2 DEF Current, Target, Parts, Part

\* The last item, when there is one, is among the items.
LEMMA LastIsThere ==
  ASSUME TypeInv, NEW p \in Part, NEW v \in Nat \ {0}, LastVersion(p) = v
  PROVE  Has(p, v)
<1>1. loaded[p] \in Seq(Item)
  BY DEF TypeInv
<1>2. loaded[p] # <<>>
  BY DEF LastVersion
<1>3. Len(loaded[p]) \in DOMAIN loaded[p]
  BY SMT, <1>1, <1>2
<1> QED BY <1>2, <1>3 DEF LastVersion, Has

\* An upload leaves the items of a piece as they are, if there is one of the
\* version, or adds one of the version.
LEMMA UploadIs ==
  ASSUME TypeInv, NEW w \in Worker, mine[w].version > 0,
         NEW t \in Target, NEW p \in Parts(t)
  PROVE  \/ Upload(w, p) = loaded /\ Has(p, mine[w].version)
         \/ \E S \in SUBSET Worker :
              Upload(w, p) = [loaded EXCEPT ![p] =
                                Append(loaded[p], Content(mine[w].version, S))]
<1> DEFINE v == mine[w].version
<1> p \in Part
  BY DEF Parts, Part
<1>1. v \in Nat \ {0} /\ loaded \in [Part -> Seq(Item)]
  BY SMT DEF TypeInv, Asked
<1>2. request.servers \in SUBSET Worker /\ {} \in SUBSET Worker
  BY DEF TypeInv, Asked
<1>3. [loaded EXCEPT ![p] = loaded[p]] = loaded
  BY <1>1
<1>4. LastVersion(p) = v => Has(p, v)
  BY <1>1, LastIsThere
<1> DEFINE Same(s) == s = loaded[p] /\ Has(p, v)
           More(s) == \E S \in SUBSET Worker : s = Append(loaded[p], Content(v, S))
<1>5. ASSUME NEW s, Same(s) \/ More(s), Upload(w, p) = [loaded EXCEPT ![p] = s]
      PROVE  \/ Upload(w, p) = loaded /\ Has(p, v)
             \/ \E S \in SUBSET Worker :
                  Upload(w, p) = [loaded EXCEPT ![p] = Append(loaded[p], Content(v, S))]
  BY <1>3, <1>5
<1>6. CASE p \in Role
  <2>1. Same(uploadIgnitions(p, v)) \/ More(uploadIgnitions(p, v))
    BY <1>2, <1>4 DEF uploadIgnitions, needIgnitionUpdate
  <2>2. Upload(w, p) = [loaded EXCEPT ![p] = uploadIgnitions(p, v)]
    BY <1>6, ContentsAssumption DEF Upload, Kinds
  <2> QED BY <1>5, <2>1, <2>2
<1>7. CASE p \notin Role /\ p = "image"
  <2>1. Same(uploadOSImages(v)) \/ More(uploadOSImages(v))
    BY <1>2, <1>4, <1>7 DEF uploadOSImages
  <2>2. Upload(w, p) = [loaded EXCEPT ![p] = uploadOSImages(v)]
    BY <1>7 DEF Upload
  <2> QED BY <1>5, <2>1, <2>2
<1>8. CASE p \notin Role /\ p \in {"assets", "cke"}
  <2>1. Same(UploadImageAssets(p, v)) \/ More(UploadImageAssets(p, v))
    BY <1>2 DEF UploadImageAssets
  <2>2. Upload(w, p) = [loaded EXCEPT ![p] = UploadImageAssets(p, v)]
    BY <1>8 DEF Upload, uploadAssets, UploadCKEImages
  <2> QED BY <1>5, <2>1, <2>2
<1>9. CASE p \notin Role /\ p \in {"cke-template", "dhcp.json", "user-resources"}
  <2>1. Same(Set(p, v)) \/ More(Set(p, v))
    BY <1>2, <1>4 DEF Set
  <2>2. Upload(w, p) = [loaded EXCEPT ![p] = Set(p, v)]
    BY <1>9
    DEF Upload, SetCKETemplate, UploadDHCPJSON, UpdateResources
  <2> QED BY <1>5, <2>1, <2>2
<1>10. Target \subseteq Kinds
  BY SMT, ContentsAssumption DEF Target
<1>11. \/ p \in Role \/ p = "image" \/ p \in {"assets", "cke"}
       \/ p \in {"cke-template", "dhcp.json", "user-resources"}
  BY <1>10 DEF Parts, Kinds
<1> QED BY <1>6, <1>7, <1>8, <1>9, <1>11

\* To append an item keeps the others.
LEMMA AppendItem ==
  ASSUME NEW items \in Seq(Item), NEW item \in Item
  PROVE  /\ Append(items, item) \in Seq(Item)
         /\ \A i \in DOMAIN items :
              i \in DOMAIN Append(items, item) /\ Append(items, item)[i] = items[i]
         /\ \A i \in DOMAIN Append(items, item) :
              i \in DOMAIN items \/ Append(items, item)[i] = item
         /\ HasIn(Append(items, item), item.version)
<1>1. /\ Append(items, item) \in Seq(Item)
      /\ DOMAIN Append(items, item) = 1 .. Len(items) + 1
      /\ Append(items, item)[Len(items) + 1] = item
      /\ \A i \in 1 .. Len(items) : Append(items, item)[i] = items[i]
  BY SMT
<1>2. Len(items) \in Nat /\ DOMAIN items = 1 .. Len(items)
  BY SMT
<1>3. Len(items) + 1 \in DOMAIN Append(items, item)
  BY SMT, <1>1, <1>2
<1>4. HasIn(Append(items, item), item.version)
  BY <1>1, <1>3 DEF HasIn
<1> QED BY SMT, <1>1, <1>2, <1>4

\* After an upload the piece is there, nothing else has gone, and what is new
\* is of the version of the worker.
LEMMA AfterUpload ==
  ASSUME TypeInv, NEW w \in Worker, mine[w].version > 0,
         NEW t \in Target, NEW p \in Parts(t), loaded' = Upload(w, p)
  PROVE  /\ loaded' \in [Part -> Seq(Item)] /\ Grows
         /\ HasIn(loaded'[p], mine[w].version)
         /\ \A q \in Part : \A i \in DOMAIN loaded'[q] :
              \/ i \in DOMAIN loaded[q] /\ loaded'[q][i] = loaded[q][i]
              \/ q = p /\ loaded'[q][i].version = mine[w].version
<1> DEFINE v == mine[w].version
<1>1. /\ v \in Nat /\ loaded \in [Part -> Seq(Item)] /\ p \in Part
  BY DEF TypeInv, Asked, Parts, Part
<1>2. CASE loaded' = loaded /\ Has(p, v)
  BY <1>1, <1>2 DEF Grows, Has, HasIn
<1>3. ASSUME NEW S \in SUBSET Worker,
             loaded' = [loaded EXCEPT ![p] = Append(loaded[p], Content(v, S))]
      PROVE  /\ loaded' \in [Part -> Seq(Item)] /\ Grows
             /\ HasIn(loaded'[p], v)
             /\ \A q \in Part : \A i \in DOMAIN loaded'[q] :
                  \/ i \in DOMAIN loaded[q] /\ loaded'[q][i] = loaded[q][i]
                  \/ q = p /\ loaded'[q][i].version = v
  <2> DEFINE item == Content(v, S)
             items == Append(loaded[p], item)
  <2>1. item \in Item /\ item.version = v
    BY <1>1 DEF Content, Item
  <2>2. loaded[p] \in Seq(Item)
    BY <1>1
  <2>3. /\ items \in Seq(Item) /\ HasIn(items, v)
        /\ \A i \in DOMAIN loaded[p] : i \in DOMAIN items /\ items[i] = loaded[p][i]
        /\ \A i \in DOMAIN items : i \in DOMAIN loaded[p] \/ items[i] = item
    BY SMT, <2>1, <2>2, AppendItem
  <2>4. loaded'[p] = items /\ \A q \in Part \ {p} : loaded'[q] = loaded[q]
    BY <1>1, <1>3
  <2>5. loaded' \in [Part -> Seq(Item)]
    BY <1>1, <1>3, <2>3
  <2> HIDE DEF items, item
  <2>6. Grows
    BY SMT, <2>3, <2>4 DEF Grows, HasIn
  <2>7. ASSUME NEW q \in Part, NEW i \in DOMAIN loaded'[q]
        PROVE  \/ i \in DOMAIN loaded[q] /\ loaded'[q][i] = loaded[q][i]
               \/ q = p /\ loaded'[q][i].version = v
    BY <2>1, <2>3, <2>4, <2>7
  <2> QED BY <2>3, <2>4, <2>5, <2>6, <2>7
<1> QED BY <1>2, <1>3, UploadIs

----------------------------------------------------------------------------
(* What a step leaves alone. *)

\* The work of a worker that takes no step.
LEMMA WorkKept ==
  ASSUME TypeInv, NEW w \in Worker, WorkOf(w), Grows,
         pc'[w] = pc[w], mine'[w] = mine[w], results'[w] = results[w],
         parts'[w] = parts[w]
  PROVE  WorkOf(w)'
<1>1. CASE pc[w] = "upload"
  <2>1. Len(results[w]) < Len(Targets) /\ mine[w].version \in Nat
    BY <1>1 DEF WorkOf, TypeInv, Asked
  <2>2. Parts(Current(w)) \subseteq Part
    BY <2>1, CurrentTarget
  <2>3. Parts(Current(w))' = Parts(Current(w))
    BY DEF Parts, Current
  <2>4. \A p \in Parts(Current(w)) \ parts[w] : HasIn(loaded'[p], mine[w].version)
    BY <1>1, <2>1, <2>2 DEF WorkOf, Has, HasIn, Grows
  <2> QED BY <1>1, <2>3, <2>4 DEF WorkOf, Has, HasIn
<1>2. CASE pc[w] # "upload"
  BY <1>2 DEF WorkOf
<1> QED BY <1>1, <1>2

\* A worker out of a step has no work.
LEMMA NoWork ==
  ASSUME NEW w \in Worker, pc'[w] \in Settled
  PROVE  WorkOf(w)'
BY DEF WorkOf, Settled

\* The records stay true as long as uploads are only added.
LEMMA SuccessKept ==
  ASSUME TypeInv, SuccessMeansUploaded, Grows, NEW t \in Target,
         status'[t] = status[t], status'[t].success
  PROVE  \A p \in Parts(t) : HasIn(loaded'[p], status'[t].version)
<1>1. status[t].version \in Nat /\ Parts(t) \subseteq Part
  BY DEF TypeInv, Parts, Part
<1>2. \A p \in Parts(t) : HasIn(loaded[p], status[t].version)
  BY DEF SuccessMeansUploaded, Has, HasIn
<1> QED BY <1>1, <1>2 DEF Grows

\* So they all stay true when none is written.
LEMMA SuccessAll ==
  ASSUME TypeInv, SuccessMeansUploaded, Grows, status' = status
  PROVE  SuccessMeansUploaded'
<1>1. \A t \in Target : status'[t].success =>
        \A p \in Parts(t) : HasIn(loaded'[p], status'[t].version)
  BY SuccessKept
<1> QED BY <1>1 DEF SuccessMeansUploaded, Has, HasIn, Parts

\* What is uploaded stays as it is.
LEMMA NothingUploaded ==
  ASSUME TypeInv, IgnitionsComplete, loaded' = loaded
  PROVE  Grows /\ IgnitionsComplete'
BY DEF Grows, IgnitionsComplete, Has

----------------------------------------------------------------------------
(* The steps. *)

\* A step returns: the types, and the worker has no work.
LEMMA AfterReturns ==
  ASSUME TypeInv, NEW w \in Worker, NEW r \in {"ok", "skip", "error"}, Returns(w, r)
  PROVE  /\ results' \in [Worker -> Seq({"ok", "skip", "error"})]
         /\ pc' \in [Worker -> {"idle", "campaign", "upload", "failed"}]
         /\ WorkOf(w)'
         /\ \A v \in Worker \ {w} : pc'[v] = pc[v] /\ results'[v] = results[v]
<1>1. results' \in [Worker -> Seq({"ok", "skip", "error"})]
  BY SMT DEF TypeInv, Returns
<1>2. pc' \in [Worker -> {"idle", "campaign", "upload", "failed"}]
  BY DEF TypeInv, Returns
<1>3. pc'[w] \in Settled
  BY DEF TypeInv, Returns, Settled
<1>4. \A v \in Worker \ {w} : pc'[v] = pc[v] /\ results'[v] = results[v]
  BY DEF TypeInv, Returns
<1> QED BY <1>1, <1>2, <1>3, <1>4, NoWork

\* Nothing is recorded or uploaded, and the others take no step.
LEMMA Quiet ==
  ASSUME ContentsInv, TypeInv', RequestInv', NEW w \in Worker, WorkOf(w)',
         status' = status, loaded' = loaded,
         \A v \in Worker \ {w} :
           /\ pc'[v] = pc[v] /\ mine'[v] = mine[v] /\ results'[v] = results[v]
           /\ parts'[v] = parts[v]
  PROVE  ContentsInv'
<1>1. Grows /\ IgnitionsComplete'
  BY NothingUploaded DEF ContentsInv
<1>2. SuccessMeansUploaded'
  BY <1>1, SuccessAll DEF ContentsInv
<1>3. \A v \in Worker : WorkOf(v)'
  BY <1>1, WorkKept DEF ContentsInv, WorkInv
<1> QED BY <1>1, <1>2, <1>3 DEF ContentsInv, WorkInv

\* A worker enters a step.
LEMMA EnterInv ==
  ASSUME ContentsInv, NEW w \in Worker, Enter(w), Len(results[w]) < Len(Targets)
  PROVE  ContentsInv'
<1> USE DEF ContentsInv
<1>1. UNCHANGED <<request, status, mine, parts, outcome, loaded>>
  BY DEF Enter
<1>2. RequestInv'
  BY <1>1 DEF RequestInv, Versioned
<1>3. mine[w].version > 0
  BY DEF Enter, RequestInv, Versioned
<1>4. CASE w \in active
  <2>1. pc' = [pc EXCEPT ![w] = "campaign"] /\ results' = results
    BY <1>4 DEF Enter
  <2>2. TypeInv'
    BY <1>1, <2>1 DEF TypeInv
  <2>3. WorkOf(w)'
    BY <1>1, <1>3, <2>1 DEF WorkOf, TypeInv
  <2>4. \A v \in Worker \ {w} : pc'[v] = pc[v]
    BY <2>1 DEF TypeInv
  <2> QED BY <1>1, <1>2, <2>1, <2>2, <2>3, <2>4, Quiet
<1>5. CASE w \notin active
  <2>1. Returns(w, "skip")
    BY <1>5 DEF Enter
  <2>2. TypeInv'
    BY <1>1, <2>1, AfterReturns DEF TypeInv
  <2> QED BY <1>1, <1>2, <2>1, <2>2, AfterReturns, Quiet
<1> QED BY <1>4, <1>5

\* It is elected.
LEMMA ElectedInv ==
  ASSUME ContentsInv, NEW w \in Worker, Elected(w)
  PROVE  ContentsInv'
<1> USE DEF ContentsInv
<1>1. UNCHANGED <<request, status, mine, loaded>> /\ pc[w] = "campaign"
  BY DEF Elected
<1>2. RequestInv'
  BY <1>1 DEF RequestInv, Versioned
<1>3. CASE /\ \E r \in {"ok", "error"} : Returns(w, r)
           /\ UNCHANGED <<parts, outcome>>
  <2>1. PICK r \in {"ok", "error"} : Returns(w, r)
    BY <1>3
  <2>2. TypeInv'
    BY <1>1, <1>3, <2>1, AfterReturns DEF TypeInv
  <2> QED BY <1>1, <1>2, <1>3, <2>1, <2>2, AfterReturns, Quiet
<1>4. CASE /\ parts' = [parts EXCEPT ![w] = Parts(Current(w))]
           /\ outcome' = [outcome EXCEPT ![w] = TRUE]
           /\ pc' = [pc EXCEPT ![w] = "upload"]
           /\ results' = results
  <2>1. mine[w].version > 0 /\ Len(results[w]) < Len(Targets)
    BY <1>1 DEF WorkInv, WorkOf
  <2>2. Parts(Current(w)) \subseteq Part
    BY <2>1, CurrentTarget
  <2>3. TypeInv'
    BY <1>1, <1>4, <2>2 DEF TypeInv
  <2>4. Parts(Current(w))' = Parts(Current(w)) /\ parts'[w] = Parts(Current(w))
    BY <1>4 DEF Parts, Current, TypeInv
  <2>5. WorkOf(w)'
    BY <1>1, <1>4, <2>1, <2>4 DEF WorkOf
  <2>6. \A v \in Worker \ {w} : pc'[v] = pc[v] /\ parts'[v] = parts[v]
    BY <1>4 DEF TypeInv
  <2> QED BY <1>1, <1>2, <1>4, <2>3, <2>5, <2>6, Quiet
<1> QED BY <1>3, <1>4 DEF Elected

\* It uploads a piece, which may be taken for a failure.
LEMMA UploadInv ==
  ASSUME ContentsInv, NEW w \in Worker, pc[w] = "upload",
         NEW p \in parts[w], MayUpload(w, p), loaded' = Upload(w, p),
         UNCHANGED <<request, status, mine, results, pc>>,
         outcome' \in [Worker -> BOOLEAN],
         parts' \in {parts, [parts EXCEPT ![w] = @ \ {p}]}
  PROVE  ContentsInv'
<1> USE DEF ContentsInv
<1> DEFINE t == Current(w)
           v == mine[w].version
<1>1. /\ v > 0 /\ Len(results[w]) < Len(Targets) /\ p \in Parts(t)
      /\ \A q \in Parts(t) \ parts[w] : HasIn(loaded[q], v)
  BY DEF WorkInv, WorkOf, Has, HasIn
<1>2. t \in Target /\ Parts(t) \subseteq Part /\ v \in Nat
  BY <1>1, CurrentTarget DEF TypeInv, Asked
<1> HIDE DEF t
<1>3. /\ loaded' \in [Part -> Seq(Item)] /\ Grows
      /\ HasIn(loaded'[p], v)
      /\ \A q \in Part : \A i \in DOMAIN loaded'[q] :
           \/ i \in DOMAIN loaded[q] /\ loaded'[q][i] = loaded[q][i]
           \/ q = p /\ loaded'[q][i].version = v
  BY SMT, <1>1, <1>2, AfterUpload
<1>4. parts' \in [Worker -> SUBSET Part] /\ parts'[w] \in {parts[w], parts[w] \ {p}}
  BY DEF TypeInv
<1>5. TypeInv' /\ RequestInv'
  BY <1>3, <1>4 DEF TypeInv, RequestInv, Versioned
<1>6. \A q \in Parts(t) \ parts'[w] : HasIn(loaded'[q], v)
  BY <1>1, <1>2, <1>3, <1>4 DEF Grows
<1>7. t' = t /\ Parts(t)' = Parts(t) /\ parts'[w] \subseteq Parts(t)
  BY <1>4 DEF t, Current, Parts, WorkInv, WorkOf
<1>8. WorkOf(w)'
  BY <1>1, <1>6, <1>7 DEF WorkOf, Has, HasIn, t
<1>9. \A u \in Worker \ {w} : parts'[u] = parts[u]
  BY DEF TypeInv
<1>10. WorkInv'
  BY <1>3, <1>8, <1>9, WorkKept DEF WorkInv
<1>11. SuccessMeansUploaded'
  BY <1>3, SuccessAll
<1>12. IgnitionsComplete'
  <2>1. {"image", "assets"} \subseteq Part /\ Role \subseteq Part
    BY DEF Part
  <2>2. p \in Role => HasIn(loaded'["image"], v) /\ HasIn(loaded'["assets"], v)
    <3> SUFFICES ASSUME p \in Role
                 PROVE  HasIn(loaded'["image"], v) /\ HasIn(loaded'["assets"], v)
      OBVIOUS
    <3>1. t = "sabakan"
      BY SMT, <1>1, <1>2, ContentsAssumption DEF Parts, Target
    <3>2. {"image", "assets"} \subseteq Parts(t) \ parts[w]
      BY <3>1 DEF Parts, MayUpload
    <3> QED BY <1>1, <1>2, <1>3, <2>1, <3>2 DEF Grows
  <2>3. ASSUME NEW r \in Role, NEW i \in DOMAIN loaded'[r]
        PROVE  /\ HasIn(loaded'["image"], loaded'[r][i].version)
               /\ HasIn(loaded'["assets"], loaded'[r][i].version)
    <3>1. CASE i \in DOMAIN loaded[r] /\ loaded'[r][i] = loaded[r][i]
      <4>a. loaded[r] \in Seq(Item)
        BY <2>1 DEF TypeInv
      <4>b. loaded[r][i] \in Item
        BY SMT, <3>1, <4>a
      <4>1. loaded[r][i].version \in Nat
        BY <4>b DEF Item
      <4>2. /\ HasIn(loaded["image"], loaded[r][i].version)
            /\ HasIn(loaded["assets"], loaded[r][i].version)
        BY <3>1 DEF IgnitionsComplete, Has, HasIn
      <4> QED BY <1>3, <2>1, <3>1, <4>1, <4>2 DEF Grows
    <3>2. CASE r = p /\ loaded'[r][i].version = v
      BY <2>2, <3>2
    <3> QED BY <1>3, <2>1, <3>1, <3>2
  <2> QED BY <2>3 DEF IgnitionsComplete, Has, HasIn
<1> QED BY <1>5, <1>10, <1>11, <1>12

\* It records the outcome.
LEMMA PutContentsStatusInv ==
  ASSUME ContentsInv, NEW w \in Worker, PutContentsStatus(w)
  PROVE  ContentsInv'
<1> USE DEF ContentsInv
<1> DEFINE t == Current(w)
<1>1. /\ UNCHANGED <<request, mine, loaded>> /\ pc[w] = "upload" /\ Finished(w)
      /\ parts' = [parts EXCEPT ![w] = {}] /\ outcome' = [outcome EXCEPT ![w] = TRUE]
      /\ status' \in {status, [status EXCEPT ![t] = Status(w)]}
      /\ \E r \in {"ok", "error"} : Returns(w, r)
  BY DEF PutContentsStatus
<1>2. PICK r \in {"ok", "error"} : Returns(w, r)
  BY <1>1
<1>3. Len(results[w]) < Len(Targets)
  BY <1>1 DEF WorkInv, WorkOf
<1>4. t \in Target
  BY <1>3, CurrentTarget
<1>5. Status(w) \in [version : Nat, success : BOOLEAN]
  BY DEF Status, TypeInv, Asked
<1>6. status' \in [Target -> [version : Nat, success : BOOLEAN]]
  BY <1>1, <1>4, <1>5 DEF TypeInv
<1>7. TypeInv' /\ RequestInv'
  <2>1. RequestInv'
    BY <1>1 DEF RequestInv, Versioned
  <2>2. parts' \in [Worker -> SUBSET Part] /\ outcome' \in [Worker -> BOOLEAN]
    BY <1>1 DEF TypeInv
  <2> QED BY SMT, <1>1, <1>2, <1>6, <2>1, <2>2, AfterReturns DEF TypeInv
<1>8. Grows /\ IgnitionsComplete'
  BY <1>1, NothingUploaded
<1>9. \A v \in Worker \ {w} : parts'[v] = parts[v]
  BY <1>1 DEF TypeInv
<1>10. WorkInv'
  BY <1>1, <1>2, <1>8, <1>9, AfterReturns, WorkKept DEF WorkInv
<1>11. ASSUME NEW u \in Target, status'[u].success
       PROVE  \A p \in Parts(u) : HasIn(loaded'[p], status'[u].version)
  <2>1. CASE status'[u] = status[u]
    BY <1>8, <1>11, <2>1, SuccessKept
  <2>2. CASE u = t /\ status'[u] = Status(w)
    <3>1. outcome[w] /\ status'[u].version = mine[w].version
      BY SMT, <1>11, <2>2 DEF Status
    <3>2. parts[w] = {}
      BY <1>1, <3>1 DEF Finished
    <3>3. \A p \in Parts(t) : HasIn(loaded[p], mine[w].version)
      BY <1>1, <3>2 DEF WorkInv, WorkOf, Has, HasIn
    <3> QED BY <1>1, <2>2, <3>1, <3>3
  <2> QED BY <1>1, <1>4, <2>1, <2>2 DEF TypeInv
<1>12. SuccessMeansUploaded'
  BY <1>11 DEF SuccessMeansUploaded, Has, HasIn, Parts
<1> QED BY <1>7, <1>8, <1>10, <1>12

\* Each step of a worker keeps the invariant.
LEMMA WorkerStepInv ==
  ASSUME ContentsInv, NEW w \in Worker, WorkerStep(w)
  PROVE  ContentsInv'
<1>1. CASE Start(w)
  <2>1. /\ UNCHANGED <<request, status, parts, outcome, loaded>>
        /\ mine' = [mine EXCEPT ![w] = request]
        /\ results' = [results EXCEPT ![w] = <<>>]
        /\ pc' = [pc EXCEPT ![w] = "idle"]
    BY <1>1 DEF Start
  <2>2. TypeInv'
    BY SMT, <2>1 DEF ContentsInv, TypeInv
  <2>3. RequestInv'
    BY <2>1 DEF ContentsInv, RequestInv, Versioned, TypeInv
  <2>4. pc'[w] \in Settled
    BY <2>1 DEF ContentsInv, TypeInv, Settled
  <2>5. \A v \in Worker \ {w} :
          pc'[v] = pc[v] /\ mine'[v] = mine[v] /\ results'[v] = results[v]
    BY <2>1 DEF ContentsInv, TypeInv
  <2> QED BY <2>1, <2>2, <2>3, <2>4, <2>5, NoWork, Quiet
<1>2. ASSUME NEW t \in Kinds, Step(w, t)
      PROVE  ContentsInv'
  <2>1. Len(results[w]) < Len(Targets)
    BY <1>2 DEF Step
  <2>2. CASE Enter(w)
    BY <2>1, <2>2, EnterInv
  <2>3. CASE Elected(w)
    BY <2>3, ElectedInv
  <2>4. CASE UploadPart(w)
    <3>1. PICK p \in parts[w] :
            /\ MayUpload(w, p) /\ loaded' = Upload(w, p)
            /\ parts' = [parts EXCEPT ![w] = @ \ {p}]
      BY <2>4 DEF UploadPart
    <3>2. /\ pc[w] = "upload" /\ outcome' = outcome
          /\ UNCHANGED <<request, status, mine, results, pc>>
      BY <2>4 DEF UploadPart
    <3>3. outcome' \in [Worker -> BOOLEAN]
      BY <3>2 DEF ContentsInv, TypeInv
    <3> QED BY <3>1, <3>2, <3>3, UploadInv
  <2>5. CASE UploadRefused(w)
    <3>1. /\ UNCHANGED <<request, status, mine, results, pc, parts, loaded>>
          /\ outcome' = [outcome EXCEPT ![w] = FALSE]
      BY <2>5 DEF UploadRefused
    <3>2. TypeInv' /\ RequestInv'
      BY <3>1 DEF ContentsInv, TypeInv, RequestInv, Versioned
    <3>3. Grows
      BY <3>1, NothingUploaded DEF ContentsInv
    <3>4. WorkOf(w)'
      BY <3>1, <3>3, WorkKept DEF ContentsInv, WorkInv
    <3> QED BY <3>1, <3>2, <3>4, Quiet
  <2>6. CASE PutContentsStatus(w)
    BY <2>6, PutContentsStatusInv
  <2> QED BY <1>2, <2>2, <2>3, <2>4, <2>5, <2>6 DEF Step
<1> QED BY <1>1, <1>2
    DEF WorkerStep, UpdateCKETemplate, UpdateCKEContents, UpdateSabakanContents,
        UpdateDHCPJSON, UpdateUserResources, Kinds

\* So does a fault.
LEMMA FaultInv ==
  ASSUME ContentsInv, NEW w \in Worker, UploadFails(w) \/ Crash(w)
  PROVE  ContentsInv'
<1>1. CASE UploadFails(w)
  <2>1. /\ UNCHANGED <<request, status, mine, results, pc, parts>>
        /\ pc[w] = "upload" /\ outcome' = [outcome EXCEPT ![w] = FALSE]
    BY <1>1 DEF UploadFails
  <2>2. PICK p \in parts[w] : MayUpload(w, p) /\ loaded' \in {loaded, Upload(w, p)}
    BY <1>1 DEF UploadFails
  <2>3. outcome' \in [Worker -> BOOLEAN]
    BY <2>1 DEF ContentsInv, TypeInv
  <2>4. CASE loaded' = loaded
    <3>1. TypeInv' /\ RequestInv'
      BY <2>1, <2>3, <2>4 DEF ContentsInv, TypeInv, RequestInv, Versioned
    <3>2. Grows
      BY <2>4, NothingUploaded DEF ContentsInv
    <3>3. WorkOf(w)'
      BY <2>1, <3>2, WorkKept DEF ContentsInv, WorkInv
    <3> QED BY <2>1, <2>4, <3>1, <3>3, Quiet
  <2>5. CASE loaded' = Upload(w, p)
    BY <2>1, <2>2, <2>3, <2>5, UploadInv
  <2> QED BY <2>2, <2>4, <2>5
<1>2. CASE Crash(w)
  <2>1. /\ UNCHANGED <<request, status, mine, loaded>> /\ Returns(w, "error")
        /\ parts' = [parts EXCEPT ![w] = {}] /\ outcome' = [outcome EXCEPT ![w] = TRUE]
    BY <1>2 DEF Crash
  <2>2. parts' \in [Worker -> SUBSET Part] /\ outcome' \in [Worker -> BOOLEAN]
    BY <2>1 DEF ContentsInv, TypeInv
  <2>3. TypeInv'
    BY <2>1, <2>2, AfterReturns DEF ContentsInv, TypeInv
  <2>4. RequestInv'
    BY <2>1 DEF ContentsInv, RequestInv, Versioned
  <2>5. \A v \in Worker \ {w} : parts'[v] = parts[v]
    BY <2>1 DEF ContentsInv, TypeInv
  <2>6. TypeInv
    BY DEF ContentsInv
  <2> QED BY <2>1, <2>3, <2>4, <2>5, <2>6, AfterReturns, Quiet
<1> QED BY <1>1, <1>2

----------------------------------------------------------------------------
\* ContentsInv is inductive.
LEMMA ContentsInductive ==
  ContentsInv /\ [ContentsNext]_cvars => ContentsInv'
<1> SUFFICES ASSUME ContentsInv, [ContentsNext]_cvars PROVE ContentsInv'
  OBVIOUS
<1> PICK w \in Worker : TRUE
  BY ContentsAssumption
<1>1. ASSUME UNCHANGED <<mine, results, pc, parts, outcome, loaded>>, status' = status,
             request' \in Asked, Versioned(request')
      PROVE  ContentsInv'
  <2>1. TypeInv' /\ RequestInv'
    BY <1>1 DEF ContentsInv, TypeInv, RequestInv, Versioned
  <2>2. Grows
    BY <1>1, NothingUploaded DEF ContentsInv
  <2>3. WorkOf(w)'
    BY <1>1, <2>2, WorkKept DEF ContentsInv, WorkInv
  <2> QED BY <1>1, <2>1, <2>3, Quiet
<1>2. request \in Asked /\ Versioned(request)
  BY DEF ContentsInv, TypeInv, RequestInv
<1>3. CASE SessionExpires \/ UNCHANGED cvars
  BY <1>1, <1>2, <1>3 DEF SessionExpires, cvars
<1>4. CASE StopRequest
  <2>1. request' = [request EXCEPT !.stop = TRUE]
    BY <1>4 DEF StopRequest
  <2>2. request' \in Asked /\ Versioned(request')
    BY <1>2, <2>1 DEF Asked, Versioned
  <2> QED BY <1>1, <1>4, <2>2 DEF StopRequest
<1>5. CASE Recover
  <2>1. /\ UNCHANGED <<request, mine, results, pc, parts, outcome, loaded>>
        /\ status' = [t \in Target |-> NoStatus]
    BY <1>5 DEF Recover
  <2>2. TypeInv' /\ RequestInv'
    BY <2>1 DEF ContentsInv, TypeInv, RequestInv, Versioned, NoStatus
  <2>3. Grows /\ IgnitionsComplete'
    BY <2>1, NothingUploaded DEF ContentsInv
  <2>4. WorkInv'
    BY <2>1, <2>3, WorkKept DEF ContentsInv, WorkInv
  <2>5. SuccessMeansUploaded'
    BY <2>1 DEF SuccessMeansUploaded, NoStatus
  <2> QED BY <2>2, <2>3, <2>4, <2>5 DEF ContentsInv
<1>6. ASSUME NEW v \in Nat, NEW ws \in SUBSET Worker, NewRequest(v, ws)
      PROVE  ContentsInv'
  <2>1. request' = [round |-> request.round + 1, version |-> v, servers |-> ws,
                    stop |-> FALSE] /\ v > 0
    BY <1>6 DEF NewRequest
  <2>2. request' \in Asked /\ Versioned(request')
    BY SMT, <1>2, <2>1 DEF Asked, Versioned
  <2> QED BY <1>1, <1>6, <2>2 DEF NewRequest
<1> QED BY <1>3, <1>4, <1>5, <1>6, WorkerStepInv, FaultInv DEF ContentsNext

\* It holds at the beginning.
LEMMA ContentsInitially == ContentsInit => ContentsInv
<1> SUFFICES ASSUME ContentsInit PROVE ContentsInv
  OBVIOUS
<1>1. TypeInv
  BY SMT DEF ContentsInit, TypeInv, Asked, NoRequest, NoStatus
<1>2. RequestInv
  BY DEF ContentsInit, RequestInv, Versioned, NoRequest
<1>3. WorkInv
  BY DEF ContentsInit, WorkInv, WorkOf
<1>4. SuccessMeansUploaded
  BY DEF ContentsInit, SuccessMeansUploaded, NoStatus
<1>5. IgnitionsComplete
  BY SMT DEF ContentsInit, IgnitionsComplete, Part
<1> QED BY <1>1, <1>2, <1>3, <1>4, <1>5 DEF ContentsInv

\* It holds always.
LEMMA ContentsAlways == ContentsSpec => []ContentsInv
BY ContentsInitially, ContentsInductive, PTL DEF ContentsSpec

\* A target that PutContentsStatus has recorded as updated is updated: all its
\* pieces are there in the recorded version, whoever uploaded them and whoever
\* died, was deposed or was recovered from on the way.
THEOREM RecordIsTrue == ContentsSpec => []SuccessMeansUploaded
<1>1. ContentsInv => SuccessMeansUploaded
  BY DEF ContentsInv
<1> QED BY <1>1, ContentsAlways, PTL

\* uploadContents uploads ignitions at the end, and so none is ever there
\* before the image and the assets of its version, also when the uploads of
\* several workers overlap.
THEOREM IgnitionsAreLast == ContentsSpec => []IgnitionsComplete
<1>1. ContentsInv => IgnitionsComplete
  BY DEF ContentsInv
<1> QED BY <1>1, ContentsAlways, PTL

----------------------------------------------------------------------------
(* The queue of election keys. *)

\* A key is in the queue once, none is of a session that is still to come, and
\* a worker out of a step has none.
QueueInv ==
  /\ recovered \in BOOLEAN /\ active \subseteq Worker /\ disturbed \in BOOLEAN
  /\ session \in [Worker -> Nat] /\ keys \in Seq(Worker \X Nat)
  /\ \A i \in DOMAIN keys : keys[i][2] <= session[keys[i][1]]
  /\ \A i, j \in DOMAIN keys : i < j => keys[i] # keys[j]
  /\ \A w \in Worker : Len(results[w]) <= Len(Targets)
  /\ \A w \in Worker : pc[w] \in Settled => ~PutIfLeader(w)

\* The shape of a queue to which a key has been added.
LEMMA AppendIs ==
  ASSUME NEW S, NEW s \in Seq(S), NEW x \in S
  PROVE  /\ Append(s, x) \in Seq(S) /\ Append(s, x) # <<>>
         /\ DOMAIN Append(s, x) = DOMAIN s \cup {Len(s) + 1}
         /\ Append(s, x)[Len(s) + 1] = x
         /\ \A i \in DOMAIN s : Append(s, x)[i] = s[i] /\ i < Len(s) + 1
         /\ Len(s) + 1 \notin DOMAIN s /\ Len(Append(s, x)) = Len(s) + 1
         /\ \A i, j \in DOMAIN Append(s, x) : i < j => i \in DOMAIN s
BY SMT

\* The shape of one from which a key has been removed: the others are there, in
\* their order.
LEMMA RemovedIs ==
  ASSUME NEW S, NEW s \in Seq(S), NEW at \in DOMAIN s, NEW t, t = Removed(s, at)
  PROVE  /\ t \in Seq(S)
         /\ \A i \in DOMAIN t : \E k \in DOMAIN s \ {at} : t[i] = s[k]
         /\ \A i, j \in DOMAIN t : i < j =>
              \E k, m \in DOMAIN s \ {at} : k < m /\ t[i] = s[k] /\ t[j] = s[m]
         /\ \A k \in DOMAIN s \ {at} : \E i \in DOMAIN t : t[i] = s[k]
<1> DEFINE old(i) == IF i < at THEN i ELSE i + 1
<1>1. Len(s) \in Nat /\ DOMAIN s = 1 .. Len(s) /\ at \in 1 .. Len(s)
  BY SMT
<1>2. DOMAIN t = 1 .. Len(s) - 1
  BY DEF Removed
<1>3. \A i \in DOMAIN t : old(i) \in DOMAIN s \ {at}
  BY SMT, <1>1, <1>2
<1>4. \A i \in DOMAIN t : t[i] = s[old(i)]
  BY SMT, <1>2 DEF Removed
<1>5. \A i, j \in DOMAIN t : i < j => old(i) < old(j)
  BY SMT, <1>1, <1>2
<1>6. ASSUME NEW k \in DOMAIN s \ {at}
      PROVE  \E i \in DOMAIN t : old(i) = k
  <2>1. CASE k < at
    BY SMT, <1>1, <1>2, <2>1
  <2>2. CASE k > at
    <3>1. k - 1 \in DOMAIN t /\ old(k - 1) = k
      BY SMT, <1>1, <1>2, <2>2
    <3> QED BY <3>1
  <2> QED BY SMT, <1>1, <2>1, <2>2
<1>7. t \in Seq(S)
  <2>1. \A i \in 1 .. Len(s) - 1 : t[i] \in S
    <3>1. \A k \in DOMAIN s : s[k] \in S
      BY SMT
    <3> QED BY <1>2, <1>3, <1>4, <3>1
  <2>2. Len(s) - 1 \in Nat
    BY SMT, <1>1
  <2>3. t \in [1 .. Len(s) - 1 -> S]
    BY <2>1 DEF Removed
  <2> QED BY SMT, <2>2, <2>3
<1> HIDE DEF old
<1>8. \A i \in DOMAIN t : \E k \in DOMAIN s \ {at} : t[i] = s[k]
  BY <1>3, <1>4
<1>9. \A i, j \in DOMAIN t : i < j =>
        \E k, m \in DOMAIN s \ {at} : k < m /\ t[i] = s[k] /\ t[j] = s[m]
  BY <1>3, <1>4, <1>5
<1>10. \A k \in DOMAIN s \ {at} : \E i \in DOMAIN t : t[i] = s[k]
  BY <1>4, <1>6
<1> QED BY <1>7, <1>8, <1>9, <1>10

\* A worker without a key joins the queue.
LEMMA KeyAdded ==
  ASSUME QueueInv, NEW w \in Worker, ~PutIfLeader(w),
         keys' = Append(keys, Key(w)), session' = session
  PROVE  /\ keys' \in Seq(Worker \X Nat)
         /\ \A i \in DOMAIN keys' : keys'[i][2] <= session'[keys'[i][1]]
         /\ \A i, j \in DOMAIN keys' : i < j => keys'[i] # keys'[j]
         /\ \A v \in Worker \ {w} : (PutIfLeader(v)' <=> PutIfLeader(v))
         /\ PutIfLeader(w)'
<1>1. keys \in Seq(Worker \X Nat) /\ session[w] \in Nat
  BY DEF QueueInv
<1>2. Key(w) \in Worker \X Nat /\ Key(w)[1] = w /\ Key(w)[2] = session[w]
  BY <1>1 DEF Key
<1>3. /\ keys' \in Seq(Worker \X Nat)
      /\ DOMAIN keys' = DOMAIN keys \cup {Len(keys) + 1}
      /\ keys'[Len(keys) + 1] = Key(w)
      /\ \A i \in DOMAIN keys : keys'[i] = keys[i] /\ i < Len(keys) + 1
      /\ \A i, j \in DOMAIN keys' : i < j => i \in DOMAIN keys
  BY SMT, <1>1, <1>2, AppendIs
<1>4. session[w] <= session[w]
  BY SMT, <1>1
<1>5. \A i \in DOMAIN keys' : keys'[i][2] <= session'[keys'[i][1]]
  BY <1>2, <1>3, <1>4 DEF QueueInv
<1>6. \A i, j \in DOMAIN keys' : i < j => keys'[i] # keys'[j]
  BY SMTT(30), <1>3 DEF QueueInv, PutIfLeader
<1>7. \A v \in Worker : Key(v)' = Key(v)
  BY DEF Key
<1>8. \A v \in Worker \ {w} : Key(v) # Key(w)
  BY DEF Key
<1>9. \A v \in Worker \ {w} : (PutIfLeader(v)' <=> PutIfLeader(v))
  BY <1>3, <1>7, <1>8 DEF PutIfLeader
<1>10. PutIfLeader(w)'
  BY <1>3, <1>7 DEF PutIfLeader
<1> QED BY <1>3, <1>5, <1>6, <1>9, <1>10

\* A key leaves it.
LEMMA KeyRemoved ==
  ASSUME QueueInv, NEW at \in DOMAIN keys, keys' = Removed(keys, at),
         session' = session
  PROVE  /\ keys' \in Seq(Worker \X Nat)
         /\ \A i \in DOMAIN keys' : keys'[i][2] <= session'[keys'[i][1]]
         /\ \A i, j \in DOMAIN keys' : i < j => keys'[i] # keys'[j]
         /\ \A v \in Worker : (PutIfLeader(v)' <=> PutIfLeader(v) /\ keys[at] # Key(v))
         /\ \A i \in DOMAIN keys' : \E k \in DOMAIN keys \ {at} : keys'[i] = keys[k]
         /\ \A i, j \in DOMAIN keys' : i < j =>
              \E k, m \in DOMAIN keys \ {at} :
                k < m /\ keys'[i] = keys[k] /\ keys'[j] = keys[m]
<1>1. keys \in Seq(Worker \X Nat)
  BY DEF QueueInv
<1>2. /\ keys' \in Seq(Worker \X Nat)
      /\ \A i \in DOMAIN keys' : \E k \in DOMAIN keys \ {at} : keys'[i] = keys[k]
      /\ \A i, j \in DOMAIN keys' : i < j =>
           \E k, m \in DOMAIN keys \ {at} :
             k < m /\ keys'[i] = keys[k] /\ keys'[j] = keys[m]
      /\ \A k \in DOMAIN keys \ {at} : \E i \in DOMAIN keys' : keys'[i] = keys[k]
  BY SMTT(30), <1>1, RemovedIs
<1>3. \A i \in DOMAIN keys' : keys'[i][2] <= session'[keys'[i][1]]
  BY SMT, <1>2 DEF QueueInv
<1>4. \A i, j \in DOMAIN keys' : i < j => keys'[i] # keys'[j]
  BY SMT, <1>2 DEF QueueInv
<1>5. \A k \in DOMAIN keys \ {at} : keys[k] # keys[at]
  <2>1. DOMAIN keys \subseteq Int
    BY SMT, <1>1
  <2>2. \A k \in DOMAIN keys \ {at} : k < at \/ at < k
    BY SMT, <2>1
  <2> QED BY <2>2 DEF QueueInv
<1>6. \A v \in Worker : Key(v)' = Key(v)
  BY DEF Key
<1>7. \A v \in Worker : (PutIfLeader(v)' <=> PutIfLeader(v) /\ keys[at] # Key(v))
  BY SMT, <1>2, <1>5, <1>6 DEF PutIfLeader
<1> QED BY <1>2, <1>3, <1>4, <1>7

\* A worker resigns.
LEMMA AfterResign ==
  ASSUME QueueInv, NEW w \in Worker, Resign(w), session' = session
  PROVE  /\ keys' \in Seq(Worker \X Nat)
         /\ \A i \in DOMAIN keys' : keys'[i][2] <= session'[keys'[i][1]]
         /\ \A i, j \in DOMAIN keys' : i < j => keys'[i] # keys'[j]
         /\ \A v \in Worker \ {w} : (PutIfLeader(v)' <=> PutIfLeader(v))
         /\ ~PutIfLeader(w)'
<1>1. CASE ~PutIfLeader(w) /\ keys' = keys
  BY <1>1 DEF QueueInv, PutIfLeader, Key
<1>2. ASSUME NEW i \in DOMAIN keys, keys[i] = Key(w), keys' = Removed(keys, i)
      PROVE  /\ keys' \in Seq(Worker \X Nat)
             /\ \A k \in DOMAIN keys' : keys'[k][2] <= session'[keys'[k][1]]
             /\ \A k, j \in DOMAIN keys' : k < j => keys'[k] # keys'[j]
             /\ \A v \in Worker \ {w} : (PutIfLeader(v)' <=> PutIfLeader(v))
             /\ ~PutIfLeader(w)'
  <2>1. \A v \in Worker \ {w} : Key(v) # Key(w)
    BY DEF Key
  <2>2. \A v \in Worker : (PutIfLeader(v)' <=> PutIfLeader(v) /\ keys[i] # Key(v))
    BY <1>2, KeyRemoved
  <2>3. \A v \in Worker \ {w} : (PutIfLeader(v)' <=> PutIfLeader(v))
    BY <1>2, <2>1, <2>2 DEF PutIfLeader
  <2> QED BY <1>2, <2>2, <2>3, KeyRemoved
<1> QED BY <1>1, <1>2 DEF Resign

\* What a step returned, after it.
LEMMA ResultIs ==
  ASSUME TypeInv, NEW w \in Worker, NEW r \in {"ok", "skip", "error"}, Returns(w, r)
  PROVE  /\ Len(results'[w]) = Len(results[w]) + 1
         /\ results'[w][Len(results[w]) + 1] = r
         /\ \A k \in DOMAIN results[w] : results'[w][k] = results[w][k]
         /\ DOMAIN results'[w] = DOMAIN results[w] \cup {Len(results[w]) + 1}
         /\ pc'[w] \in Settled
<1>1. results[w] \in Seq({"ok", "skip", "error"}) /\ results'[w] = Append(results[w], r)
  BY DEF TypeInv, Returns
<1>2. pc'[w] \in Settled
  BY DEF TypeInv, Returns, Settled
<1> QED BY SMT, <1>1, <1>2, AppendIs

\* The keys stay, and with them what is said of them.
LEMMA QueueKept ==
  ASSUME QueueInv, UNCHANGED <<active, session, keys>>, recovered' \in BOOLEAN,
         disturbed' \in BOOLEAN, NEW w \in Worker,
         Len(results'[w]) <= Len(Targets), pc'[w] \in Settled => ~PutIfLeader(w),
         \A v \in Worker \ {w} : pc'[v] = pc[v] /\ results'[v] = results[v]
  PROVE  QueueInv'
<1>1. \A v \in Worker : PutIfLeader(v)' <=> PutIfLeader(v)
  BY DEF PutIfLeader, Key
<1>2. \A v \in Worker : pc'[v] \in Settled => ~PutIfLeader(v)
  BY DEF QueueInv
<1> QED BY <1>1, <1>2 DEF QueueInv, Settled

\* A worker's step on the queue.
LEMMA QueueStep ==
  ASSUME ContentsInv, QueueInv, NEW w \in Worker, NEW t, Step(w, t)
  PROVE  QueueInv'
<1>1. TypeInv /\ Len(results[w]) < Len(Targets)
  BY DEF ContentsInv, Step
<1>2. Len(results[w]) \in Nat /\ Len(Targets) \in Nat
  BY SMT, <1>1, ContentsAssumption DEF TypeInv
<1>3. Len(results[w]) <= Len(Targets) /\ Len(results[w]) + 1 <= Len(Targets)
  BY SMT, <1>1, <1>2
<1>4. recovered \in BOOLEAN /\ disturbed \in BOOLEAN
  BY DEF QueueInv
<1>5. ASSUME NEW r \in {"ok", "skip", "error"}, Returns(w, r)
      PROVE  /\ Len(results'[w]) <= Len(Targets) /\ pc'[w] \in Settled
             /\ \A v \in Worker \ {w} : pc'[v] = pc[v] /\ results'[v] = results[v]
  BY <1>1, <1>3, <1>5, ResultIs, AfterReturns
<1>6. ASSUME Resign(w), NEW r \in {"ok", "error"}, Returns(w, r),
             UNCHANGED <<recovered, active, session, disturbed>>
      PROVE  QueueInv'
  <2>1. /\ Len(results'[w]) <= Len(Targets) /\ pc'[w] \in Settled
        /\ \A v \in Worker \ {w} : pc'[v] = pc[v] /\ results'[v] = results[v]
    BY <1>5, <1>6
  <2>2. /\ keys' \in Seq(Worker \X Nat)
        /\ \A i \in DOMAIN keys' : keys'[i][2] <= session'[keys'[i][1]]
        /\ \A i, j \in DOMAIN keys' : i < j => keys'[i] # keys'[j]
        /\ \A v \in Worker \ {w} : (PutIfLeader(v)' <=> PutIfLeader(v))
        /\ ~PutIfLeader(w)'
    BY <1>6, AfterResign
  <2>3. \A v \in Worker : pc'[v] \in Settled => ~PutIfLeader(v)'
    BY <2>1, <2>2 DEF QueueInv
  <2>4. \A v \in Worker : Len(results'[v]) <= Len(Targets)
    BY <2>1 DEF QueueInv
  <2> QED BY <1>6, <2>2, <2>3, <2>4 DEF QueueInv, Settled
<1>7. CASE Enter(w) /\ w \in active
  <2>1. /\ keys' = Append(keys, Key(w)) /\ pc' = [pc EXCEPT ![w] = "campaign"]
        /\ pc[w] = "idle" /\ UNCHANGED <<results, recovered, active, session>>
        /\ disturbed' = (disturbed \/ LeftBehind(w))
    BY <1>7 DEF Enter
  <2>2. ~PutIfLeader(w)
    BY <2>1 DEF QueueInv, Settled
  <2>3. /\ keys' \in Seq(Worker \X Nat)
        /\ \A i \in DOMAIN keys' : keys'[i][2] <= session'[keys'[i][1]]
        /\ \A i, j \in DOMAIN keys' : i < j => keys'[i] # keys'[j]
        /\ \A v \in Worker \ {w} : (PutIfLeader(v)' <=> PutIfLeader(v))
    BY <2>1, <2>2, KeyAdded
  <2>4. pc'[w] = "campaign" /\ \A v \in Worker \ {w} : pc'[v] = pc[v]
    BY <1>1, <2>1 DEF TypeInv
  <2>5. \A v \in Worker : pc'[v] \in Settled => ~PutIfLeader(v)'
    BY <2>3, <2>4 DEF QueueInv, Settled
  <2>6. disturbed' \in BOOLEAN
    BY <2>1
  <2> QED BY <2>1, <2>3, <2>5, <2>6 DEF QueueInv, Settled
<1>8. CASE Enter(w) /\ w \notin active
  <2>1. /\ Returns(w, "skip") /\ pc[w] = "idle"
        /\ UNCHANGED <<keys, recovered, active, session>>
        /\ disturbed' = (disturbed \/ LeftBehind(w))
    BY <1>8 DEF Enter
  <2>2. ~PutIfLeader(w) /\ disturbed' \in BOOLEAN
    BY <2>1 DEF QueueInv, Settled
  <2> QED BY <1>4, <1>5, <2>1, <2>2, QueueKept
<1>9. CASE Elected(w)
  <2>1. /\ UNCHANGED <<recovered, active, session, disturbed>>
        /\ \/ \E r \in {"ok", "error"} : Returns(w, r) /\ Resign(w)
           \/ pc' = [pc EXCEPT ![w] = "upload"] /\ UNCHANGED <<results, keys>>
    BY <1>9 DEF Elected
  <2>2. CASE pc' = [pc EXCEPT ![w] = "upload"] /\ UNCHANGED <<results, keys>>
    <3>1. pc'[w] = "upload" /\ \A v \in Worker \ {w} : pc'[v] = pc[v]
      BY <1>1, <2>2 DEF TypeInv
    <3> QED BY <1>3, <1>4, <2>1, <2>2, <3>1, QueueKept DEF Settled
  <2> QED BY <1>6, <2>1, <2>2
<1>10. CASE UploadPart(w) \/ UploadRefused(w)
  <2>1. UNCHANGED <<results, pc, recovered, active, session, keys, disturbed>>
    BY <1>10 DEF UploadPart, UploadRefused
  <2> QED BY <1>3, <1>4, <2>1, QueueKept DEF QueueInv
<1>11. CASE PutContentsStatus(w)
  <2>1. /\ UNCHANGED <<recovered, active, session, disturbed>> /\ Resign(w)
        /\ \E r \in {"ok", "error"} : Returns(w, r)
    BY <1>11 DEF PutContentsStatus
  <2> QED BY <1>6, <2>1
<1> QED BY <1>7, <1>8, <1>9, <1>10, <1>11 DEF Step

\* The first key leaves with its session.
LEMMA FirstRemoved ==
  ASSUME QueueInv, SessionExpires
  PROVE  /\ 1 \in DOMAIN keys /\ Head(keys) = keys[1] /\ keys' = Removed(keys, 1)
         /\ keys[1] \in Worker \X Nat
<1>1. keys \in Seq(Worker \X Nat) /\ keys # <<>> /\ keys' = Removed(keys, 1)
  BY DEF QueueInv, SessionExpires
<1>2. 1 \in DOMAIN keys /\ Head(keys) = keys[1] /\ keys[1] \in Worker \X Nat
  BY SMT, <1>1
<1> QED BY <1>1, <1>2

\* QueueInv is inductive, given ContentsInv.
LEMMA QueueInductive ==
  ContentsInv /\ QueueInv /\ [ContentsNext]_cvars => QueueInv'
<1> SUFFICES ASSUME ContentsInv, QueueInv, [ContentsNext]_cvars PROVE QueueInv'
  OBVIOUS
<1>1. TypeInv /\ recovered \in BOOLEAN /\ disturbed \in BOOLEAN
  BY DEF ContentsInv, QueueInv
<1>2. Len(Targets) \in Nat /\ \A w \in Worker : Len(results[w]) \in Nat
  BY SMT, <1>1, ContentsAssumption DEF TypeInv
<1>3. ASSUME UNCHANGED <<active, session, keys, disturbed, results, pc>>,
             recovered' \in BOOLEAN
      PROVE  QueueInv'
  <2>1. PICK w \in Worker : TRUE
    BY ContentsAssumption
  <2> QED BY <1>1, <1>3, <2>1, QueueKept DEF QueueInv
<1>4. CASE UNCHANGED cvars \/ StopRequest \/ Recover
           \/ (\E w \in Worker : UploadFails(w))
           \/ (\E v \in Nat, ws \in SUBSET Worker : NewRequest(v, ws))
  BY <1>1, <1>3, <1>4 DEF cvars, StopRequest, Recover, UploadFails, NewRequest
<1>5. ASSUME NEW w \in Worker, Start(w)
      PROVE  QueueInv'
  <2>1. /\ results' = [results EXCEPT ![w] = <<>>] /\ pc[w] \in Settled
        /\ pc' = [pc EXCEPT ![w] = "idle"]
        /\ UNCHANGED <<recovered, active, keys, session, disturbed>>
    BY <1>5 DEF Start
  <2>2. /\ results'[w] = <<>> /\ ~PutIfLeader(w)
        /\ \A v \in Worker \ {w} : pc'[v] = pc[v] /\ results'[v] = results[v]
    BY <1>1, <2>1 DEF TypeInv, QueueInv
  <2>3. Len(results'[w]) <= Len(Targets)
    BY SMT, <1>2, <2>2
  <2> QED BY <1>1, <2>1, <2>2, <2>3, QueueKept
<1>6. ASSUME NEW w \in Worker, Crash(w)
      PROVE  QueueInv'
  <2>1. /\ Returns(w, "error") /\ pc[w] \in {"campaign", "upload"}
        /\ session' = [session EXCEPT ![w] = @ + 1]
        /\ disturbed' = TRUE /\ UNCHANGED <<recovered, active, keys>>
    BY <1>6 DEF Crash
  <2>2. Len(results[w]) < Len(Targets)
    BY <2>1 DEF ContentsInv, WorkInv, WorkOf
  <2>3. /\ Len(results'[w]) = Len(results[w]) + 1
        /\ \A v \in Worker \ {w} : pc'[v] = pc[v] /\ results'[v] = results[v]
    BY <1>1, <2>1, ResultIs, AfterReturns
  <2>4. \A v \in Worker : Len(results'[v]) <= Len(Targets)
    <3>1. Len(results'[w]) <= Len(Targets)
      BY SMT, <1>2, <2>2, <2>3
    <3> QED BY <2>3, <3>1 DEF QueueInv
  <2>5. /\ session \in [Worker -> Nat] /\ keys \in Seq(Worker \X Nat)
        /\ \A i \in DOMAIN keys : keys[i][2] <= session[keys[i][1]]
    BY DEF QueueInv
  <2>6. \A i \in DOMAIN keys : keys[i][1] \in Worker /\ keys[i][2] \in Nat
    BY SMT, <2>5
  <2>7. /\ session' \in [Worker -> Nat]
        /\ \A i \in DOMAIN keys : keys[i][2] <= session'[keys[i][1]]
        /\ \A i \in DOMAIN keys : keys[i] # Key(w)'
    BY SMTT(30), <2>1, <2>5, <2>6 DEF Key
  <2>8. \A v \in Worker \ {w} : Key(v)' = Key(v)
    BY <2>1, <2>5 DEF Key
  <2>9. \A v \in Worker : pc'[v] \in Settled => ~PutIfLeader(v)'
    <3>1. \A v \in Worker \ {w} : PutIfLeader(v)' <=> PutIfLeader(v)
      BY <2>1, <2>8 DEF PutIfLeader
    <3>2. ~PutIfLeader(w)'
      BY <2>1, <2>7 DEF PutIfLeader
    <3> QED BY <2>3, <3>1, <3>2 DEF QueueInv
  <2> QED BY <1>1, <2>1, <2>4, <2>7, <2>9 DEF QueueInv, Settled
<1>7. CASE SessionExpires
  <2>1. /\ UNCHANGED <<recovered, active, session, pc, results>>
        /\ disturbed' \in BOOLEAN
    BY <1>7 DEF SessionExpires
  <2>2. /\ keys' \in Seq(Worker \X Nat)
        /\ \A i \in DOMAIN keys' : keys'[i][2] <= session'[keys'[i][1]]
        /\ \A i, j \in DOMAIN keys' : i < j => keys'[i] # keys'[j]
        /\ \A v \in Worker : (PutIfLeader(v)' <=> PutIfLeader(v) /\ keys[1] # Key(v))
    BY <1>7, <2>1, FirstRemoved, KeyRemoved
  <2>3. \A v \in Worker : pc'[v] \in Settled => ~PutIfLeader(v)'
    BY <2>1, <2>2 DEF QueueInv
  <2> QED BY <1>1, <2>1, <2>2, <2>3 DEF QueueInv, Settled
<1> QED BY <1>4, <1>5, <1>6, <1>7, QueueStep
    DEF ContentsNext, WorkerStep, UpdateCKETemplate, UpdateCKEContents,
        UpdateSabakanContents, UpdateDHCPJSON, UpdateUserResources

\* Both invariants hold always.
LEMMA QueueAlways == ContentsSpec => [](ContentsInv /\ QueueInv)
<1>1. ContentsInit => QueueInv
  <2> SUFFICES ASSUME ContentsInit PROVE QueueInv
    OBVIOUS
  <2>1. keys = <<>> /\ \A w \in Worker : results[w] = <<>>
    BY DEF ContentsInit
  <2>2. keys \in Seq(Worker \X Nat) /\ DOMAIN keys = {}
    BY SMT, <2>1
  <2>3. \A w \in Worker : Len(results[w]) <= Len(Targets)
    BY SMT, <2>1, ContentsAssumption
  <2>4. 0 \in Nat
    BY SMT
  <2> QED BY <2>2, <2>3, <2>4 DEF ContentsInit, QueueInv, PutIfLeader
<1> QED BY <1>1, ContentsInitially, ContentsInductive, QueueInductive, PTL DEF ContentsSpec

\* ContentsTypeOK for any workers, roles, targets and rounds: also that a worker
\* which has left a step, in whatever way, holds no key that keeps the others
\* from being elected.
THEOREM ContentsTypeCorrect == ContentsSpec => []ContentsTypeOK
<1>1. ContentsInv /\ QueueInv => ContentsTypeOK
  <2> SUFFICES ASSUME TypeInv, QueueInv PROVE ContentsTypeOK
    BY DEF ContentsInv
  <2>1. /\ request.round \in Nat /\ request.version \in Nat
        /\ request.servers \subseteq Worker /\ request.stop \in BOOLEAN
    BY DEF TypeInv, Asked
  <2>2. \A t \in Target : status[t].version \in Nat /\ status[t].success \in BOOLEAN
    BY DEF TypeInv
  <2>3. \A w \in Worker : mine[w].version \in Nat /\ mine[w].servers \subseteq Worker
    BY DEF TypeInv, Asked
  <2>4. \A w \in Worker :
          /\ results[w] \in Seq({"ok", "skip", "error"})
          /\ pc[w] \in {"idle", "campaign", "upload", "failed"}
          /\ parts[w] \subseteq Part /\ outcome[w] \in BOOLEAN
    BY DEF TypeInv
  <2> QED BY <2>1, <2>2, <2>3, <2>4 DEF QueueInv, ContentsTypeOK
<1> QED BY <1>1, QueueAlways, PTL

----------------------------------------------------------------------------
(* The workers of a round agree. *)

Present(w) == mine[w].round = request.round
InStep(w) == pc[w] \in {"campaign", "upload"}
Owner(i) == keys[i][1]

\* Nobody is ahead of the request, who works on it has its content, and who has
\* begun the first step knows that all have taken up the request.
RoundInv ==
  \A w \in Worker :
    /\ mine[w].round <= request.round
    /\ Present(w) => mine[w].version = request.version /\ mine[w].servers = request.servers
    /\ Present(w) /\ (InStep(w) \/ results[w] # <<>>) => \A v \in request.servers : Present(v)

\* The workers in a step are those with a key; the first uploads.  The keys of
\* earlier rounds come before those of the present one, and as long as there is
\* one of them no worker of the present round has looked at a record.
LiveInv ==
  /\ \A i \in DOMAIN keys : ~DeadKey(keys[i])
  /\ \A w \in Worker : InStep(w) => PutIfLeader(w)
  /\ \A w \in Worker : pc[w] = "upload" => keys[1] = Key(w)
  /\ \A i, j \in DOMAIN keys : i < j /\ Present(Owner(i)) => Present(Owner(j))
  /\ \A i \in DOMAIN keys : ~Present(Owner(i)) =>
       \A w \in Worker : Present(w) => \A k \in DOMAIN results[w] : results[w][k] = "skip"

\* What a worker of the round has returned is what is recorded, and who uploads
\* has found no record.
Outcomes(w) ==
  /\ \A k \in DOMAIN results[w] :
       /\ results[w][k] = "ok" =>
            /\ status[Targets[k]].version = request.version
            /\ status[Targets[k]].success
       /\ results[w][k] = "error" /\ Targets[k] # "cke-template" =>
            /\ status[Targets[k]].version = request.version
            /\ ~status[Targets[k]].success
  /\ pc[w] = "upload" => status[Current(w)].version # request.version

AgreeInv ==
  /\ ~disturbed => LiveInv
  /\ ~disturbed /\ (request.stop => ~recovered) =>
       \A w \in Worker : Present(w) => Outcomes(w)

\* RoundInv after a step that leaves request and mine alone: who is in a step or
\* has a result was so before, or has just passed the barrier.
LEMMA RoundKept ==
  ASSUME RoundInv, request'.round = request.round, request'.version = request.version,
         request'.servers = request.servers, mine' = mine,
         \A w \in Worker : InStep(w)' \/ results'[w] # <<>> =>
           \/ InStep(w) \/ results[w] # <<>>
           \/ \A v \in mine[w].servers : mine[v].round = mine[w].round
  PROVE  RoundInv'
BY DEF RoundInv, Present

\* RoundInv is inductive.
LEMMA RoundInductive ==
  ContentsInv /\ QueueInv /\ RoundInv /\ [ContentsNext]_cvars => RoundInv'
<1> SUFFICES ASSUME ContentsInv, QueueInv, RoundInv, [ContentsNext]_cvars PROVE RoundInv'
  OBVIOUS
<1>1. TypeInv
  BY DEF ContentsInv
<1>2. ASSUME NEW w \in Worker, NEW r \in {"ok", "skip", "error"}, Returns(w, r)
      PROVE  /\ ~InStep(w)'
             /\ \A v \in Worker \ {w} : pc'[v] = pc[v] /\ results'[v] = results[v]
  BY SMT, <1>1, <1>2, ResultIs, AfterReturns DEF InStep, Settled
<1>3. ASSUME UNCHANGED <<mine, results, pc>>, request'.round = request.round,
             request'.version = request.version, request'.servers = request.servers
      PROVE  RoundInv'
  BY <1>3, RoundKept DEF InStep
<1>4. ASSUME NEW w \in Worker, InStep(w), UNCHANGED <<request, mine>>,
             \A v \in Worker \ {w} : pc'[v] = pc[v] /\ results'[v] = results[v]
      PROVE  RoundInv'
  BY <1>4, RoundKept DEF InStep
<1>5. CASE StopRequest
  <2>1. request' = [request EXCEPT !.stop = TRUE] /\ UNCHANGED <<mine, results, pc>>
    BY <1>5 DEF StopRequest
  <2>2. /\ request'.round = request.round /\ request'.version = request.version
        /\ request'.servers = request.servers
    BY <1>1, <2>1 DEF TypeInv, Asked
  <2> QED BY <1>3, <2>1, <2>2
<1>6. CASE UNCHANGED cvars \/ SessionExpires \/ Recover
           \/ (\E w \in Worker : UploadFails(w) \/ UploadPart(w) \/ UploadRefused(w))
  BY <1>3, <1>6 DEF cvars, SessionExpires, Recover, UploadFails, UploadPart, UploadRefused
<1>7. ASSUME NEW w \in Worker, Crash(w)
      PROVE  RoundInv'
  <2>1. InStep(w) /\ UNCHANGED <<request, mine>> /\ Returns(w, "error")
    BY <1>7 DEF Crash, InStep
  <2> QED BY <1>2, <1>4, <2>1
<1>8. ASSUME NEW w \in Worker, Elected(w) \/ PutContentsStatus(w)
      PROVE  RoundInv'
  <2>1. /\ InStep(w) /\ UNCHANGED <<request, mine>>
        /\ \/ \E r \in {"ok", "error"} : Returns(w, r)
           \/ pc' = [pc EXCEPT ![w] = "upload"] /\ results' = results
    BY <1>8 DEF Elected, PutContentsStatus, InStep
  <2>2. \A v \in Worker \ {w} : pc'[v] = pc[v] /\ results'[v] = results[v]
    BY <1>1, <1>2, <2>1 DEF TypeInv
  <2> QED BY <1>4, <2>1, <2>2
<1>9. ASSUME NEW w \in Worker, Enter(w)
      PROVE  RoundInv'
  <2>1. /\ UNCHANGED <<request, mine>> /\ Barrier(w)
        /\ \/ pc' = [pc EXCEPT ![w] = "campaign"] /\ results' = results
           \/ Returns(w, "skip")
    BY <1>9 DEF Enter
  <2>2. \A v \in Worker \ {w} : pc'[v] = pc[v] /\ results'[v] = results[v]
    BY <1>1, <1>2, <2>1 DEF TypeInv
  <2>3. \A v \in mine[w].servers : mine[v].round = mine[w].round
    BY <2>1 DEF Barrier
  <2> QED BY <2>1, <2>2, <2>3, RoundKept DEF InStep
<1>10. ASSUME NEW w \in Worker, Start(w)
       PROVE  RoundInv'
  <2>1. /\ mine' = [mine EXCEPT ![w] = request] /\ request' = request
        /\ results' = [results EXCEPT ![w] = <<>>] /\ pc' = [pc EXCEPT ![w] = "idle"]
    BY <1>10 DEF Start
  <2>2. /\ mine'[w] = request /\ ~InStep(w)' /\ results'[w] = <<>>
        /\ \A v \in Worker \ {w} :
             mine'[v] = mine[v] /\ pc'[v] = pc[v] /\ results'[v] = results[v]
    BY <1>1, <2>1 DEF TypeInv, InStep
  <2>3. request.round <= request.round /\ request.servers \subseteq Worker
    BY SMT, <1>1 DEF TypeInv, Asked
  <2> QED BY <2>1, <2>2, <2>3, ZenonT(90) DEF RoundInv, Present, InStep
<1>11. ASSUME NEW v \in Nat, NEW ws \in SUBSET Worker, NewRequest(v, ws)
       PROVE  RoundInv'
  <2>1. mine' = mine /\ request'.round = request.round + 1
    BY <1>11 DEF NewRequest
  <2>2. \A w \in Worker : mine[w].round \in Nat /\ request.round \in Nat
    BY <1>1 DEF TypeInv, Asked
  <2>3. \A w \in Worker : mine[w].round <= request'.round /\ mine[w].round # request'.round
    BY SMT, <2>1, <2>2 DEF RoundInv
  <2> QED BY <2>1, <2>3 DEF RoundInv, Present
<1> QED BY <1>5, <1>6, <1>7, <1>8, <1>9, <1>10, <1>11
    DEF ContentsNext, WorkerStep, UpdateCKETemplate, UpdateCKEContents,
        UpdateSabakanContents, UpdateDHCPJSON, UpdateUserResources, Step

\* The owner of a key is in a step, if no session was lost.
LEMMA OwnerInStep ==
  ASSUME TypeInv, QueueInv, LiveInv, NEW i \in DOMAIN keys
  PROVE  Owner(i) \in Worker /\ keys[i] = Key(Owner(i)) /\ InStep(Owner(i))
<1>1. keys \in Seq(Worker \X Nat)
  BY DEF QueueInv
<1>2. Owner(i) \in Worker /\ keys[i] = <<keys[i][1], keys[i][2]>>
  BY SMT, <1>1 DEF Owner
<1>3. keys[i] = Key(Owner(i))
  BY <1>2 DEF LiveInv, DeadKey, Key, Owner
<1>4. PutIfLeader(Owner(i))
  BY <1>3 DEF PutIfLeader
<1> QED BY <1>2, <1>3, <1>4 DEF QueueInv, TypeInv, Settled, InStep

\* If no worker is in a step of the present round, there is no key of it.
LEMMA NoneBegun ==
  ASSUME TypeInv, QueueInv, RoundInv, LiveInv,
         NEW v \in request.servers, ~Present(v)
  PROVE  /\ \A i \in DOMAIN keys : ~Present(Owner(i))
         /\ \A w \in Worker : Present(w) => ~InStep(w) /\ results[w] = <<>>
<1>1. \A w \in Worker : Present(w) => ~InStep(w) /\ results[w] = <<>>
  BY DEF RoundInv
<1> QED BY <1>1, OwnerInStep

\* A step that changes neither the keys nor who is present, nor the results.
LEMMA LiveKept ==
  ASSUME LiveInv, UNCHANGED <<mine, results, keys, session>>,
         request'.round = request.round,
         \A w \in Worker : (InStep(w)' => InStep(w)) /\ (pc'[w] = "upload" => keys[1] = Key(w))
  PROVE  LiveInv'
<1>1. /\ \A w : Present(w)' <=> Present(w)
      /\ \A w \in Worker : (PutIfLeader(w)' <=> PutIfLeader(w)) /\ Key(w)' = Key(w)
      /\ \A i \in DOMAIN keys : Owner(i)' = Owner(i) /\ (DeadKey(keys[i])' <=> DeadKey(keys[i]))
  BY DEF Present, PutIfLeader, Key, Owner, DeadKey
<1>2. \A i \in DOMAIN keys' : ~DeadKey(keys[i])'
  BY <1>1 DEF LiveInv
<1>3. \A w \in Worker : InStep(w)' => PutIfLeader(w)'
  BY <1>1 DEF LiveInv
<1>4. \A i, j \in DOMAIN keys' : i < j /\ Present(Owner(i))' => Present(Owner(j))'
  BY SMT, <1>1 DEF LiveInv, Present, Owner
<1>5. \A i \in DOMAIN keys' : ~Present(Owner(i))' =>
        \A w \in Worker : Present(w)' => \A k \in DOMAIN results'[w] : results'[w][k] = "skip"
  BY <1>1 DEF LiveInv, Present, Owner
<1> QED BY <1>1, <1>2, <1>3, <1>4, <1>5 DEF LiveInv

\* The outcomes of a worker whose results, and whose records, stay.
LEMMA OutcomesKept ==
  ASSUME NEW w \in Worker, Outcomes(w), results'[w] = results[w],
         pc'[w] = "upload" => pc[w] = "upload",
         status' = status, request'.version = request.version
  PROVE  Outcomes(w)'
<1>1. Current(w)' = Current(w)
  BY DEF Current
<1> QED BY <1>1 DEF Outcomes

\* The steps that the agreement takes no notice of.
LEMMA AgreeQuiet ==
  ASSUME AgreeInv, UNCHANGED <<mine, results, pc, keys, session, status, disturbed>>,
         request'.round = request.round, request'.version = request.version,
         (request'.stop => ~recovered') => (request.stop => ~recovered)
  PROVE  AgreeInv'
<1>1. ~disturbed' => LiveInv'
  BY LiveKept DEF AgreeInv, LiveInv, InStep
<1>2. ~disturbed' /\ (request'.stop => ~recovered') =>
        \A w \in Worker : Present(w)' => Outcomes(w)'
  BY OutcomesKept DEF AgreeInv, Present
<1> QED BY <1>1, <1>2 DEF AgreeInv

\* A worker takes up the request.
LEMMA AgreeStart ==
  ASSUME TypeInv, QueueInv, AgreeInv, NEW w \in Worker, Start(w)
  PROVE  AgreeInv'
<1>1. /\ UNCHANGED <<request, recovered, status, keys, session, disturbed>>
      /\ pc[w] \in Settled
  BY DEF Start
<1>2. /\ pc'[w] = "idle" /\ results'[w] = <<>>
      /\ \A v \in Worker \ {w} :
           mine'[v] = mine[v] /\ pc'[v] = pc[v] /\ results'[v] = results[v]
  BY DEF Start, TypeInv
<1>3. \A v \in Worker \ {w} : Present(v)' <=> Present(v)
  BY <1>1, <1>2 DEF Present
<1>4. DOMAIN results'[w] = {}
  BY SMT, <1>2
<1>5. ASSUME ~disturbed PROVE LiveInv'
  <2>1. LiveInv
    BY <1>5 DEF AgreeInv
  <2>2. \A i \in DOMAIN keys : Owner(i) \in Worker \ {w} /\ Owner(i)' = Owner(i)
    BY <1>1, <2>1, OwnerInStep DEF InStep, Settled, Owner
  <2>3. \A v \in Worker : (PutIfLeader(v)' <=> PutIfLeader(v)) /\ Key(v)' = Key(v)
    BY <1>1 DEF PutIfLeader, Key
  <2>4. \A i \in DOMAIN keys' : ~DeadKey(keys[i])'
    BY <1>1, <2>1 DEF LiveInv, DeadKey
  <2>5. \A v \in Worker : InStep(v)' => PutIfLeader(v)'
    BY <1>2, <2>1, <2>3 DEF LiveInv, InStep
  <2>6. \A v \in Worker : pc'[v] = "upload" => keys'[1] = Key(v)'
    BY <1>1, <1>2, <2>1, <2>3 DEF LiveInv
  <2>7. \A i \in DOMAIN keys : Present(Owner(i))' <=> Present(Owner(i))
    BY <1>1, <1>2, <2>2 DEF Present
  <2>8. \A i, j \in DOMAIN keys' : i < j /\ Present(Owner(i))' => Present(Owner(j))'
    BY <1>1, <2>1, <2>7 DEF LiveInv
  <2>9. \A i \in DOMAIN keys' : ~Present(Owner(i))' =>
          \A v \in Worker : Present(v)' => \A k \in DOMAIN results'[v] : results'[v][k] = "skip"
    BY SMT, <1>1, <1>2, <1>3, <1>4, <2>1, <2>7 DEF LiveInv
  <2> QED BY <1>1, <2>4, <2>5, <2>6, <2>8, <2>9 DEF LiveInv
<1>6. ASSUME ~disturbed, request.stop => ~recovered, NEW v \in Worker, Present(v)'
      PROVE  Outcomes(v)'
  <2>1. CASE v = w
    BY <1>2, <1>4, <2>1 DEF Outcomes
  <2>2. CASE v # w
    BY <1>1, <1>2, <1>3, <1>6, <2>2, OutcomesKept DEF AgreeInv
  <2> QED BY <2>1, <2>2
<1> QED BY <1>1, <1>5, <1>6 DEF AgreeInv

\* A new request: all have to take it up first.
LEMMA AgreeNewRequest ==
  ASSUME TypeInv, RoundInv, AgreeInv, NEW v \in Nat, NEW ws \in SUBSET Worker,
         QueueInv, NewRequest(v, ws)
  PROVE  AgreeInv'
<1>1. /\ UNCHANGED <<mine, results, pc, keys, session, disturbed>>
      /\ request'.round = request.round + 1
  BY DEF NewRequest
<1>2. \A w \in Worker : mine[w].round \in Nat /\ request.round \in Nat
  BY DEF TypeInv, Asked
<1>3. \A w \in Worker : mine[w].round # request'.round
  BY SMT, <1>1, <1>2 DEF RoundInv
<1>4. \A w \in Worker : ~Present(w)'
  BY <1>1, <1>3 DEF Present
<1>5. ASSUME ~disturbed PROVE LiveInv'
  <2>1. LiveInv
    BY <1>5 DEF AgreeInv
  <2>2. \A i \in DOMAIN keys : Owner(i) \in Worker /\ Owner(i)' = Owner(i)
    BY <1>1, <2>1, OwnerInStep DEF Owner
  <2>3. \A i \in DOMAIN keys : ~Present(Owner(i))'
    BY <1>1, <1>3, <2>2 DEF Present
  <2>4. \A w \in Worker : (PutIfLeader(w)' <=> PutIfLeader(w)) /\ Key(w)' = Key(w)
    BY <1>1 DEF PutIfLeader, Key
  <2>5. \A i \in DOMAIN keys' : ~DeadKey(keys[i])'
    BY <1>1, <2>1 DEF LiveInv, DeadKey
  <2>6. \A w \in Worker : /\ InStep(w)' => PutIfLeader(w)'
                          /\ pc'[w] = "upload" => keys'[1] = Key(w)'
    BY <1>1, <2>1, <2>4 DEF LiveInv, InStep
  <2> QED BY <1>1, <1>4, <2>3, <2>5, <2>6 DEF LiveInv
<1> QED BY <1>1, <1>4, <1>5 DEF AgreeInv

\* What keeps LiveInv when a key leaves from the front, and its owner the step.
LEMMA LiveLeaves ==
  ASSUME TypeInv, QueueInv, LiveInv, QueueInv', NEW w \in Worker, keys[1] = Key(w),
         1 \in DOMAIN keys, Resign(w), session' = session,
         UNCHANGED <<request, mine>>, NEW r \in {"ok", "error"}, Returns(w, r)
  PROVE  LiveInv'
<1>1. /\ \A v \in Worker \ {w} : (PutIfLeader(v)' <=> PutIfLeader(v)) /\ pc'[v] = pc[v]
                                 /\ results'[v] = results[v]
      /\ pc'[w] \in Settled
  BY AfterResign, AfterReturns, ResultIs
<1>2. \A v \in Worker : Key(v)' = Key(v) /\ (Present(v)' <=> Present(v))
  BY DEF Key, Present
<1>3. PICK at \in DOMAIN keys : keys[at] = Key(w) /\ keys' = Removed(keys, at)
  BY DEF Resign, PutIfLeader
<1>4. keys \in Seq(Worker \X Nat)
  BY DEF QueueInv
<1>5. at = 1
  <2>1. DOMAIN keys \subseteq Nat \ {0}
    BY SMT, <1>4
  <2>2. 1 < at \/ at = 1
    BY SMT, <2>1
  <2> QED BY <1>3, <2>2 DEF QueueInv
<1>6. /\ \A i \in DOMAIN keys' : \E k \in DOMAIN keys \ {1} : keys'[i] = keys[k]
      /\ \A i, j \in DOMAIN keys' : i < j =>
           \E k, m \in DOMAIN keys \ {1} : k < m /\ keys'[i] = keys[k] /\ keys'[j] = keys[m]
  <2>1. keys' = Removed(keys, at)
    BY <1>3
  <2>2. /\ \A i \in DOMAIN keys' : \E k \in DOMAIN keys \ {at} : keys'[i] = keys[k]
        /\ \A i, j \in DOMAIN keys' : i < j =>
             \E k, m \in DOMAIN keys \ {at} :
               k < m /\ keys'[i] = keys[k] /\ keys'[j] = keys[m]
    BY <2>1, KeyRemoved
  <2> QED BY SMT, <1>5, <2>2
<1>7. \A i \in DOMAIN keys' : ~DeadKey(keys[i])'
  BY SMT, <1>6 DEF LiveInv, DeadKey
<1>8. \A v \in Worker : InStep(v)' => PutIfLeader(v)'
  BY <1>1 DEF LiveInv, InStep, Settled
<1>9. \A v \in Worker : pc'[v] # "upload"
  <2>1. \A v \in Worker \ {w} : Key(v) # Key(w)
    BY DEF Key
  <2> QED BY SMT, <1>1, <2>1 DEF LiveInv, Settled
<1>10. \A i, j \in DOMAIN keys' :
         i < j /\ Present(Owner(i))' => Present(Owner(j))'
  BY SMT, <1>6 DEF LiveInv, Present, Owner
<1>11. ASSUME NEW i \in DOMAIN keys', ~Present(Owner(i))', NEW v \in Worker,
              Present(v)', NEW k \in DOMAIN results'[v]
       PROVE  results'[v][k] = "skip"
  <2>1. PICK m \in DOMAIN keys \ {1} : keys'[i] = keys[m]
    BY <1>6
  <2>2. ~Present(Owner(m))
    BY <1>11, <2>1 DEF Present, Owner
  <2>3. 1 < m
    BY SMT, <1>4, <2>1
  <2>4. ~Present(Owner(1))
    BY <2>2, <2>3 DEF LiveInv
  <2>5. Owner(1) = w
    BY SMT DEF Owner, Key
  <2>6. v # w
    BY <1>2, <1>11, <2>4, <2>5
  <2> QED BY SMT, <1>1, <1>2, <1>11, <2>2, <2>6 DEF LiveInv
<1> QED BY <1>7, <1>8, <1>9, <1>10, <1>11 DEF LiveInv

\* The outcomes of a worker that has taken a step: those it had, and the last.
LEMMA OutcomesAfter ==
  ASSUME TypeInv, NEW w \in Worker, Outcomes(w), NEW r \in {"ok", "skip", "error"},
         Returns(w, r), status' = status, request' = request,
         r = "ok" => /\ status[Current(w)].version = request.version
                     /\ status[Current(w)].success,
         r = "error" /\ Current(w) # "cke-template" =>
           status[Current(w)].version = request.version /\ ~status[Current(w)].success
  PROVE  Outcomes(w)'
<1>1. /\ results'[w][Len(results[w]) + 1] = r
      /\ \A k \in DOMAIN results[w] : results'[w][k] = results[w][k]
      /\ DOMAIN results'[w] = DOMAIN results[w] \cup {Len(results[w]) + 1}
      /\ pc'[w] # "upload"
  BY SMT, ResultIs DEF Settled
<1>2. Current(w) = Targets[Len(results[w]) + 1]
  BY DEF Current
<1> QED BY <1>1, <1>2 DEF Outcomes

\* A worker enters a step.  One that is late finds nobody of the present round
\* in a step, unless it disturbs.
LEMMA AgreeEnter ==
  ASSUME TypeInv, QueueInv, RoundInv, AgreeInv, NEW w \in Worker, Enter(w),
         Len(results[w]) < Len(Targets)
  PROVE  AgreeInv'
<1>1. /\ UNCHANGED <<request, recovered, status, mine, session>> /\ pc[w] = "idle"
      /\ disturbed' = (disturbed \/ LeftBehind(w)) /\ Barrier(w)
  BY DEF Enter
<1>2. /\ \A v \in Worker : Key(v)' = Key(v) /\ (Present(v)' <=> Present(v))
      /\ disturbed \in BOOLEAN
  BY <1>1 DEF Key, Present, QueueInv
<1>3. CASE w \in active
  <2>1. /\ keys' = Append(keys, Key(w)) /\ pc' = [pc EXCEPT ![w] = "campaign"]
        /\ results' = results
    BY <1>3 DEF Enter
  <2>2. pc'[w] = "campaign" /\ \A v \in Worker \ {w} : pc'[v] = pc[v]
    BY <2>1 DEF TypeInv
  <2>3. ASSUME ~disturbed' PROVE LiveInv'
    <3>1. ~disturbed /\ ~LeftBehind(w) /\ LiveInv
      BY <1>1, <1>2, <2>3 DEF AgreeInv
    <3>2. ~PutIfLeader(w)
      BY <1>1 DEF QueueInv, Settled
    <3>3. /\ \A v \in Worker \ {w} : (PutIfLeader(v)' <=> PutIfLeader(v))
          /\ PutIfLeader(w)'
      BY <1>1, <2>1, <3>2, KeyAdded
    <3>4. keys \in Seq(Worker \X Nat) /\ session[w] \in Nat
      BY DEF QueueInv
    <3>5. Key(w) \in Worker \X Nat /\ Key(w)[1] = w /\ Key(w)[2] = session[w]
      BY SMT, <3>4 DEF Key
    <3>a. PICK last : last = Len(keys) + 1
      OBVIOUS
    <3>6. /\ DOMAIN keys' = DOMAIN keys \cup {last} /\ keys'[last] = Key(w)
          /\ \A i \in DOMAIN keys : keys'[i] = keys[i]
          /\ \A i, j \in DOMAIN keys' : i < j => i \in DOMAIN keys
      BY SMT, <2>1, <3>4, <3>5, <3>a, AppendIs
    <3>7. \A i \in DOMAIN keys' : ~DeadKey(keys[i])'
      BY <1>1, <3>1, <3>5, <3>6 DEF LiveInv, DeadKey
    <3>8. \A v \in Worker : InStep(v)' => PutIfLeader(v)'
      BY <2>2, <3>1, <3>3 DEF LiveInv, InStep
    <3>9. \A v \in Worker : pc'[v] = "upload" => keys'[1] = Key(v)'
      <4>1. ASSUME NEW v \in Worker, pc'[v] = "upload" PROVE keys'[1] = Key(v)'
        <5>1. pc[v] = "upload"
          BY <2>2, <4>1
        <5>2. keys[1] = Key(v) /\ PutIfLeader(v)
          BY <3>1, <5>1 DEF LiveInv, InStep
        <5>3. 1 \in DOMAIN keys
          BY SMT, <3>4, <5>2 DEF PutIfLeader
        <5> QED BY <1>2, <3>6, <5>2, <5>3
      <4> QED BY <4>1
    <3>10. \A i \in DOMAIN keys : Present(Owner(i))' <=> Present(Owner(i))
      BY <1>1, <3>6 DEF Present, Owner
    <3>11. Present(Owner(last))' <=> Present(w)
      BY <1>1, <3>5, <3>6 DEF Present, Owner
    <3>12. CASE Present(w)
      <4>1. \A i, j \in DOMAIN keys' : i < j /\ Present(Owner(i))' => Present(Owner(j))'
        BY <3>1, <3>6, <3>10, <3>11, <3>12 DEF LiveInv
      <4>2. \A i \in DOMAIN keys' : ~Present(Owner(i))' =>
              \A v \in Worker : Present(v)' => \A k \in DOMAIN results'[v] : results'[v][k] = "skip"
        BY <1>2, <2>1, <3>1, <3>6, <3>10, <3>11, <3>12 DEF LiveInv
      <4> QED BY <3>7, <3>8, <3>9, <4>1, <4>2 DEF LiveInv
    <3>13. CASE ~Present(w)
      <4>1. mine[w].round < request.round
        <5>1. mine[w].round \in Nat /\ request.round \in Nat
          BY DEF TypeInv, Asked
        <5> QED BY SMT, <3>13, <5>1 DEF RoundInv, Present
      <4>2. PICK v \in mine[w].servers \cap request.servers : TRUE
        BY <3>1, <4>1 DEF LeftBehind
      <4>3. ~Present(v)
        BY <1>1, <3>13 DEF Barrier, Present
      <4>4. /\ \A i \in DOMAIN keys : ~Present(Owner(i))
            /\ \A u \in Worker : Present(u) => results[u] = <<>>
        BY <3>1, <4>2, <4>3, NoneBegun
      <4>5. \A u \in Worker : Present(u) => DOMAIN results[u] = {}
        BY SMT, <4>4
      <4>6. \A i \in DOMAIN keys' : ~Present(Owner(i))'
        BY <3>6, <3>10, <3>11, <3>13, <4>4
      <4> QED BY <1>2, <2>1, <3>7, <3>8, <3>9, <4>5, <4>6 DEF LiveInv
    <3> QED BY <3>12, <3>13
  <2>4. \A v \in Worker : Outcomes(v) => Outcomes(v)'
    BY <1>1, <2>1, <2>2, OutcomesKept
  <2> QED BY <1>1, <1>2, <2>3, <2>4 DEF AgreeInv
<1>4. CASE w \notin active
  <2>1. keys' = keys /\ Returns(w, "skip")
    BY <1>4 DEF Enter
  <2>2. /\ pc'[w] \in Settled
        /\ \A v \in Worker \ {w} : pc'[v] = pc[v] /\ results'[v] = results[v]
        /\ \A k \in DOMAIN results'[w] : k \in DOMAIN results[w] \/ results'[w][k] = "skip"
        /\ \A k \in DOMAIN results[w] : results'[w][k] = results[w][k]
    BY SMT, <2>1, ResultIs, AfterReturns
  <2>3. ASSUME ~disturbed' PROVE LiveInv'
    <3>1. LiveInv
      BY <1>1, <1>2, <2>3 DEF AgreeInv
    <3>2. /\ \A v \in Worker : (PutIfLeader(v)' <=> PutIfLeader(v))
          /\ \A i \in DOMAIN keys : /\ Present(Owner(i))' <=> Present(Owner(i))
                                    /\ DeadKey(keys[i])' <=> DeadKey(keys[i])
      BY <1>1, <2>1 DEF PutIfLeader, Key, Present, Owner, DeadKey
    <3>3. \A i \in DOMAIN keys' : ~DeadKey(keys[i])'
      BY <2>1, <3>1, <3>2 DEF LiveInv
    <3>4. \A v \in Worker : /\ InStep(v)' => PutIfLeader(v)'
                            /\ pc'[v] = "upload" => keys'[1] = Key(v)'
      BY <1>2, <2>1, <2>2, <3>1, <3>2, SMTT(30) DEF LiveInv, InStep, Settled
    <3>5. \A i, j \in DOMAIN keys' : i < j /\ Present(Owner(i))' => Present(Owner(j))'
      BY <2>1, <3>1, <3>2 DEF LiveInv
    <3>6. \A i \in DOMAIN keys' : ~Present(Owner(i))' =>
            \A v \in Worker : Present(v)' => \A k \in DOMAIN results'[v] : results'[v][k] = "skip"
      BY SMT, <1>2, <2>1, <2>2, <3>1, <3>2 DEF LiveInv
    <3> QED BY <3>3, <3>4, <3>5, <3>6 DEF LiveInv
  <2>4. \A v \in Worker : Outcomes(v) => Outcomes(v)'
    BY <1>1, <2>1, <2>2, OutcomesKept, OutcomesAfter
  <2> QED BY <1>1, <1>2, <2>3, <2>4 DEF AgreeInv
<1> QED BY <1>3, <1>4

\* A worker is elected: it finds the outcome recorded, or begins to upload.
LEMMA AgreeElected ==
  ASSUME TypeInv, QueueInv, QueueInv', RoundInv, AgreeInv, NEW w \in Worker, Elected(w),
         Current(w) \in Target
  PROVE  AgreeInv'
<1>1. /\ UNCHANGED <<request, recovered, status, mine, session, disturbed>>
      /\ pc[w] = "campaign" /\ keys # <<>> /\ Head(keys) = Key(w)
  BY DEF Elected
<1>2. 1 \in DOMAIN keys /\ keys[1] = Key(w)
  BY SMT, <1>1 DEF QueueInv
<1>3. \A v \in Worker : Present(v)' <=> Present(v)
  BY <1>1 DEF Present
<1>4. Present(w) => mine[w].version = request.version
  BY DEF RoundInv
<1>5. status[Current(w)].success \in BOOLEAN
  BY DEF TypeInv
<1>6. ASSUME NEW r \in {"ok", "error"}, Returns(w, r), Resign(w),
             status[Current(w)].version = mine[w].version,
             status[Current(w)].success <=> r = "ok"
      PROVE  AgreeInv'
  <2>1. ~disturbed' => LiveInv'
    BY <1>1, <1>2, <1>6, LiveLeaves DEF AgreeInv
  <2>2. \A v \in Worker \ {w} : pc'[v] = pc[v] /\ results'[v] = results[v]
    BY <1>6, AfterReturns
  <2>3. \A v \in Worker \ {w} : Outcomes(v) => Outcomes(v)'
    BY <1>1, <2>2, OutcomesKept
  <2>4. Present(w) /\ Outcomes(w) => Outcomes(w)'
    BY <1>1, <1>4, <1>6, OutcomesAfter
  <2> QED BY <1>1, <1>3, <2>1, <2>3, <2>4 DEF AgreeInv
<1>7. CASE /\ pc' = [pc EXCEPT ![w] = "upload"] /\ UNCHANGED <<results, keys>>
           /\ status[Current(w)].version # mine[w].version
  <2>1. pc'[w] = "upload" /\ \A v \in Worker \ {w} : pc'[v] = pc[v]
    BY <1>7 DEF TypeInv
  <2>2. ~disturbed' => LiveInv'
    BY <1>1, <1>2, <1>7, <2>1, LiveKept DEF AgreeInv, LiveInv, InStep
  <2>3. \A v \in Worker \ {w} : Outcomes(v) => Outcomes(v)'
    BY <1>1, <1>7, <2>1, OutcomesKept
  <2>4. Present(w) /\ Outcomes(w) => Outcomes(w)'
    <3>1. Current(w)' = Current(w)
      BY <1>7 DEF Current
    <3> QED BY <1>1, <1>4, <1>7, <3>1 DEF Outcomes
  <2> QED BY <1>1, <1>3, <2>2, <2>3, <2>4 DEF AgreeInv
<1>8. \/ \E r \in {"ok", "error"} :
           /\ Returns(w, r) /\ Resign(w) /\ status[Current(w)].version = mine[w].version
           /\ status[Current(w)].success <=> r = "ok"
      \/ /\ pc' = [pc EXCEPT ![w] = "upload"] /\ UNCHANGED <<results, keys>>
         /\ status[Current(w)].version # mine[w].version
  BY <1>5 DEF Elected, HasFailed
<1> QED BY <1>6, <1>7, <1>8

\* A worker records the outcome: nobody of its round has looked at the record
\* before, or, if it is late, nobody of the present round has.
LEMMA AgreePutContentsStatus ==
  ASSUME TypeInv, QueueInv, QueueInv', RoundInv, AgreeInv, NEW w \in Worker,
         PutContentsStatus(w), Current(w) \in Target
  PROVE  AgreeInv'
<1>1. /\ UNCHANGED <<request, recovered, mine, session, disturbed>>
      /\ pc[w] = "upload" /\ Resign(w)
      /\ Returns(w, IF outcome[w] /\ PutIfLeader(w) THEN "ok" ELSE "error")
      /\ IF Records(Current(w), outcome[w]) /\ PutIfLeader(w)
         THEN status' = [status EXCEPT ![Current(w)] = Status(w)] ELSE status' = status
  BY DEF PutContentsStatus
<1>2. \A v \in Worker : Present(v)' <=> Present(v)
  BY <1>1 DEF Present
<1> SUFFICES ASSUME ~disturbed
             PROVE  /\ LiveInv'
                    /\ (request.stop => ~recovered) =>
                         \A v \in Worker : Present(v) => Outcomes(v)'
  BY <1>1, <1>2 DEF AgreeInv
<1> DEFINE r == IF outcome[w] THEN "ok" ELSE "error"
           t == Current(w)
<1>3. LiveInv /\ keys[1] = Key(w) /\ PutIfLeader(w)
  BY <1>1 DEF AgreeInv, LiveInv, InStep
<1>4. Returns(w, r) /\ r \in {"ok", "error"} /\ outcome[w] \in BOOLEAN
  BY <1>1, <1>3 DEF TypeInv
<1>5. 1 \in DOMAIN keys /\ Owner(1) = w
  <2>1. keys \in Seq(Worker \X Nat)
    BY DEF QueueInv
  <2>2. 1 \in DOMAIN keys
    BY SMT, <1>3, <2>1 DEF PutIfLeader
  <2> QED BY SMT, <1>3, <2>2 DEF Owner, Key
<1>6. LiveInv'
  BY <1>1, <1>3, <1>4, <1>5, LiveLeaves
<1>7. /\ pc'[w] # "upload" /\ results'[w][Len(results[w]) + 1] = r
      /\ \A k \in DOMAIN results[w] : results'[w][k] = results[w][k]
      /\ DOMAIN results'[w] = DOMAIN results[w] \cup {Len(results[w]) + 1}
      /\ \A v \in Worker \ {w} : pc'[v] = pc[v] /\ results'[v] = results[v]
  BY <1>4, ResultIs, AfterReturns DEF Settled
<1>8. \A v \in Worker : pc'[v] # "upload"
  <2>1. \A v \in Worker \ {w} : Key(v) # Key(w)
    BY DEF Key
  <2> QED BY SMT, <1>3, <1>7, <2>1 DEF LiveInv
<1>9. \A u \in Target \ {t} : status'[u] = status[u]
  BY <1>1 DEF TypeInv
<1>10. CASE Present(w)
  <2> SUFFICES ASSUME request.stop => ~recovered, NEW v \in Worker, Present(v)
               PROVE  Outcomes(v)'
    BY <1>6
  <2>1. Outcomes(v) /\ Outcomes(w) /\ mine[w].version = request.version
    BY <1>10 DEF AgreeInv, RoundInv
  <2>2. status[t].version # request.version
    BY <1>1, <2>1 DEF Outcomes
  <2>3. /\ r = "ok" => status'[t].version = request.version /\ status'[t].success
        /\ r = "error" /\ t # "cke-template" =>
             status'[t].version = request.version /\ ~status'[t].success
    <3>1. CASE status' = [status EXCEPT ![t] = Status(w)]
      <4>1. status'[t] = Status(w)
        BY <3>1 DEF TypeInv
      <4> QED BY SMT, <1>4, <2>1, <4>1 DEF Status
    <3>2. CASE ~Records(t, outcome[w])
      BY <3>2 DEF Records
    <3> QED BY <1>1, <1>3, <3>1, <3>2
  <2>4. ASSUME NEW k \in DOMAIN results[v]
        PROVE  /\ results[v][k] = "ok" =>
                    /\ status'[Targets[k]].version = request.version
                    /\ status'[Targets[k]].success
               /\ results[v][k] = "error" /\ Targets[k] # "cke-template" =>
                    /\ status'[Targets[k]].version = request.version
                    /\ ~status'[Targets[k]].success
    <3>1. Targets[k] \in Target
      <4>1. results[v] \in Seq({"ok", "skip", "error"}) /\ Len(results[v]) <= Len(Targets)
        BY DEF TypeInv, QueueInv
      <4>2. k \in DOMAIN Targets
        BY SMT, <4>1, ContentsAssumption
      <4> QED BY <4>2 DEF Target
    <3>2. CASE Targets[k] = t
      BY <2>1, <2>2, <3>2 DEF Outcomes
    <3>3. CASE Targets[k] # t
      <4>1. status'[Targets[k]] = status[Targets[k]]
        BY <1>9, <3>1, <3>3
      <4> QED BY <2>1, <4>1 DEF Outcomes
    <3> QED BY <3>2, <3>3
  <2>5. Targets[Len(results[w]) + 1] = t
    BY DEF Current
  <2> HIDE DEF r, t
  <2>6. CASE v = w
    BY <1>1, <1>7, <2>3, <2>4, <2>5, <2>6 DEF Outcomes
  <2>7. CASE v # w
    BY <1>1, <1>7, <1>8, <2>4, <2>7 DEF Outcomes
  <2> QED BY <2>6, <2>7
<1>11. CASE ~Present(w)
  <2>1. \A v \in Worker : Present(v) => \A k \in DOMAIN results[v] : results[v][k] = "skip"
    BY <1>3, <1>5, <1>11 DEF LiveInv
  <2>2. \A v \in Worker : Present(v) => Outcomes(v)'
    BY <1>7, <1>8, <1>11, <2>1 DEF Outcomes
  <2> QED BY <1>6, <2>2
<1> QED BY <1>10, <1>11

\* AgreeInv is inductive, given the other three.
LEMMA AgreeInductive ==
  /\ ContentsInv /\ QueueInv /\ RoundInv /\ AgreeInv
  /\ QueueInv' /\ [ContentsNext]_cvars
  => AgreeInv'
<1> SUFFICES ASSUME ContentsInv, QueueInv, RoundInv, AgreeInv, QueueInv',
                    [ContentsNext]_cvars
             PROVE  AgreeInv'
  OBVIOUS
<1>1. TypeInv
  BY DEF ContentsInv
<1>2. CASE UNCHANGED cvars
           \/ (\E w \in Worker : UploadFails(w) \/ UploadPart(w) \/ UploadRefused(w))
  <2>1. UNCHANGED <<request, recovered, mine, results, pc, keys, session, status, disturbed>>
    BY <1>2 DEF cvars, UploadFails, UploadPart, UploadRefused
  <2> QED BY <2>1, AgreeQuiet
<1>3. CASE StopRequest
  <2>1. /\ request' = [request EXCEPT !.stop = TRUE] /\ ~request.stop
        /\ UNCHANGED <<mine, results, pc, keys, session, status, disturbed>>
    BY <1>3 DEF StopRequest
  <2>2. request'.round = request.round /\ request'.version = request.version
    BY <1>1, <2>1 DEF TypeInv, Asked
  <2> QED BY <2>1, <2>2, AgreeQuiet
<1>4. CASE Recover
  <2>1. /\ request' = request /\ request.stop /\ recovered'
        /\ UNCHANGED <<mine, results, pc, keys, session, disturbed>>
    BY <1>4 DEF Recover
  <2>2. ~disturbed' => LiveInv'
    BY <2>1, LiveKept DEF AgreeInv, LiveInv, InStep
  <2> QED BY <2>1, <2>2 DEF AgreeInv
<1>5. CASE SessionExpires
  <2>1. disturbed' = (disturbed \/ ~DeadKey(Head(keys))) /\ keys # <<>>
    BY <1>5 DEF SessionExpires
  <2>2. Head(keys) = keys[1] /\ 1 \in DOMAIN keys
    BY <1>5, FirstRemoved
  <2>3. disturbed'
    BY <2>1, <2>2 DEF AgreeInv, LiveInv
  <2> QED BY <2>3 DEF AgreeInv
<1>6. ASSUME NEW w \in Worker, Crash(w)
      PROVE  AgreeInv'
  BY <1>6 DEF Crash, AgreeInv
<1>7. ASSUME NEW w \in Worker, NEW t, Step(w, t)
      PROVE  AgreeInv'
  <2>1. Len(results[w]) < Len(Targets)
    BY <1>7 DEF Step
  <2>2. Current(w) \in Target
    BY <1>1, <2>1, CurrentTarget
  <2> QED BY <1>1, <1>2, <1>7, <2>1, <2>2, AgreeEnter, AgreeElected,
             AgreePutContentsStatus DEF Step
<1> QED BY <1>1, <1>2, <1>3, <1>4, <1>5, <1>6, <1>7, AgreeStart, AgreeNewRequest
    DEF ContentsNext, WorkerStep, UpdateCKETemplate, UpdateCKEContents,
        UpdateSabakanContents, UpdateDHCPJSON, UpdateUserResources

\* They hold at the beginning.
LEMMA AgreeInitially == ContentsInit => RoundInv /\ AgreeInv
<1> SUFFICES ASSUME ContentsInit PROVE RoundInv /\ AgreeInv
  OBVIOUS
<1>1. /\ keys = <<>> /\ request = NoRequest
      /\ \A w \in Worker : /\ mine[w] = NoRequest /\ results[w] = <<>> /\ pc[w] = "idle"
  BY DEF ContentsInit
<1>2. DOMAIN keys = {} /\ \A w \in Worker : DOMAIN results[w] = {}
  BY SMT, <1>1
<1>3. NoRequest.round <= NoRequest.round /\ NoRequest.servers = {}
  BY SMT DEF NoRequest
<1>4. RoundInv
  BY <1>1, <1>3 DEF RoundInv, Present, InStep
<1>5. LiveInv
  BY <1>1, <1>2 DEF LiveInv, InStep
<1>6. \A w \in Worker : Outcomes(w)
  BY <1>1, <1>2 DEF Outcomes
<1> QED BY <1>4, <1>5, <1>6 DEF AgreeInv

\* The workers of the current round agree on the outcome of each step, because
\* the first one records it and the others are elected after it: for any workers
\* and rounds, as long as no leader is lost, nobody recovers the round while it
\* is at work, and no worker of an unrelated round comes late.
THEOREM WorkersAgree == ContentsSpec => []AgreementUndisturbed
<1>1. ContentsInv /\ RoundInv /\ AgreeInv => AgreementUndisturbed
  <2> SUFFICES ASSUME TypeInv, AgreeInv, ~disturbed, request.stop => ~recovered,
                      NEW v \in request.servers, NEW w \in request.servers,
                      Present(v), Present(w), NEW i \in DOMAIN results[v] \cap DOMAIN results[w],
                      results[v][i] = "ok", results[w][i] = "error",
                      Targets[i] # "cke-template"
               PROVE  FALSE
    BY DEF ContentsInv, AgreementUndisturbed, Agreement, Present
  <2>1. v \in Worker /\ w \in Worker
    BY DEF TypeInv, Asked
  <2>2. Outcomes(v) /\ Outcomes(w)
    BY <2>1 DEF AgreeInv
  <2> QED BY <2>2 DEF Outcomes
<1>2. ContentsInv /\ QueueInv /\ RoundInv /\ AgreeInv /\ QueueInv' /\ [ContentsNext]_cvars
      => RoundInv' /\ AgreeInv'
  BY RoundInductive, AgreeInductive
<1> QED BY <1>1, <1>2, QueueAlways, AgreeInitially, PTL DEF ContentsSpec
=============================================================================
