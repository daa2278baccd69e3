--------------------------- MODULE RebooterProofs ---------------------------
(***************************************************************************)
(* What TLAPS proves of neco-rebooter, for any number of boot servers,     *)
(* nodes, groups, reboot times and entries: the types, and that nodes of   *)
(* one group only are enqueued at a time.                                  *)
(***************************************************************************)
EXTENDS Rebooter, TLAPS, WellFoundedInduction

\* A leaf is tried with Zenon first; one that needs arithmetic cites SMT.
USE ZenonT(30), SMT

----------------------------------------------------------------------------
(* The operators. *)

\* Least: a set of indexes that is not empty has a least element.
LEMMA LeastOf ==
  ASSUME NEW S \in SUBSET Nat, S # {}
  PROVE  Least(S) \in S /\ \A x \in S : Least(S) <= x
<1> DEFINE R == {ss \in Nat \X Nat : ss[1] < ss[2]}
<1>1. IsWellFoundedOn(R, Nat)
  BY NatLessThanWellFounded, Zenon DEF OpToRel
<1> HIDE DEF R
<1>2. PICK x \in S : \A y \in S : ~(<<y, x>> \in R)
  BY <1>1, WFMin
<1>3. \A y \in S : ~(y < x)
  <2> TAKE y \in S
  <2>1. <<y, x>> \in Nat \X Nat => (y < x <=> <<y, x>> \in R)
    BY Zenon DEF R
  <2>2. QED
    BY <1>2, <2>1
<1>4. \A y \in S : x <= y
  BY <1>3, SMT
<1>5. QED
  BY <1>4 DEF Least

\* Copies: the maps from indexes that have been given.
LEMMA CopyElim ==
  ASSUME NEW n, NEW Value, NEW f \in Copies(n, Value)
  PROVE  /\ f = [i \in DOMAIN f |-> f[i]]
         /\ DOMAIN f \subseteq 1 .. n
         /\ \A i \in DOMAIN f : f[i] \in Value
BY DEF Copies

LEMMA CopyIntro ==
  ASSUME NEW n, NEW Value, NEW I \in SUBSET (1 .. n), NEW f \in [I -> Value]
  PROVE  f \in Copies(n, Value)
BY DEF Copies

LEMMA CopyEmpty ==
  ASSUME NEW n, NEW Value
  PROVE  EmptyMap \in Copies(n, Value) /\ DOMAIN EmptyMap = {}
BY DEF Copies, EmptyMap

LEMMA CopyGrows ==
  ASSUME NEW n \in Nat, NEW Value, NEW f \in Copies(n, Value)
  PROVE  f \in Copies(n + 1, Value)
<1>1. 1 .. n \subseteq 1 .. (n + 1)
  BY SMT
<1>2. DOMAIN f \in SUBSET (1 .. (n + 1)) /\ f \in [DOMAIN f -> Value]
  BY <1>1, CopyElim, SMT
<1>3. QED
  BY <1>2, CopyIntro

\* Put and Without: an index more, an index less.
LEMMA CopyPut ==
  ASSUME NEW n \in Nat, NEW Value, NEW f \in Copies(n, Value), NEW v \in Value
  PROVE  /\ Put(f, n + 1, v) \in Copies(n + 1, Value)
         /\ n + 1 \notin DOMAIN f
         /\ DOMAIN Put(f, n + 1, v) = DOMAIN f \cup {n + 1}
         /\ Put(f, n + 1, v)[n + 1] = v
         /\ \A i \in DOMAIN f : Put(f, n + 1, v)[i] = f[i]
<1>1. 1 .. n \subseteq 1 .. (n + 1) /\ n + 1 \in 1 .. (n + 1) /\ n + 1 \notin 1 .. n
  BY SMT
<1>2. DOMAIN f \subseteq 1 .. n /\ \A i \in DOMAIN f : f[i] \in Value
  BY CopyElim
<1>3. n + 1 \notin DOMAIN f /\ DOMAIN f \cup {n + 1} \in SUBSET (1 .. (n + 1))
  BY <1>1, <1>2
<1>4. Put(f, n + 1, v) \in [DOMAIN f \cup {n + 1} -> Value]
  BY <1>2, Zenon DEF Put
<1>5. Put(f, n + 1, v) \in Copies(n + 1, Value)
  BY <1>3, <1>4, CopyIntro
<1>6. QED
  BY <1>3, <1>5, Zenon DEF Put

LEMMA CopyWithout ==
  ASSUME NEW n, NEW Value, NEW f \in Copies(n, Value), NEW k
  PROVE  /\ Without(f, k) \in Copies(n, Value)
         /\ DOMAIN Without(f, k) = DOMAIN f \ {k}
         /\ \A i \in DOMAIN f \ {k} : Without(f, k)[i] = f[i]
<1>1. Without(f, k) \in [DOMAIN f \ {k} -> Value] /\ DOMAIN f \ {k} \in SUBSET (1 .. n)
  BY CopyElim DEF Without
<1>2. Without(f, k) \in Copies(n, Value)
  BY <1>1, CopyIntro
<1>3. QED
  BY <1>2 DEF Without

\* First: the index of an entry of the node, or 0 when there is none.
LEMMA FirstFinds ==
  ASSUME NEW f, DOMAIN f \subseteq Nat \ {0}, NEW n
  PROVE  /\ First(f, n) = 0 => \A i \in DOMAIN f : f[i].node # n
         /\ First(f, n) # 0 => First(f, n) \in DOMAIN f /\ f[First(f, n)].node = n
<1> DEFINE same == {i \in DOMAIN f : f[i].node = n}
<1>1. same \in SUBSET Nat /\ 0 \notin same
  OBVIOUS
<1>2. CASE same = {}
  BY <1>2 DEF First
<1>3. CASE same # {}
  <2>1. Least(same) \in same
    BY <1>1, <1>3, LeastOf
  <2>2. First(f, n) = Least(same)
    BY <1>3 DEF First
  <2>3. QED
    BY <1>1, <2>1, <2>2
<1>4. QED
  BY <1>2, <1>3

----------------------------------------------------------------------------
(* Types. *)

Status == {"Pending", "Queued", "Cancelled"}
QueueStatus == {"queued", "draining", "rebooting", "cancelled"}
Seen(n, m) == [enabled : BOOLEAN, group : Groups \cup {NoGroup},
               list : Copies(n, Entry), queue : Copies(m, QueueEntry)]

\* What the processes keep, and what they share.
DaemonTypes ==
  /\ leader \in Host \cup {NoHost}
  /\ rpc \in [Host -> Places] /\ half \in [Host -> BOOLEAN]
  /\ seen \in [Host -> Seen(writeIndex, queueIndex)]
  /\ allGroups \in [Host -> Seq(Groups)]
  /\ collection \in [Host -> [Loops -> SUBSET (Nat \ {0})]]

StoreTypes ==
  /\ enabled \in BOOLEAN /\ writeIndex \in Nat /\ queueIndex \in Nat
  /\ group \in Groups \cup {NoGroup}
  /\ list \in Copies(writeIndex, Entry)
  /\ queue \in Copies(queueIndex, QueueEntry)
  /\ within \subseteq Schedules
  /\ cancelling \subseteq 1 .. writeIndex
  /\ served \subseteq 1 .. writeIndex

LEMMA TypeParts ==
  RebooterTypeOK <=> StoreTypes /\ DaemonTypes
BY DEF RebooterTypeOK, StoreTypes, DaemonTypes, Seen

LEMMA TypePartsNext ==
  StoreTypes' /\ DaemonTypes' => RebooterTypeOK'
BY DEF RebooterTypeOK, StoreTypes, DaemonTypes, Seen

LEMMA NothingTyped ==
  ASSUME NEW n, NEW m
  PROVE  /\ Nothing \in Seen(n, m)
         /\ NoEntries \in [Loops -> SUBSET (Nat \ {0})]
         /\ <<>> \in Seq(Groups)
<1>1. EmptyMap \in Copies(n, Entry) /\ EmptyMap \in Copies(m, QueueEntry)
  BY CopyEmpty
<1>2. Nothing \in Seen(n, m)
  BY <1>1, SMT DEF Nothing, Seen
<1>3. NoEntries \in [Loops -> SUBSET (Nat \ {0})]
  BY DEF NoEntries
<1>4. <<>> \in Seq(Groups)
  BY SMT
<1>5. QED
  BY <1>2, <1>3, <1>4

\* A process that ends leaves nothing that is not typed.
LEMMA GoneTyped ==
  ASSUME DaemonTypes, NEW h \in Host, Gone(h), UNCHANGED <<writeIndex, queueIndex>>,
         leader' \in Host \cup {NoHost}
  PROVE  DaemonTypes'
<1>1. "down" \in Places /\ FALSE \in BOOLEAN
  BY DEF Places
<1>2. rpc' \in [Host -> Places] /\ half' \in [Host -> BOOLEAN]
  BY <1>1 DEF DaemonTypes, Gone, Goto
<1>3. seen' \in [Host -> Seen(writeIndex, queueIndex)]
  BY NothingTyped DEF DaemonTypes, Gone
<1>4. allGroups' \in [Host -> Seq(Groups)]
  BY NothingTyped DEF DaemonTypes, Gone
<1>5. collection' \in [Host -> [Loops -> SUBSET (Nat \ {0})]]
  BY NothingTyped DEF DaemonTypes, Gone
<1>6. QED
  BY <1>2, <1>3, <1>4, <1>5 DEF DaemonTypes

LEMMA ReturnsTyped ==
  ASSUME DaemonTypes, NEW h \in Host, Returns(h), UNCHANGED <<writeIndex, queueIndex>>
  PROVE  DaemonTypes'
<1>1. leader' \in Host \cup {NoHost}
  BY DEF DaemonTypes, Returns
<1>2. QED
  BY <1>1, GoneTyped DEF Returns

\* Indexes that are given do not disturb what the processes keep.
LEMMA SeenGrows ==
  ASSUME NEW n \in Nat, NEW m \in Nat, NEW x \in [Host -> Seen(n, m)]
  PROVE  /\ x \in [Host -> Seen(n + 1, m)]
         /\ x \in [Host -> Seen(n, m + 1)]
<1>1. \A h \in Host : x[h] \in Seen(n, m)
  OBVIOUS
<1>2. \A r \in Seen(n, m) : r \in Seen(n + 1, m) /\ r \in Seen(n, m + 1)
  <2> SUFFICES ASSUME NEW r \in Seen(n, m)
               PROVE  r \in Seen(n + 1, m) /\ r \in Seen(n, m + 1)
    OBVIOUS
  <2>1. r.list \in Copies(n, Entry) /\ r.queue \in Copies(m, QueueEntry)
    BY SMT DEF Seen
  <2>2. r.list \in Copies(n + 1, Entry) /\ r.queue \in Copies(m + 1, QueueEntry)
    BY <2>1, CopyGrows
  <2>3. QED
    BY <2>1, <2>2, SMT DEF Seen
<1>3. QED
  BY <1>1, <1>2

\* The requests write what they are meant to.
LEMMA ListWritten ==
  ASSUME StoreTypes, NEW i, NEW status \in Status, UpdateRebootListEntry(i, status)
  PROVE  /\ list' \in Copies(writeIndex, Entry)
         /\ DOMAIN list' = DOMAIN list
         /\ \A k \in DOMAIN list : /\ list'[k].node = list[k].node
                                   /\ k # i => list'[k] = list[k]
         /\ i \in DOMAIN list => list'[i].status = status
<1>1. /\ list = [k \in DOMAIN list |-> list[k]] /\ DOMAIN list \in SUBSET (1 .. writeIndex)
      /\ \A k \in DOMAIN list : list[k] \in Entry
  BY CopyElim, SMT DEF StoreTypes
<1>2. \A e \in Entry : /\ [e EXCEPT !.status = status] \in Entry
                       /\ [e EXCEPT !.status = status].status = status
                       /\ [e EXCEPT !.status = status].node = e.node
  BY SMT DEF Entry, Status
<1>3. CASE i \notin DOMAIN list
  BY <1>3 DEF UpdateRebootListEntry, StoreTypes
<1>4. CASE i \in DOMAIN list
  <2>1. list' = [list EXCEPT ![i] = [@ EXCEPT !.status = status]]
    BY <1>4 DEF UpdateRebootListEntry
  <2>2. list' = [k \in DOMAIN list |->
                   IF k = i THEN [list[i] EXCEPT !.status = status] ELSE list[k]]
    BY <2>1, <1>1
  <2>3. list' \in [DOMAIN list -> Entry]
    BY <1>1, <1>2, <2>2
  <2>4. list' \in Copies(writeIndex, Entry)
    BY <1>1, <2>3, CopyIntro
  <2>5. QED
    BY <1>1, <1>2, <1>4, <2>2, <2>4
<1>5. QED
  BY <1>3, <1>4

LEMMA QueueWritten ==
  ASSUME StoreTypes, NEW j \in DOMAIN queue, NEW status \in QueueStatus,
         NEW backedOff \in BOOLEAN, SetQueue(j, status, backedOff)
  PROVE  /\ queue' \in Copies(queueIndex, QueueEntry)
         /\ DOMAIN queue' = DOMAIN queue
         /\ \A k \in DOMAIN queue : /\ queue'[k].node = queue[k].node
                                    /\ k # j => queue'[k] = queue[k]
         /\ queue'[j].status = status
<1>1. /\ queue = [k \in DOMAIN queue |-> queue[k]]
      /\ DOMAIN queue \in SUBSET (1 .. queueIndex)
      /\ \A k \in DOMAIN queue : queue[k] \in QueueEntry
  BY CopyElim, SMT DEF StoreTypes
<1> DEFINE w(e) == [node |-> e.node, status |-> status, backedOff |-> backedOff]
<1>2. \A e \in QueueEntry : /\ w(e) \in QueueEntry
                            /\ w(e).status = status
                            /\ w(e).node = e.node
  BY SMT DEF QueueEntry, QueueStatus
<1>3. queue' = [k \in DOMAIN queue |-> IF k = j THEN w(queue[j]) ELSE queue[k]]
  BY <1>1, Zenon DEF SetQueue
<1> HIDE DEF w
<1>4. queue' \in [DOMAIN queue -> QueueEntry]
  BY <1>1, <1>2, <1>3
<1>5. queue' \in Copies(queueIndex, QueueEntry)
  BY <1>1, <1>4, CopyIntro
<1>6. QED
  BY <1>1, <1>2, <1>3, <1>5

LEMMA QueueCancels ==
  ASSUME StoreTypes, NEW j, CancelRebootsEntry(j)
  PROVE  /\ queue' \in Copies(queueIndex, QueueEntry)
         /\ DOMAIN queue' = DOMAIN queue
         /\ \A k \in DOMAIN queue : /\ queue'[k].node = queue[k].node
                                    /\ k # j => queue'[k] = queue[k]
         /\ j \in DOMAIN queue => queue'[j].status = "cancelled"
<1>1. /\ queue = [k \in DOMAIN queue |-> queue[k]]
      /\ DOMAIN queue \in SUBSET (1 .. queueIndex)
      /\ \A k \in DOMAIN queue : queue[k] \in QueueEntry
  BY CopyElim, SMT DEF StoreTypes
<1>2. \A e \in QueueEntry : /\ [e EXCEPT !.status = "cancelled"] \in QueueEntry
                            /\ [e EXCEPT !.status = "cancelled"].status = "cancelled"
                            /\ [e EXCEPT !.status = "cancelled"].node = e.node
  BY SMT DEF QueueEntry
<1>3. CASE j \notin DOMAIN queue
  BY <1>3 DEF CancelRebootsEntry, StoreTypes
<1>4. CASE j \in DOMAIN queue
  <2>1. queue' = [k \in DOMAIN queue |->
                    IF k = j THEN [queue[j] EXCEPT !.status = "cancelled"] ELSE queue[k]]
    BY <1>1, <1>4 DEF CancelRebootsEntry
  <2>2. queue' \in [DOMAIN queue -> QueueEntry]
    BY <1>1, <1>2, <2>1
  <2>3. queue' \in Copies(queueIndex, QueueEntry)
    BY <1>1, <2>2, CopyIntro
  <2>4. QED
    BY <1>1, <1>2, <1>4, <2>1, <2>3
<1>5. QED
  BY <1>3, <1>4

\* Collected: the loops that runOnce goes through, and those it skips.
LEMMA CollectedIs ==
  ASSUME NEW l, NEW q, NEW g, NEW on \in BOOLEAN, NEW c, c = Collected(l, q, g, on)
  PROVE  /\ c = [x \in Loops |-> c[x]]
         /\ c["CancelledEntry"] = CancelledEntry(l)
         /\ CancelledEntry(l) # {} =>
              \A loop \in Loops \ {"CancelledEntry"} : c[loop] = {}
         /\ CancelledEntry(l) = {} => c["OrphanedEntry"] = OrphanedEntry(l, q)
         /\ CancelledEntry(l) = {} /\ OrphanedEntry(l, q) # {} =>
              \A loop \in Loops \ {"OrphanedEntry"} : c[loop] = {}
         /\ CancelledEntry(l) = {} /\ OrphanedEntry(l, q) = {} =>
              /\ c["CompletedEntry"] = CompletedEntry(l, q)
              /\ c["NewEntry"] = IF on THEN NewEntry(l, q, g) ELSE {}
              /\ c["TimedOutEntry"] = IF on THEN TimedOutEntry(l, q) ELSE {}
              /\ c["QueuedEntry"] = IF on THEN {} ELSE QueuedEntry(l, q)
BY Zenon DEF Collected, NoEntries, Loops

LEMMA CollectedTyped ==
  ASSUME NEW l, NEW q, NEW g, NEW on \in BOOLEAN,
         DOMAIN l \subseteq Nat \ {0}, DOMAIN q \subseteq Nat \ {0}
  PROVE  Collected(l, q, g, on) \in [Loops -> SUBSET (Nat \ {0})]
<1> DEFINE c == Collected(l, q, g, on)
<1>1. /\ CancelledEntry(l) \subseteq DOMAIN l /\ CompletedEntry(l, q) \subseteq DOMAIN l
      /\ QueuedEntry(l, q) \subseteq DOMAIN l /\ TimedOutEntry(l, q) \subseteq DOMAIN l
      /\ NewEntry(l, q, g) \subseteq DOMAIN l /\ OrphanedEntry(l, q) \subseteq DOMAIN q
  BY DEF CancelledEntry, CompletedEntry, QueuedEntry, TimedOutEntry, NewEntry,
         OrphanedEntry
<1>2. c = Collected(l, q, g, on)
  OBVIOUS
<1> HIDE DEF c
<1>3. /\ c = [x \in Loops |-> c[x]] /\ c["CancelledEntry"] = CancelledEntry(l)
  BY <1>2, CollectedIs, SMT
<1>4. \A loop \in Loops : c[loop] \subseteq DOMAIN l \cup DOMAIN q
  <2>1. CASE CancelledEntry(l) # {}
    BY <1>1, <1>2, <2>1, CollectedIs, SMT
  <2>2. CASE CancelledEntry(l) = {} /\ OrphanedEntry(l, q) # {}
    BY <1>1, <1>2, <2>2, CollectedIs, SMT
  <2>3. CASE CancelledEntry(l) = {} /\ OrphanedEntry(l, q) = {}
    <3>1. /\ c["OrphanedEntry"] = {} /\ c["CancelledEntry"] = {}
          /\ c["CompletedEntry"] \subseteq DOMAIN l /\ c["NewEntry"] \subseteq DOMAIN l
          /\ c["TimedOutEntry"] \subseteq DOMAIN l /\ c["QueuedEntry"] \subseteq DOMAIN l
      BY <1>1, <1>2, <2>3, CollectedIs, SMT
    <3>2. QED
      BY <3>1 DEF Loops
  <2>4. QED
    BY <2>1, <2>2, <2>3
<1>5. QED
  BY <1>2, <1>3, <1>4

\* NextGroup: the group that the rebooter moves to is one of a listed node.
LEMMA NextGroupTyped ==
  ASSUME NEW l, \A i \in DOMAIN l : l[i] \in Entry, NEW order \in Seq(Groups),
         NEW g \in Groups \cup {NoGroup}
  PROVE  NextGroup(l, order, g) \in Groups \cup {NoGroup}
<1> DEFINE cycled == cycleSlices(order, g)
           others == {k \in DOMAIN cycled :
                        cycled[k] # g /\ findRebootableNodeInGroup(l, cycled[k]) # {}}
<1>1. DOMAIN cycled = DOMAIN order
  BY DEF cycleSlices
<1>2. DOMAIN order \subseteq Nat
  BY SMT
<1>3. NextGroup(l, order, g) = IF others = {} THEN g ELSE cycled[Least(others)]
  BY DEF NextGroup
<1>4. CASE others = {}
  BY <1>3, <1>4
<1>5. CASE others # {}
  <2>1. others \in SUBSET Nat
    BY <1>1, <1>2
  <2>2. Least(others) \in others
    BY <1>5, <2>1, LeastOf
  <2>3. PICK i \in DOMAIN l : GroupOf[l[i].node] = cycled[Least(others)]
    BY <2>2 DEF findRebootableNodeInGroup
  <2>4. l[i].node \in Node
    BY SMT DEF Entry
  <2>5. QED
    BY <1>3, <1>5, <2>3, <2>4 DEF Groups
<1>6. QED
  BY <1>4, <1>5

\* Orders: an order of the groups of the list.
LEMMA OrdersTyped ==
  ASSUME RebooterTypeOK, NEW h \in Host, NEW l, \A i \in DOMAIN l : l[i] \in Entry,
         NEW order \in Orders(h, l)
  PROVE  order \in Seq(Groups)
<1> DEFINE groups == {GroupOf[l[i].node] : i \in DOMAIN l}
<1>1. groups \subseteq Groups
  <2>1. \A i \in DOMAIN l : l[i].node \in Node
    BY SMT DEF Entry
  <2>2. QED
    BY <2>1 DEF Groups
<1>2. CASE order = allGroups[h]
  BY <1>2 DEF RebooterTypeOK
<1>3. CASE order \in Shuffles(groups, writeIndex)
  <2>1. PICK m \in 0 .. writeIndex : order \in [1 .. m -> groups]
    BY <1>3 DEF Shuffles
  <2>2. m \in Nat
    BY SMT DEF RebooterTypeOK
  <2> HIDE DEF groups
  <2>3. order \in [1 .. m -> Groups]
    BY <1>1, <2>1
  <2>4. QED
    BY <2>2, <2>3, SMT
<1>4. QED
  BY <1>2, <1>3 DEF Orders

\* dequeueAndCancelEntry changes the copies as it changes the keys.
LEMMA DequeuedIs ==
  ASSUME NEW l, \A i \in DOMAIN l : l[i] \in Entry, NEW S
  PROVE  /\ ListDequeued(l, S) \in [DOMAIN l -> Entry]
         /\ \A i \in DOMAIN l :
              /\ ListDequeued(l, S)[i].node = l[i].node
              /\ i \in S => ListDequeued(l, S)[i].status = "Pending"
              /\ i \notin S => ListDequeued(l, S)[i] = l[i]
<1>1. \A e \in Entry : /\ [e EXCEPT !.status = "Pending"] \in Entry
                       /\ [e EXCEPT !.status = "Pending"].status = "Pending"
                       /\ [e EXCEPT !.status = "Pending"].node = e.node
  BY SMT DEF Entry
<1>2. QED
  BY <1>1, Zenon DEF ListDequeued

LEMMA CancelledIs ==
  ASSUME NEW l, NEW q, \A j \in DOMAIN q : q[j] \in QueueEntry, NEW S
  PROVE  /\ QueueCancelled(l, q, S) \in [DOMAIN q -> QueueEntry]
         /\ \A j \in DOMAIN q :
              /\ QueueCancelled(l, q, S)[j].node = q[j].node
              /\ \/ QueueCancelled(l, q, S)[j] = q[j]
                 \/ \E i \in S : j = First(q, l[i].node)
<1>1. \A e \in QueueEntry : /\ [e EXCEPT !.status = "cancelled"] \in QueueEntry
                            /\ [e EXCEPT !.status = "cancelled"].node = e.node
  BY SMT DEF QueueEntry
<1>2. QED
  BY <1>1, Zenon DEF QueueCancelled

\* What the loops keep.
LEMMA HalfwayTyped ==
  ASSUME DaemonTypes, NEW h \in Host, NEW ok, Halfway(h, ok),
         UNCHANGED <<writeIndex, queueIndex>>
  PROVE  DaemonTypes'
<1>1. CASE ok
  BY <1>1 DEF Halfway, DaemonTypes
<1>2. CASE ~ok
  BY <1>2, ReturnsTyped DEF Halfway
<1>3. QED
  BY <1>1, <1>2

LEMMA EntryDoneTyped ==
  ASSUME DaemonTypes, NEW h \in Host, NEW loop \in Loops, NEW ok,
         EntryDone(h, loop, ok), UNCHANGED <<writeIndex, queueIndex>>
  PROVE  DaemonTypes'
<1>1. CASE ok
  <2>1. collection' = [collection EXCEPT ![h] =
                         [collection[h] EXCEPT ![loop] =
                            collection[h][loop] \ {At(h, loop)}]]
    BY <1>1 DEF EntryDone
  <2>2. collection[h] \in [Loops -> SUBSET (Nat \ {0})]
    BY DEF DaemonTypes
  <2>3. [collection[h] EXCEPT ![loop] = collection[h][loop] \ {At(h, loop)}]
          \in [Loops -> SUBSET (Nat \ {0})]
    BY <2>2
  <2>4. collection' \in [Host -> [Loops -> SUBSET (Nat \ {0})]]
    BY <2>1, <2>3 DEF DaemonTypes
  <2>5. QED
    BY <1>1, <2>4 DEF EntryDone, DaemonTypes
<1>2. CASE ~ok
  BY <1>2, ReturnsTyped DEF EntryDone
<1>3. QED
  BY <1>1, <1>2

\* The entry that a loop is at is one of those that are left.
LEMMA AtIsLeft ==
  ASSUME DaemonTypes, NEW h \in Host, NEW loop \in Loops, collection[h][loop] # {}
  PROVE  At(h, loop) \in collection[h][loop]
<1>1. collection[h][loop] \in SUBSET Nat
  BY DEF DaemonTypes
<1>2. QED
  BY <1>1, LeastOf DEF At

\* The node of an entry that has been read.
LEMMA SeenTyped ==
  ASSUME DaemonTypes, NEW h \in Host
  PROVE  /\ seen[h].list \in Copies(writeIndex, Entry)
         /\ seen[h].queue \in Copies(queueIndex, QueueEntry)
         /\ seen[h].enabled \in BOOLEAN
         /\ seen[h].group \in Groups \cup {NoGroup}
<1>1. seen[h] \in Seen(writeIndex, queueIndex)
  BY DEF DaemonTypes
<1>2. QED
  BY <1>1, SMT DEF Seen

LEMMA IndexesPositive ==
  ASSUME NEW n, NEW Value, NEW f \in Copies(n, Value)
  PROVE  DOMAIN f \subseteq Nat \ {0}
<1>1. 1 .. n \subseteq Nat \ {0}
  BY SMT
<1>2. QED
  BY <1>1, CopyElim

LEMMA ReadsTyped ==
  ASSUME DaemonTypes, NEW h \in Host, NEW from, NEW to \in Places,
         NEW copy \in Seen(writeIndex, queueIndex), Reads(h, from, to, copy)
  PROVE  DaemonTypes'
<1>1. rpc' \in [Host -> Places]
  BY DEF Reads, Goto, DaemonTypes
<1>2. seen' \in [Host -> Seen(writeIndex, queueIndex)]
  BY DEF Reads, DaemonTypes
<1>3. QED
  BY <1>1, <1>2 DEF Reads, DaemonTypes, necoVars, ckeVars

\* The steps up to the decision.
LEMMA ReadStepsTyped ==
  ASSUME RebooterTypeOK, NEW h \in Host,
         Start(h) \/ Elected(h) \/ ReadEnabled(h) \/ ReadList(h) \/ ReadQueue(h)
           \/ Exit(h) \/ Crash(h) \/ LeaseExpires(h)
  PROVE  RebooterTypeOK'
<1>1. StoreTypes /\ DaemonTypes
  BY TypeParts
<1>2. StoreTypes'
  BY <1>1 DEF StoreTypes, Start, Elected, ReadEnabled, ReadList, ReadQueue, Reads,
              Exit, Crash, LeaseExpires, necoVars, ckeVars
<1>3. Nothing \in Seen(writeIndex, queueIndex)
  BY NothingTyped
<1>4. /\ seen[h] \in Seen(writeIndex, queueIndex)
      /\ enabled \in BOOLEAN /\ list \in Copies(writeIndex, Entry)
      /\ queue \in Copies(queueIndex, QueueEntry)
  BY <1>1 DEF StoreTypes, DaemonTypes
<1>5. CASE Start(h)
  <2>1. rpc' \in [Host -> Places]
    BY <1>1, <1>5 DEF Start, Goto, DaemonTypes, Places
  <2>2. DaemonTypes'
    BY <1>1, <1>5, <2>1 DEF Start, DaemonTypes, necoVars, ckeVars
  <2>3. QED
    BY <1>2, <2>2, TypePartsNext
<1>6. CASE Elected(h)
  <2>1. rpc' \in [Host -> Places]
    BY <1>1, <1>6 DEF Elected, Goto, DaemonTypes, Places
  <2>2. DaemonTypes'
    BY <1>1, <1>6, <2>1 DEF Elected, DaemonTypes, necoVars, ckeVars
  <2>3. QED
    BY <1>2, <2>2, TypePartsNext
<1>7. CASE ReadEnabled(h)
  <2>1. [Nothing EXCEPT !.enabled = enabled] \in Seen(writeIndex, queueIndex)
    BY <1>3, <1>4, SMT DEF Seen
  <2>2. DaemonTypes'
    BY <1>1, <1>7, <2>1, ReadsTyped DEF ReadEnabled, Places
  <2>3. QED
    BY <1>2, <2>2, TypePartsNext
<1>8. CASE ReadList(h)
  <2>1. [seen[h] EXCEPT !.list = list] \in Seen(writeIndex, queueIndex)
    BY <1>4, SMT DEF Seen
  <2>2. DaemonTypes'
    BY <1>1, <1>8, <2>1, ReadsTyped DEF ReadList, Places
  <2>3. QED
    BY <1>2, <2>2, TypePartsNext
<1>9. CASE ReadQueue(h)
  <2>1. [seen[h] EXCEPT !.queue = queue] \in Seen(writeIndex, queueIndex)
    BY <1>4, SMT DEF Seen
  <2>2. DaemonTypes'
    BY <1>1, <1>9, <2>1, ReadsTyped DEF ReadQueue, Places
  <2>3. QED
    BY <1>2, <2>2, TypePartsNext
<1>10. CASE Exit(h)
  BY <1>1, <1>2, <1>10, ReturnsTyped, TypePartsNext DEF Exit, necoVars, ckeVars
<1>11. CASE Crash(h)
  <2>1. leader' \in Host \cup {NoHost}
    BY <1>1, <1>11 DEF Crash, DaemonTypes
  <2>2. QED
    BY <1>1, <1>2, <1>11, <2>1, GoneTyped, TypePartsNext DEF Crash, necoVars, ckeVars
<1>12. CASE LeaseExpires(h)
  <2>1. DaemonTypes'
    BY <1>1, <1>12 DEF LeaseExpires, DaemonTypes, necoVars, ckeVars
  <2>2. QED
    BY <1>2, <2>1, TypePartsNext
<1>13. QED
  BY <1>5, <1>6, <1>7, <1>8, <1>9, <1>10, <1>11, <1>12

\* ReadGroup: the copies, the order and the group that it leaves behind.
LEMMA ReadGroupTyped ==
  ASSUME RebooterTypeOK, NEW h \in Host, ReadGroup(h)
  PROVE  RebooterTypeOK'
<1>1. StoreTypes /\ DaemonTypes
  BY TypeParts
<1>2. StoreTypes'
  BY <1>1 DEF StoreTypes, ReadGroup, necoVars, ckeVars
<1> DEFINE l == seen[h].list
           q == seen[h].queue
           moves == /\ seen[h].enabled /\ \E i \in DOMAIN l : isRebootable(l[i])
                    /\ q = EmptyMap \/ isStuck(q)
           back == IF moves THEN QueuedEntry(l, q) ELSE {}
           next(order) == IF moves THEN NextGroup(l, order, group) ELSE group
<1>3. PICK order \in Orders(h, l) :
        /\ allGroups' = [allGroups EXCEPT ![h] = order]
        /\ seen' = [seen EXCEPT ![h] =
             [enabled |-> seen[h].enabled, list |-> ListDequeued(l, back),
              queue |-> QueueCancelled(l, q, back), group |-> next(order)]]
        /\ Goto(h, IF next(order) = group THEN "collect" ELSE "move")
  BY DEF ReadGroup
<1>4. /\ collection' = [collection EXCEPT ![h]["QueuedEntry"] = back]
      /\ UNCHANGED <<writeIndex, queueIndex, leader, half>>
  BY DEF ReadGroup, necoVars, ckeVars
<1>5. l \in Copies(writeIndex, Entry) /\ q \in Copies(queueIndex, QueueEntry)
      /\ seen[h].enabled \in BOOLEAN
  BY <1>1, SeenTyped
<1>6. back \subseteq DOMAIN l /\ back \subseteq Nat \ {0}
  BY <1>5, IndexesPositive DEF QueuedEntry
<1>7. (\A i \in DOMAIN l : l[i] \in Entry) /\ group \in Groups \cup {NoGroup}
  BY <1>1, <1>5, CopyElim DEF StoreTypes
<1> HIDE DEF l, q, back
<1>8. order \in Seq(Groups)
  BY <1>3, <1>7, OrdersTyped
<1>9. next(order) \in Groups \cup {NoGroup}
  BY <1>7, <1>8, NextGroupTyped
<1> HIDE DEF next
<1>10. ListDequeued(l, back) \in Copies(writeIndex, Entry)
  <2>1. ListDequeued(l, back) \in [DOMAIN l -> Entry]
    BY <1>7, DequeuedIs
  <2>2. DOMAIN l \in SUBSET (1 .. writeIndex)
    BY <1>5, CopyElim
  <2>3. QED
    BY <2>1, <2>2, CopyIntro
<1>11. QueueCancelled(l, q, back) \in Copies(queueIndex, QueueEntry)
  <2>1. DOMAIN q \in SUBSET (1 .. queueIndex) /\ \A j \in DOMAIN q : q[j] \in QueueEntry
    BY <1>5, CopyElim
  <2>2. QueueCancelled(l, q, back) \in [DOMAIN q -> QueueEntry]
    BY <2>1, CancelledIs
  <2>3. QED
    BY <2>1, <2>2, CopyIntro
<1>12. [enabled |-> seen[h].enabled, list |-> ListDequeued(l, back),
        queue |-> QueueCancelled(l, q, back), group |-> next(order)]
         \in Seen(writeIndex, queueIndex)
  BY <1>5, <1>9, <1>10, <1>11, SMT DEF Seen
<1>13. seen' \in [Host -> Seen(writeIndex, queueIndex)]
  BY <1>1, <1>3, <1>12 DEF DaemonTypes
<1>14. collection' \in [Host -> [Loops -> SUBSET (Nat \ {0})]]
  BY <1>1, <1>4, <1>6 DEF DaemonTypes, Loops
<1>15. rpc' \in [Host -> Places] /\ allGroups' \in [Host -> Seq(Groups)]
  BY <1>1, <1>3, <1>8 DEF DaemonTypes, Goto, Places
<1>16. DaemonTypes'
  BY <1>1, <1>4, <1>13, <1>14, <1>15 DEF DaemonTypes
<1>17. QED
  BY <1>2, <1>16, TypePartsNext

LEMMA DecisionTyped ==
  ASSUME RebooterTypeOK, NEW h \in Host, UpdateProcessingGroup(h) \/ Collect(h)
  PROVE  RebooterTypeOK'
<1>1. StoreTypes /\ DaemonTypes
  BY TypeParts
<1>2. seen[h].group \in Groups \cup {NoGroup} /\ seen[h].enabled \in BOOLEAN
      /\ DOMAIN seen[h].list \subseteq Nat \ {0} /\ DOMAIN seen[h].queue \subseteq Nat \ {0}
  BY <1>1, SeenTyped, IndexesPositive
<1>3. rpc' \in [Host -> Places]
  BY <1>1 DEF UpdateProcessingGroup, Collect, Goto, DaemonTypes, Places
<1>4. CASE UpdateProcessingGroup(h)
  <2>1. StoreTypes'
    BY <1>1, <1>2, <1>4 DEF UpdateProcessingGroup, StoreTypes, ckeVars
  <2>2. DaemonTypes'
    BY <1>1, <1>3, <1>4 DEF UpdateProcessingGroup, DaemonTypes, ckeVars
  <2>3. QED
    BY <2>1, <2>2, TypePartsNext
<1>5. CASE Collect(h)
  <2>1. StoreTypes'
    BY <1>1, <1>5 DEF Collect, StoreTypes, necoVars, ckeVars
  <2>2. Collected(seen[h].list, seen[h].queue, seen[h].group, seen[h].enabled)
          \in [Loops -> SUBSET (Nat \ {0})]
    BY <1>2, CollectedTyped
  <2>3. collection' \in [Host -> [Loops -> SUBSET (Nat \ {0})]]
    BY <1>1, <1>5, <2>2 DEF Collect, DaemonTypes
  <2>4. DaemonTypes'
    BY <1>1, <1>3, <1>5, <2>3 DEF Collect, DaemonTypes, necoVars, ckeVars
  <2>5. QED
    BY <2>1, <2>4, TypePartsNext
<1>6. QED
  BY <1>4, <1>5

\* A request on the list or on the queue, whatever made it.
LEMMA UpdateTyped ==
  ASSUME StoreTypes, NEW i, NEW status \in Status, UpdateRebootListEntry(i, status),
         UNCHANGED <<within, served>>, cancelling' \subseteq 1 .. writeIndex
  PROVE  StoreTypes' /\ UNCHANGED <<writeIndex, queueIndex>>
<1>1. list' \in Copies(writeIndex, Entry)
  BY ListWritten
<1>2. QED
  BY <1>1 DEF StoreTypes, UpdateRebootListEntry, ckeVars

LEMMA CancelTyped ==
  ASSUME StoreTypes, NEW j, CancelRebootsEntry(j), UNCHANGED <<within, cancelling, served>>
  PROVE  StoreTypes' /\ UNCHANGED <<writeIndex, queueIndex>>
<1>1. queue' \in Copies(queueIndex, QueueEntry)
  BY QueueCancels
<1>2. QED
  BY <1>1 DEF StoreTypes, CancelRebootsEntry, necoVars

LEMMA RemoveTyped ==
  ASSUME StoreTypes, NEW h, NEW i, RemoveRebootListEntry(h, i),
         UNCHANGED <<within, cancelling, served>>
  PROVE  StoreTypes' /\ UNCHANGED <<writeIndex, queueIndex>>
<1>1. list' \in Copies(writeIndex, Entry)
  BY CopyWithout DEF StoreTypes, RemoveRebootListEntry
<1>2. QED
  BY <1>1 DEF StoreTypes, RemoveRebootListEntry, ckeVars

\* The loops of runOnce.
LEMMA LoopsTyped ==
  ASSUME RebooterTypeOK, NEW h \in Host,
         \/ removeCancelledEntry(h) \/ RemoveOrphanedEntry(h) \/ removeCompletedEntry(h)
         \/ \E loop \in {"TimedOutEntry", "QueuedEntry"} : dequeueAndCancelEntry(h, loop)
  PROVE  RebooterTypeOK'
<1>1. StoreTypes /\ DaemonTypes
  BY TypeParts
<1>2. UNCHANGED <<within, cancelling, served>>
  BY DEF removeCancelledEntry, RemoveOrphanedEntry, removeCompletedEntry,
         dequeueAndCancelEntry
<1>3. cancelling' \subseteq 1 .. writeIndex /\ "Pending" \in Status
  BY <1>1, <1>2 DEF StoreTypes, Status
<1>4. {"CancelledEntry", "OrphanedEntry", "CompletedEntry", "TimedOutEntry",
       "QueuedEntry"} \subseteq Loops
  BY DEF Loops
<1>5. CASE removeCancelledEntry(h)
  <2> DEFINE i == At(h, "CancelledEntry")
             j == rqEntry(h, i)
  <2>1. CASE CancelRebootsEntry(j) /\ Halfway(h, j \in DOMAIN queue)
    BY <1>1, <1>2, <2>1, CancelTyped, HalfwayTyped, TypePartsNext
  <2>2. CASE RemoveRebootListEntry(h, i) /\ EntryDone(h, "CancelledEntry", leader = h)
    BY <1>1, <1>2, <1>4, <2>2, RemoveTyped, EntryDoneTyped, TypePartsNext
  <2>3. QED
    BY <1>5, <2>1, <2>2 DEF removeCancelledEntry
<1>6. CASE RemoveOrphanedEntry(h)
  <2> DEFINE j == At(h, "OrphanedEntry")
  <2>1. CancelRebootsEntry(j) /\ EntryDone(h, "OrphanedEntry", j \in DOMAIN queue)
    BY <1>6 DEF RemoveOrphanedEntry
  <2>2. QED
    BY <1>1, <1>2, <1>4, <2>1, CancelTyped, EntryDoneTyped, TypePartsNext
<1>7. CASE removeCompletedEntry(h)
  <2> DEFINE i == At(h, "CompletedEntry")
  <2>1. RemoveRebootListEntry(h, i) /\ EntryDone(h, "CompletedEntry", leader = h)
    BY <1>7 DEF removeCompletedEntry
  <2>2. QED
    BY <1>1, <1>2, <1>4, <2>1, RemoveTyped, EntryDoneTyped, TypePartsNext
<1>8. ASSUME NEW loop \in {"TimedOutEntry", "QueuedEntry"}, dequeueAndCancelEntry(h, loop)
      PROVE  RebooterTypeOK'
  <2> DEFINE i == At(h, loop)
             j == rqEntry(h, i)
  <2>1. CASE UpdateRebootListEntry(i, "Pending") /\ Halfway(h, i \in DOMAIN list)
    BY <1>1, <1>2, <1>3, <2>1, UpdateTyped, HalfwayTyped, TypePartsNext
  <2>2. CASE CancelRebootsEntry(j) /\ EntryDone(h, loop, j \in DOMAIN queue)
    BY <1>1, <1>2, <1>4, <2>2, CancelTyped, EntryDoneTyped, TypePartsNext
  <2>3. QED
    BY <1>8, <2>1, <2>2 DEF dequeueAndCancelEntry
<1>9. QED
  BY <1>5, <1>6, <1>7, <1>8

\* CKE gives the next index of its queue.
LEMMA RegisterTyped ==
  ASSUME StoreTypes, NEW n \in Node, RegisterRebootsEntry(n)
  PROVE  /\ queue' \in Copies(queueIndex + 1, QueueEntry) /\ queueIndex' = queueIndex + 1
         /\ queueIndex + 1 \notin DOMAIN queue
         /\ DOMAIN queue' = DOMAIN queue \cup {queueIndex + 1}
         /\ \A j \in DOMAIN queue : queue'[j] = queue[j]
         /\ queue'[queueIndex + 1].node = n
         /\ queue'[queueIndex + 1].status = "queued"
<1> DEFINE e == [node |-> n, status |-> "queued", backedOff |-> FALSE]
<1>1. e \in QueueEntry /\ e.node = n /\ e.status = "queued"
  BY SMT DEF QueueEntry
<1>2. queue' = Put(queue, queueIndex + 1, e) /\ queueIndex' = queueIndex + 1
  BY DEF RegisterRebootsEntry
<1> HIDE DEF e
<1>3. queue \in Copies(queueIndex, QueueEntry) /\ queueIndex \in Nat
  BY DEF StoreTypes
<1>4. \A v \in QueueEntry :
        /\ Put(queue, queueIndex + 1, v) \in Copies(queueIndex + 1, QueueEntry)
        /\ queueIndex + 1 \notin DOMAIN queue
        /\ DOMAIN Put(queue, queueIndex + 1, v) = DOMAIN queue \cup {queueIndex + 1}
        /\ Put(queue, queueIndex + 1, v)[queueIndex + 1] = v
        /\ \A j \in DOMAIN queue : Put(queue, queueIndex + 1, v)[j] = queue[j]
  <2> TAKE v \in QueueEntry
  <2> QED
    BY <1>3, CopyPut
<1>5. QED
  BY <1>1, <1>2, <1>4

LEMMA addRebootListEntryTyped ==
  ASSUME RebooterTypeOK, NEW h \in Host, addRebootListEntry(h),
         At(h, "NewEntry") \in DOMAIN seen[h].list
  PROVE  RebooterTypeOK'
<1>1. StoreTypes /\ DaemonTypes
  BY TypeParts
<1> DEFINE i == At(h, "NewEntry")
           n == seen[h].list[i].node
<1>2. UNCHANGED <<within, cancelling, served>>
  BY DEF addRebootListEntry
<1>3. CASE RegisterRebootsEntry(n) /\ Halfway(h, TRUE)
  <2>1. n \in Node
    <3>1. seen[h].list[i] \in Entry
      BY <1>1, SeenTyped, CopyElim
    <3>2. QED
      BY <3>1, SMT DEF Entry
  <2>2. queue' \in Copies(queueIndex + 1, QueueEntry) /\ queueIndex' = queueIndex + 1
    BY <1>1, <1>3, <2>1, RegisterTyped
  <2>3. UNCHANGED <<enabled, list, writeIndex, group>>
    BY <1>3 DEF RegisterRebootsEntry, necoVars
  <2>4. queueIndex \in Nat /\ queueIndex + 1 \in Nat /\ writeIndex \in Nat
    BY <1>1, SMT DEF StoreTypes
  <2>5. StoreTypes'
    BY <1>1, <1>2, <2>2, <2>3, <2>4 DEF StoreTypes
  <2>6. half' = [half EXCEPT ![h] = TRUE]
        /\ UNCHANGED <<leader, rpc, seen, allGroups, collection>>
    BY <1>3 DEF Halfway
  <2>7. seen \in [Host -> Seen(writeIndex, queueIndex + 1)]
    BY <1>1, <2>4, SeenGrows DEF DaemonTypes
  <2>8. DaemonTypes'
    BY <1>1, <2>2, <2>3, <2>6, <2>7 DEF DaemonTypes
  <2>9. QED
    BY <2>5, <2>8, TypePartsNext
<1>4. CASE UpdateRebootListEntry(i, "Queued") /\ EntryDone(h, "NewEntry", i \in DOMAIN list)
  <2>1. cancelling' \subseteq 1 .. writeIndex /\ "Queued" \in Status /\ "NewEntry" \in Loops
    BY <1>1, <1>2 DEF StoreTypes, Status, Loops
  <2>2. QED
    BY <1>1, <1>2, <1>4, <2>1, UpdateTyped, EntryDoneTyped, TypePartsNext
<1>5. QED
  BY <1>3, <1>4 DEF addRebootListEntry

----------------------------------------------------------------------------
(* What a process keeps for itself: the places of runOnce and its loops. *)

ListRead == {"queue", "group", "move", "collect"}
QueueRead == {"group", "move", "collect"}
Deciding == {"move", "collect"}

\* The loops are over what the copies say, they exclude one another as runOnce
\* returns early, and the first of two requests is made only in a loop.
LocalInv(h) ==
  LET l == seen[h].list
      q == seen[h].queue
      c == collection[h]
  IN  /\ rpc[h] \notin Deciding \cup {"tick"} => c = NoEntries
      /\ rpc[h] \in Deciding => \A loop \in Loops \ {"QueuedEntry"} : c[loop] = {}
      /\ half[h] => c # NoEntries /\ c["CompletedEntry"] = {}
      /\ \A i \in c["CancelledEntry"] : i \in DOMAIN l /\ l[i].status = "Cancelled"
      /\ \A i \in c["CompletedEntry"] :
           i \in DOMAIN l /\ l[i].status = "Queued" /\ First(q, l[i].node) = 0
      /\ \A i \in c["NewEntry"] :
           i \in DOMAIN l /\ l[i].status = "Pending" /\ First(q, l[i].node) = 0
      /\ \A i \in c["TimedOutEntry"] \cup c["QueuedEntry"] :
           /\ i \in DOMAIN l /\ First(q, l[i].node) # 0
           /\ l[i].status = IF rpc[h] \in Deciding THEN "Pending" ELSE "Queued"
      /\ c["CancelledEntry"] # {} => \A loop \in Loops \ {"CancelledEntry"} : c[loop] = {}
      /\ c["OrphanedEntry"] # {} => \A loop \in Loops \ {"OrphanedEntry"} : c[loop] = {}
      /\ c["TimedOutEntry"] = {} \/ c["QueuedEntry"] = {}

TypeInv == RebooterTypeOK /\ \A h \in Host : LocalInv(h)

LEMMA NoEntriesIs ==
  /\ \A loop \in Loops : NoEntries[loop] = {}
  /\ NoEntries["CancelledEntry"] = {} /\ NoEntries["OrphanedEntry"] = {}
  /\ NoEntries["CompletedEntry"] = {} /\ NoEntries["NewEntry"] = {}
  /\ NoEntries["TimedOutEntry"] = {} /\ NoEntries["QueuedEntry"] = {}
BY DEF NoEntries, Loops

\* A process without a loop.
LEMMA LocalIdle ==
  ASSUME NEW h \in Host, collection'[h] = NoEntries, half'[h] = FALSE
  PROVE  LocalInv(h)'
BY NoEntriesIs DEF LocalInv

\* The steps of others do not matter.
LEMMA LocalFrame ==
  ASSUME NEW h \in Host, LocalInv(h), rpc'[h] = rpc[h], seen'[h] = seen[h],
         collection'[h] = collection[h], half'[h] = half[h]
  PROVE  LocalInv(h)'
BY ZenonT(90) DEF LocalInv

LEMMA GoneLocal ==
  ASSUME DaemonTypes, \A x \in Host : LocalInv(x), NEW h \in Host, Gone(h)
  PROVE  \A x \in Host : LocalInv(x)'
<1> SUFFICES ASSUME NEW x \in Host PROVE LocalInv(x)'
  OBVIOUS
<1>1. CASE x = h
  <2>1. collection'[h] = NoEntries /\ half'[h] = FALSE
    BY DEF Gone, DaemonTypes
  <2>2. QED
    BY <1>1, <2>1, LocalIdle
<1>2. CASE x # h
  <2>1. rpc'[x] = rpc[x] /\ seen'[x] = seen[x] /\ collection'[x] = collection[x]
        /\ half'[x] = half[x]
    BY <1>2 DEF Gone, Goto, DaemonTypes
  <2>2. QED
    BY <2>1, LocalFrame
<1>3. QED
  BY <1>1, <1>2

LEMMA HalfwayLocal ==
  ASSUME DaemonTypes, \A x \in Host : LocalInv(x), NEW h \in Host, NEW ok,
         Halfway(h, ok), collection[h] # NoEntries, collection[h]["CompletedEntry"] = {}
  PROVE  \A x \in Host : LocalInv(x)'
<1>1. CASE ~ok
  BY <1>1, GoneLocal DEF Halfway, Returns
<1>2. CASE ok
  <2>1. half' = [half EXCEPT ![h] = TRUE] /\ UNCHANGED <<rpc, seen, collection>>
    BY <1>2 DEF Halfway
  <2> SUFFICES ASSUME NEW x \in Host PROVE LocalInv(x)'
    OBVIOUS
  <2>2. CASE x = h
    BY <2>1, <2>2, SMT DEF LocalInv
  <2>3. CASE x # h
    BY <2>1, <2>3, LocalFrame DEF DaemonTypes
  <2>4. QED
    BY <2>2, <2>3
<1>3. QED
  BY <1>1, <1>2

\* The collections of the loops after the body of one of them.
LEMMA LeftAfter ==
  ASSUME DaemonTypes, NEW h \in Host, NEW loop \in Loops, EntryDone(h, loop, TRUE)
  PROVE  /\ collection'[h][loop] = collection[h][loop] \ {At(h, loop)}
         /\ \A x \in Loops \ {loop} : collection'[h][x] = collection[h][x]
         /\ \A x \in Loops : collection'[h][x] \subseteq collection[h][x]
         /\ half'[h] = FALSE
         /\ UNCHANGED <<leader, rpc, seen, allGroups>>
         /\ \A y \in Host \ {h} : collection'[y] = collection[y] /\ half'[y] = half[y]
<1>1. /\ collection' = [collection EXCEPT ![h] =
           [collection[h] EXCEPT ![loop] = collection[h][loop] \ {At(h, loop)}]]
      /\ half' = [half EXCEPT ![h] = FALSE]
      /\ UNCHANGED <<leader, rpc, seen, allGroups>>
  BY DEF EntryDone
<1>2. collection[h] \in [Loops -> SUBSET (Nat \ {0})] /\ collection = [x \in Host |-> collection[x]]
  BY DEF DaemonTypes
<1>3. collection'[h] = [collection[h] EXCEPT ![loop] = collection[h][loop] \ {At(h, loop)}]
  BY <1>1, <1>2
<1>4. /\ collection'[h][loop] = collection[h][loop] \ {At(h, loop)}
      /\ \A x \in Loops \ {loop} : collection'[h][x] = collection[h][x]
  BY <1>2, <1>3
<1>5. \A x \in Loops : collection'[h][x] \subseteq collection[h][x]
  BY <1>4
<1>6. \A y \in Host \ {h} : collection'[y] = collection[y] /\ half'[y] = half[y]
  BY <1>1, <1>2 DEF DaemonTypes
<1>7. half'[h] = FALSE
  BY <1>1 DEF DaemonTypes
<1>8. QED
  BY <1>1, <1>4, <1>5, <1>6, <1>7

LEMMA EntryDoneLocal ==
  ASSUME DaemonTypes, \A x \in Host : LocalInv(x), NEW h \in Host, NEW loop \in Loops,
         NEW ok, EntryDone(h, loop, ok)
  PROVE  \A x \in Host : LocalInv(x)'
<1>1. CASE ~ok
  BY <1>1, GoneLocal DEF EntryDone, Returns
<1>2. CASE ok
  <2>1. EntryDone(h, loop, TRUE)
    BY <1>2 DEF EntryDone
  <2>2. /\ \A x \in Loops : collection'[h][x] \subseteq collection[h][x]
        /\ half'[h] = FALSE
        /\ UNCHANGED <<rpc, seen>>
        /\ \A y \in Host \ {h} : collection'[y] = collection[y] /\ half'[y] = half[y]
    BY <2>1, LeftAfter
  <2> SUFFICES ASSUME NEW x \in Host PROVE LocalInv(x)'
    OBVIOUS
  <2>3. CASE x = h
    <3>1. rpc[h] \notin Deciding \cup {"tick"} => collection'[h] = NoEntries
      <4> SUFFICES ASSUME rpc[h] \notin Deciding \cup {"tick"}
                   PROVE  collection'[h] = NoEntries
        OBVIOUS
      <4>1. collection[h] = NoEntries
        BY DEF LocalInv
      <4>2. \A y \in Loops : collection'[h][y] = {}
        BY <2>2, <4>1, NoEntriesIs
      <4>3. collection'[h] = [y \in Loops |-> collection'[h][y]]
        BY <2>1 DEF EntryDone, DaemonTypes
      <4>4. QED
        BY <4>2, <4>3 DEF NoEntries
    <3>2. {"CancelledEntry", "OrphanedEntry", "CompletedEntry", "NewEntry",
           "TimedOutEntry", "QueuedEntry"} = Loops
      BY DEF Loops
    <3>3. QED
      BY <2>2, <2>3, <3>1, <3>2, SMT DEF LocalInv
  <2>4. CASE x # h
    BY <2>2, <2>4, LocalFrame
  <2>5. QED
    BY <2>3, <2>4
<1>3. QED
  BY <1>1, <1>2

\* A process changes its own variables only.
OthersKept(h) ==
  \A x \in Host \ {h} : /\ rpc'[x] = rpc[x] /\ seen'[x] = seen[x]
                        /\ collection'[x] = collection[x] /\ half'[x] = half[x]

LEMMA OthersGone ==
  ASSUME DaemonTypes, NEW h \in Host, Gone(h)
  PROVE  OthersKept(h)
BY DEF DaemonTypes, Gone, Goto, OthersKept

LEMMA OthersHalfway ==
  ASSUME DaemonTypes, NEW h \in Host, NEW ok, Halfway(h, ok)
  PROVE  OthersKept(h)
<1>1. CASE ok
  BY <1>1 DEF Halfway, DaemonTypes, OthersKept
<1>2. CASE ~ok
  BY <1>2, OthersGone DEF Halfway, Returns
<1>3. QED
  BY <1>1, <1>2

LEMMA OthersDone ==
  ASSUME DaemonTypes, NEW h \in Host, NEW loop \in Loops, NEW ok, EntryDone(h, loop, ok)
  PROVE  OthersKept(h)
<1>1. CASE ok
  <2>1. EntryDone(h, loop, TRUE)
    BY <1>1 DEF EntryDone
  <2>2. QED
    BY <2>1, LeftAfter DEF OthersKept
<1>2. CASE ~ok
  BY <1>2, OthersGone DEF EntryDone, Returns
<1>3. QED
  BY <1>1, <1>2

LEMMA OthersAreKept ==
  ASSUME DaemonTypes, NEW h \in Host,
         DaemonStep(h) \/ Exit(h) \/ Crash(h) \/ LeaseExpires(h)
  PROVE  OthersKept(h)
<1>1. {"CancelledEntry", "OrphanedEntry", "CompletedEntry", "NewEntry",
       "TimedOutEntry", "QueuedEntry"} = Loops
  BY DEF Loops
<1>2. CASE Start(h) \/ Elected(h) \/ LeaseExpires(h)
  BY <1>2 DEF Start, Elected, LeaseExpires, Goto, DaemonTypes, OthersKept
<1>3. CASE ReadEnabled(h) \/ ReadList(h) \/ ReadQueue(h)
  BY <1>3 DEF ReadEnabled, ReadList, ReadQueue, Reads, Goto, DaemonTypes, OthersKept
<1>4. CASE ReadGroup(h)
  <2>1. \E v, w, p : /\ seen' = [seen EXCEPT ![h] = v]
                     /\ rpc' = [rpc EXCEPT ![h] = p]
                     /\ collection' = [collection EXCEPT ![h]["QueuedEntry"] = w]
                     /\ half' = half
    BY <1>4 DEF ReadGroup, Goto
  <2>2. QED
    BY <2>1 DEF DaemonTypes, OthersKept
<1>5. CASE UpdateProcessingGroup(h) \/ Collect(h)
  BY <1>5 DEF UpdateProcessingGroup, Collect, Goto, DaemonTypes, OthersKept
<1>6. CASE removeCancelledEntry(h)
  BY <1>1, <1>6, OthersHalfway, OthersDone DEF removeCancelledEntry
<1>7. CASE RemoveOrphanedEntry(h)
  BY <1>1, <1>7, OthersDone DEF RemoveOrphanedEntry
<1>8. CASE removeCompletedEntry(h)
  BY <1>1, <1>8, OthersDone DEF removeCompletedEntry
<1>9. CASE addRebootListEntry(h)
  BY <1>1, <1>9, OthersHalfway, OthersDone DEF addRebootListEntry
<1>10. CASE \E loop \in {"TimedOutEntry", "QueuedEntry"} : dequeueAndCancelEntry(h, loop)
  BY <1>1, <1>10, OthersHalfway, OthersDone DEF dequeueAndCancelEntry
<1>11. CASE Exit(h) \/ Crash(h)
  BY <1>11, OthersGone DEF Exit, Crash, Returns
<1>12. QED
  BY <1>2, <1>3, <1>4, <1>5, <1>6, <1>7, <1>8, <1>9, <1>10, <1>11 DEF DaemonStep

\* First depends on the nodes only.
LEMMA FirstSame ==
  ASSUME NEW f, NEW g, DOMAIN f = DOMAIN g, \A i \in DOMAIN f : f[i].node = g[i].node,
         NEW n
  PROVE  First(f, n) = First(g, n)
<1>1. {i \in DOMAIN f : f[i].node = n} = {i \in DOMAIN g : g[i].node = n}
  OBVIOUS
<1>2. QED
  BY <1>1 DEF First

\* What ReadGroup leaves behind.
LEMMA ReadGroupIs ==
  ASSUME DaemonTypes, NEW h \in Host, ReadGroup(h)
  PROVE  \E back, next, order :
           LET l == seen[h].list
               q == seen[h].queue
           IN  /\ back = {} \/ back = QueuedEntry(l, q)
               /\ next # group => back = QueuedEntry(l, q)
               /\ seen'[h].list = ListDequeued(l, back)
               /\ seen'[h].queue = QueueCancelled(l, q, back)
               /\ seen'[h].group = next
               /\ rpc'[h] = IF next = group THEN "collect" ELSE "move"
               /\ collection' = [collection EXCEPT ![h]["QueuedEntry"] = back]
               /\ UNCHANGED <<half, leader, necoVars, ckeVars, within, cancelling, served>>
<1> DEFINE l == seen[h].list
           q == seen[h].queue
           moves == /\ seen[h].enabled /\ \E i \in DOMAIN l : isRebootable(l[i])
                    /\ q = EmptyMap \/ isStuck(q)
           back == IF moves THEN QueuedEntry(l, q) ELSE {}
           next(order) == IF moves THEN NextGroup(l, order, group) ELSE group
<1>1. PICK order \in Orders(h, l) :
        /\ allGroups' = [allGroups EXCEPT ![h] = order]
        /\ seen' = [seen EXCEPT ![h] =
             [enabled |-> seen[h].enabled, list |-> ListDequeued(l, back),
              queue |-> QueueCancelled(l, q, back), group |-> next(order)]]
        /\ Goto(h, IF next(order) = group THEN "collect" ELSE "move")
  BY DEF ReadGroup
<1>2. /\ collection' = [collection EXCEPT ![h]["QueuedEntry"] = back]
      /\ UNCHANGED <<half, leader, necoVars, ckeVars, within, cancelling, served>>
  BY DEF ReadGroup
<1>3. (back = {} \/ back = QueuedEntry(l, q))
      /\ (next(order) # group => back = QueuedEntry(l, q))
  OBVIOUS
<1> HIDE DEF back, next
<1>4. seen'[h] = [enabled |-> seen[h].enabled, list |-> ListDequeued(l, back),
                  queue |-> QueueCancelled(l, q, back), group |-> next(order)]
      /\ rpc'[h] = IF next(order) = group THEN "collect" ELSE "move"
  BY <1>1 DEF Goto, DaemonTypes
<1>5. /\ seen'[h].list = ListDequeued(l, back) /\ seen'[h].group = next(order)
      /\ seen'[h].queue = QueueCancelled(l, q, back)
  BY <1>4, SMT
<1>6. QED
  BY <1>2, <1>3, <1>4, <1>5

LEMMA ReadGroupLocal ==
  ASSUME TypeInv, NEW h \in Host, ReadGroup(h)
  PROVE  LocalInv(h)'
<1>1. StoreTypes /\ DaemonTypes /\ LocalInv(h)
  BY TypeParts DEF TypeInv
<1> DEFINE l == seen[h].list
           q == seen[h].queue
<1>2. PICK back, next, order :
        /\ back = {} \/ back = QueuedEntry(l, q)
        /\ seen'[h].list = ListDequeued(l, back)
        /\ seen'[h].queue = QueueCancelled(l, q, back)
        /\ rpc'[h] = IF next = group THEN "collect" ELSE "move"
        /\ collection' = [collection EXCEPT ![h]["QueuedEntry"] = back]
        /\ UNCHANGED half
  BY <1>1, ReadGroupIs
<1>3. collection[h] = NoEntries /\ ~half[h]
  BY <1>1 DEF ReadGroup, LocalInv, Deciding
<1>4. /\ collection'[h]["QueuedEntry"] = back
      /\ \A loop \in Loops \ {"QueuedEntry"} : collection'[h][loop] = {}
  BY <1>1, <1>2, <1>3 DEF DaemonTypes, NoEntries, Loops
<1>5. rpc'[h] \in Deciding
  BY <1>2 DEF Deciding
<1>6. (\A i \in DOMAIN l : l[i] \in Entry) /\ (\A j \in DOMAIN q : q[j] \in QueueEntry)
  BY <1>1, SeenTyped, CopyElim
<1> HIDE DEF l, q
<1>7. \A i \in back : /\ i \in DOMAIN seen'[h].list
                      /\ seen'[h].list[i].status = "Pending"
                      /\ First(seen'[h].queue, seen'[h].list[i].node) # 0
  <2> TAKE i \in back
  <2>1. i \in DOMAIN l /\ First(q, l[i].node) # 0
    BY <1>2 DEF QueuedEntry
  <2>2. /\ i \in DOMAIN seen'[h].list /\ seen'[h].list[i].status = "Pending"
        /\ seen'[h].list[i].node = l[i].node
    BY <1>2, <1>6, <2>1, DequeuedIs, SMT
  <2>3. /\ DOMAIN seen'[h].queue = DOMAIN q
        /\ \A j \in DOMAIN q : seen'[h].queue[j].node = q[j].node
    <3>1. /\ DOMAIN QueueCancelled(l, q, back) = DOMAIN q
          /\ \A j \in DOMAIN q : QueueCancelled(l, q, back)[j].node = q[j].node
      BY <1>6, CancelledIs, SMT
    <3>2. QED
      BY <1>2, <3>1
  <2>4. First(seen'[h].queue, l[i].node) = First(q, l[i].node)
    BY <2>3, FirstSame, ZenonT(90)
  <2>5. QED
    BY <2>1, <2>2, <2>4
<1>8. half'[h] = FALSE
  BY <1>1, <1>2, <1>3 DEF DaemonTypes
<1>9. {"CancelledEntry", "OrphanedEntry", "CompletedEntry", "NewEntry",
       "TimedOutEntry", "QueuedEntry"} = Loops
  BY DEF Loops
<1>10. QED
  BY <1>4, <1>5, <1>7, <1>8, <1>9 DEF LocalInv

LEMMA CollectLocal ==
  ASSUME TypeInv, NEW h \in Host, Collect(h)
  PROVE  /\ LocalInv(h)'
         /\ collection'[h] = Collected(seen[h].list, seen[h].queue,
                                       seen[h].group, seen[h].enabled)
         /\ rpc'[h] = "tick" /\ half'[h] = FALSE
         /\ UNCHANGED <<necoVars, ckeVars, seen, leader, within, cancelling, served>>
<1>1. StoreTypes /\ DaemonTypes /\ LocalInv(h)
  BY TypeParts DEF TypeInv
<1> DEFINE l == seen[h].list
           q == seen[h].queue
           g == seen[h].group
           on == seen[h].enabled
           c == collection'[h]
<1>2. c = Collected(l, q, g, on)
  BY <1>1 DEF Collect, DaemonTypes
<1>3. rpc'[h] = "tick" /\ half' = half /\ seen' = seen /\ on \in BOOLEAN
  BY <1>1, SeenTyped DEF Collect, Goto, DaemonTypes
<1>4. half'[h] = FALSE
  BY <1>1, <1>3 DEF Collect, LocalInv, DaemonTypes
<1>5. /\ c["CancelledEntry"] = CancelledEntry(l)
      /\ CancelledEntry(l) # {} =>
           \A loop \in Loops \ {"CancelledEntry"} : c[loop] = {}
      /\ CancelledEntry(l) = {} => c["OrphanedEntry"] = OrphanedEntry(l, q)
      /\ CancelledEntry(l) = {} /\ OrphanedEntry(l, q) # {} =>
           \A loop \in Loops \ {"OrphanedEntry"} : c[loop] = {}
      /\ CancelledEntry(l) = {} /\ OrphanedEntry(l, q) = {} =>
           /\ c["CompletedEntry"] = CompletedEntry(l, q)
           /\ c["NewEntry"] = IF on THEN NewEntry(l, q, g) ELSE {}
           /\ c["TimedOutEntry"] = IF on THEN TimedOutEntry(l, q) ELSE {}
           /\ c["QueuedEntry"] = IF on THEN {} ELSE QueuedEntry(l, q)
  BY <1>2, <1>3, CollectedIs, SMT
<1> HIDE DEF c, l, q, g, on
<1>6. {"CancelledEntry", "OrphanedEntry", "CompletedEntry", "NewEntry",
       "TimedOutEntry", "QueuedEntry"} = Loops
  BY DEF Loops
<1>7. /\ \A i \in c["CancelledEntry"] : i \in DOMAIN l /\ l[i].status = "Cancelled"
      /\ \A i \in c["CompletedEntry"] :
           i \in DOMAIN l /\ l[i].status = "Queued" /\ First(q, l[i].node) = 0
      /\ \A i \in c["NewEntry"] :
           i \in DOMAIN l /\ l[i].status = "Pending" /\ First(q, l[i].node) = 0
      /\ \A i \in c["TimedOutEntry"] \cup c["QueuedEntry"] :
           i \in DOMAIN l /\ First(q, l[i].node) # 0 /\ l[i].status = "Queued"
      /\ c["CancelledEntry"] # {} => \A loop \in Loops \ {"CancelledEntry"} : c[loop] = {}
      /\ c["OrphanedEntry"] # {} => \A loop \in Loops \ {"OrphanedEntry"} : c[loop] = {}
      /\ c["TimedOutEntry"] = {} \/ c["QueuedEntry"] = {}
  <2>1. \A i \in c["CancelledEntry"] : i \in DOMAIN l /\ l[i].status = "Cancelled"
    BY <1>5 DEF CancelledEntry
  <2>2. CASE CancelledEntry(l) # {}
    BY <1>5, <1>6, <2>1, <2>2, SMT
  <2>3. CASE CancelledEntry(l) = {} /\ OrphanedEntry(l, q) # {}
    BY <1>5, <1>6, <2>1, <2>3
  <2>4. CASE CancelledEntry(l) = {} /\ OrphanedEntry(l, q) = {}
    BY <1>5, <1>6, <2>1, <2>4 DEF CompletedEntry, NewEntry, TimedOutEntry, QueuedEntry
  <2>5. QED
    BY <2>2, <2>3, <2>4
<1>8. rpc'[h] \notin Deciding
  BY <1>3 DEF Deciding
<1>9. LocalInv(h)'
  BY <1>3, <1>4, <1>7, <1>8 DEF LocalInv, c, l, q
<1>10. QED
  BY <1>2, <1>3, <1>4, <1>9 DEF Collect, c, l, q, g, on

LEMMA LocalStep ==
  ASSUME TypeInv, NEW h \in Host,
         DaemonStep(h) \/ Exit(h) \/ Crash(h) \/ LeaseExpires(h)
  PROVE  \A x \in Host : LocalInv(x)'
<1>1. StoreTypes /\ DaemonTypes /\ \A x \in Host : LocalInv(x)
  BY TypeParts DEF TypeInv
<1>2. OthersKept(h)
  BY <1>1, OthersAreKept
<1>3. ASSUME LocalInv(h)' PROVE \A x \in Host : LocalInv(x)'
  <2> SUFFICES ASSUME NEW x \in Host, x # h PROVE LocalInv(x)'
    BY <1>3
  <2>1. QED
    BY <1>1, <1>2, LocalFrame DEF OthersKept
<1>4. {"CancelledEntry", "OrphanedEntry", "CompletedEntry", "NewEntry",
       "TimedOutEntry", "QueuedEntry"} = Loops
  BY DEF Loops
<1>5. CASE Start(h) \/ Elected(h) \/ ReadEnabled(h) \/ ReadList(h) \/ ReadQueue(h)
           \/ UpdateProcessingGroup(h)
  <2>1. collection' = collection /\ half' = half
    BY <1>5 DEF Start, Elected, ReadEnabled, ReadList, ReadQueue, Reads,
                UpdateProcessingGroup
  <2>2. collection[h] = NoEntries
    BY <1>1, <1>5 DEF Start, Elected, ReadEnabled, ReadList, ReadQueue, Reads,
                      UpdateProcessingGroup, LocalInv, Deciding
  <2>3. half[h] = FALSE
    BY <1>1, <2>2, SMT DEF LocalInv, DaemonTypes
  <2>4. QED
    BY <1>3, <2>1, <2>2, <2>3, LocalIdle
<1>6. CASE LeaseExpires(h)
  <2>1. UNCHANGED <<rpc, seen, collection, half>>
    BY <1>6 DEF LeaseExpires
  <2>2. QED
    BY <1>1, <2>1, LocalFrame
<1>7. CASE ReadGroup(h)
  BY <1>3, <1>7, ReadGroupLocal
<1>8. CASE Collect(h)
  BY <1>3, <1>8, CollectLocal
<1>9. CASE Exit(h) \/ Crash(h)
  BY <1>1, <1>9, GoneLocal DEF Exit, Crash, Returns
<1>10. CASE removeCancelledEntry(h)
  <2>1. collection[h]["CancelledEntry"] # {}
    BY <1>10 DEF removeCancelledEntry, Turn
  <2>2. collection[h] # NoEntries /\ collection[h]["CompletedEntry"] = {}
    BY <1>1, <1>4, <2>1, NoEntriesIs DEF LocalInv
  <2>3. QED
    BY <1>1, <1>4, <1>10, <2>2, HalfwayLocal, EntryDoneLocal DEF removeCancelledEntry
<1>11. CASE RemoveOrphanedEntry(h)
  BY <1>1, <1>4, <1>11, EntryDoneLocal DEF RemoveOrphanedEntry
<1>12. CASE removeCompletedEntry(h)
  BY <1>1, <1>4, <1>12, EntryDoneLocal DEF removeCompletedEntry
<1>13. CASE addRebootListEntry(h)
  <2>1. collection[h] # NoEntries /\ collection[h]["CompletedEntry"] = {}
    BY <1>13, NoEntriesIs DEF addRebootListEntry, Turn
  <2>2. QED
    BY <1>1, <1>4, <1>13, <2>1, HalfwayLocal, EntryDoneLocal DEF addRebootListEntry
<1>14. ASSUME NEW loop \in {"TimedOutEntry", "QueuedEntry"}, dequeueAndCancelEntry(h, loop)
       PROVE  \A x \in Host : LocalInv(x)'
  <2>1. collection[h] # NoEntries /\ collection[h]["CompletedEntry"] = {}
    BY <1>4, <1>14, NoEntriesIs DEF dequeueAndCancelEntry, Turn
  <2>2. QED
    BY <1>1, <1>4, <1>14, <2>1, HalfwayLocal, EntryDoneLocal DEF dequeueAndCancelEntry
<1>15. QED
  BY <1>5, <1>6, <1>7, <1>8, <1>9, <1>10, <1>11, <1>12, <1>13, <1>14 DEF DaemonStep

----------------------------------------------------------------------------
(* The environment: administrators, CKE and the time. *)

\* matchRebootTimes: what Add stores is one of the configured times.
LEMMA TimeTyped ==
  ASSUME NEW n, matchRebootTimes(n) # 0
  PROVE  matchRebootTimes(n) \in DOMAIN RebootTimes
<1> DEFINE matching ==
      {t \in DOMAIN RebootTimes : RebootTimes[t].match \subseteq Labels[n]}
<1>1. matching \in SUBSET Nat
  BY RebooterAssumption
<1>2. matchRebootTimes(n) = IF matching = {} THEN 0 ELSE Least(matching)
  BY DEF matchRebootTimes
<1>3. matching # {} => Least(matching) \in matching
  BY <1>1, LeastOf
<1>4. QED
  BY <1>2, <1>3

\* Add: the list grows by an entry that is pending.
LEMMA AddIs ==
  ASSUME StoreTypes, NEW n \in Node, Add(n)
  PROVE  /\ list' \in Copies(writeIndex + 1, Entry) /\ writeIndex' = writeIndex + 1
         /\ writeIndex + 1 \notin DOMAIN list
         /\ DOMAIN list' = DOMAIN list \cup {writeIndex + 1}
         /\ \A i \in DOMAIN list : list'[i] = list[i]
         /\ list'[writeIndex + 1].node = n
         /\ list'[writeIndex + 1].status = "Pending"
         /\ UNCHANGED <<enabled, group, cancelling, queue, queueIndex, within,
                        daemonVars, served>>
<1> DEFINE e == [node |-> n, time |-> matchRebootTimes(n), status |-> "Pending"]
<1>1. matchRebootTimes(n) \in DOMAIN RebootTimes
  BY TimeTyped DEF Add
<1>2. e \in Entry /\ e.node = n /\ e.status = "Pending"
  BY <1>1, SMT DEF Entry
<1>3. list' = Put(list, writeIndex + 1, e) /\ writeIndex' = writeIndex + 1
      /\ UNCHANGED <<enabled, group, cancelling, queue, queueIndex, within,
                     daemonVars, served>>
  BY DEF Add, RegisterRebootListEntry, AdminVarsKept, ckeVars
<1> HIDE DEF e
<1>4. list \in Copies(writeIndex, Entry) /\ writeIndex \in Nat
  BY DEF StoreTypes
<1>5. \A v \in Entry :
        /\ Put(list, writeIndex + 1, v) \in Copies(writeIndex + 1, Entry)
        /\ writeIndex + 1 \notin DOMAIN list
        /\ DOMAIN Put(list, writeIndex + 1, v) = DOMAIN list \cup {writeIndex + 1}
        /\ Put(list, writeIndex + 1, v)[writeIndex + 1] = v
        /\ \A i \in DOMAIN list : Put(list, writeIndex + 1, v)[i] = list[i]
  <2> TAKE v \in Entry
  <2> QED
    BY <1>4, CopyPut
<1>6. QED
  BY <1>2, <1>3, <1>5

\* CKE: nothing is registered, nothing is taken back.
LEMMA CKEIs ==
  ASSUME StoreTypes, NEW j \in DOMAIN queue,
         Drain(j) \/ DrainFails(j) \/ Reboot(j) \/ Leaves(j)
  PROVE  /\ queue' \in Copies(queueIndex, QueueEntry)
         /\ DOMAIN queue' \subseteq DOMAIN queue
         /\ DOMAIN queue \ {j} \subseteq DOMAIN queue'
         /\ \A k \in DOMAIN queue' : /\ queue'[k].node = queue[k].node
                                     /\ k # j => queue'[k] = queue[k]
         /\ j \in DOMAIN queue' => /\ queue[j].status # "cancelled"
                                   /\ queue'[j].status # "cancelled"
                                   /\ queue'[j].status = "rebooting" => Reboot(j)
         /\ j \notin DOMAIN queue' => queue[j].status \in {"rebooting", "cancelled"}
         /\ UNCHANGED <<queueIndex, necoVars, daemonVars, within, cancelling>>
         /\ served' = IF Reboot(j)
                        THEN served \cup {i \in DOMAIN list : list[i].node = queue[j].node}
                        ELSE served
<1>1. UNCHANGED <<queueIndex, necoVars, daemonVars, within, cancelling>>
  BY DEF Drain, DrainFails, Reboot, Leaves, CKEKeeps
<1>2. queue[j].backedOff \in BOOLEAN
  <2>1. queue[j] \in QueueEntry
    BY CopyElim DEF StoreTypes
  <2>2. QED
    BY <2>1, SMT DEF QueueEntry
<1>3. {"draining", "queued", "rebooting"} \subseteq QueueStatus
  BY DEF QueueStatus
<1>4. CASE Leaves(j)
  <2>1. /\ Without(queue, j) \in Copies(queueIndex, QueueEntry)
        /\ DOMAIN Without(queue, j) = DOMAIN queue \ {j}
        /\ \A k \in DOMAIN queue \ {j} : Without(queue, j)[k] = queue[k]
    <3>1. queue \in Copies(queueIndex, QueueEntry)
      BY DEF StoreTypes
    <3>2. Without(queue, j) \in Copies(queueIndex, QueueEntry)
      BY <3>1, CopyWithout
    <3>3. QED
      BY <3>2 DEF Without
  <2>2. ~Reboot(j)
    BY <1>4 DEF Leaves, Reboot
  <2>3. queue' = Without(queue, j) /\ served' = served
        /\ queue[j].status \in {"rebooting", "cancelled"}
    BY <1>4 DEF Leaves
  <2>4. QED
    BY <1>1, <2>1, <2>2, <2>3
<1>5. CASE Drain(j)
  <2>1. SetQueue(j, "draining", queue[j].backedOff) /\ served' = served /\ ~Reboot(j)
        /\ queue[j].status = "queued"
    BY <1>5 DEF Drain, Reboot
  <2>2. /\ queue' \in Copies(queueIndex, QueueEntry) /\ DOMAIN queue' = DOMAIN queue
        /\ \A k \in DOMAIN queue : /\ queue'[k].node = queue[k].node
                                   /\ k # j => queue'[k] = queue[k]
        /\ queue'[j].status = "draining"
    BY <1>2, <1>3, <2>1, QueueWritten
  <2>3. QED
    BY <1>1, <2>1, <2>2
<1>6. CASE DrainFails(j)
  <2>1. SetQueue(j, "queued", TRUE) /\ served' = served
        /\ queue[j].status = "draining"
    BY <1>6 DEF DrainFails
  <2>2. /\ queue' \in Copies(queueIndex, QueueEntry) /\ DOMAIN queue' = DOMAIN queue
        /\ \A k \in DOMAIN queue : /\ queue'[k].node = queue[k].node
                                   /\ k # j => queue'[k] = queue[k]
        /\ queue'[j].status = "queued"
    BY <1>3, <2>1, QueueWritten
  <2>3. ~Reboot(j)
    <3> SUFFICES ASSUME Reboot(j) PROVE FALSE
      OBVIOUS
    <3>1. SetQueue(j, "rebooting", queue[j].backedOff)
      BY DEF Reboot
    <3>2. queue'[j].status = "rebooting"
      BY <1>2, <1>3, <3>1, QueueWritten
    <3>3. QED
      BY <2>2, <3>2
  <2>4. QED
    BY <1>1, <2>1, <2>2, <2>3
<1>7. CASE Reboot(j)
  <2>1. SetQueue(j, "rebooting", queue[j].backedOff) /\ queue[j].status = "draining"
        /\ served' = served \cup {i \in DOMAIN list : list[i].node = queue[j].node}
    BY <1>7 DEF Reboot
  <2>2. /\ queue' \in Copies(queueIndex, QueueEntry) /\ DOMAIN queue' = DOMAIN queue
        /\ \A k \in DOMAIN queue : /\ queue'[k].node = queue[k].node
                                   /\ k # j => queue'[k] = queue[k]
        /\ queue'[j].status = "rebooting"
    BY <1>2, <1>3, <2>1, QueueWritten
  <2>3. QED
    BY <1>1, <1>7, <2>1, <2>2
<1>8. QED
  BY <1>4, <1>5, <1>6, <1>7


\* A step of the environment, and all that the daemons may fear from it.
Environment ==
  \/ \E n \in Node : (Duplicates \/ ~Listed(n)) /\ Add(n)
  \/ \E i \in DOMAIN list : Cancel(i)
  \/ CancelAll \/ CancelNext
  \/ \E flag \in BOOLEAN : EnableNecoRebooter(flag)
  \/ CKEStep \/ \E j \in DOMAIN queue : DrainFails(j)
  \/ \E schedules \in SUBSET Schedules : TimePasses(schedules)

ListDisturbed ==
  /\ DOMAIN list \subseteq DOMAIN list'
  /\ \A i \in DOMAIN list :
       /\ list'[i].node = list[i].node
       /\ list'[i].status = list[i].status \/ list'[i].status = "Cancelled"
  /\ \A i \in DOMAIN list' \ DOMAIN list :
       /\ i = writeIndex + 1 /\ list'[i].status = "Pending"
       /\ Duplicates \/ \A k \in DOMAIN list : list[k].node # list'[i].node

QueueDisturbed ==
  /\ DOMAIN queue' \subseteq DOMAIN queue
  /\ \A j \in DOMAIN queue' :
       /\ queue'[j].node = queue[j].node
       /\ queue'[j].status = "cancelled" <=> queue[j].status = "cancelled"
       /\ queue'[j].status = "rebooting" =>
            \/ queue[j].status = "rebooting"
            \/ \A i \in DOMAIN list : list[i].node = queue[j].node => i \in served'
  /\ \A j \in DOMAIN queue \ DOMAIN queue' : queue[j].status \in {"rebooting", "cancelled"}

Disturbed ==
  /\ ListDisturbed /\ QueueDisturbed
  /\ served \subseteq served'
  /\ UNCHANGED <<daemonVars, group, queueIndex>>

LEMMA CancelIs ==
  ASSUME StoreTypes, NEW i, UpdateRebootListEntry(i, "Cancelled"),
         UNCHANGED <<daemonVars, within, served>>, cancelling' \subseteq 1 .. writeIndex
  PROVE  StoreTypes' /\ Disturbed /\ UNCHANGED <<writeIndex, queueIndex>>
<1>1. "Cancelled" \in Status
  BY DEF Status
<1>2. StoreTypes' /\ UNCHANGED <<writeIndex, queueIndex>>
  BY <1>1, UpdateTyped
<1>3. /\ DOMAIN list' = DOMAIN list
      /\ \A k \in DOMAIN list : /\ list'[k].node = list[k].node
                                /\ k # i => list'[k] = list[k]
      /\ i \in DOMAIN list => list'[i].status = "Cancelled"
  BY <1>1, ListWritten
<1>4. ListDisturbed
  BY <1>3 DEF ListDisturbed
<1>5. queue' = queue /\ group' = group /\ queueIndex' = queueIndex
  BY DEF UpdateRebootListEntry, ckeVars
<1>6. QED
  BY <1>2, <1>4, <1>5 DEF Disturbed, QueueDisturbed

LEMMA NothingDisturbed ==
  ASSUME UNCHANGED <<list, queue, queueIndex, served, group, daemonVars>>
  PROVE  Disturbed
BY DEF Disturbed, ListDisturbed, QueueDisturbed

LEMMA AddDisturbs ==
  ASSUME StoreTypes, NEW n \in Node, Duplicates \/ ~Listed(n), Add(n)
  PROVE  StoreTypes' /\ Disturbed /\ writeIndex' = writeIndex + 1
<1>1. /\ list' \in Copies(writeIndex + 1, Entry) /\ writeIndex' = writeIndex + 1
      /\ DOMAIN list' = DOMAIN list \cup {writeIndex + 1}
      /\ \A i \in DOMAIN list : list'[i] = list[i]
      /\ list'[writeIndex + 1].node = n
      /\ list'[writeIndex + 1].status = "Pending"
      /\ UNCHANGED <<enabled, group, cancelling, queue, queueIndex, within,
                     daemonVars, served>>
  BY AddIs
<1>2. ListDisturbed
  BY <1>1 DEF ListDisturbed, Listed
<1>3. Disturbed
  BY <1>1, <1>2 DEF Disturbed, QueueDisturbed
<1>4. writeIndex + 1 \in Nat /\ 1 .. writeIndex \subseteq 1 .. writeIndex + 1
  BY SMT DEF StoreTypes
<1>5. StoreTypes'
  BY <1>1, <1>4 DEF StoreTypes
<1>6. QED
  BY <1>1, <1>3, <1>5

LEMMA CKEDisturbs ==
  ASSUME StoreTypes, NEW j \in DOMAIN queue,
         Drain(j) \/ DrainFails(j) \/ Reboot(j) \/ Leaves(j)
  PROVE  StoreTypes' /\ Disturbed /\ UNCHANGED <<writeIndex, queueIndex>>
<1>1. /\ queue' \in Copies(queueIndex, QueueEntry)
      /\ DOMAIN queue' \subseteq DOMAIN queue
      /\ DOMAIN queue \ {j} \subseteq DOMAIN queue'
      /\ \A k \in DOMAIN queue' : /\ queue'[k].node = queue[k].node
                                  /\ k # j => queue'[k] = queue[k]
      /\ j \in DOMAIN queue' => /\ queue[j].status # "cancelled"
                                /\ queue'[j].status # "cancelled"
                                /\ queue'[j].status = "rebooting" => Reboot(j)
      /\ j \notin DOMAIN queue' => queue[j].status \in {"rebooting", "cancelled"}
  BY CKEIs
<1>2. /\ UNCHANGED <<queueIndex, enabled, list, writeIndex, group, daemonVars, within,
                     cancelling>>
      /\ served' = IF Reboot(j)
                     THEN served \cup {i \in DOMAIN list : list[i].node = queue[j].node}
                     ELSE served
  BY CKEIs DEF necoVars
<1>3. DOMAIN list \subseteq 1 .. writeIndex
  BY CopyElim DEF StoreTypes
<1>4. StoreTypes'
  BY <1>1, <1>2, <1>3 DEF StoreTypes
<1>5. QueueDisturbed
  BY <1>1, <1>2 DEF QueueDisturbed
<1>6. ListDisturbed
  BY <1>2 DEF ListDisturbed
<1>7. QED
  BY <1>2, <1>4, <1>5, <1>6 DEF Disturbed

\* The administrators, CKE and the time leave the daemons' variables and the
\* group alone, queue nothing and take nothing off the list.
LEMMA EnvironmentDisturbs ==
  ASSUME StoreTypes, Environment
  PROVE  StoreTypes' /\ Disturbed /\ writeIndex' \in {writeIndex, writeIndex + 1}
<1>1. ASSUME NEW n \in Node, Duplicates \/ ~Listed(n), Add(n)
      PROVE  StoreTypes' /\ Disturbed /\ writeIndex' = writeIndex + 1
  BY <1>1, AddDisturbs
<1>2. ASSUME NEW i \in DOMAIN list, Cancel(i)
      PROVE  StoreTypes' /\ Disturbed /\ writeIndex' = writeIndex
  BY <1>2, CancelIs DEF Cancel, StoreTypes
<1>3. CASE CancelNext
  <2>1. cancelling' \subseteq 1 .. writeIndex
    BY <1>3 DEF CancelNext, StoreTypes
  <2>2. UpdateRebootListEntry(Least(cancelling), "Cancelled")
        /\ UNCHANGED <<daemonVars, within, served>>
    BY <1>3 DEF CancelNext
  <2>3. QED
    BY <2>1, <2>2, CancelIs
<1>4. CASE CancelAll
  <2>1. cancelling' \subseteq 1 .. writeIndex
    BY <1>4, CopyElim DEF CancelAll, StoreTypes
  <2>2. UNCHANGED <<enabled, list, writeIndex, group, queue, queueIndex, within,
                    daemonVars, served>>
    BY <1>4 DEF CancelAll, AdminVarsKept, necoVars, ckeVars
  <2>3. QED
    BY <2>1, <2>2, NothingDisturbed DEF StoreTypes
<1>5. ASSUME NEW flag \in BOOLEAN, EnableNecoRebooter(flag)
      PROVE  StoreTypes' /\ Disturbed /\ writeIndex' = writeIndex
  <2>1. enabled' \in BOOLEAN
        /\ UNCHANGED <<list, writeIndex, group, queue, queueIndex, within, cancelling,
                       daemonVars, served>>
    BY <1>5 DEF EnableNecoRebooter, AdminVarsKept, ckeVars
  <2>2. QED
    BY <2>1, NothingDisturbed DEF StoreTypes
<1>6. ASSUME NEW schedules \in SUBSET Schedules, TimePasses(schedules)
      PROVE  StoreTypes' /\ Disturbed /\ writeIndex' = writeIndex
  <2>1. within' \subseteq Schedules
        /\ UNCHANGED <<enabled, list, writeIndex, group, queue, queueIndex, cancelling,
                       daemonVars, served>>
    BY <1>6 DEF TimePasses, necoVars, ckeVars
  <2>2. QED
    BY <2>1, NothingDisturbed DEF StoreTypes
<1>7. CASE CKEStep \/ \E j \in DOMAIN queue : DrainFails(j)
  BY <1>7, CKEDisturbs DEF CKEStep
<1>8. QED
  BY <1>1, <1>2, <1>3, <1>4, <1>5, <1>6, <1>7 DEF Environment


----------------------------------------------------------------------------
LEMMA TypeInitial ==
  RebooterInit => TypeInv
<1> SUFFICES ASSUME RebooterInit PROVE TypeInv
  OBVIOUS
<1>1. /\ EmptyMap \in Copies(0, Entry) /\ EmptyMap \in Copies(0, QueueEntry)
      /\ Nothing \in Seen(0, 0) /\ NoEntries \in [Loops -> SUBSET (Nat \ {0})]
      /\ <<>> \in Seq(Groups)
  BY CopyEmpty, NothingTyped
<1>2. 0 \in Nat /\ FALSE \in BOOLEAN /\ "down" \in Places
  BY SMT DEF Places
<1>3. StoreTypes
  BY <1>1, <1>2 DEF StoreTypes, RebooterInit
<1>4. DaemonTypes
  BY <1>1, <1>2 DEF DaemonTypes, RebooterInit
<1>5. \A h \in Host : LocalInv(h)
  BY NoEntriesIs DEF LocalInv, RebooterInit
<1>6. QED
  BY <1>3, <1>4, <1>5, TypeParts DEF TypeInv

LEMMA TypeKept ==
  ASSUME TypeInv, UNCHANGED rebooterVars
  PROVE  TypeInv'
<1>1. StoreTypes /\ DaemonTypes /\ \A h \in Host : LocalInv(h)
  BY TypeParts DEF TypeInv
<1>2. UNCHANGED <<enabled, list, writeIndex, group, queue, queueIndex, within, leader,
                  rpc, seen, allGroups, collection, half, cancelling, served>>
  BY DEF rebooterVars, necoVars, ckeVars, daemonVars
<1>3. StoreTypes' /\ DaemonTypes'
  BY <1>1, <1>2 DEF StoreTypes, DaemonTypes
<1>4. \A h \in Host : LocalInv(h)'
  BY <1>1, <1>2, LocalFrame
<1>5. QED
  BY <1>3, <1>4, TypePartsNext DEF TypeInv

LEMMA EnvironmentTyped ==
  ASSUME TypeInv, Environment
  PROVE  TypeInv'
<1>1. StoreTypes /\ DaemonTypes /\ \A h \in Host : LocalInv(h)
  BY TypeParts DEF TypeInv
<1>2. StoreTypes' /\ Disturbed /\ writeIndex' \in {writeIndex, writeIndex + 1}
  BY <1>1, EnvironmentDisturbs
<1>3. UNCHANGED <<leader, rpc, seen, allGroups, collection, half, queueIndex>>
  BY <1>2 DEF Disturbed, daemonVars
<1>4. seen \in [Host -> Seen(writeIndex', queueIndex)]
  BY <1>1, <1>2, SeenGrows DEF StoreTypes, DaemonTypes
<1>5. DaemonTypes'
  BY <1>1, <1>3, <1>4 DEF DaemonTypes
<1>6. \A h \in Host : LocalInv(h)'
  BY <1>1, <1>3, LocalFrame
<1>7. QED
  BY <1>2, <1>5, <1>6, TypePartsNext DEF TypeInv

LEMMA NextIs ==
  RebooterNext <=>
    \/ \E h \in Host : DaemonStep(h) \/ Exit(h) \/ Crash(h) \/ LeaseExpires(h)
    \/ Environment
BY DEF RebooterNext, Environment

LEMMA DaemonTyped ==
  ASSUME TypeInv, NEW h \in Host,
         DaemonStep(h) \/ Exit(h) \/ Crash(h) \/ LeaseExpires(h)
  PROVE  TypeInv'
<1>1. RebooterTypeOK /\ StoreTypes /\ DaemonTypes /\ LocalInv(h)
  BY TypeParts DEF TypeInv
<1>2. \A x \in Host : LocalInv(x)'
  BY LocalStep
<1>3. CASE addRebootListEntry(h)
  <2>1. collection[h]["NewEntry"] # {} /\ "NewEntry" \in Loops
    BY <1>3 DEF addRebootListEntry, Turn, Loops
  <2>2. At(h, "NewEntry") \in DOMAIN seen[h].list
    BY <1>1, <2>1, AtIsLeft DEF LocalInv
  <2>3. QED
    BY <1>1, <1>2, <1>3, <2>2, addRebootListEntryTyped DEF TypeInv
<1>4. CASE ~addRebootListEntry(h)
  BY <1>1, <1>2, <1>4, ReadStepsTyped, ReadGroupTyped, DecisionTyped, LoopsTyped
  DEF DaemonStep, TypeInv
<1>5. QED
  BY <1>3, <1>4

LEMMA TypeStep ==
  ASSUME TypeInv, [RebooterNext]_rebooterVars
  PROVE  TypeInv'
BY TypeKept, EnvironmentTyped, DaemonTyped, NextIs

LEMMA TypeAlways ==
  RebooterSpec => []TypeInv
<1>1. TypeInv /\ [RebooterNext]_rebooterVars => TypeInv'
  BY TypeStep
<1>2. QED
  BY <1>1, TypeInitial, PTL DEF RebooterSpec

\* RebooterTypeOK, whatever the hosts, the nodes, their labels and the times:
\* every key and every local variable holds what the code stores in it, and no
\* index that was read or kept is above the last one given.
THEOREM RebooterTypeCorrect ==
  RebooterSpec => []RebooterTypeOK
<1>1. TypeInv => RebooterTypeOK
  BY DEF TypeInv
<1>2. QED
  BY <1>1, TypeAlways, PTL


----------------------------------------------------------------------------
(* The steps of a daemon, by what they do to the keys. *)

\* Run returns or the process is killed, and no request has been carried out.
Ended(h) ==
  /\ Gone(h)
  /\ leader' = leader \/ (leader = h /\ leader' = NoHost)
  /\ UNCHANGED <<necoVars, ckeVars, served>>

CancelStarts(h) ==
  LET j == rqEntry(h, At(h, "CancelledEntry"))
  IN  /\ Turn(h, "CancelledEntry", {}) /\ ~half[h] /\ j # 0
      /\ CancelRebootsEntry(j) /\ Halfway(h, TRUE) /\ UNCHANGED served

Removes(h, loop) ==
  /\ Turn(h, loop, {}) /\ leader = h
  /\ RemoveRebootListEntry(h, At(h, loop)) /\ EntryDone(h, loop, TRUE)
  /\ UNCHANGED served

CancelsOrphan(h) ==
  /\ Turn(h, "OrphanedEntry", {})
  /\ CancelRebootsEntry(At(h, "OrphanedEntry")) /\ EntryDone(h, "OrphanedEntry", TRUE)
  /\ UNCHANGED served

Registers(h) ==
  /\ Turn(h, "NewEntry", {"CompletedEntry"}) /\ ~half[h]
  /\ RegisterRebootsEntry(seen[h].list[At(h, "NewEntry")].node) /\ Halfway(h, TRUE)
  /\ UNCHANGED served

Queues(h) ==
  /\ Turn(h, "NewEntry", {"CompletedEntry"}) /\ half[h]
  /\ UpdateRebootListEntry(At(h, "NewEntry"), "Queued") /\ EntryDone(h, "NewEntry", TRUE)
  /\ UNCHANGED served

TakesBack(h, loop) ==
  /\ Turn(h, loop, {"CompletedEntry", "NewEntry"}) /\ ~half[h]
  /\ UpdateRebootListEntry(At(h, loop), "Pending") /\ Halfway(h, TRUE)
  /\ UNCHANGED served

CancelsTaken(h, loop) ==
  /\ Turn(h, loop, {"CompletedEntry", "NewEntry"}) /\ half[h]
  /\ rqEntry(h, At(h, loop)) \in DOMAIN queue
  /\ CancelRebootsEntry(rqEntry(h, At(h, loop))) /\ EntryDone(h, loop, TRUE)
  /\ UNCHANGED served

LoopStep(h) ==
  \/ CancelStarts(h) \/ Removes(h, "CancelledEntry") \/ Removes(h, "CompletedEntry")
  \/ CancelsOrphan(h) \/ Registers(h) \/ Queues(h)
  \/ \E loop \in {"TimedOutEntry", "QueuedEntry"} : TakesBack(h, loop) \/ CancelsTaken(h, loop)

\* A request that fails changes nothing: Run returns.
LEMMA RequestFails ==
  ASSUME NEW h, Returns(h), UNCHANGED <<necoVars, ckeVars, served>>
  PROVE  Ended(h)
BY DEF Ended, Returns

LEMMA DaemonCases ==
  ASSUME NEW h \in Host, DaemonStep(h) \/ Exit(h) \/ Crash(h) \/ LeaseExpires(h)
  PROVE  \/ Ended(h) \/ LoopStep(h) \/ Start(h) \/ Elected(h) \/ LeaseExpires(h)
         \/ ReadEnabled(h) \/ ReadList(h) \/ ReadQueue(h) \/ ReadGroup(h)
         \/ UpdateProcessingGroup(h) \/ Collect(h)
<1>1. CASE Exit(h) \/ Crash(h)
  BY <1>1 DEF Exit, Crash, Returns, Ended
<1>2. CASE removeCancelledEntry(h)
  <2> DEFINE i == At(h, "CancelledEntry")
             j == rqEntry(h, i)
  <2>1. Turn(h, "CancelledEntry", {}) /\ UNCHANGED served
    BY <1>2 DEF removeCancelledEntry
  <2>2. CASE j # 0 /\ ~half[h] /\ CancelRebootsEntry(j) /\ Halfway(h, j \in DOMAIN queue)
    <3>1. CASE j \in DOMAIN queue
      BY <2>1, <2>2, <3>1 DEF CancelStarts, LoopStep, Halfway
    <3>2. CASE j \notin DOMAIN queue
      BY <2>1, <2>2, <3>2, RequestFails DEF Halfway, CancelRebootsEntry, ckeVars
    <3>3. QED
      BY <3>1, <3>2
  <2>3. CASE RemoveRebootListEntry(h, i) /\ EntryDone(h, "CancelledEntry", leader = h)
    <3>1. CASE leader = h
      BY <2>1, <2>3, <3>1 DEF Removes, LoopStep, EntryDone
    <3>2. CASE leader # h
      BY <2>1, <2>3, <3>2, RequestFails DEF EntryDone, RemoveRebootListEntry, necoVars
    <3>3. QED
      BY <3>1, <3>2
  <2>4. QED
    BY <1>2, <2>2, <2>3 DEF removeCancelledEntry
<1>3. CASE removeCompletedEntry(h)
  <2>1. Turn(h, "CompletedEntry", {}) /\ UNCHANGED served
        /\ RemoveRebootListEntry(h, At(h, "CompletedEntry"))
        /\ EntryDone(h, "CompletedEntry", leader = h)
    BY <1>3 DEF removeCompletedEntry
  <2>2. CASE leader = h
    BY <2>1, <2>2 DEF Removes, LoopStep, EntryDone
  <2>3. CASE leader # h
    BY <2>1, <2>3, RequestFails DEF EntryDone, RemoveRebootListEntry, necoVars
  <2>4. QED
    BY <2>2, <2>3
<1>4. CASE RemoveOrphanedEntry(h)
  <2> DEFINE j == At(h, "OrphanedEntry")
  <2>1. Turn(h, "OrphanedEntry", {}) /\ UNCHANGED served
        /\ CancelRebootsEntry(j) /\ EntryDone(h, "OrphanedEntry", j \in DOMAIN queue)
    BY <1>4 DEF RemoveOrphanedEntry
  <2>2. CASE j \in DOMAIN queue
    BY <2>1, <2>2 DEF CancelsOrphan, LoopStep, EntryDone
  <2>3. CASE j \notin DOMAIN queue
    BY <2>1, <2>3, RequestFails DEF EntryDone, CancelRebootsEntry, ckeVars
  <2>4. QED
    BY <2>2, <2>3
<1>5. CASE addRebootListEntry(h)
  <2> DEFINE i == At(h, "NewEntry")
  <2>1. Turn(h, "NewEntry", {"CompletedEntry"}) /\ UNCHANGED served
    BY <1>5 DEF addRebootListEntry
  <2>2. CASE ~half[h] /\ RegisterRebootsEntry(seen[h].list[i].node) /\ Halfway(h, TRUE)
    BY <2>1, <2>2 DEF Registers, LoopStep
  <2>3. CASE half[h] /\ UpdateRebootListEntry(i, "Queued")
             /\ EntryDone(h, "NewEntry", i \in DOMAIN list)
    <3>1. CASE i \in DOMAIN list
      BY <2>1, <2>3, <3>1 DEF Queues, LoopStep, EntryDone
    <3>2. CASE i \notin DOMAIN list
      BY <2>1, <2>3, <3>2, RequestFails DEF EntryDone, UpdateRebootListEntry, necoVars
    <3>3. QED
      BY <3>1, <3>2
  <2>4. QED
    BY <1>5, <2>2, <2>3 DEF addRebootListEntry
<1>6. ASSUME NEW loop \in {"TimedOutEntry", "QueuedEntry"}, dequeueAndCancelEntry(h, loop)
      PROVE  Ended(h) \/ LoopStep(h)
  <2> DEFINE i == At(h, loop)
             j == rqEntry(h, i)
  <2>1. Turn(h, loop, {"CompletedEntry", "NewEntry"}) /\ UNCHANGED served
    BY <1>6 DEF dequeueAndCancelEntry
  <2>2. CASE ~half[h] /\ UpdateRebootListEntry(i, "Pending") /\ Halfway(h, i \in DOMAIN list)
    <3>1. CASE i \in DOMAIN list
      BY <2>1, <2>2, <3>1 DEF TakesBack, LoopStep, Halfway
    <3>2. CASE i \notin DOMAIN list
      BY <2>1, <2>2, <3>2, RequestFails DEF Halfway, UpdateRebootListEntry, necoVars
    <3>3. QED
      BY <3>1, <3>2
  <2>3. CASE half[h] /\ CancelRebootsEntry(j) /\ EntryDone(h, loop, j \in DOMAIN queue)
    <3>1. CASE j \in DOMAIN queue
      BY <2>1, <2>3, <3>1 DEF CancelsTaken, LoopStep, EntryDone
    <3>2. CASE j \notin DOMAIN queue
      BY <2>1, <2>3, <3>2, RequestFails DEF EntryDone, CancelRebootsEntry, ckeVars
    <3>3. QED
      BY <3>1, <3>2
  <2>4. QED
    BY <1>6, <2>2, <2>3 DEF dequeueAndCancelEntry
<1>7. QED
  BY <1>1, <1>2, <1>3, <1>4, <1>5, <1>6 DEF DaemonStep


----------------------------------------------------------------------------
(* The copies and the keys speak of the same nodes. *)

Live(j) == j \in DOMAIN queue /\ queue[j].status # "cancelled"
Queued(i) == i \in DOMAIN list /\ list[i].status = "Queued"
SeenQueued(h, i) == i \in DOMAIN seen[h].list /\ seen[h].list[i].status = "Queued"

\* Indexes are given once: an entry read earlier has the node of the present
\* entry of its index, if there is one.
SameNodes ==
  \A h \in Host :
    /\ \A i \in DOMAIN list \cap DOMAIN seen[h].list : seen[h].list[i].node = list[i].node
    /\ \A j \in DOMAIN queue \cap DOMAIN seen[h].queue : seen[h].queue[j].node = queue[j].node

NodesKept ==
  /\ \A i \in DOMAIN list' : \/ i \in DOMAIN list /\ list'[i].node = list[i].node
                             \/ i \notin 1 .. writeIndex
  /\ \A j \in DOMAIN queue' : \/ j \in DOMAIN queue /\ queue'[j].node = queue[j].node
                              \/ j \notin 1 .. queueIndex

\* Nothing is queued, registered or brought back to life.
Fewer ==
  /\ \A i : Queued(i)' => Queued(i) /\ list'[i].node = list[i].node
  /\ \A j : Live(j)' => Live(j) /\ queue'[j].node = queue[j].node
  /\ DOMAIN queue' \subseteq DOMAIN queue
  /\ group' = group

LEMMA KeptNodes ==
  ASSUME UNCHANGED <<list, queue>>
  PROVE  NodesKept
BY DEF NodesKept

LEMMA KeptFewer ==
  ASSUME UNCHANGED <<list, queue, group>>
  PROVE  Fewer
BY DEF Fewer, Queued, Live

LEMMA CancelFewer ==
  ASSUME StoreTypes, NEW j, CancelRebootsEntry(j)
  PROVE  /\ Fewer /\ NodesKept /\ ~Live(j)'
         /\ UNCHANGED <<enabled, list, writeIndex, group, queueIndex>>
         /\ DOMAIN queue' = DOMAIN queue
<1>1. /\ DOMAIN queue' = DOMAIN queue
      /\ \A k \in DOMAIN queue : /\ queue'[k].node = queue[k].node
                                 /\ k # j => queue'[k] = queue[k]
      /\ j \in DOMAIN queue => queue'[j].status = "cancelled"
  BY QueueCancels
<1>2. UNCHANGED <<enabled, list, writeIndex, group, queueIndex>>
  BY DEF CancelRebootsEntry, necoVars
<1>3. QED
  BY <1>1, <1>2 DEF Fewer, NodesKept, Live, Queued

LEMMA UpdateNodes ==
  ASSUME StoreTypes, NEW i, NEW status \in Status, UpdateRebootListEntry(i, status)
  PROVE  /\ NodesKept
         /\ status # "Queued" => Fewer
         /\ UNCHANGED <<writeIndex, group, queue, queueIndex>>
         /\ DOMAIN list' = DOMAIN list
         /\ \A k : k # i => (Queued(k)' <=> Queued(k))
         /\ status # "Queued" => ~Queued(i)'
<1>1. /\ DOMAIN list' = DOMAIN list
      /\ \A k \in DOMAIN list : /\ list'[k].node = list[k].node
                                /\ k # i => list'[k] = list[k]
      /\ i \in DOMAIN list => list'[i].status = status
  BY ListWritten
<1>2. UNCHANGED <<writeIndex, group, queue, queueIndex>>
  BY DEF UpdateRebootListEntry, ckeVars
<1>3. QED
  BY <1>1, <1>2 DEF Fewer, NodesKept, Live, Queued

LEMMA RemoveFewer ==
  ASSUME StoreTypes, NEW h, NEW i, RemoveRebootListEntry(h, i)
  PROVE  /\ Fewer /\ NodesKept
         /\ UNCHANGED <<writeIndex, group, queue, queueIndex>>
         /\ DOMAIN list' = DOMAIN list \/ DOMAIN list' = DOMAIN list \ {i}
         /\ \A k \in DOMAIN list' : list'[k] = list[k]
<1>1. UNCHANGED <<writeIndex, group, queue, queueIndex>>
  BY DEF RemoveRebootListEntry, ckeVars
<1>2. list' = list \/ list' = Without(list, i)
  BY DEF RemoveRebootListEntry
<1>3. DOMAIN Without(list, i) = DOMAIN list \ {i}
      /\ \A k \in DOMAIN list \ {i} : Without(list, i)[k] = list[k]
  BY DEF Without
<1>4. /\ DOMAIN list' = DOMAIN list \/ DOMAIN list' = DOMAIN list \ {i}
      /\ \A k \in DOMAIN list' : list'[k] = list[k]
  BY <1>2, <1>3
<1>5. QED
  BY <1>1, <1>4 DEF Fewer, NodesKept, Live, Queued

LEMMA RegisterNodes ==
  ASSUME StoreTypes, NEW n \in Node, RegisterRebootsEntry(n)
  PROVE  /\ NodesKept
         /\ \A i : Queued(i)' => Queued(i) /\ list'[i].node = list[i].node
         /\ \A j : Live(j)' => \/ Live(j) /\ queue'[j].node = queue[j].node
                               \/ queue'[j].node = n
         /\ group' = group
<1>1. /\ queueIndex + 1 \notin DOMAIN queue
      /\ DOMAIN queue' = DOMAIN queue \cup {queueIndex + 1}
      /\ \A j \in DOMAIN queue : queue'[j] = queue[j]
      /\ queue'[queueIndex + 1].node = n
  BY RegisterTyped
<1>2. list' = list /\ group' = group
  BY DEF RegisterRebootsEntry, necoVars
<1>3. queueIndex + 1 \notin 1 .. queueIndex
  BY SMT DEF StoreTypes
<1>4. QED
  BY <1>1, <1>2, <1>3 DEF NodesKept, Live, Queued

LEMMA DisturbedFewer ==
  ASSUME StoreTypes, Disturbed
  PROVE  Fewer /\ NodesKept
<1>1. writeIndex + 1 \notin 1 .. writeIndex
  BY SMT DEF StoreTypes
<1>2. \A i : Queued(i)' => Queued(i) /\ list'[i].node = list[i].node
  BY DEF Disturbed, ListDisturbed, Queued
<1>3. \A j : Live(j)' => Live(j) /\ queue'[j].node = queue[j].node
  BY DEF Disturbed, QueueDisturbed, Live
<1>4. NodesKept
  BY <1>1 DEF NodesKept, Disturbed, ListDisturbed, QueueDisturbed
<1>5. QED
  BY <1>2, <1>3, <1>4 DEF Fewer, Disturbed, QueueDisturbed


LEMMA LoopNames ==
  {"CancelledEntry", "OrphanedEntry", "CompletedEntry", "NewEntry",
   "TimedOutEntry", "QueuedEntry"} = Loops
BY DEF Loops

\* The node that addRebootListEntry is at.
LEMMA NewNode ==
  ASSUME DaemonTypes, NEW h \in Host, LocalInv(h), collection[h]["NewEntry"] # {}
  PROVE  /\ At(h, "NewEntry") \in collection[h]["NewEntry"]
         /\ At(h, "NewEntry") \in DOMAIN seen[h].list
         /\ seen[h].list[At(h, "NewEntry")].node \in Node
<1>1. At(h, "NewEntry") \in collection[h]["NewEntry"]
  BY LoopNames, AtIsLeft
<1>2. At(h, "NewEntry") \in DOMAIN seen[h].list
  BY <1>1 DEF LocalInv
<1>3. seen[h].list[At(h, "NewEntry")] \in Entry
  BY <1>2, SeenTyped, CopyElim
<1>4. seen[h].list[At(h, "NewEntry")].node \in Node
  BY <1>3 DEF Entry
<1>5. QED
  BY <1>1, <1>2, <1>4

\* Where a daemon is that goes through a loop.
LEMMA LoopPlace ==
  ASSUME NEW h \in Host, LocalInv(h), NEW loop \in Loops, collection[h][loop] # {}
  PROVE  /\ rpc[h] \in Deciding \cup {"tick"}
         /\ rpc[h] \in Deciding => loop = "QueuedEntry"
<1>1. collection[h] # NoEntries
  BY NoEntriesIs
<1>2. QED
  BY <1>1 DEF LocalInv

LEMMA LoopEffects ==
  ASSUME StoreTypes, DaemonTypes, NEW h \in Host, LocalInv(h), LoopStep(h)
  PROVE  /\ NodesKept
         /\ Fewer \/ Registers(h) \/ Queues(h)
         /\ UNCHANGED <<leader, rpc, seen, served, group>>
         /\ Running(h)
         /\ rpc[h] = "tick" \/ TakesBack(h, "QueuedEntry") \/ CancelsTaken(h, "QueuedEntry")
<1>1. CASE CancelStarts(h)
  <2>1. collection[h]["CancelledEntry"] # {}
    BY <1>1 DEF CancelStarts, Turn
  <2>2. rpc[h] = "tick"
    BY <2>1, LoopNames, LoopPlace
  <2>3. Fewer /\ NodesKept
    BY <1>1, CancelFewer DEF CancelStarts
  <2>4. QED
    BY <1>1, <2>2, <2>3 DEF CancelStarts, Halfway, Running, CancelRebootsEntry, necoVars
<1>2. ASSUME NEW loop \in {"CancelledEntry", "CompletedEntry"}, Removes(h, loop)
      PROVE  /\ NodesKept /\ Fewer /\ rpc[h] = "tick" /\ Running(h)
             /\ UNCHANGED <<leader, rpc, seen, served, group>>
  <2>1. collection[h][loop] # {} /\ loop \in Loops
    BY <1>2, LoopNames DEF Removes, Turn
  <2>2. rpc[h] = "tick"
    BY <2>1, LoopPlace
  <2>3. Fewer /\ NodesKept /\ group' = group
    BY <1>2, RemoveFewer DEF Removes
  <2>4. QED
    BY <1>2, <2>2, <2>3 DEF Removes, EntryDone, Running
<1>3. CASE CancelsOrphan(h)
  <2>1. collection[h]["OrphanedEntry"] # {}
    BY <1>3 DEF CancelsOrphan, Turn
  <2>2. rpc[h] = "tick"
    BY <2>1, LoopNames, LoopPlace
  <2>3. Fewer /\ NodesKept
    BY <1>3, CancelFewer DEF CancelsOrphan
  <2>4. QED
    BY <1>3, <2>2, <2>3 DEF CancelsOrphan, EntryDone, Running, CancelRebootsEntry, necoVars
<1>4. CASE Registers(h)
  <2>1. collection[h]["NewEntry"] # {}
    BY <1>4 DEF Registers, Turn
  <2>2. rpc[h] = "tick"
    BY <2>1, LoopNames, LoopPlace
  <2>3. NodesKept /\ group' = group
    BY <1>4, <2>1, NewNode, RegisterNodes DEF Registers
  <2>4. QED
    BY <1>4, <2>2, <2>3 DEF Registers, Halfway, Running
<1>5. CASE Queues(h)
  <2>1. collection[h]["NewEntry"] # {} /\ "Queued" \in Status
    BY <1>5 DEF Queues, Turn, Status
  <2>2. rpc[h] = "tick"
    BY <2>1, LoopNames, LoopPlace
  <2>3. NodesKept /\ group' = group
    BY <1>5, <2>1, UpdateNodes DEF Queues
  <2>4. QED
    BY <1>5, <2>2, <2>3 DEF Queues, EntryDone, Running
<1>6. ASSUME NEW loop \in {"TimedOutEntry", "QueuedEntry"},
             TakesBack(h, loop) \/ CancelsTaken(h, loop)
      PROVE  /\ NodesKept /\ Fewer /\ Running(h)
             /\ UNCHANGED <<leader, rpc, seen, served, group>>
             /\ rpc[h] = "tick" \/ TakesBack(h, "QueuedEntry")
                  \/ CancelsTaken(h, "QueuedEntry")
  <2>1. collection[h][loop] # {} /\ loop \in Loops /\ "Pending" \in Status
    BY <1>6, LoopNames DEF TakesBack, CancelsTaken, Turn, Status
  <2>2. rpc[h] \in Deciding \cup {"tick"} /\ (rpc[h] = "tick" \/ loop = "QueuedEntry")
    BY <2>1, LoopPlace
  <2>3. NodesKept /\ Fewer /\ group' = group
    BY <1>6, <2>1, UpdateNodes, CancelFewer DEF TakesBack, CancelsTaken
  <2>4. QED
    BY <1>6, <2>2, <2>3 DEF TakesBack, CancelsTaken, Halfway, EntryDone, Running, Deciding
<1>7. QED
  BY <1>1, <1>2, <1>3, <1>4, <1>5, <1>6 DEF LoopStep


\* What the reads leave behind.
LEMMA ReadCopies ==
  ASSUME DaemonTypes, NEW h \in Host, ReadEnabled(h) \/ ReadList(h) \/ ReadQueue(h)
  PROVE  /\ ReadEnabled(h) => /\ seen'[h].list = EmptyMap /\ seen'[h].queue = EmptyMap
                              /\ rpc'[h] = "list" /\ rpc[h] = "tick"
         /\ ReadList(h) => /\ seen'[h].list = list /\ seen'[h].queue = seen[h].queue
                           /\ rpc'[h] = "queue" /\ rpc[h] = "list"
         /\ ReadQueue(h) => /\ seen'[h].list = seen[h].list /\ seen'[h].queue = queue
                            /\ rpc'[h] = "group" /\ rpc[h] = "queue"
         /\ UNCHANGED <<enabled, list, writeIndex, group, leader, queue, queueIndex,
                        collection, half, served>>
         /\ collection[h] = NoEntries \/ ReadList(h) \/ ReadQueue(h)
<1>1. seen[h] \in Seen(writeIndex, queueIndex)
  BY DEF DaemonTypes
<1>2. \A r \in Seen(writeIndex, queueIndex) : \A v :
        /\ [r EXCEPT !.list = v].list = v /\ [r EXCEPT !.list = v].queue = r.queue
        /\ [r EXCEPT !.queue = v].queue = v /\ [r EXCEPT !.queue = v].list = r.list
  BY SMT DEF Seen
<1>3. \A v : [Nothing EXCEPT !.enabled = v].list = EmptyMap
             /\ [Nothing EXCEPT !.enabled = v].queue = EmptyMap
  BY SMT DEF Nothing
<1>4. UNCHANGED <<enabled, list, writeIndex, group, leader, queue, queueIndex,
                  collection, half, served>>
  BY DEF ReadEnabled, ReadList, ReadQueue, Reads, necoVars, ckeVars
<1>5. ReadEnabled(h) => /\ seen'[h] = [Nothing EXCEPT !.enabled = enabled]
                        /\ rpc'[h] = "list" /\ rpc[h] = "tick" /\ collection[h] = NoEntries
  BY DEF ReadEnabled, Reads, Goto, DaemonTypes
<1>6. ReadList(h) => /\ seen'[h] = [seen[h] EXCEPT !.list = list]
                     /\ rpc'[h] = "queue" /\ rpc[h] = "list"
  BY DEF ReadList, Reads, Goto, DaemonTypes
<1>7. ReadQueue(h) => /\ seen'[h] = [seen[h] EXCEPT !.queue = queue]
                      /\ rpc'[h] = "group" /\ rpc[h] = "queue"
  BY DEF ReadQueue, Reads, Goto, DaemonTypes
<1>8. \A v :
        /\ [seen[h] EXCEPT !.list = v].list = v
        /\ [seen[h] EXCEPT !.list = v].queue = seen[h].queue
        /\ [seen[h] EXCEPT !.queue = v].queue = v
        /\ [seen[h] EXCEPT !.queue = v].list = seen[h].list
  BY <1>1, <1>2, ZenonT(90)
<1>9. ReadEnabled(h) => seen'[h].list = EmptyMap /\ seen'[h].queue = EmptyMap
  BY <1>3, <1>5
<1>10. ReadList(h) => seen'[h].list = list /\ seen'[h].queue = seen[h].queue
  BY <1>6, <1>8
<1>11. ReadQueue(h) => seen'[h].list = seen[h].list /\ seen'[h].queue = queue
  BY <1>7, <1>8
<1>12. QED
  BY <1>4, <1>5, <1>6, <1>7, <1>9, <1>10, <1>11

\* The copies of ReadGroup.
GroupRead(h, back, next) ==
  /\ back = {} \/ back = QueuedEntry(seen[h].list, seen[h].queue)
  /\ next # group => back = QueuedEntry(seen[h].list, seen[h].queue)
  /\ rpc'[h] = IF next = group THEN "collect" ELSE "move"
  /\ seen'[h].group = next
  /\ DOMAIN seen'[h].list = DOMAIN seen[h].list
  /\ DOMAIN seen'[h].queue = DOMAIN seen[h].queue
  /\ \A i \in DOMAIN seen[h].list :
       /\ seen'[h].list[i].node = seen[h].list[i].node
       /\ i \in back => seen'[h].list[i].status = "Pending"
       /\ i \notin back => seen'[h].list[i] = seen[h].list[i]
  /\ \A j \in DOMAIN seen[h].queue :
       /\ seen'[h].queue[j].node = seen[h].queue[j].node
       /\ \/ seen'[h].queue[j] = seen[h].queue[j]
          \/ \E i \in back : j = First(seen[h].queue, seen[h].list[i].node)
  /\ collection' = [collection EXCEPT ![h]["QueuedEntry"] = back]
  /\ UNCHANGED <<half, leader, enabled, list, writeIndex, group, queue, queueIndex, served>>

LEMMA CancelledAt ==
  ASSUME NEW l, NEW q, \A j \in DOMAIN q : q[j] \in QueueEntry, NEW S, NEW j \in DOMAIN q
  PROVE  /\ QueueCancelled(l, q, S)[j].node = q[j].node
         /\ \/ QueueCancelled(l, q, S)[j] = q[j]
            \/ \E i \in S : j = First(q, l[i].node)
<1>1. [q[j] EXCEPT !.status = "cancelled"].node = q[j].node
  <2>1. \A e \in QueueEntry : [e EXCEPT !.status = "cancelled"].node = e.node
    BY SMT DEF QueueEntry
  <2>2. QED
    BY <2>1
<1>2. QED
  BY <1>1, Zenon DEF QueueCancelled

LEMMA ReadGroupCopies ==
  ASSUME DaemonTypes, NEW h \in Host, ReadGroup(h)
  PROVE  \E back, next : GroupRead(h, back, next)
<1> DEFINE l == seen[h].list
           q == seen[h].queue
<1>1. PICK back, next, order :
        /\ back = {} \/ back = QueuedEntry(l, q)
        /\ next # group => back = QueuedEntry(l, q)
        /\ seen'[h].list = ListDequeued(l, back)
        /\ seen'[h].queue = QueueCancelled(l, q, back)
        /\ seen'[h].group = next
        /\ rpc'[h] = IF next = group THEN "collect" ELSE "move"
        /\ collection' = [collection EXCEPT ![h]["QueuedEntry"] = back]
        /\ UNCHANGED <<half, leader, necoVars, ckeVars, within, cancelling, served>>
  BY ReadGroupIs
<1>2. (\A i \in DOMAIN l : l[i] \in Entry) /\ (\A j \in DOMAIN q : q[j] \in QueueEntry)
  BY SeenTyped, CopyElim
<1> HIDE DEF l, q
<1>3. /\ DOMAIN ListDequeued(l, back) = DOMAIN l
      /\ \A i \in DOMAIN l :
              /\ ListDequeued(l, back)[i].node = l[i].node
              /\ i \in back => ListDequeued(l, back)[i].status = "Pending"
              /\ i \notin back => ListDequeued(l, back)[i] = l[i]
  BY <1>2, DequeuedIs
<1>4. /\ DOMAIN QueueCancelled(l, q, back) = DOMAIN q
      /\ \A j \in DOMAIN q :
              /\ QueueCancelled(l, q, back)[j].node = q[j].node
              /\ \/ QueueCancelled(l, q, back)[j] = q[j]
                 \/ \E i \in back : j = First(q, l[i].node)
  <2>1. QueueCancelled(l, q, back) \in [DOMAIN q -> QueueEntry]
    BY <1>2, CancelledIs
  <2>2. DOMAIN QueueCancelled(l, q, back) = DOMAIN q
    BY <2>1
  <2>3. ASSUME NEW j \in DOMAIN q
        PROVE  /\ QueueCancelled(l, q, back)[j].node = q[j].node
               /\ \/ QueueCancelled(l, q, back)[j] = q[j]
                  \/ \E i \in back : j = First(q, l[i].node)
    <3>1. \A k \in DOMAIN q : q[k] \in QueueEntry
      BY <1>2
    <3>2. QED
      BY <3>1, CancelledAt, SMTT(30)
  <2>4. QED
    BY <2>2, <2>3
<1>5. /\ DOMAIN seen'[h].list = DOMAIN l
      /\ \A i \in DOMAIN l :
              /\ seen'[h].list[i].node = l[i].node
              /\ i \in back => seen'[h].list[i].status = "Pending"
              /\ i \notin back => seen'[h].list[i] = l[i]
  BY <1>1, <1>3
<1>6. /\ DOMAIN seen'[h].queue = DOMAIN q
      /\ \A j \in DOMAIN q :
              /\ seen'[h].queue[j].node = q[j].node
              /\ \/ seen'[h].queue[j] = q[j]
                 \/ \E i \in back : j = First(q, l[i].node)
  BY <1>1, <1>4
<1> USE DEF l, q
<1>7. /\ back = {} \/ back = QueuedEntry(seen[h].list, seen[h].queue)
      /\ next # group => back = QueuedEntry(seen[h].list, seen[h].queue)
      /\ rpc'[h] = IF next = group THEN "collect" ELSE "move"
      /\ seen'[h].group = next
      /\ collection' = [collection EXCEPT ![h]["QueuedEntry"] = back]
      /\ UNCHANGED <<half, leader, enabled, list, writeIndex, group, queue, queueIndex,
                     served>>
  BY <1>1 DEF necoVars, ckeVars
<1>8. GroupRead(h, back, next)
  BY <1>5, <1>6, <1>7 DEF GroupRead
<1>9. QED
  BY <1>8

\* Every entry of a copy was there before or has just been read.
SeenFrom(x) ==
  /\ \A i \in DOMAIN seen'[x].list :
       \/ i \in DOMAIN seen[x].list /\ seen'[x].list[i].node = seen[x].list[i].node
       \/ i \in DOMAIN list /\ seen'[x].list[i].node = list[i].node
  /\ \A j \in DOMAIN seen'[x].queue :
       \/ j \in DOMAIN seen[x].queue /\ seen'[x].queue[j].node = seen[x].queue[j].node
       \/ j \in DOMAIN queue /\ seen'[x].queue[j].node = queue[j].node

LEMMA SameNodesStep ==
  ASSUME StoreTypes, DaemonTypes, SameNodes, NodesKept, \A x \in Host : SeenFrom(x)
  PROVE  SameNodes'
<1> SUFFICES ASSUME NEW x \in Host
             PROVE  /\ \A i \in DOMAIN list' \cap DOMAIN seen'[x].list :
                         seen'[x].list[i].node = list'[i].node
                    /\ \A j \in DOMAIN queue' \cap DOMAIN seen'[x].queue :
                         seen'[x].queue[j].node = queue'[j].node
  BY DEF SameNodes
<1>1. DOMAIN seen[x].list \subseteq 1 .. writeIndex
      /\ DOMAIN seen[x].queue \subseteq 1 .. queueIndex
  BY SeenTyped, CopyElim
<1>2. DOMAIN list \subseteq 1 .. writeIndex /\ DOMAIN queue \subseteq 1 .. queueIndex
  BY CopyElim DEF StoreTypes
<1>3. SeenFrom(x)
  OBVIOUS
<1>4. \A i \in DOMAIN list' \cap DOMAIN seen'[x].list :
        seen'[x].list[i].node = list'[i].node
  BY <1>1, <1>2, <1>3, ZenonT(90) DEF SeenFrom, NodesKept, SameNodes
<1>5. \A j \in DOMAIN queue' \cap DOMAIN seen'[x].queue :
        seen'[x].queue[j].node = queue'[j].node
  BY <1>1, <1>2, <1>3 DEF SeenFrom, NodesKept, SameNodes
<1>6. QED
  BY <1>4, <1>5

LEMMA SeenKept ==
  ASSUME NEW x, seen'[x] = seen[x]
  PROVE  SeenFrom(x)
BY DEF SeenFrom

LEMMA SameNodesDaemon ==
  ASSUME TypeInv, SameNodes, NEW h \in Host,
         DaemonStep(h) \/ Exit(h) \/ Crash(h) \/ LeaseExpires(h)
  PROVE  SameNodes'
<1>1. StoreTypes /\ DaemonTypes /\ LocalInv(h)
  BY TypeParts DEF TypeInv
<1>2. \A x \in Host \ {h} : SeenFrom(x)
  BY <1>1, OthersAreKept, SeenKept DEF OthersKept
<1>3. NodesKept /\ SeenFrom(h)
  <2>1. CASE LoopStep(h)
    BY <1>1, <2>1, LoopEffects, SeenKept
  <2>2. CASE Start(h) \/ Elected(h) \/ LeaseExpires(h) \/ UpdateProcessingGroup(h) \/ Collect(h)
    BY <2>2, KeptNodes, SeenKept
    DEF Start, Elected, LeaseExpires, UpdateProcessingGroup, Collect, necoVars, ckeVars
  <2>3. CASE Ended(h)
    <3>1. UNCHANGED <<list, queue>> /\ seen'[h] = Nothing
      BY <1>1, <2>3 DEF Ended, Gone, necoVars, ckeVars, DaemonTypes
    <3>2. DOMAIN Nothing.list = {} /\ DOMAIN Nothing.queue = {}
      BY SMT DEF Nothing, EmptyMap
    <3>3. QED
      BY <3>1, <3>2, KeptNodes DEF SeenFrom
  <2>4. CASE ReadEnabled(h) \/ ReadList(h) \/ ReadQueue(h)
    <3>1. DOMAIN EmptyMap = {}
      BY DEF EmptyMap
    <3>2. QED
      BY <1>1, <2>4, <3>1, ReadCopies, KeptNodes DEF SeenFrom
  <2>5. CASE ReadGroup(h)
    <3>1. /\ DOMAIN seen'[h].list = DOMAIN seen[h].list
          /\ DOMAIN seen'[h].queue = DOMAIN seen[h].queue
          /\ \A i \in DOMAIN seen[h].list : seen'[h].list[i].node = seen[h].list[i].node
          /\ \A j \in DOMAIN seen[h].queue : seen'[h].queue[j].node = seen[h].queue[j].node
          /\ UNCHANGED <<list, queue>>
      BY <1>1, <2>5, ReadGroupCopies DEF GroupRead
    <3>2. QED
      BY <3>1, KeptNodes DEF SeenFrom
  <2>6. QED
    BY <2>1, <2>2, <2>3, <2>4, <2>5, DaemonCases
<1>4. QED
  BY <1>1, <1>2, <1>3, SameNodesStep

LEMMA SameNodesEnvironment ==
  ASSUME TypeInv, SameNodes, Environment
  PROVE  SameNodes'
<1>1. StoreTypes /\ DaemonTypes
  BY TypeParts DEF TypeInv
<1>2. Disturbed
  BY <1>1, EnvironmentDisturbs
<1>3. NodesKept /\ seen' = seen
  BY <1>1, <1>2, DisturbedFewer DEF Disturbed, daemonVars
<1>4. QED
  BY <1>1, <1>3, SeenKept, SameNodesStep


----------------------------------------------------------------------------
(* One leader at a time: a process that runs owns the election key. *)

Alone(h) == Running(h) => leader = h

LEMMA AloneDaemon ==
  ASSUME ~Overlap, DaemonTypes, \A x \in Host : Alone(x), NEW h \in Host,
         DaemonStep(h) \/ Exit(h) \/ Crash(h) \/ LeaseExpires(h), TypeInv
  PROVE  \A x \in Host : Alone(x)'
<1>1. \A x \in Host \ {h} : rpc'[x] = rpc[x]
  BY OthersAreKept DEF OthersKept
<1>2. NoHost \notin Host
  BY RebooterAssumption
<1>3. CASE leader' = leader /\ (Running(h)' => Running(h))
  BY <1>1, <1>3 DEF Alone, Running
<1>4. CASE Elected(h)
  <2>1. leader = NoHost /\ leader' = h
    BY <1>4 DEF Elected
  <2>2. QED
    BY <1>1, <1>2, <2>1 DEF Alone, Running
<1>5. CASE Ended(h) \/ LeaseExpires(h)
  <2>1. ~Running(h)' \/ LeaseExpires(h)
    BY <1>5 DEF Ended, Gone, Goto, Running, DaemonTypes
  <2>2. ~Running(h)'
    BY <2>1 DEF LeaseExpires, Running
  <2>3. \A x \in Host \ {h} : Running(x) => leader' = leader
    BY <1>2, <1>5 DEF Ended, LeaseExpires, Alone
  <2>4. QED
    BY <1>1, <2>2, <2>3 DEF Alone, Running
<1>6. CASE LoopStep(h)
  <2>1. UNCHANGED <<leader, rpc>>
    BY <1>6, TypeParts, LoopEffects DEF TypeInv
  <2>2. QED
    BY <1>3, <2>1 DEF Running
<1>7. CASE Start(h)
  <2>1. leader' = leader /\ rpc'[h] = "campaign"
    BY <1>7 DEF Start, Goto, DaemonTypes
  <2>2. QED
    BY <1>3, <2>1 DEF Running
<1>8. CASE ReadEnabled(h) \/ ReadList(h) \/ ReadQueue(h) \/ ReadGroup(h)
           \/ UpdateProcessingGroup(h) \/ Collect(h)
  <2>1. leader' = leader /\ Running(h)
    BY <1>8 DEF ReadEnabled, ReadList, ReadQueue, Reads, ReadGroup,
                UpdateProcessingGroup, Collect, Running
  <2>2. QED
    BY <1>3, <2>1
<1>9. QED
  BY <1>4, <1>5, <1>6, <1>7, <1>8, DaemonCases

----------------------------------------------------------------------------
(* What a daemon has read, against what is there. *)

\* The copies miss nothing that is queued, except what the daemon itself is
\* about to take back.
CopyInv(h) ==
  /\ rpc[h] \in ListRead =>
       \A i \in DOMAIN list : Queued(i) =>
         /\ i \in DOMAIN seen[h].list
         /\ SeenQueued(h, i) \/ i \in collection[h]["QueuedEntry"]
  /\ rpc[h] \in Deciding /\ half[h] => ~Queued(At(h, "QueuedEntry"))
  /\ rpc[h] \in QueueRead => DOMAIN queue \subseteq DOMAIN seen[h].queue

\* What is queued for an entry belongs to the group, unless the group is about
\* to be left; then there is nothing of the kind.
GroupInv(h) ==
  /\ rpc[h] \in {"queue", "group", "collect"} =>
       \A i \in DOMAIN seen[h].list : \A j \in DOMAIN queue :
         SeenQueued(h, i) /\ Live(j) /\ seen[h].list[i].node = queue[j].node =>
           GroupOf[queue[j].node] = group
  /\ rpc[h] = "move" =>
       \A i \in DOMAIN seen[h].list : \A j \in DOMAIN seen[h].queue :
         SeenQueued(h, i) => seen[h].list[i].node # seen[h].queue[j].node
  /\ rpc[h] \in QueueRead =>
       \A j \in DOMAIN queue : Live(j) =>
         \/ seen[h].queue[j].status # "cancelled"
         \/ \E i \in collection[h]["QueuedEntry"] : j = rqEntry(h, i)
  /\ rpc[h] = "collect" => seen[h].group = group
  /\ collection[h]["NewEntry"] # {} =>
       \A j \in DOMAIN queue : Live(j) => GroupOf[queue[j].node] = group
  /\ \A i \in collection[h]["NewEntry"] : GroupOf[seen[h].list[i].node] = group

QueuedInGroup ==
  \A i \in DOMAIN list : \A j \in DOMAIN queue :
    Queued(i) /\ Live(j) /\ list[i].node = queue[j].node =>
      GroupOf[queue[j].node] = group

\* A daemon that is not in runOnce has no view that could be wrong.
LEMMA GroupIdle ==
  ASSUME NEW h \in Host, rpc'[h] \notin ListRead, collection'[h]["NewEntry"] = {}
  PROVE  CopyInv(h)' /\ GroupInv(h)'
BY DEF CopyInv, GroupInv, ListRead, QueueRead, Deciding

\* Whatever it has read, fewer entries do not hurt.
LEMMA GroupFewer ==
  ASSUME NEW h \in Host, CopyInv(h), GroupInv(h), Fewer, rpc'[h] = rpc[h],
         seen'[h] = seen[h], collection'[h] = collection[h], half'[h] = half[h]
  PROVE  CopyInv(h)' /\ GroupInv(h)'
<1>1. At(h, "QueuedEntry")' = At(h, "QueuedEntry")
  BY DEF At
<1>2. \A i : rqEntry(h, i)' = rqEntry(h, i) /\ (SeenQueued(h, i)' <=> SeenQueued(h, i))
  BY DEF rqEntry, SeenQueued
<1>3. /\ \A i : Queued(i)' => Queued(i) /\ list'[i].node = list[i].node
      /\ \A j : Live(j)' => Live(j) /\ queue'[j].node = queue[j].node
      /\ DOMAIN queue' \subseteq DOMAIN queue /\ group' = group
  BY DEF Fewer
<1>4. CopyInv(h)'
  BY <1>1, <1>2, <1>3 DEF CopyInv, Queued
<1>5. GroupInv(h)'
  <2>1. ASSUME rpc[h] \in {"queue", "group", "collect"}, NEW i \in DOMAIN seen[h].list,
               NEW j \in DOMAIN queue', SeenQueued(h, i), Live(j)',
               seen[h].list[i].node = queue'[j].node
        PROVE  GroupOf[queue'[j].node] = group
    BY <1>3, <2>1 DEF GroupInv
  <2>2. ASSUME rpc[h] \in QueueRead, NEW j \in DOMAIN queue', Live(j)'
        PROVE  \/ seen[h].queue[j].status # "cancelled"
               \/ \E i \in collection[h]["QueuedEntry"] : j = rqEntry(h, i)
    BY <1>3, <2>2 DEF GroupInv
  <2>3. ASSUME collection[h]["NewEntry"] # {}, NEW j \in DOMAIN queue', Live(j)'
        PROVE  GroupOf[queue'[j].node] = group
    BY <1>3, <2>3 DEF GroupInv
  <2>4. QED
    BY SMTT(30), <1>2, <1>3, <2>1, <2>2, <2>3 DEF GroupInv
<1>6. QED
  BY <1>4, <1>5

\* The second half of runOnce no longer uses the copies of the queue.
LEMMA GroupFewerLoop ==
  ASSUME NEW h \in Host, GroupInv(h), Fewer, rpc'[h] \notin ListRead,
         seen'[h] = seen[h],
         collection'[h]["NewEntry"] \subseteq collection[h]["NewEntry"]
  PROVE  CopyInv(h)' /\ GroupInv(h)'
<1>1. /\ \A j : Live(j)' => Live(j) /\ queue'[j].node = queue[j].node
      /\ DOMAIN queue' \subseteq DOMAIN queue /\ group' = group
  BY DEF Fewer
<1>2. CopyInv(h)'
  BY DEF CopyInv, ListRead, QueueRead, Deciding
<1>3. QED
  BY <1>1, <1>2 DEF GroupInv, ListRead, QueueRead

LEMMA QueuedInGroupFewer ==
  ASSUME QueuedInGroup, OneGroupAtATime, Fewer
  PROVE  QueuedInGroup' /\ OneGroupAtATime'
<1>1. /\ \A i : Queued(i)' => Queued(i) /\ list'[i].node = list[i].node
      /\ \A j : Live(j)' => Live(j) /\ queue'[j].node = queue[j].node
      /\ group' = group
  BY DEF Fewer
<1>2. QueuedInGroup'
  BY <1>1 DEF QueuedInGroup, Queued, Live
<1>3. OneGroupAtATime'
  <2>1. \A j, k : Live(j) /\ Live(k) => GroupOf[queue[j].node] = GroupOf[queue[k].node]
    BY DEF OneGroupAtATime, Live
  <2>2. ASSUME NEW j, NEW k, Live(j)', Live(k)'
        PROVE  GroupOf[queue'[j].node] = GroupOf[queue'[k].node]
    <3>1. /\ Live(j) /\ queue'[j].node = queue[j].node
          /\ Live(k) /\ queue'[k].node = queue[k].node
      BY <1>1, <2>2
    <3>2. QED
      BY <2>1, <3>1
  <2>3. QED
    BY <2>2 DEF OneGroupAtATime, Live
<1>4. QED
  BY <1>2, <1>3


\* The reads.
LEMMA GroupReads ==
  ASSUME DaemonTypes, NEW h \in Host, LocalInv(h), CopyInv(h), GroupInv(h), QueuedInGroup,
         ReadEnabled(h) \/ ReadList(h) \/ ReadQueue(h)
  PROVE  CopyInv(h)' /\ GroupInv(h)'
<1>1. UNCHANGED <<list, group, queue, collection, half>>
  BY ReadCopies
<1>2. collection[h] = NoEntries
  BY ReadCopies DEF LocalInv, Deciding
<1>3. collection'[h]["NewEntry"] = {} /\ collection'[h]["QueuedEntry"] = {}
  BY <1>1, <1>2, NoEntriesIs
<1>4. \A i, j : (Queued(i)' <=> Queued(i)) /\ (Live(j)' <=> Live(j))
  BY <1>1 DEF Queued, Live
<1>5. CASE ReadEnabled(h)
  BY <1>3, <1>5, ReadCopies, GroupIdle DEF ListRead
<1>6. CASE ReadList(h)
  <2>1. rpc'[h] = "queue" /\ seen'[h].list = list
    BY <1>6, ReadCopies
  <2>2. CopyInv(h)'
    BY <1>1, <1>4, <2>1 DEF CopyInv, SeenQueued, Queued, QueueRead, Deciding
  <2>3. GroupInv(h)'
    BY <1>1, <1>3, <1>4, <2>1 DEF GroupInv, SeenQueued, Queued, QueueRead, QueuedInGroup
  <2>4. QED
    BY <2>2, <2>3
<1>7. CASE ReadQueue(h)
  <2>1. rpc'[h] = "group" /\ rpc[h] = "queue"
        /\ seen'[h].list = seen[h].list /\ seen'[h].queue = queue
    BY <1>7, ReadCopies
  <2>2. \A i : SeenQueued(h, i)' <=> SeenQueued(h, i)
    BY <2>1 DEF SeenQueued
  <2>3. CopyInv(h)'
    BY <1>1, <1>4, <2>1, <2>2 DEF CopyInv, ListRead, QueueRead, Deciding
  <2>4. GroupInv(h)'
    <3>1. \A i \in DOMAIN seen'[h].list : \A j \in DOMAIN queue' :
            SeenQueued(h, i)' /\ Live(j)' /\ seen'[h].list[i].node = queue'[j].node =>
              GroupOf[queue'[j].node] = group'
      BY SMTT(30), <1>1, <1>4, <2>1, <2>2 DEF GroupInv
    <3>2. \A j \in DOMAIN queue' : Live(j)' => seen'[h].queue[j].status # "cancelled"
      BY <1>1, <2>1 DEF Live
    <3>3. QED
      BY <1>3, <2>1, <3>1, <3>2 DEF GroupInv
  <2>5. QED
    BY <2>3, <2>4
<1>8. QED
  BY <1>5, <1>6, <1>7

\* ReadGroup takes back what would be of another group.
LEMMA GroupReadGroup ==
  ASSUME DaemonTypes, NEW h \in Host, LocalInv(h), CopyInv(h), GroupInv(h), ReadGroup(h)
  PROVE  CopyInv(h)' /\ GroupInv(h)'
<1> DEFINE l == seen[h].list
           q == seen[h].queue
<1>1. PICK back, next : GroupRead(h, back, next)
  BY ReadGroupCopies
<1>2. rpc[h] = "group"
  BY DEF ReadGroup
<1>3. collection[h] = NoEntries /\ half[h] = FALSE
  BY <1>2 DEF LocalInv, Deciding, DaemonTypes
<1>4. /\ collection'[h]["QueuedEntry"] = back
      /\ collection'[h]["NewEntry"] = {}
  BY <1>1, <1>3, NoEntriesIs, LoopNames DEF GroupRead, DaemonTypes, NoEntries
<1>5. UNCHANGED <<list, group, queue>> /\ half'[h] = FALSE
  BY <1>1, <1>3 DEF GroupRead
<1>6. \A i, j : (Queued(i)' <=> Queued(i)) /\ (Live(j)' <=> Live(j))
  BY <1>5 DEF Queued, Live
<1>7. \A i : SeenQueued(h, i)' <=> SeenQueued(h, i) /\ i \notin back
  BY <1>1 DEF GroupRead, SeenQueued
<1>8. \A i : Queued(i) => SeenQueued(h, i)
  BY <1>2, <1>3, NoEntriesIs DEF CopyInv, ListRead, Queued
<1>9. CopyInv(h)'
  <2>1. DOMAIN queue \subseteq DOMAIN q
    BY <1>2 DEF CopyInv, QueueRead
  <2>2. DOMAIN queue' \subseteq DOMAIN seen'[h].queue
    BY <1>1, <1>5, <2>1 DEF GroupRead
  <2>3. \A i : Queued(i)' => i \in DOMAIN seen'[h].list
    BY <1>1, <1>6, <1>8 DEF GroupRead, SeenQueued
  <2>4. QED
    BY <1>4, <1>5, <1>6, <1>7, <1>8, <2>2, <2>3 DEF CopyInv
<1>10. ASSUME NEW i \in DOMAIN seen'[h].list, NEW j \in DOMAIN queue',
              SeenQueued(h, i)', Live(j)', seen'[h].list[i].node = queue'[j].node
       PROVE  GroupOf[queue'[j].node] = group'
  <2>1. i \in DOMAIN l /\ seen'[h].list[i].node = l[i].node
    BY <1>1, <1>10 DEF GroupRead
  <2>2. QED
    BY <1>2, <1>5, <1>6, <1>7, <1>10, <2>1 DEF GroupInv
<1>11. ASSUME rpc'[h] = "move", NEW i \in DOMAIN seen'[h].list,
              NEW j \in DOMAIN seen'[h].queue, SeenQueued(h, i)'
       PROVE  seen'[h].list[i].node # seen'[h].queue[j].node
  <2>1. /\ i \in DOMAIN l /\ seen'[h].list[i].node = l[i].node
        /\ j \in DOMAIN q /\ seen'[h].queue[j].node = q[j].node
        /\ back = QueuedEntry(l, q)
    BY <1>1, <1>11 DEF GroupRead
  <2>2. l[i].status = "Queued" /\ i \notin back
    BY <1>7, <1>11 DEF SeenQueued
  <2>3. First(q, l[i].node) = 0
    BY <2>1, <2>2 DEF QueuedEntry
  <2>4. DOMAIN q \subseteq Nat \ {0}
    BY SeenTyped, IndexesPositive
  <2>5. q[j].node # l[i].node
    BY <2>1, <2>3, <2>4, FirstFinds
  <2>6. QED
    BY <2>1, <2>5
<1>12. ASSUME NEW j \in DOMAIN queue', Live(j)'
       PROVE  \/ seen'[h].queue[j].status # "cancelled"
              \/ \E i \in collection'[h]["QueuedEntry"] : j = rqEntry(h, i)'
  <2>1. j \in DOMAIN q /\ q[j].status # "cancelled"
    BY <1>2, <1>3, <1>5, <1>6, <1>12, NoEntriesIs DEF CopyInv, GroupInv, QueueRead
  <2>2. seen'[h].queue[j] = q[j] \/ \E i \in back : j = First(q, l[i].node)
    BY <1>1, <2>1 DEF GroupRead
  <2>3. \A i \in back : rqEntry(h, i)' = First(q, l[i].node)
    <3> TAKE i \in back
    <3>1. i \in DOMAIN l
      BY <1>1 DEF GroupRead, QueuedEntry
    <3>2. seen'[h].list[i].node = l[i].node
      BY <1>1, <3>1 DEF GroupRead
    <3>3. DOMAIN seen'[h].queue = DOMAIN q
          /\ \A k \in DOMAIN q : seen'[h].queue[k].node = q[k].node
      BY <1>1 DEF GroupRead
    <3>4. {k \in DOMAIN seen'[h].queue : seen'[h].queue[k].node = l[i].node}
            = {k \in DOMAIN q : q[k].node = l[i].node}
      BY <3>3
    <3>5. First(seen'[h].queue, l[i].node) = First(q, l[i].node)
      BY <3>4 DEF First
    <3>6. QED
      BY <3>2, <3>5 DEF rqEntry
  <2>4. QED
    BY <1>4, <2>1, <2>2, <2>3
<1>13. rpc'[h] = "collect" => seen'[h].group = group'
  BY <1>1, <1>5 DEF GroupRead
<1>14. rpc'[h] \in {"collect", "move"}
  BY <1>1 DEF GroupRead
<1>15. GroupInv(h)'
  BY <1>4, <1>10, <1>11, <1>12, <1>13, <1>14 DEF GroupInv
<1>16. QED
  BY <1>9, <1>15


\* When the group is left, nothing that lives in the queue is of a queued entry.
LEMMA GroupMoves ==
  ASSUME DaemonTypes, NEW h \in Host, LocalInv(h), CopyInv(h), GroupInv(h), SameNodes,
         UpdateProcessingGroup(h)
  PROVE  CopyInv(h)' /\ GroupInv(h)' /\ QueuedInGroup'
<1>1. /\ rpc[h] = "move" /\ rpc'[h] = "collect" /\ collection[h] = NoEntries
      /\ group' = seen[h].group
      /\ UNCHANGED <<list, queue, seen, collection, half>>
  BY DEF UpdateProcessingGroup, Goto, DaemonTypes, ckeVars
<1>2. half[h] = FALSE
  BY <1>1 DEF LocalInv, DaemonTypes
<1>3. collection[h]["NewEntry"] = {} /\ collection[h]["QueuedEntry"] = {}
  BY <1>1, NoEntriesIs
<1>4. \A i, j : (Queued(i)' <=> Queued(i)) /\ (Live(j)' <=> Live(j))
                /\ (SeenQueued(h, i)' <=> SeenQueued(h, i)) /\ rqEntry(h, j)' = rqEntry(h, j)
  BY <1>1 DEF Queued, Live, SeenQueued, rqEntry
<1>5. /\ \A i : Queued(i) => SeenQueued(h, i)
      /\ DOMAIN queue \subseteq DOMAIN seen[h].queue
  BY <1>1, <1>3 DEF CopyInv, ListRead, QueueRead, Queued
<1>6. ASSUME NEW i, NEW j \in DOMAIN queue, SeenQueued(h, i)
      PROVE  seen[h].list[i].node # queue[j].node
  <2>1. i \in DOMAIN seen[h].list /\ j \in DOMAIN seen[h].queue
    BY <1>5, <1>6 DEF SeenQueued
  <2>2. seen[h].queue[j].node = queue[j].node
    BY <2>1 DEF SameNodes
  <2>3. seen[h].list[i].node # seen[h].queue[j].node
    BY <1>1, <1>6, <2>1 DEF GroupInv
  <2>4. QED
    BY <2>2, <2>3
<1>7. CopyInv(h)'
  <2>1. \A i : Queued(i)' => i \in DOMAIN seen'[h].list /\ SeenQueued(h, i)'
    BY <1>1, <1>4, <1>5 DEF SeenQueued
  <2>2. half'[h] = FALSE /\ DOMAIN queue' \subseteq DOMAIN seen'[h].queue
    BY <1>1, <1>2, <1>5
  <2>3. QED
    BY <2>1, <2>2 DEF CopyInv
<1>8. GroupInv(h)'
  <2>1. ASSUME NEW i \in DOMAIN seen'[h].list, NEW j \in DOMAIN queue', SeenQueued(h, i)'
        PROVE  seen'[h].list[i].node # queue'[j].node
    BY <1>1, <1>4, <1>6, <2>1
  <2>2. ASSUME NEW j \in DOMAIN queue', Live(j)' PROVE seen'[h].queue[j].status # "cancelled"
    BY <1>1, <1>3, <1>4, <2>2 DEF GroupInv, QueueRead
  <2>3. rpc'[h] = "collect" /\ collection'[h]["NewEntry"] = {} /\ seen'[h].group = group'
    BY <1>1, <1>3
  <2>4. QED
    BY <2>1, <2>2, <2>3 DEF GroupInv
<1>9. QueuedInGroup'
  <2> SUFFICES ASSUME NEW i \in DOMAIN list, NEW j \in DOMAIN queue, Queued(i)
               PROVE  list[i].node # queue[j].node
    BY <1>1, <1>4 DEF QueuedInGroup
  <2>1. SeenQueued(h, i)
    BY <1>5
  <2>2. seen[h].list[i].node = list[i].node
    BY <2>1 DEF SameNodes, SeenQueued
  <2>3. QED
    BY <1>6, <2>1, <2>2
<1>10. QED
  BY <1>7, <1>8, <1>9

\* collectEntries: without cancelled and orphaned entries every entry of the
\* queue that lives is of a queued entry, hence of the group.
LEMMA GroupCollects ==
  ASSUME TypeInv, NEW h \in Host, CopyInv(h), GroupInv(h), SameNodes, Collect(h)
  PROVE  CopyInv(h)' /\ GroupInv(h)'
<1> DEFINE l == seen[h].list
           q == seen[h].queue
           c == Collected(l, q, seen[h].group, seen[h].enabled)
<1>1. DaemonTypes
  BY TypeParts DEF TypeInv
<1>2. /\ rpc'[h] = "tick" /\ collection'[h] = c
      /\ UNCHANGED <<group, queue, seen>>
  BY CollectLocal DEF necoVars, ckeVars
<1>3. rpc[h] = "collect" /\ collection[h] = NoEntries
  BY DEF Collect
<1>4. CopyInv(h)'
  BY <1>2 DEF CopyInv, ListRead, QueueRead, Deciding
<1>5. seen[h].enabled \in BOOLEAN /\ DOMAIN l \subseteq Nat \ {0}
  BY <1>1, SeenTyped, IndexesPositive
<1>6. ASSUME c["NewEntry"] # {}
      PROVE  /\ CancelledEntry(l) = {} /\ OrphanedEntry(l, q) = {}
             /\ c["NewEntry"] \subseteq NewEntry(l, q, seen[h].group)
  <2>1. "NewEntry" \in Loops \ {"CancelledEntry"} /\ "NewEntry" \in Loops \ {"OrphanedEntry"}
    BY LoopNames
  <2> HIDE DEF l, q
  <2>2. /\ CancelledEntry(l) # {} =>
             \A loop \in Loops \ {"CancelledEntry"} : c[loop] = {}
        /\ CancelledEntry(l) = {} /\ OrphanedEntry(l, q) # {} =>
             \A loop \in Loops \ {"OrphanedEntry"} : c[loop] = {}
        /\ CancelledEntry(l) = {} /\ OrphanedEntry(l, q) = {} =>
             c["NewEntry"] = IF seen[h].enabled THEN NewEntry(l, q, seen[h].group) ELSE {}
    <3>1. /\ CancelledEntry(l) # {} =>
               \A loop \in Loops \ {"CancelledEntry"} : c[loop] = {}
          /\ CancelledEntry(l) = {} /\ OrphanedEntry(l, q) # {} =>
               \A loop \in Loops \ {"OrphanedEntry"} : c[loop] = {}
      BY <1>5, CollectedIs
    <3>2. CancelledEntry(l) = {} /\ OrphanedEntry(l, q) = {} =>
            c["NewEntry"] = IF seen[h].enabled THEN NewEntry(l, q, seen[h].group) ELSE {}
      BY SMT, <1>5, CollectedIs
    <3>3. QED
      BY <3>1, <3>2
  <2>3. QED
    BY <1>6, <2>1, <2>2
<1>7. ASSUME c["NewEntry"] # {}, NEW j \in DOMAIN queue, Live(j)
      PROVE  GroupOf[queue[j].node] = group
  <2>1. j \in DOMAIN q /\ q[j].status # "cancelled"
    BY <1>3, <1>7, NoEntriesIs DEF CopyInv, GroupInv, QueueRead
  <2>2. q[j].node = queue[j].node
    BY <2>1 DEF SameNodes
  <2> DEFINE i == First(l, q[j].node)
  <2>3. i # 0 /\ l[i].status # "Pending"
    BY <1>6, <1>7, <2>1 DEF OrphanedEntry
  <2>4. i \in DOMAIN l /\ l[i].node = q[j].node
    BY <1>5, <2>3, FirstFinds
  <2>5. l[i].status # "Cancelled"
    BY <1>6, <1>7, <2>4 DEF CancelledEntry
  <2>6. l[i] \in Entry
    BY <1>1, <2>4, SeenTyped, CopyElim
  <2> HIDE DEF i
  <2>7. l[i].status = "Queued"
    BY <2>3, <2>5, <2>6 DEF Entry
  <2>8. QED
    BY <1>3, <1>7, <2>2, <2>4, <2>7 DEF GroupInv, SeenQueued
<1>8. ASSUME NEW i \in c["NewEntry"]
      PROVE  GroupOf[l[i].node] = group
  <2>1. GroupOf[l[i].node] = seen[h].group
    BY <1>6, <1>8 DEF NewEntry
  <2>2. QED
    BY <1>3, <2>1 DEF GroupInv
<1> HIDE DEF c
<1>9. \A j \in DOMAIN queue' : Live(j)' <=> Live(j)
  BY <1>2 DEF Live
<1>10. GroupInv(h)'
  BY <1>2, <1>7, <1>8, <1>9 DEF GroupInv, QueueRead
<1>11. QED
  BY <1>4, <1>10


\* The loops: new entries are registered when all that lives is of the group.
LEMMA GroupLoops ==
  ASSUME TypeInv, NEW h \in Host, CopyInv(h), GroupInv(h), QueuedInGroup, OneGroupAtATime,
         LoopStep(h)
  PROVE  CopyInv(h)' /\ GroupInv(h)' /\ QueuedInGroup' /\ OneGroupAtATime'
<1>1. StoreTypes /\ DaemonTypes /\ LocalInv(h)
  BY TypeParts DEF TypeInv
<1>2. /\ NodesKept /\ UNCHANGED <<leader, rpc, seen, served, group>>
      /\ Fewer \/ Registers(h) \/ Queues(h)
      /\ rpc[h] = "tick" \/ TakesBack(h, "QueuedEntry") \/ CancelsTaken(h, "QueuedEntry")
  BY <1>1, LoopEffects
<1>3. \A loop \in Loops : collection'[h][loop] \subseteq collection[h][loop]
  <2>1. Halfway(h, TRUE) \/ \E loop \in Loops : EntryDone(h, loop, TRUE)
    BY LoopNames DEF LoopStep, CancelStarts, Removes, CancelsOrphan, Registers, Queues,
                     TakesBack, CancelsTaken
  <2>2. QED
    BY <1>1, <2>1, LeftAfter DEF Halfway
<1>4. collection'[h]["NewEntry"] \subseteq collection[h]["NewEntry"]
  BY <1>3, LoopNames
<1>5. CASE Fewer /\ rpc[h] = "tick"
  BY <1>2, <1>4, <1>5, GroupFewerLoop, QueuedInGroupFewer DEF ListRead
<1>6. CASE Registers(h)
  <2> DEFINE n == seen[h].list[At(h, "NewEntry")].node
  <2>1. collection[h]["NewEntry"] # {} /\ rpc[h] = "tick" /\ UNCHANGED collection
    BY <1>1, <1>6, LoopNames, LoopPlace DEF Registers, Turn, Halfway
  <2>2. n \in Node /\ GroupOf[n] = group
    BY <1>1, <2>1, NewNode DEF GroupInv
  <2>3. RegisterRebootsEntry(n)
    BY <1>6 DEF Registers
  <2> HIDE DEF n
  <2>4. /\ \A i : Queued(i)' => Queued(i) /\ list'[i].node = list[i].node
        /\ \A j : Live(j)' => \/ Live(j) /\ queue'[j].node = queue[j].node
                              \/ queue'[j].node = n
    BY <1>1, <2>2, <2>3, RegisterNodes
  <2>5. \A j : Live(j) => GroupOf[queue[j].node] = group
    BY <2>1 DEF GroupInv, Live
  <2>6. \A j : Live(j)' => GroupOf[queue'[j].node] = group'
    BY <1>2, <2>2, <2>4, <2>5
  <2>7. CopyInv(h)'
    BY <1>2, <2>1 DEF CopyInv, ListRead, QueueRead, Deciding
  <2>8. GroupInv(h)'
    BY <1>2, <2>1, <2>6 DEF GroupInv, QueueRead
  <2>9. QueuedInGroup' /\ OneGroupAtATime'
    BY <2>6 DEF QueuedInGroup, OneGroupAtATime, Live
  <2>10. QED
    BY <2>7, <2>8, <2>9
<1>7. CASE Queues(h)
  <2>1. collection[h]["NewEntry"] # {} /\ rpc[h] = "tick" /\ "Queued" \in Status
    BY <1>1, <1>7, LoopNames, LoopPlace DEF Queues, Turn, Status
  <2>2. UNCHANGED queue
    BY <1>1, <1>7, <2>1, UpdateNodes DEF Queues
  <2>3. \A j : Live(j)' => GroupOf[queue'[j].node] = group'
    BY <1>2, <2>1, <2>2 DEF GroupInv, Live
  <2>4. CopyInv(h)'
    BY <1>2, <2>1 DEF CopyInv, ListRead, QueueRead, Deciding
  <2>5. GroupInv(h)'
    BY <1>2, <1>4, <2>1, <2>3 DEF GroupInv, QueueRead
  <2>6. QueuedInGroup' /\ OneGroupAtATime'
    BY <2>3 DEF QueuedInGroup, OneGroupAtATime, Live
  <2>7. QED
    BY <2>4, <2>5, <2>6
<1>8. CASE Fewer /\ TakesBack(h, "QueuedEntry") /\ rpc[h] # "tick"
  <2> DEFINE i == At(h, "QueuedEntry")
  <2>1. UNCHANGED <<rpc, seen, collection>>
    BY <1>8 DEF TakesBack, Halfway
  <2>2. "Pending" \in Status /\ UpdateRebootListEntry(i, "Pending")
    BY <1>8 DEF TakesBack, Status
  <2>3. ~Queued(i)' /\ i' = i /\ UNCHANGED <<queue, group>>
    BY <1>1, <2>1, <2>2, UpdateNodes DEF At
  <2>4. \A k : Queued(k)' => Queued(k)
    BY <1>8 DEF Fewer
  <2>5. \A k : /\ SeenQueued(h, k)' <=> SeenQueued(h, k)
               /\ rqEntry(h, k)' = rqEntry(h, k) /\ (Live(k)' <=> Live(k))
    BY <2>1, <2>3 DEF SeenQueued, rqEntry, Live
  <2> HIDE DEF i
  <2>6. CopyInv(h)'
    BY <2>1, <2>3, <2>4, <2>5 DEF CopyInv, Queued, i
  <2>7. GroupInv(h)'
    BY <2>1, <2>3, <2>5 DEF GroupInv
  <2>8. QED
    BY <1>8, <2>6, <2>7, QueuedInGroupFewer
<1>9. CASE Fewer /\ CancelsTaken(h, "QueuedEntry") /\ rpc[h] # "tick"
  <2> PICK i, j : i = At(h, "QueuedEntry") /\ j = rqEntry(h, i)
    OBVIOUS
  <2>1. /\ CancelRebootsEntry(j) /\ EntryDone(h, "QueuedEntry", TRUE) /\ half[h]
        /\ collection[h]["QueuedEntry"] # {}
    BY <1>9 DEF CancelsTaken, Turn
  <2>2. ~Live(j)' /\ UNCHANGED <<list, group>> /\ DOMAIN queue' = DOMAIN queue
    BY <1>1, <2>1, CancelFewer
  <2>3. /\ collection'[h]["QueuedEntry"] = collection[h]["QueuedEntry"] \ {i}
        /\ collection'[h]["NewEntry"] = collection[h]["NewEntry"]
        /\ half'[h] = FALSE /\ UNCHANGED <<rpc, seen>>
    <3>1. "QueuedEntry" \in Loops /\ "NewEntry" \in Loops \ {"QueuedEntry"}
      BY LoopNames
    <3>2. QED
      BY <1>1, <2>1, <3>1, LeftAfter
  <2>4. rpc[h] \in Deciding
    BY <1>1, <1>9, <2>1, LoopNames, LoopPlace
  <2>5. ~Queued(i)
    BY <2>1, <2>4 DEF CopyInv
  <2>6. \A k : /\ SeenQueued(h, k)' <=> SeenQueued(h, k)
               /\ rqEntry(h, k)' = rqEntry(h, k) /\ (Queued(k)' <=> Queued(k))
    BY <2>2, <2>3 DEF SeenQueued, rqEntry, Queued
  <2>7. \A k : Live(k)' => Live(k) /\ queue'[k].node = queue[k].node /\ k # j
    BY <1>9, <2>2 DEF Fewer
  <2>8. CopyInv(h)'
    BY <2>2, <2>3, <2>5, <2>6 DEF CopyInv
  <2>9. ASSUME rpc[h] \in QueueRead, NEW k \in DOMAIN queue, Live(k)'
        PROVE  \/ seen[h].queue[k].status # "cancelled"
               \/ \E m \in collection'[h]["QueuedEntry"] : k = rqEntry(h, m)'
    <3>1. Live(k) /\ k # j
      BY <2>7, <2>9
    <3>2. CASE seen[h].queue[k].status # "cancelled"
      BY <3>2
    <3>3. CASE \E m \in collection[h]["QueuedEntry"] : k = rqEntry(h, m)
      BY <2>3, <2>6, <3>1, <3>3
    <3>4. QED
      BY <2>9, <3>1, <3>2, <3>3 DEF GroupInv
  <2>10. GroupInv(h)'
    <3>1. ASSUME rpc[h] \in {"queue", "group", "collect"}, NEW m \in DOMAIN seen[h].list,
                 NEW k \in DOMAIN queue, SeenQueued(h, m), Live(k)',
                 seen[h].list[m].node = queue'[k].node
          PROVE  GroupOf[queue'[k].node] = group
      BY <2>7, <3>1 DEF GroupInv
    <3>2. ASSUME collection[h]["NewEntry"] # {}, NEW k \in DOMAIN queue, Live(k)'
          PROVE  GroupOf[queue'[k].node] = group
      BY <2>7, <3>2 DEF GroupInv
    <3>3. QED
      BY <2>2, <2>3, <2>6, <2>9, <3>1, <3>2 DEF GroupInv
  <2>11. QED
    BY <1>9, <2>8, <2>10, QueuedInGroupFewer
<1>10. QED
  BY <1>2, <1>5, <1>6, <1>7, <1>8, <1>9


\* The inductive invariant for the groups.
GroupsInv ==
  /\ TypeInv /\ SameNodes
  /\ \A h \in Host : Alone(h) /\ CopyInv(h) /\ GroupInv(h)
  /\ QueuedInGroup /\ OneGroupAtATime

\* The steps that do not touch the keys, but for the leader's.
LEMMA QuietSteps ==
  ASSUME DaemonTypes, NEW h \in Host,
         Ended(h) \/ Start(h) \/ Elected(h) \/ LeaseExpires(h)
  PROVE  /\ UNCHANGED <<list, queue, group, served>>
         /\ \/ Ended(h) /\ ~Running(h)' /\ collection'[h] = NoEntries
               /\ seen'[h] = Nothing /\ half'[h] = FALSE
            \/ UNCHANGED <<seen, collection, half>>
         /\ \/ rpc'[h] \in {"down", "campaign"}
            \/ rpc[h] = "campaign" /\ rpc'[h] = "tick"
            \/ rpc' = rpc
<1>1. CASE Ended(h)
  BY <1>1 DEF Ended, Gone, Goto, Running, DaemonTypes, necoVars, ckeVars
<1>2. CASE Start(h) \/ Elected(h) \/ LeaseExpires(h)
  BY <1>2 DEF Start, Elected, LeaseExpires, Goto, DaemonTypes, necoVars, ckeVars
<1>3. QED
  BY <1>1, <1>2

\* A process that does not run can only become a candidate or the leader.
LEMMA IdleSteps ==
  ASSUME TypeInv, NEW h \in Host, ~Running(h),
         DaemonStep(h) \/ Exit(h) \/ Crash(h) \/ LeaseExpires(h)
  PROVE  Start(h) \/ Elected(h) \/ LeaseExpires(h)
<1>1. ~Exit(h) /\ ~Crash(h)
  BY DEF Exit, Crash, Returns
<1>2. ~(ReadEnabled(h) \/ ReadList(h) \/ ReadQueue(h) \/ ReadGroup(h)
         \/ UpdateProcessingGroup(h) \/ Collect(h))
  BY DEF ReadEnabled, ReadList, ReadQueue, Reads, ReadGroup,
         UpdateProcessingGroup, Collect, Running
<1>3. collection[h] = NoEntries
  BY DEF TypeInv, LocalInv, Running, Deciding
<1>4. \A loop \in Loops : collection[h][loop] = {}
  BY <1>3, NoEntriesIs
<1>5. ~(removeCancelledEntry(h) \/ RemoveOrphanedEntry(h) \/ removeCompletedEntry(h)
         \/ addRebootListEntry(h)
         \/ \E loop \in {"TimedOutEntry", "QueuedEntry"} : dequeueAndCancelEntry(h, loop))
  BY <1>4, LoopNames DEF removeCancelledEntry, RemoveOrphanedEntry,
       removeCompletedEntry, addRebootListEntry, dequeueAndCancelEntry, Turn
<1>6. QED
  BY <1>1, <1>2, <1>5 DEF DaemonStep

LEMMA GroupsOthers ==
  ASSUME GroupsInv, NEW h \in Host,
         DaemonStep(h) \/ Exit(h) \/ Crash(h) \/ LeaseExpires(h),
         NEW x \in Host, x # h
  PROVE  CopyInv(x)' /\ GroupInv(x)'
<1>1. DaemonTypes /\ LocalInv(x) /\ CopyInv(x) /\ GroupInv(x)
  BY TypeParts DEF TypeInv, GroupsInv
<1>2. rpc'[x] = rpc[x] /\ seen'[x] = seen[x] /\ collection'[x] = collection[x]
      /\ half'[x] = half[x]
  BY <1>1, OthersAreKept DEF OthersKept
<1>3. CASE Running(h)
  <2>1. ~Running(x)
    BY <1>3 DEF GroupsInv, Alone
  <2>2. rpc'[x] \notin ListRead /\ collection'[x]["NewEntry"] = {}
    BY <1>1, <1>2, <2>1, NoEntriesIs DEF Running, ListRead, LocalInv, Deciding
  <2>3. QED
    BY <2>2, GroupIdle
<1>4. CASE ~Running(h)
  <2>1. Start(h) \/ Elected(h) \/ LeaseExpires(h)
    BY <1>4, IdleSteps DEF GroupsInv
  <2>2. Fewer
    BY <1>1, <2>1, QuietSteps, KeptFewer
  <2>3. QED
    BY <1>1, <1>2, <2>2, GroupFewer
<1>5. QED
  BY <1>3, <1>4

LEMMA GroupsDaemon ==
  ASSUME ~Overlap, GroupsInv, NEW h \in Host,
         DaemonStep(h) \/ Exit(h) \/ Crash(h) \/ LeaseExpires(h)
  PROVE  GroupsInv'
<1>1. /\ TypeInv /\ SameNodes /\ QueuedInGroup /\ OneGroupAtATime
      /\ CopyInv(h) /\ GroupInv(h) /\ \A x \in Host : Alone(x)
  BY DEF GroupsInv
<1>2. DaemonTypes /\ LocalInv(h)
  BY <1>1, TypeParts DEF TypeInv
<1>3. TypeInv' /\ SameNodes' /\ \A x \in Host : Alone(x)'
  BY <1>1, <1>2, DaemonTyped, SameNodesDaemon, AloneDaemon
<1>4. \A x \in Host \ {h} : CopyInv(x)' /\ GroupInv(x)'
  BY GroupsOthers
<1>5. CopyInv(h)' /\ GroupInv(h)' /\ QueuedInGroup' /\ OneGroupAtATime'
  <2>1. CASE LoopStep(h)
    BY <1>1, <2>1, GroupLoops
  <2>2. CASE Ended(h) \/ Start(h) \/ Elected(h) \/ LeaseExpires(h)
    <3>1. Fewer
      BY <1>2, <2>2, QuietSteps, KeptFewer
    <3>2. CopyInv(h)' /\ GroupInv(h)'
      <4>1. CASE UNCHANGED <<rpc, seen, collection, half>>
        BY <1>1, <3>1, <4>1, GroupFewer
      <4>2. CASE collection[h] = NoEntries /\ collection' = collection /\ rpc'[h] \notin ListRead
        BY <4>2, NoEntriesIs, GroupIdle
      <4>3. CASE Ended(h)
        <5>1. rpc'[h] = "down" /\ collection'[h] = NoEntries
          BY <1>2, <4>3 DEF Ended, Gone, Goto, DaemonTypes
        <5>2. QED
          BY <5>1, NoEntriesIs, GroupIdle DEF ListRead
      <4>4. CASE Start(h) \/ Elected(h)
        <5>1. rpc[h] \in {"down", "campaign"} /\ rpc'[h] \in {"campaign", "tick"}
              /\ collection' = collection
          BY <1>2, <4>4 DEF Start, Elected, Goto, DaemonTypes
        <5>2. collection[h] = NoEntries
          BY <1>2, <5>1 DEF LocalInv, Deciding
        <5>3. QED
          BY <4>2, <5>1, <5>2 DEF ListRead
      <4>5. CASE LeaseExpires(h)
        BY <4>1, <4>5 DEF LeaseExpires
      <4>6. QED
        BY <2>2, <4>3, <4>4, <4>5
    <3>3. QED
      BY <1>1, <3>1, <3>2, QueuedInGroupFewer
  <2>3. CASE ReadEnabled(h) \/ ReadList(h) \/ ReadQueue(h)
    <3>1. Fewer
      BY <1>2, <2>3, ReadCopies, KeptFewer
    <3>2. QED
      BY <1>1, <1>2, <2>3, <3>1, GroupReads, QueuedInGroupFewer
  <2>4. CASE ReadGroup(h)
    <3>1. Fewer
      BY <1>2, <2>4, ReadGroupCopies, KeptFewer DEF GroupRead
    <3>2. QED
      BY <1>1, <1>2, <2>4, <3>1, GroupReadGroup, QueuedInGroupFewer
  <2>5. CASE UpdateProcessingGroup(h)
    <3>1. OneGroupAtATime'
      BY <1>1, <2>5 DEF UpdateProcessingGroup, ckeVars, OneGroupAtATime
    <3>2. QED
      BY <1>1, <1>2, <2>5, <3>1, GroupMoves
  <2>6. CASE Collect(h)
    <3>1. Fewer
      BY <2>6, KeptFewer DEF Collect, necoVars, ckeVars
    <3>2. QED
      BY <1>1, <2>6, <3>1, GroupCollects, QueuedInGroupFewer
  <2>7. QED
    BY <2>1, <2>2, <2>3, <2>4, <2>5, <2>6, DaemonCases
<1>6. QED
  BY <1>3, <1>4, <1>5 DEF GroupsInv


LEMMA GroupsQuiet ==
  ASSUME GroupsInv, TypeInv', SameNodes', Fewer,
         UNCHANGED <<leader, rpc, seen, collection, half>>
  PROVE  GroupsInv'
<1>1. /\ QueuedInGroup /\ OneGroupAtATime
      /\ \A h \in Host : Alone(h) /\ CopyInv(h) /\ GroupInv(h)
  BY DEF GroupsInv
<1>2. \A h \in Host : CopyInv(h)' /\ GroupInv(h)'
  BY <1>1, GroupFewer
<1>3. \A h \in Host : Alone(h)'
  BY <1>1 DEF Alone, Running
<1>4. QueuedInGroup' /\ OneGroupAtATime'
  BY <1>1, QueuedInGroupFewer
<1>5. QED
  BY <1>2, <1>3, <1>4 DEF GroupsInv

LEMMA GroupsEnvironment ==
  ASSUME GroupsInv, Environment
  PROVE  GroupsInv'
<1>1. TypeInv /\ SameNodes /\ StoreTypes
  BY TypeParts DEF GroupsInv, TypeInv
<1>2. Disturbed
  BY <1>1, EnvironmentDisturbs
<1>3. Fewer /\ UNCHANGED <<leader, rpc, seen, collection, half>>
  BY <1>1, <1>2, DisturbedFewer DEF Disturbed, daemonVars
<1>4. QED
  BY <1>1, <1>3, EnvironmentTyped, SameNodesEnvironment, GroupsQuiet

LEMMA GroupsInitial ==
  RebooterInit => GroupsInv
<1> SUFFICES ASSUME RebooterInit PROVE GroupsInv
  OBVIOUS
<1>1. list = EmptyMap /\ queue = EmptyMap /\ DOMAIN EmptyMap = {}
  BY DEF RebooterInit, EmptyMap
<1>2. \A h \in Host : rpc[h] = "down" /\ collection[h] = NoEntries
  BY DEF RebooterInit
<1>3. SameNodes /\ QueuedInGroup /\ OneGroupAtATime
  BY <1>1 DEF SameNodes, QueuedInGroup, OneGroupAtATime
<1>4. \A h \in Host : Alone(h) /\ CopyInv(h) /\ GroupInv(h)
  BY <1>2, NoEntriesIs DEF Alone, Running, CopyInv, GroupInv, ListRead, QueueRead, Deciding
<1>5. QED
  BY <1>3, <1>4, TypeInitial DEF GroupsInv

LEMMA GroupsStep ==
  ASSUME ~Overlap, GroupsInv, [RebooterNext]_rebooterVars
  PROVE  GroupsInv'
<1>1. CASE RebooterNext
  BY <1>1, NextIs, GroupsEnvironment, GroupsDaemon
<1>2. CASE UNCHANGED rebooterVars
  <2>1. UNCHANGED <<list, writeIndex, group, queue, queueIndex, leader, rpc, seen,
                    collection, half>>
    BY <1>2 DEF rebooterVars, necoVars, ckeVars, daemonVars
  <2>2. TypeInv' /\ SameNodes'
    BY <1>2, <2>1, TypeKept DEF GroupsInv, SameNodes
  <2>3. QED
    BY <2>1, <2>2, KeptFewer, GroupsQuiet
<1>3. QED
  BY <1>1, <1>2

LEMMA GroupsAlways ==
  ASSUME ~Overlap
  PROVE  RebooterSpec => []GroupsInv
<1>1. GroupsInv /\ [RebooterNext]_rebooterVars => GroupsInv'
  BY GroupsStep
<1>2. QED
  BY <1>1, GroupsInitial, PTL DEF RebooterSpec

\* OneGroupAtATime, whatever the hosts, the nodes, their groups and the times,
\* also with nodes that are listed twice: as long as a daemon stops before its
\* lease expires, no two groups have live entries in CKE's queue at once.
THEOREM OneGroup ==
  ~Overlap => (RebooterSpec => []OneGroupAtATime)
<1> SUFFICES ASSUME ~Overlap PROVE RebooterSpec => []OneGroupAtATime
  OBVIOUS
<1>1. GroupsInv => OneGroupAtATime
  BY DEF GroupsInv
<1>2. QED
  BY <1>1, GroupsAlways, PTL
=============================================================================
