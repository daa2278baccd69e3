------------------------ MODULE RebooterServedProofs ------------------------
(***************************************************************************)
(* That an entry leaves the reboot list only when its node was rebooted or *)
(* the entry cancelled, for any number of boot servers, nodes, groups,     *)
(* reboot times and entries, by the invariants of RebooterProofs and what  *)
(* the daemon's copies say about CKE's queue.                              *)
(***************************************************************************)
EXTENDS RebooterProofs

\* A leaf is tried with Zenon first; one that needs arithmetic cites SMT.
USE ZenonT(30), SMT

----------------------------------------------------------------------------
(* The inductive invariant. *)

OneOf(l) == \A i, k \in DOMAIN l : l[i].node = l[k].node => i = k

\* What keeps a queued entry from being taken for completed: its node was
\* rebooted, or CKE still has it; and CKE does not reboot it unnoticed.
Served(i, n) ==
  /\ i \in served \/ \E j \in DOMAIN queue : Live(j) /\ queue[j].node = n
  /\ \A j \in DOMAIN queue :
       queue[j].node = n /\ queue[j].status = "rebooting" => i \in served

QueuedServed == \A i : Queued(i) => Served(i, list[i].node)

\* The daemon's entries are on the list until it takes them off itself; an
\* entry that it is taking back is no longer queued.
CollectionInv(h) ==
  /\ \A loop \in Loops \ {"OrphanedEntry"} : collection[h][loop] \subseteq DOMAIN list
  /\ rpc[h] \in ListRead =>
       /\ DOMAIN seen[h].list \subseteq DOMAIN list
       /\ \A i \in DOMAIN seen[h].list :
            seen[h].list[i].status = "Cancelled" => list[i].status = "Cancelled"
  /\ half[h] /\ collection[h]["NewEntry"] = {} =>
       \A loop \in {"TimedOutEntry", "QueuedEntry"} :
         collection[h][loop] # {} => ~Queued(At(h, loop))
  /\ \A i \in collection[h]["CancelledEntry"] : list[i].status = "Cancelled"

\* What it takes for completed is; what it takes for an orphan has no queued
\* entry; and what it is about to register is not in the queue.
ServeInv(h) ==
  /\ OneOf(seen[h].list)
  /\ rpc[h] = "queue" =>
       \A i : SeenQueued(h, i) => Served(i, seen[h].list[i].node)
  /\ rpc[h] \in QueueRead =>
       \A i : SeenQueued(h, i) =>
         i \in served \/ \E j \in DOMAIN seen[h].queue :
                           seen[h].queue[j].node = seen[h].list[i].node
  /\ collection[h]["CompletedEntry"] \subseteq served
  /\ \A j \in collection[h]["OrphanedEntry"] \cap DOMAIN queue :
       \A i : Queued(i) => list[i].node # queue[j].node
  /\ \A i \in collection[h]["NewEntry"] :
       \/ half[h] /\ i = At(h, "NewEntry")
       \/ \A j \in DOMAIN queue : queue[j].node # seen[h].list[i].node
  /\ half[h] /\ collection[h]["NewEntry"] # {} =>
       Served(At(h, "NewEntry"), seen[h].list[At(h, "NewEntry")].node)

LEMMA ServeIdle ==
  ASSUME NEW h \in Host, rpc'[h] \notin ListRead, collection'[h] = NoEntries,
         half'[h] = FALSE, OneOf(seen'[h].list)
  PROVE  CollectionInv(h)' /\ ServeInv(h)'
<1>1. CollectionInv(h)'
  BY NoEntriesIs DEF CollectionInv
<1>2. ServeInv(h)'
  BY NoEntriesIs DEF ServeInv, ListRead, QueueRead
<1>3. QED
  BY <1>1, <1>2

\* Steps that leave the daemon alone.
Harmless == ListDisturbed /\ QueueDisturbed /\ served \subseteq served'

LEMMA ServedGrows ==
  ASSUME Harmless, NEW i \in DOMAIN list, NEW n, list[i].node = n, Served(i, n)
  PROVE  Served(i, n)'
<1>1. CASE i \in served
  BY <1>1 DEF Harmless, Served
<1>2. CASE i \notin served
  <2>1. PICK j \in DOMAIN queue : Live(j) /\ queue[j].node = n
    BY <1>2 DEF Served
  <2>2. queue[j].status \notin {"rebooting", "cancelled"}
    BY <1>2, <2>1 DEF Served, Live
  <2>3. j \in DOMAIN queue' /\ queue'[j].node = n /\ Live(j)'
    BY <2>1, <2>2 DEF Harmless, QueueDisturbed, Live
  <2>4. \A k \in DOMAIN queue' :
          queue'[k].node = n /\ queue'[k].status = "rebooting" => i \in served'
    BY <1>2 DEF Harmless, QueueDisturbed, Served
  <2>5. QED
    BY <2>3, <2>4 DEF Served
<1>3. QED
  BY <1>1, <1>2

LEMMA ServeHarmless ==
  ASSUME Harmless, SameNodes, NEW h \in Host, DaemonTypes, LocalInv(h),
         CollectionInv(h), ServeInv(h), rpc'[h] = rpc[h],
         seen'[h] = seen[h], collection'[h] = collection[h], half'[h] = half[h]
  PROVE  CollectionInv(h)' /\ ServeInv(h)'
<1>1. \A loop : At(h, loop)' = At(h, loop)
  BY DEF At
<1>2. \A i : SeenQueued(h, i)' <=> SeenQueued(h, i)
  BY DEF SeenQueued
<1>3. \A i : Queued(i)' => Queued(i) /\ list'[i].node = list[i].node
  BY DEF Harmless, ListDisturbed, Queued
<1>4. /\ DOMAIN list \subseteq DOMAIN list'
      /\ \A i \in DOMAIN list : list[i].status = "Cancelled" => list'[i].status = "Cancelled"
  BY DEF Harmless, ListDisturbed
<1>5. CollectionInv(h)'
  <2>1. "CancelledEntry" \in Loops \ {"OrphanedEntry"}
    BY LoopNames
  <2>2. \A i \in collection[h]["CancelledEntry"] : list'[i].status = "Cancelled"
    BY <1>4, <2>1 DEF CollectionInv
  <2>3. \A loop \in Loops \ {"OrphanedEntry"} : collection'[h][loop] \subseteq DOMAIN list'
    BY <1>4 DEF CollectionInv
  <2>4. rpc'[h] \in ListRead =>
          /\ DOMAIN seen'[h].list \subseteq DOMAIN list'
          /\ \A i \in DOMAIN seen'[h].list :
               seen'[h].list[i].status = "Cancelled" => list'[i].status = "Cancelled"
    BY <1>4 DEF CollectionInv
  <2>5. half'[h] /\ collection'[h]["NewEntry"] = {} =>
          \A loop \in {"TimedOutEntry", "QueuedEntry"} :
            collection'[h][loop] # {} => ~Queued(At(h, loop))'
    BY <1>1, <1>3 DEF CollectionInv
  <2>6. QED
    BY <2>2, <2>3, <2>4, <2>5 DEF CollectionInv
<1>6. \A i \in DOMAIN list \cap DOMAIN seen[h].list : seen[h].list[i].node = list[i].node
  BY DEF SameNodes
<1>7. ASSUME NEW i, NEW n, i \in DOMAIN list \cap DOMAIN seen[h].list,
             n = seen[h].list[i].node, Served(i, n)
      PROVE  Served(i, n)'
  <2>1. i \in DOMAIN list /\ list[i].node = n
    BY <1>6, <1>7
  <2>2. QED
    BY <1>7, <2>1, ServedGrows
<1>8. ASSUME rpc'[h] = "queue", NEW i, SeenQueued(h, i)'
      PROVE  Served(i, seen[h].list[i].node)'
  <2>1. PICK n : n = seen[h].list[i].node
    OBVIOUS
  <2>2. i \in DOMAIN list \cap DOMAIN seen[h].list
    BY <1>2, <1>8 DEF CollectionInv, SeenQueued, ListRead
  <2>3. Served(i, n)
    BY <1>2, <1>8, <2>1 DEF ServeInv, Served
  <2>4. Served(i, n)'
    BY <1>7, <2>1, <2>2, <2>3
  <2>5. QED
    BY <2>1, <2>4 DEF Served
<1>9. ASSUME half'[h], collection'[h]["NewEntry"] # {}
      PROVE  Served(At(h, "NewEntry"), seen[h].list[At(h, "NewEntry")].node)'
  <2>1. PICK i, n : i = At(h, "NewEntry") /\ n = seen[h].list[i].node
    OBVIOUS
  <2>2. Served(i, n)
    BY <1>9, <2>1 DEF ServeInv, Served
  <2>3. "NewEntry" \in Loops \ {"OrphanedEntry"} /\ i \in collection[h]["NewEntry"]
    BY <1>9, <2>1, LoopNames, AtIsLeft
  <2>4. i \in DOMAIN list
    BY <2>3 DEF CollectionInv
  <2>5. i \in DOMAIN seen[h].list
    BY <2>3 DEF LocalInv
  <2>6. Served(i, n)'
    BY <1>7, <2>1, <2>2, <2>4, <2>5
  <2>7. At(h, "NewEntry")' = i
    BY <1>1, <2>1
  <2>8. QED
    BY <2>1, <2>6, <2>7 DEF Served
<1>10. /\ DOMAIN queue' \subseteq DOMAIN queue /\ served \subseteq served'
       /\ \A j \in DOMAIN queue' : queue'[j].node = queue[j].node
  BY DEF Harmless, QueueDisturbed
<1>11. ServeInv(h)'
  <2>1. OneOf(seen[h].list)' /\ collection'[h]["CompletedEntry"] \subseteq served'
    BY <1>10 DEF ServeInv, OneOf
  <2>2. ASSUME rpc'[h] \in QueueRead, NEW i, SeenQueued(h, i)'
        PROVE  i \in served' \/ \E j \in DOMAIN seen'[h].queue :
                                  seen'[h].queue[j].node = seen'[h].list[i].node
    BY <1>2, <1>10, <2>2, ZenonT(90) DEF ServeInv
  <2>3. ASSUME NEW j \in collection'[h]["OrphanedEntry"] \cap DOMAIN queue',
               NEW i, Queued(i)'
        PROVE  list'[i].node # queue'[j].node
    <3>1. j \in collection[h]["OrphanedEntry"] \cap DOMAIN queue
      BY <1>10
    <3>2. list[i].node # queue[j].node
      BY <1>3, <2>3, <3>1 DEF ServeInv
    <3>3. QED
      BY <1>3, <1>10, <2>3, <3>2
  <2>4. ASSUME NEW i \in collection'[h]["NewEntry"], ~(half'[h] /\ i = At(h, "NewEntry")'),
               NEW j \in DOMAIN queue'
        PROVE  queue'[j].node # seen'[h].list[i].node
    <3>1. i \in collection[h]["NewEntry"] /\ ~(half[h] /\ i = At(h, "NewEntry"))
      BY <1>1, <2>4
    <3>2. queue[j].node # seen[h].list[i].node
      BY <1>10, <3>1 DEF ServeInv
    <3>3. QED
      BY <1>10, <3>2
  <2>5. QED
    BY <1>8, <1>9, <2>1, <2>2, <2>3, <2>4 DEF ServeInv
<1>12. QED
  BY <1>5, <1>11

LEMMA SharedHarmless ==
  ASSUME ~Duplicates, Harmless, OneOf(list), QueuedServed
  PROVE  OneOf(list)' /\ QueuedServed'
<1>1. /\ DOMAIN list \subseteq DOMAIN list'
      /\ \A i \in DOMAIN list : list'[i].node = list[i].node
      /\ \A i \in DOMAIN list' \ DOMAIN list :
           /\ i = writeIndex + 1
           /\ \A k \in DOMAIN list : list[k].node # list'[i].node
  BY DEF Harmless, ListDisturbed
<1>2. OneOf(list)'
  <2> SUFFICES ASSUME NEW i \in DOMAIN list', NEW k \in DOMAIN list',
                      list'[i].node = list'[k].node
               PROVE  i = k
    BY DEF OneOf
  <2>1. CASE i \in DOMAIN list /\ k \in DOMAIN list
    BY <1>1, <2>1 DEF OneOf
  <2>2. CASE i \notin DOMAIN list
    BY SMTT(30), <1>1, <2>2
  <2>3. CASE k \notin DOMAIN list
    BY SMTT(30), <1>1, <2>3
  <2>4. QED
    BY <2>1, <2>2, <2>3
<1>3. ASSUME NEW i, Queued(i)' PROVE Served(i, list[i].node)'
  <2>1. Queued(i) /\ list'[i].node = list[i].node
    BY <1>3 DEF Harmless, ListDisturbed, Queued
  <2>2. PICK n : n = list[i].node
    OBVIOUS
  <2>3. Served(i, n)
    BY <2>1, <2>2 DEF QueuedServed, Served
  <2>4. i \in DOMAIN list
    BY <2>1 DEF Queued
  <2>5. Served(i, n)'
    BY <2>2, <2>3, <2>4, ServedGrows
  <2>6. QED
    BY <2>1, <2>2, <2>5 DEF Served
<1>4. QED
  BY <1>2, <1>3 DEF QueuedServed

LEMMA KeptHarmless ==
  ASSUME UNCHANGED <<list, queue, served>>
  PROVE  Harmless
BY DEF Harmless, ListDisturbed, QueueDisturbed

\* The reads: what is queued and not in the queue was rebooted.
LEMMA ServeReads ==
  ASSUME DaemonTypes, NEW h \in Host, LocalInv(h), CollectionInv(h), ServeInv(h),
         OneOf(list), QueuedServed, ReadEnabled(h) \/ ReadList(h) \/ ReadQueue(h)
  PROVE  CollectionInv(h)' /\ ServeInv(h)'
<1>1. UNCHANGED <<list, queue, served, collection, half>>
  BY ReadCopies
<1>2. collection[h] = NoEntries
  BY ReadCopies DEF LocalInv, Deciding
<1>3. collection'[h] = NoEntries /\ half'[h] = FALSE
  BY <1>1, <1>2 DEF LocalInv, DaemonTypes
<1>4. \A i, j : (Queued(i)' <=> Queued(i)) /\ (Live(j)' <=> Live(j))
  BY <1>1 DEF Queued, Live
<1>5. CASE ReadEnabled(h)
  <2>1. OneOf(seen'[h].list) /\ rpc'[h] \notin ListRead
    BY <1>5, ReadCopies DEF OneOf, EmptyMap, ListRead
  <2>2. QED
    BY <1>3, <2>1, ServeIdle
<1>6. CASE ReadList(h)
  <2>1. rpc'[h] = "queue" /\ seen'[h].list = list
    BY <1>6, ReadCopies
  <2>2. CollectionInv(h)'
    BY <1>1, <1>3, <2>1, NoEntriesIs DEF CollectionInv
  <2>3. \A i : SeenQueued(h, i)' => Served(i, seen[h].list[i].node)'
    BY <1>1, <1>4, <2>1 DEF SeenQueued, Queued, QueuedServed, Served
  <2>4. OneOf(seen'[h].list)
    BY <2>1
  <2>5. ServeInv(h)'
    BY <1>3, <2>1, <2>3, <2>4, NoEntriesIs DEF ServeInv, QueueRead
  <2>6. QED
    BY <2>2, <2>5
<1>7. CASE ReadQueue(h)
  <2>1. rpc'[h] = "group" /\ rpc[h] = "queue"
        /\ seen'[h].list = seen[h].list /\ seen'[h].queue = queue
    BY <1>7, ReadCopies
  <2>2. CollectionInv(h)'
    BY <1>1, <1>3, <2>1, NoEntriesIs DEF CollectionInv, ListRead
  <2>3. \A i : SeenQueued(h, i)' =>
          i \in served' \/ \E j \in DOMAIN seen'[h].queue :
                             seen'[h].queue[j].node = seen'[h].list[i].node
    <3> SUFFICES ASSUME NEW i, SeenQueued(h, i)'
                 PROVE  i \in served \/ \E j \in DOMAIN queue : queue[j].node = seen[h].list[i].node
      BY <1>1, <2>1
    <3>1. SeenQueued(h, i)
      BY <2>1 DEF SeenQueued
    <3>2. Served(i, seen[h].list[i].node)
      BY <2>1, <3>1 DEF ServeInv
    <3>3. QED
      BY <3>2 DEF Served
  <2>4. OneOf(seen'[h].list)
    BY <2>1 DEF ServeInv
  <2>5. ServeInv(h)'
    BY <1>3, <2>1, <2>3, <2>4, NoEntriesIs DEF ServeInv
  <2>6. QED
    BY <2>2, <2>5
<1>8. QED
  BY <1>5, <1>6, <1>7

LEMMA ServeReadGroup ==
  ASSUME DaemonTypes, NEW h \in Host, LocalInv(h), CollectionInv(h), ServeInv(h), ReadGroup(h)
  PROVE  CollectionInv(h)' /\ ServeInv(h)'
<1> DEFINE l == seen[h].list
           q == seen[h].queue
<1>1. PICK back, next : GroupRead(h, back, next)
  BY ReadGroupCopies
<1>2. rpc[h] = "group" /\ rpc'[h] \in Deciding
  BY <1>1 DEF ReadGroup, GroupRead, Deciding
<1>3. collection[h] = NoEntries /\ half[h] = FALSE
  BY <1>2 DEF LocalInv, Deciding, DaemonTypes
<1>4. /\ collection'[h]["QueuedEntry"] = back
      /\ \A loop \in Loops \ {"QueuedEntry"} : collection'[h][loop] = {}
  BY <1>1, <1>3, LoopNames DEF GroupRead, DaemonTypes, NoEntries
<1>5. UNCHANGED <<list, queue, served>> /\ half'[h] = FALSE
  BY <1>1, <1>3 DEF GroupRead
<1>6. back \subseteq DOMAIN l
  BY <1>1 DEF GroupRead, QueuedEntry
<1>7. /\ DOMAIN l \subseteq DOMAIN list
      /\ \A i \in DOMAIN l : l[i].status = "Cancelled" => list[i].status = "Cancelled"
  BY <1>2 DEF CollectionInv, ListRead
<1>8. CollectionInv(h)'
  <2>1. \A loop \in Loops \ {"OrphanedEntry"} : collection'[h][loop] \subseteq DOMAIN list'
    BY <1>4, <1>5, <1>6, <1>7
  <2>2. /\ DOMAIN seen'[h].list \subseteq DOMAIN list'
        /\ \A i \in DOMAIN seen'[h].list :
             seen'[h].list[i].status = "Cancelled" => list'[i].status = "Cancelled"
    BY <1>1, <1>5, <1>7 DEF GroupRead
  <2>3. collection'[h]["CancelledEntry"] = {}
    BY <1>4, LoopNames
  <2>4. QED
    BY <1>5, <2>1, <2>2, <2>3 DEF CollectionInv
<1>9. \A i : SeenQueued(h, i)' => SeenQueued(h, i) /\ seen'[h].list[i].node = l[i].node
  BY <1>1 DEF GroupRead, SeenQueued
<1>10. ASSUME NEW i, SeenQueued(h, i)'
       PROVE  i \in served' \/ \E j \in DOMAIN seen'[h].queue :
                                 seen'[h].queue[j].node = seen'[h].list[i].node
  <2>1. i \in served \/ \E j \in DOMAIN q : q[j].node = l[i].node
    BY <1>2, <1>9, <1>10 DEF ServeInv, QueueRead
  <2>2. DOMAIN seen'[h].queue = DOMAIN q
        /\ \A j \in DOMAIN q : seen'[h].queue[j].node = q[j].node
    BY <1>1 DEF GroupRead
  <2>3. QED
    BY <1>5, <1>9, <1>10, <2>1, <2>2
<1>11. OneOf(seen'[h].list)
  <2>1. OneOf(l)
    BY DEF ServeInv
  <2>2. DOMAIN seen'[h].list = DOMAIN l
        /\ \A i \in DOMAIN l : seen'[h].list[i].node = l[i].node
    BY <1>1 DEF GroupRead
  <2>3. QED
    BY <2>1, <2>2 DEF OneOf
<1>12. /\ collection'[h]["CompletedEntry"] = {} /\ collection'[h]["NewEntry"] = {}
       /\ collection'[h]["OrphanedEntry"] = {}
  BY <1>4, LoopNames
<1>13. ServeInv(h)'
  BY <1>2, <1>10, <1>11, <1>12 DEF ServeInv, Deciding
<1>14. QED
  BY <1>8, <1>13


\* What collectEntries has collected, read off LocalInv.
LEMMA LocalParts ==
  ASSUME NEW h \in Host, LocalInv(h)', UNCHANGED seen
  PROVE  LET l == seen[h].list
             q == seen[h].queue
             c == collection'[h]
         IN  /\ \A i \in c["CancelledEntry"] : i \in DOMAIN l /\ l[i].status = "Cancelled"
             /\ \A i \in c["CompletedEntry"] :
                  i \in DOMAIN l /\ l[i].status = "Queued" /\ First(q, l[i].node) = 0
             /\ \A i \in c["NewEntry"] :
                  i \in DOMAIN l /\ First(q, l[i].node) = 0
             /\ \A i \in c["TimedOutEntry"] \cup c["QueuedEntry"] : i \in DOMAIN l
BY DEF LocalInv

\* collectEntries decides on copies that are good enough.
LEMMA ServeCollects ==
  ASSUME TypeInv, NEW h \in Host, CopyInv(h), CollectionInv(h), ServeInv(h), SameNodes,
         Collect(h)
  PROVE  CollectionInv(h)' /\ ServeInv(h)'
<1> DEFINE l == seen[h].list
           q == seen[h].queue
           c == collection'[h]
<1>1. DaemonTypes
  BY TypeParts DEF TypeInv
<1>2. /\ rpc'[h] = "tick" /\ half'[h] = FALSE /\ LocalInv(h)'
      /\ UNCHANGED <<list, queue, served, seen>>
      /\ c = Collected(l, q, seen[h].group, seen[h].enabled)
  BY CollectLocal DEF necoVars, ckeVars
<1>3. rpc[h] = "collect" /\ collection[h] = NoEntries
  BY DEF Collect
<1>4. seen[h].enabled \in BOOLEAN /\ DOMAIN l \subseteq Nat \ {0} /\ DOMAIN q \subseteq Nat \ {0}
  BY <1>1, SeenTyped, IndexesPositive
<1>5. /\ \A i \in c["CancelledEntry"] : i \in DOMAIN l /\ l[i].status = "Cancelled"
      /\ \A i \in c["CompletedEntry"] :
           i \in DOMAIN l /\ l[i].status = "Queued" /\ First(q, l[i].node) = 0
      /\ \A i \in c["NewEntry"] :
           i \in DOMAIN l /\ First(q, l[i].node) = 0
      /\ \A i \in c["TimedOutEntry"] \cup c["QueuedEntry"] : i \in DOMAIN l
  BY <1>2, LocalParts
<1>6. c["OrphanedEntry"] \subseteq OrphanedEntry(l, q)
  <2>1. "OrphanedEntry" \in Loops \ {"CancelledEntry"}
    BY LoopNames
  <2> HIDE DEF l, q, c
  <2>2. /\ CancelledEntry(l) # {} =>
             \A loop \in Loops \ {"CancelledEntry"} : c[loop] = {}
        /\ CancelledEntry(l) = {} => c["OrphanedEntry"] = OrphanedEntry(l, q)
    <3>1. c = Collected(l, q, seen[h].group, seen[h].enabled)
      BY <1>2
    <3>2. QED
      BY SMT, <1>4, <3>1, CollectedIs
  <2>3. QED
    BY <2>1, <2>2
<1>7. /\ DOMAIN l \subseteq DOMAIN list /\ DOMAIN queue \subseteq DOMAIN q
      /\ \A i \in DOMAIN l : l[i].status = "Cancelled" => list[i].status = "Cancelled"
      /\ \A i : Queued(i) => i \in DOMAIN l /\ l[i].status = "Queued"
  BY <1>3, NoEntriesIs DEF CollectionInv, CopyInv, ListRead, QueueRead, SeenQueued, Queued
<1>8. CollectionInv(h)'
  <2>1. \A loop \in Loops \ {"OrphanedEntry"} : c[loop] \subseteq DOMAIN list'
    <3>1. Loops \ {"OrphanedEntry"} = {"CancelledEntry", "CompletedEntry", "NewEntry",
                                       "TimedOutEntry", "QueuedEntry"}
      BY LoopNames
    <3>2. QED
      BY <1>2, <1>5, <1>7, <3>1
  <2>2. \A i \in c["CancelledEntry"] : list'[i].status = "Cancelled"
    BY <1>2, <1>5, <1>7
  <2>3. QED
    BY <1>2, <2>1, <2>2 DEF CollectionInv, ListRead
<1>9. c["CompletedEntry"] \subseteq served
  <2> SUFFICES ASSUME NEW i \in c["CompletedEntry"] PROVE i \in served
    OBVIOUS
  <2>1. SeenQueued(h, i) /\ First(q, l[i].node) = 0
    BY <1>5 DEF SeenQueued
  <2>2. \A j \in DOMAIN q : q[j].node # l[i].node
    BY <1>4, <2>1, FirstFinds
  <2>3. QED
    BY <1>3, <2>1, <2>2 DEF ServeInv, QueueRead
<1>10. ASSUME NEW j \in c["OrphanedEntry"] \cap DOMAIN queue, NEW i, Queued(i)
       PROVE  list[i].node # queue[j].node
  <2> SUFFICES ASSUME list[i].node = queue[j].node PROVE FALSE
    OBVIOUS
  <2>1. i \in DOMAIN l /\ l[i].status = "Queued" /\ i \in DOMAIN list /\ j \in DOMAIN q
    BY <1>7, <1>10 DEF Queued
  <2>2. l[i].node = list[i].node /\ q[j].node = queue[j].node
    BY <2>1 DEF SameNodes
  <2> DEFINE k == First(l, q[j].node)
  <2>3. k = 0 \/ l[k].status = "Pending"
    BY <1>6, <1>10 DEF OrphanedEntry
  <2>4. k # 0
    <3>1. First(l, q[j].node) = 0 => \A x \in DOMAIN l : l[x].node # q[j].node
      BY <1>4, FirstFinds
    <3>2. QED
      BY <2>1, <2>2, <3>1
  <2>5. k \in DOMAIN l /\ l[k].node = q[j].node
    BY <1>4, <2>4, FirstFinds
  <2> HIDE DEF k
  <2>6. k = i
    BY <2>1, <2>2, <2>5 DEF ServeInv, OneOf
  <2>7. QED
    BY <2>1, <2>3, <2>4, <2>6
<1>11. ASSUME NEW i \in c["NewEntry"], NEW j \in DOMAIN queue
       PROVE  queue[j].node # l[i].node
  <2>1. q[j].node # l[i].node
    <3>1. First(q, l[i].node) = 0 => \A x \in DOMAIN q : q[x].node # l[i].node
      BY <1>4, FirstFinds
    <3>2. QED
      BY <1>5, <1>7, <1>11, <3>1
  <2>2. q[j].node = queue[j].node
    BY <1>7 DEF SameNodes
  <2>3. QED
    BY <2>1, <2>2
<1>12. \A i : Queued(i)' <=> Queued(i)
  BY <1>2 DEF Queued
<1>13. OneOf(seen'[h].list)
  BY <1>2 DEF ServeInv
<1>14. ServeInv(h)'
  BY <1>2, <1>9, <1>10, <1>11, <1>12, <1>13 DEF ServeInv, QueueRead
<1>15. QED
  BY <1>8, <1>14

\* A queue entry that is cancelled does not take away what a queued entry needs.
LEMMA ServedCancel ==
  ASSUME StoreTypes, NEW j, CancelRebootsEntry(j), served' = served, NEW i, NEW n,
         Served(i, n), j \in DOMAIN queue => queue[j].node # n
  PROVE  Served(i, n)'
<1>1. /\ DOMAIN queue' = DOMAIN queue
      /\ \A k \in DOMAIN queue : /\ queue'[k].node = queue[k].node
                                 /\ k # j => queue'[k] = queue[k]
      /\ j \in DOMAIN queue => queue'[j].status = "cancelled"
  BY QueueCancels
<1>2. i \in served' \/ \E k \in DOMAIN queue' : Live(k)' /\ queue'[k].node = n
  BY <1>1 DEF Served, Live
<1>3. \A k \in DOMAIN queue' :
        queue'[k].node = n /\ queue'[k].status = "rebooting" => i \in served'
  BY <1>1 DEF Served
<1>4. QED
  BY <1>2, <1>3 DEF Served

LEMMA SharedCancel ==
  ASSUME StoreTypes, NEW j, CancelRebootsEntry(j), served' = served,
         OneOf(list), QueuedServed,
         j \in DOMAIN queue => \A i : Queued(i) => list[i].node # queue[j].node
  PROVE  OneOf(list)' /\ QueuedServed'
<1>1. list' = list
  BY DEF CancelRebootsEntry, necoVars
<1>2. ASSUME NEW i, Queued(i)' PROVE Served(i, list[i].node)'
  <2>1. Queued(i)
    BY <1>1, <1>2 DEF Queued
  <2>2. PICK n : n = list[i].node
    OBVIOUS
  <2>3. Served(i, n)
    BY <2>1, <2>2 DEF QueuedServed, Served
  <2>4. Served(i, n)'
    BY <2>1, <2>2, <2>3, ServedCancel
  <2>5. QED
    BY <1>1, <2>2, <2>4 DEF Served
<1>3. QED
  BY <1>1, <1>2 DEF OneOf, QueuedServed


ServeAll(h) == CollectionInv(h) /\ ServeInv(h) /\ OneOf(list) /\ QueuedServed

\* The node of the queue entry that was found for an entry of the list.
LEMMA FoundNode ==
  ASSUME StoreTypes, DaemonTypes, SameNodes, NEW h \in Host, NEW i \in DOMAIN list,
         NEW j \in DOMAIN queue, i \in DOMAIN seen[h].list, j = rqEntry(h, i)
  PROVE  queue[j].node = list[i].node
<1> DEFINE l == seen[h].list
           q == seen[h].queue
<1>1. DOMAIN q \subseteq Nat \ {0} /\ j = First(q, l[i].node)
  BY SeenTyped, IndexesPositive DEF rqEntry
<1>2. l[i].node = list[i].node
  BY DEF SameNodes
<1>3. j # 0
  BY IndexesPositive DEF StoreTypes
<1>4. j \in DOMAIN q /\ q[j].node = l[i].node
  BY <1>1, <1>3, FirstFinds, ZenonT(90)
<1>5. q[j].node = queue[j].node
  BY <1>4 DEF SameNodes
<1>6. QED
  BY <1>2, <1>4, <1>5

LEMMA ServeCancelStarts ==
  ASSUME StoreTypes, DaemonTypes, NEW h \in Host, LocalInv(h), SameNodes, ServeAll(h),
         CancelStarts(h)
  PROVE  ServeAll(h)'
<1> PICK i, j : i = At(h, "CancelledEntry") /\ j = rqEntry(h, i)
  OBVIOUS
<1>1. /\ CollectionInv(h) /\ ServeInv(h) /\ OneOf(list) /\ QueuedServed
  BY DEF ServeAll
<1>2. /\ collection[h]["CancelledEntry"] # {} /\ CancelRebootsEntry(j)
      /\ half' = [half EXCEPT ![h] = TRUE] /\ UNCHANGED <<rpc, seen, collection, served>>
  BY DEF CancelStarts, Turn, Halfway
<1>3. i \in collection[h]["CancelledEntry"] /\ rpc[h] = "tick"
  BY <1>2, LoopNames, AtIsLeft, LoopPlace
<1>4. /\ i \in DOMAIN list /\ i \in DOMAIN seen[h].list /\ list[i].status = "Cancelled"
      /\ \A loop \in Loops \ {"CancelledEntry"} : collection[h][loop] = {}
  <2>1. "CancelledEntry" \in Loops \ {"OrphanedEntry"}
    BY LoopNames
  <2>2. QED
    BY <1>1, <1>3, <2>1 DEF CollectionInv, LocalInv
<1>5. /\ collection[h]["OrphanedEntry"] = {} /\ collection[h]["CompletedEntry"] = {}
      /\ collection[h]["NewEntry"] = {} /\ collection[h]["TimedOutEntry"] = {}
      /\ collection[h]["QueuedEntry"] = {}
  BY <1>4, LoopNames
<1>6. list' = list
  BY <1>2 DEF CancelRebootsEntry, necoVars
<1>7. ASSUME j \in DOMAIN queue, NEW k, Queued(k)
      PROVE  list[k].node # queue[j].node
  BY <1>1, <1>4, <1>7, FoundNode DEF OneOf, Queued
<1>8. OneOf(list)' /\ QueuedServed'
  BY <1>1, <1>2, <1>7, SharedCancel
<1>9. CollectionInv(h)'
  BY <1>1, <1>2, <1>3, <1>5, <1>6 DEF CollectionInv, ListRead
<1>10. ServeInv(h)'
  BY <1>1, <1>2, <1>3, <1>5 DEF ServeInv, QueueRead
<1>11. QED
  BY <1>8, <1>9, <1>10 DEF ServeAll

LEMMA ServeOrphan ==
  ASSUME StoreTypes, DaemonTypes, NEW h \in Host, LocalInv(h), SameNodes, ServeAll(h),
         CancelsOrphan(h)
  PROVE  ServeAll(h)'
<1> PICK j : j = At(h, "OrphanedEntry")
  OBVIOUS
<1>1. /\ CollectionInv(h) /\ ServeInv(h) /\ OneOf(list) /\ QueuedServed
  BY DEF ServeAll
<1>2. /\ collection[h]["OrphanedEntry"] # {} /\ CancelRebootsEntry(j)
      /\ EntryDone(h, "OrphanedEntry", TRUE) /\ served' = served
  BY DEF CancelsOrphan, Turn
<1>3. j \in collection[h]["OrphanedEntry"] /\ rpc[h] = "tick"
  BY <1>2, LoopNames, AtIsLeft, LoopPlace
<1>4. \A loop \in Loops \ {"OrphanedEntry"} : collection[h][loop] = {}
  BY <1>2 DEF LocalInv
<1>5. /\ \A loop \in Loops : collection'[h][loop] \subseteq collection[h][loop]
      /\ half'[h] = FALSE /\ UNCHANGED <<rpc, seen>>
  <2>1. "OrphanedEntry" \in Loops
    BY LoopNames
  <2>2. QED
    BY <1>2, <2>1, LeftAfter
<1>6. /\ collection'[h]["CancelledEntry"] = {} /\ collection'[h]["CompletedEntry"] = {}
      /\ collection'[h]["NewEntry"] = {}
      /\ collection'[h]["OrphanedEntry"] \subseteq collection[h]["OrphanedEntry"]
      /\ \A loop \in Loops \ {"OrphanedEntry"} : collection'[h][loop] = {}
  BY <1>4, <1>5, LoopNames
<1>7. list' = list
  BY <1>2 DEF CancelRebootsEntry, necoVars
<1>8. j \in DOMAIN queue => \A k : Queued(k) => list[k].node # queue[j].node
  BY <1>1, <1>3 DEF ServeInv
<1>9. OneOf(list)' /\ QueuedServed'
  BY <1>1, <1>2, <1>8, SharedCancel
<1>10. CollectionInv(h)'
  BY <1>3, <1>5, <1>6 DEF CollectionInv, ListRead
<1>11. /\ DOMAIN queue' = DOMAIN queue
       /\ \A k \in DOMAIN queue : queue'[k].node = queue[k].node
  BY <1>2, QueueCancels
<1>12. \A k : Queued(k)' <=> Queued(k)
  BY <1>7 DEF Queued
<1>13. ServeInv(h)'
  BY <1>1, <1>3, <1>5, <1>6, <1>7, <1>11, <1>12, ZenonT(90) DEF ServeInv, QueueRead
<1>14. QED
  BY <1>9, <1>10, <1>13 DEF ServeAll


LEMMA ServeRemoves ==
  ASSUME StoreTypes, DaemonTypes, NEW h \in Host, LocalInv(h), ServeAll(h),
         NEW loop \in {"CancelledEntry", "CompletedEntry"}, Removes(h, loop)
  PROVE  /\ ServeAll(h)'
         /\ \A i \in DOMAIN list \ DOMAIN list' : i \in served \/ list[i].status = "Cancelled"
<1> PICK i : i = At(h, loop)
  OBVIOUS
<1>1. /\ CollectionInv(h) /\ ServeInv(h) /\ OneOf(list) /\ QueuedServed
  BY DEF ServeAll
<1>2. /\ loop \in Loops /\ collection[h][loop] # {} /\ RemoveRebootListEntry(h, i)
      /\ EntryDone(h, loop, TRUE) /\ served' = served
  BY LoopNames DEF Removes, Turn
<1>3. i \in collection[h][loop] /\ rpc[h] = "tick"
  BY <1>2, AtIsLeft, LoopPlace
<1>4. /\ queue' = queue /\ \A k \in DOMAIN list' : list'[k] = list[k]
      /\ DOMAIN list' \subseteq DOMAIN list /\ DOMAIN list \ {i} \subseteq DOMAIN list'
      /\ \A k : Queued(k)' => Queued(k) /\ list'[k].node = list[k].node
  BY <1>2, RemoveFewer DEF Fewer
<1>5. /\ collection'[h][loop] = collection[h][loop] \ {i}
      /\ \A x \in Loops \ {loop} : collection'[h][x] = collection[h][x]
      /\ \A x \in Loops : collection'[h][x] \subseteq collection[h][x]
      /\ half'[h] = FALSE /\ UNCHANGED <<rpc, seen>>
  BY <1>2, LeftAfter
<1>6. /\ collection'[h]["OrphanedEntry"] = {}
      /\ collection'[h]["NewEntry"] \subseteq collection[h]["NewEntry"]
      /\ collection'[h]["CompletedEntry"] \subseteq collection[h]["CompletedEntry"]
      /\ collection'[h]["CancelledEntry"] \subseteq collection[h]["CancelledEntry"]
  BY <1>2, <1>5, LoopNames DEF LocalInv
<1>7. \A x \in Loops \ {loop} : i \notin collection[h][x] \/ x = "OrphanedEntry"
  <2>1. CASE loop = "CancelledEntry"
    BY <1>2, <2>1 DEF LocalInv
  <2>2. CASE loop = "CompletedEntry"
    <3>1. /\ seen[h].list[i].status = "Queued" /\ First(seen[h].queue, seen[h].list[i].node) = 0
          /\ i \notin collection[h]["CancelledEntry"]
      BY <1>3, <2>2, LoopNames DEF LocalInv
    <3>2. i \notin collection[h]["NewEntry"]
      BY <3>1 DEF LocalInv
    <3>3. i \notin collection[h]["TimedOutEntry"] \cup collection[h]["QueuedEntry"]
      BY <3>1 DEF LocalInv
    <3>4. QED
      BY <2>2, <3>1, <3>2, <3>3, LoopNames
  <2>3. QED
    BY <2>1, <2>2
<1>8. CollectionInv(h)'
  <2>1. \A x \in Loops \ {"OrphanedEntry"} : collection'[h][x] \subseteq DOMAIN list'
    <3> SUFFICES ASSUME NEW x \in Loops \ {"OrphanedEntry"}
                 PROVE  collection'[h][x] \subseteq DOMAIN list'
      OBVIOUS
    <3>1. collection[h][x] \subseteq DOMAIN list
      BY <1>1 DEF CollectionInv
    <3>2. i \notin collection'[h][x] /\ collection'[h][x] \subseteq collection[h][x]
      BY <1>5, <1>7
    <3>3. QED
      BY <1>4, <3>1, <3>2
  <2>2. "CancelledEntry" \in Loops \ {"OrphanedEntry"}
    BY LoopNames
  <2>3. \A k \in collection'[h]["CancelledEntry"] : list'[k].status = "Cancelled"
    BY <1>1, <1>4, <1>6, <2>1, <2>2 DEF CollectionInv
  <2>4. QED
    BY <1>3, <1>5, <2>1, <2>3 DEF CollectionInv, ListRead
<1>9. \A k \in collection[h]["NewEntry"] : \A j \in DOMAIN queue :
        queue[j].node # seen[h].list[k].node
  <2>1. CASE loop = "CancelledEntry"
    BY <1>2, <2>1, LoopNames DEF LocalInv
  <2>2. CASE loop = "CompletedEntry"
    BY <1>1, <1>2, <2>2 DEF LocalInv, ServeInv
  <2>3. QED
    BY <2>1, <2>2
<1>10. ServeInv(h)'
  BY <1>1, <1>2, <1>3, <1>4, <1>5, <1>6, <1>9 DEF ServeInv, QueueRead
<1>11. OneOf(list)'
  BY <1>1, <1>4 DEF OneOf
<1>12. QueuedServed'
  BY <1>1, <1>2, <1>4 DEF QueuedServed, Served, Live
<1>13. i \in served \/ list[i].status = "Cancelled"
  BY <1>1, <1>3 DEF CollectionInv, ServeInv
<1>14. QED
  BY <1>4, <1>8, <1>10, <1>11, <1>12, <1>13 DEF ServeAll

LEMMA ServeRegisters ==
  ASSUME StoreTypes, DaemonTypes, NEW h \in Host, LocalInv(h), ServeAll(h), Registers(h)
  PROVE  ServeAll(h)'
<1> PICK i, n : i = At(h, "NewEntry") /\ n = seen[h].list[i].node
  OBVIOUS
<1>1. /\ CollectionInv(h) /\ ServeInv(h) /\ OneOf(list) /\ QueuedServed
  BY DEF ServeAll
<1>2. /\ collection[h]["NewEntry"] # {} /\ half[h] = FALSE /\ RegisterRebootsEntry(n)
      /\ half'[h] = TRUE /\ UNCHANGED <<rpc, seen, collection, served>>
  BY DEF Registers, Turn, Halfway, DaemonTypes
<1>3. i \in collection[h]["NewEntry"] /\ rpc[h] = "tick" /\ n \in Node
      /\ i \in DOMAIN seen[h].list
  BY <1>2, LoopNames, LoopPlace, NewNode
<1>4. PICK new :
        /\ new \notin DOMAIN queue /\ DOMAIN queue' = DOMAIN queue \cup {new}
        /\ \A j \in DOMAIN queue : queue'[j] = queue[j]
        /\ queue'[new].node = n /\ queue'[new].status = "queued"
  BY <1>2, <1>3, RegisterTyped
<1>5. list' = list
  BY <1>2 DEF RegisterRebootsEntry, necoVars
<1>6. collection[h]["OrphanedEntry"] = {} /\ collection[h]["CancelledEntry"] = {}
  BY <1>2, LoopNames DEF LocalInv
<1>7. At(h, "NewEntry")' = i
  BY <1>2 DEF At
<1>8. CollectionInv(h)'
  BY <1>1, <1>2, <1>3, <1>5, <1>6 DEF CollectionInv, ListRead
<1>9. ASSUME NEW k \in collection[h]["NewEntry"], k # i, NEW j \in DOMAIN queue'
      PROVE  queue'[j].node # seen[h].list[k].node
  <2>1. CASE j \in DOMAIN queue
    BY <1>1, <1>2, <1>4, <1>9, <2>1, ZenonT(90) DEF ServeInv
  <2>2. CASE j = new
    <3>1. k \in DOMAIN seen[h].list
      BY <1>9 DEF LocalInv
    <3>2. seen[h].list[k].node # n
      BY <1>1, <1>3, <1>9, <3>1 DEF ServeInv, OneOf
    <3>3. QED
      BY <1>4, <2>2, <3>2
  <2>3. QED
    BY <1>4, <2>1, <2>2
<1>10. Served(i, n)'
  <2>1. \A j \in DOMAIN queue : queue[j].node # n
    BY <1>1, <1>2, <1>3 DEF ServeInv
  <2>2. QED
    BY <1>4, <2>1 DEF Served, Live
<1>11. ServeInv(h)'
  <2>1. Served(At(h, "NewEntry"), seen[h].list[At(h, "NewEntry")].node)'
    BY <1>2, <1>7, <1>10 DEF Served
  <2>2. OneOf(seen'[h].list) /\ collection'[h]["CompletedEntry"] \subseteq served'
    BY <1>1, <1>2 DEF ServeInv
  <2>3. QED
    BY <1>2, <1>3, <1>6, <1>7, <1>9, <2>1, <2>2 DEF ServeInv, QueueRead
<1>12. ASSUME NEW k, Queued(k)' PROVE Served(k, list[k].node)'
  <2>1. Served(k, list[k].node)
    BY <1>1, <1>5, <1>12 DEF QueuedServed, Queued
  <2>2. QED
    BY <1>2, <1>4, <1>5, <2>1 DEF Served, Live
<1>13. QED
  BY <1>1, <1>5, <1>8, <1>11, <1>12 DEF ServeAll, OneOf, QueuedServed


LEMMA ServeQueues ==
  ASSUME StoreTypes, DaemonTypes, NEW h \in Host, LocalInv(h), SameNodes, ServeAll(h),
         Queues(h)
  PROVE  ServeAll(h)' /\ DOMAIN list' = DOMAIN list
<1> PICK i, n : i = At(h, "NewEntry") /\ n = seen[h].list[i].node
  OBVIOUS
<1>1. /\ CollectionInv(h) /\ ServeInv(h) /\ OneOf(list) /\ QueuedServed
  BY DEF ServeAll
<1>2. /\ collection[h]["NewEntry"] # {} /\ half[h] /\ UpdateRebootListEntry(i, "Queued")
      /\ EntryDone(h, "NewEntry", TRUE) /\ served' = served
  BY DEF Queues, Turn
<1>3. i \in collection[h]["NewEntry"] /\ rpc[h] = "tick" /\ i \in DOMAIN seen[h].list
  BY <1>2, LoopNames, LoopPlace, NewNode
<1>4. i \in DOMAIN list /\ list[i].node = n
  <2>1. "NewEntry" \in Loops \ {"OrphanedEntry"}
    BY LoopNames
  <2>2. i \in DOMAIN list
    BY <1>1, <1>3, <2>1 DEF CollectionInv
  <2>3. QED
    BY <1>3, <2>2 DEF SameNodes
<1>5. /\ DOMAIN list' = DOMAIN list
      /\ \A k \in DOMAIN list : /\ list'[k].node = list[k].node
                                /\ k # i => list'[k] = list[k]
      /\ queue' = queue
  <2>1. "Queued" \in Status
    BY DEF Status
  <2>2. /\ DOMAIN list' = DOMAIN list
        /\ \A k \in DOMAIN list : /\ list'[k].node = list[k].node
                                  /\ k # i => list'[k] = list[k]
    BY SMT, <1>2, <2>1, ListWritten
  <2>3. queue' = queue
    BY <1>2, <2>1, UpdateNodes
  <2>4. QED
    BY <2>2, <2>3
<1>6. /\ collection'[h]["NewEntry"] = collection[h]["NewEntry"] \ {i}
      /\ \A x \in Loops : collection'[h][x] \subseteq collection[h][x]
      /\ half'[h] = FALSE /\ UNCHANGED <<rpc, seen>>
  <2>1. "NewEntry" \in Loops
    BY LoopNames
  <2>2. QED
    BY <1>2, <2>1, LeftAfter
<1>7. /\ collection'[h]["OrphanedEntry"] = {} /\ collection'[h]["CancelledEntry"] = {}
      /\ collection'[h]["CompletedEntry"] \subseteq collection[h]["CompletedEntry"]
  BY <1>2, <1>6, LoopNames DEF LocalInv
<1>8. CollectionInv(h)'
  BY <1>1, <1>3, <1>5, <1>6, <1>7 DEF CollectionInv, ListRead
<1>9. ServeInv(h)'
  BY <1>1, <1>2, <1>3, <1>5, <1>6, <1>7 DEF ServeInv, QueueRead
<1>10. OneOf(list)'
  BY <1>1, <1>5 DEF OneOf
<1>11. Served(i, n)
  BY <1>1, <1>2 DEF ServeInv
<1>12. ASSUME NEW k, Queued(k)' PROVE Served(k, list[k].node)'
  <2>1. k \in DOMAIN list /\ list'[k].node = list[k].node
    BY <1>5, <1>12 DEF Queued
  <2>2. Served(k, list[k].node)
    <3>1. CASE k = i
      BY <1>4, <1>11, <3>1
    <3>2. CASE k # i
      BY <1>1, <1>5, <1>12, <2>1, <3>2 DEF QueuedServed, Queued
    <3>3. QED
      BY <3>1, <3>2
  <2>3. QED
    BY <1>2, <1>5, <2>1, <2>2 DEF Served, Live
<1>13. QED
  BY <1>5, <1>8, <1>9, <1>10, <1>12 DEF ServeAll, QueuedServed

LEMMA ServeTakesBack ==
  ASSUME StoreTypes, DaemonTypes, NEW h \in Host, LocalInv(h), ServeAll(h),
         NEW loop \in {"TimedOutEntry", "QueuedEntry"}, TakesBack(h, loop)
  PROVE  ServeAll(h)' /\ DOMAIN list' = DOMAIN list
<1> PICK i : i = At(h, loop)
  OBVIOUS
<1>1. /\ CollectionInv(h) /\ ServeInv(h) /\ OneOf(list) /\ QueuedServed
  BY DEF ServeAll
<1>2. /\ loop \in Loops /\ collection[h][loop] # {} /\ collection[h]["NewEntry"] = {}
      /\ collection[h]["CompletedEntry"] = {}
      /\ UpdateRebootListEntry(i, "Pending")
      /\ half'[h] = TRUE /\ UNCHANGED <<rpc, seen, collection, served>>
  BY LoopNames DEF TakesBack, Turn, Halfway, DaemonTypes
<1>3. /\ i \in collection[h][loop] /\ i \in DOMAIN seen[h].list
      /\ rpc[h] \in Deciding => seen[h].list[i].status = "Pending"
      /\ rpc[h] \in Deciding \cup {"tick"}
  <2>1. i \in collection[h][loop] /\ rpc[h] \in Deciding \cup {"tick"}
    BY <1>2, AtIsLeft, LoopPlace
  <2>2. i \in collection[h]["TimedOutEntry"] \cup collection[h]["QueuedEntry"]
    BY <2>1
  <2>3. QED
    BY <2>1, <2>2 DEF LocalInv
<1>4. /\ DOMAIN list' = DOMAIN list
      /\ \A k \in DOMAIN list : /\ list'[k].node = list[k].node
                                /\ k # i => list'[k] = list[k]
      /\ queue' = queue /\ ~Queued(i)'
      /\ \A k : Queued(k)' => Queued(k) /\ list'[k].node = list[k].node
  <2>1. "Pending" \in Status
    BY DEF Status
  <2>2. /\ DOMAIN list' = DOMAIN list
        /\ \A k \in DOMAIN list : /\ list'[k].node = list[k].node
                                  /\ k # i => list'[k] = list[k]
    BY SMT, <1>2, <2>1, ListWritten
  <2>3. queue' = queue /\ Fewer /\ ~Queued(i)'
    BY <1>2, <2>1, UpdateNodes
  <2>4. QED
    BY <2>2, <2>3 DEF Fewer
<1>5. /\ collection[h]["OrphanedEntry"] = {} /\ collection[h]["CancelledEntry"] = {}
      /\ \A x \in {"TimedOutEntry", "QueuedEntry"} \ {loop} : collection[h][x] = {}
  BY <1>2, LoopNames DEF LocalInv
<1>6. \A x : At(h, x)' = At(h, x)
  BY <1>2 DEF At
<1>7. CollectionInv(h)'
  <2>1. \A x \in {"TimedOutEntry", "QueuedEntry"} :
          collection'[h][x] # {} => ~Queued(At(h, x))'
    <3>1. \A x \in {"TimedOutEntry", "QueuedEntry"} : collection'[h][x] # {} => x = loop
      BY <1>2, <1>5
    <3>2. ~Queued(At(h, loop))'
      BY <1>4, <1>6 DEF Queued
    <3>3. QED
      BY <3>1, <3>2
  <2>2. rpc'[h] \in ListRead =>
          /\ DOMAIN seen'[h].list \subseteq DOMAIN list'
          /\ \A k \in DOMAIN seen'[h].list :
               seen'[h].list[k].status = "Cancelled" => list'[k].status = "Cancelled"
    <3> SUFFICES ASSUME rpc[h] \in ListRead
                 PROVE  /\ DOMAIN seen[h].list \subseteq DOMAIN list'
                        /\ \A k \in DOMAIN seen[h].list :
                             seen[h].list[k].status = "Cancelled" =>
                               list'[k].status = "Cancelled"
      BY <1>2
    <3>1. seen[h].list[i].status = "Pending"
      BY <1>3 DEF ListRead
    <3>2. QED
      BY <1>1, <1>4, <3>1 DEF CollectionInv
  <2>3. QED
    BY <1>1, <1>2, <1>4, <1>5, <2>1, <2>2 DEF CollectionInv
<1>8. ServeInv(h)'
  <2>1. rpc'[h] # "queue"
    BY <1>2, <1>3 DEF Deciding
  <2>2. \A k : SeenQueued(h, k)' <=> SeenQueued(h, k)
    BY <1>2 DEF SeenQueued
  <2>3. QED
    BY <1>1, <1>2, <1>5, <2>1, <2>2 DEF ServeInv
<1>9. OneOf(list)'
  BY <1>1, <1>4 DEF OneOf
<1>10. QueuedServed'
  BY <1>1, <1>2, <1>4 DEF QueuedServed, Served, Live
<1>11. QED
  BY <1>4, <1>7, <1>8, <1>9, <1>10 DEF ServeAll

LEMMA ServeCancelsTaken ==
  ASSUME StoreTypes, DaemonTypes, NEW h \in Host, LocalInv(h), SameNodes, ServeAll(h),
         NEW loop \in {"TimedOutEntry", "QueuedEntry"}, CancelsTaken(h, loop)
  PROVE  ServeAll(h)' /\ list' = list
<1> PICK i, j : i = At(h, loop) /\ j = rqEntry(h, i)
  OBVIOUS
<1>1. /\ CollectionInv(h) /\ ServeInv(h) /\ OneOf(list) /\ QueuedServed
  BY DEF ServeAll
<1>2. /\ loop \in Loops /\ collection[h][loop] # {} /\ collection[h]["NewEntry"] = {}
      /\ collection[h]["CompletedEntry"] = {} /\ half[h]
      /\ CancelRebootsEntry(j) /\ EntryDone(h, loop, TRUE) /\ served' = served
  BY LoopNames DEF CancelsTaken, Turn
<1>3. /\ i \in collection[h][loop] /\ i \in DOMAIN seen[h].list
      /\ rpc[h] \in Deciding \cup {"tick"}
  <2>1. i \in collection[h][loop] /\ rpc[h] \in Deciding \cup {"tick"}
    BY <1>2, AtIsLeft, LoopPlace
  <2>2. i \in collection[h]["TimedOutEntry"] \cup collection[h]["QueuedEntry"]
    BY <2>1
  <2>3. QED
    BY <2>1, <2>2 DEF LocalInv
<1>4. i \in DOMAIN list /\ ~Queued(i)
  <2>1. loop \in Loops \ {"OrphanedEntry"}
    BY LoopNames
  <2>2. QED
    BY <1>1, <1>2, <1>3, <2>1 DEF CollectionInv
<1>5. list' = list
  BY <1>2 DEF CancelRebootsEntry, necoVars
<1>6. ASSUME j \in DOMAIN queue, NEW k, Queued(k)
      PROVE  list[k].node # queue[j].node
  BY <1>1, <1>3, <1>4, <1>6, FoundNode DEF OneOf, Queued
<1>7. OneOf(list)' /\ QueuedServed'
  BY <1>1, <1>2, <1>6, SharedCancel
<1>8. /\ \A x \in Loops : collection'[h][x] \subseteq collection[h][x]
      /\ half'[h] = FALSE /\ UNCHANGED <<rpc, seen>>
  BY <1>2, LeftAfter
<1>9. /\ collection'[h]["OrphanedEntry"] = {} /\ collection'[h]["CancelledEntry"] = {}
      /\ collection'[h]["CompletedEntry"] = {} /\ collection'[h]["NewEntry"] = {}
  BY <1>2, <1>8, LoopNames DEF LocalInv
<1>10. CollectionInv(h)'
  BY <1>1, <1>5, <1>8, <1>9 DEF CollectionInv
<1>11. ServeInv(h)'
  <2>1. rpc'[h] # "queue"
    BY <1>3, <1>8 DEF Deciding
  <2>2. \A k : SeenQueued(h, k)' <=> SeenQueued(h, k)
    BY <1>8 DEF SeenQueued
  <2>3. QED
    BY <1>1, <1>2, <1>8, <1>9, <2>1, <2>2 DEF ServeInv
<1>12. QED
  BY <1>5, <1>7, <1>10, <1>11 DEF ServeAll


\* The inductive invariant for what leaves the list.
ServedInv ==
  /\ GroupsInv
  /\ \A h \in Host : CollectionInv(h) /\ ServeInv(h)
  /\ OneOf(list) /\ QueuedServed

\* What a step may take off the list.
LeavesServed ==
  \A i \in DOMAIN list \ DOMAIN list' : i \in served \/ list[i].status = "Cancelled"

LEMMA ServeOthers ==
  ASSUME ServedInv, NEW h \in Host,
         DaemonStep(h) \/ Exit(h) \/ Crash(h) \/ LeaseExpires(h),
         NEW x \in Host, x # h
  PROVE  CollectionInv(x)' /\ ServeInv(x)'
<1>1. /\ DaemonTypes /\ LocalInv(x) /\ SameNodes /\ TypeInv
      /\ CollectionInv(x) /\ ServeInv(x)
  BY TypeParts DEF TypeInv, GroupsInv, ServedInv
<1>2. rpc'[x] = rpc[x] /\ seen'[x] = seen[x] /\ collection'[x] = collection[x]
      /\ half'[x] = half[x]
  BY <1>1, OthersAreKept DEF OthersKept
<1>3. CASE Running(h)
  <2>1. ~Running(x)
    BY <1>3 DEF ServedInv, GroupsInv, Alone
  <2>2. rpc'[x] \notin ListRead /\ collection'[x] = NoEntries
    BY <1>1, <1>2, <2>1 DEF Running, ListRead, LocalInv, Deciding
  <2>3. half'[x] = FALSE /\ OneOf(seen'[x].list)
    BY <1>1, <1>2, <2>2 DEF LocalInv, DaemonTypes, ServeInv
  <2>4. QED
    BY <2>2, <2>3, ServeIdle
<1>4. CASE ~Running(h)
  <2>1. Start(h) \/ Elected(h) \/ LeaseExpires(h)
    BY <1>1, <1>4, IdleSteps
  <2>2. Harmless
    BY <1>1, <2>1, QuietSteps, KeptHarmless
  <2>3. QED
    BY <1>1, <1>2, <2>2, ServeHarmless
<1>5. QED
  BY <1>3, <1>4

LEMMA ServeDaemon ==
  ASSUME ~Overlap, ~Duplicates, ServedInv, NEW h \in Host,
         DaemonStep(h) \/ Exit(h) \/ Crash(h) \/ LeaseExpires(h)
  PROVE  ServedInv' /\ LeavesServed
<1>1. /\ GroupsInv /\ TypeInv /\ SameNodes /\ StoreTypes /\ DaemonTypes /\ LocalInv(h)
      /\ CollectionInv(h) /\ ServeInv(h) /\ CopyInv(h) /\ OneOf(list) /\ QueuedServed
  BY TypeParts DEF ServedInv, GroupsInv, TypeInv
<1>2. GroupsInv'
  BY <1>1, GroupsDaemon
<1>3. \A x \in Host \ {h} : CollectionInv(x)' /\ ServeInv(x)'
  BY ServeOthers
<1>4. ASSUME UNCHANGED <<list, queue, served>>
      PROVE  OneOf(list)' /\ QueuedServed' /\ LeavesServed
  BY <1>1, <1>4, KeptHarmless, SharedHarmless DEF LeavesServed
<1>5. ServeAll(h)' /\ LeavesServed
  <2>1. CASE LoopStep(h)
    <3>1. ServeAll(h)
      BY <1>1 DEF ServeAll
    <3>2. CASE CancelStarts(h) \/ CancelsOrphan(h) \/ Registers(h)
      <4>1. list' = list
        BY <3>2 DEF CancelStarts, CancelsOrphan, Registers, CancelRebootsEntry,
                    RegisterRebootsEntry, necoVars
      <4>2. QED
        BY <1>1, <3>1, <3>2, <4>1, ServeCancelStarts, ServeOrphan, ServeRegisters
        DEF LeavesServed
    <3>3. CASE Removes(h, "CancelledEntry") \/ Removes(h, "CompletedEntry")
      BY <1>1, <3>1, <3>3, ServeRemoves DEF LeavesServed
    <3>4. CASE Queues(h)
      BY <1>1, <3>1, <3>4, ServeQueues DEF LeavesServed
    <3>5. ASSUME NEW loop \in {"TimedOutEntry", "QueuedEntry"},
                 TakesBack(h, loop) \/ CancelsTaken(h, loop)
          PROVE  ServeAll(h)' /\ LeavesServed
      BY <1>1, <3>1, <3>5, ServeTakesBack, ServeCancelsTaken DEF LeavesServed
    <3>6. QED
      BY <2>1, <3>2, <3>3, <3>4, <3>5 DEF LoopStep
  <2>2. CASE Ended(h) \/ Start(h) \/ Elected(h) \/ LeaseExpires(h)
    <3>1. UNCHANGED <<list, queue, served>>
      BY <1>1, <2>2, QuietSteps
    <3>2. CollectionInv(h)' /\ ServeInv(h)'
      <4>1. CASE Ended(h)
        <5>1. rpc'[h] = "down" /\ collection'[h] = NoEntries /\ half'[h] = FALSE
              /\ seen'[h] = Nothing
          BY <1>1, <4>1 DEF Ended, Gone, Goto, DaemonTypes
        <5>2. DOMAIN Nothing.list = {}
          BY SMT DEF Nothing, EmptyMap
        <5>3. QED
          BY <5>1, <5>2, ServeIdle DEF ListRead, OneOf
      <4>2. CASE Start(h) \/ Elected(h)
        <5>1. rpc[h] \in {"down", "campaign"} /\ rpc'[h] \in {"campaign", "tick"}
              /\ UNCHANGED <<collection, half, seen>>
          BY <1>1, <4>2 DEF Start, Elected, Goto, DaemonTypes
        <5>2. collection[h] = NoEntries /\ half[h] = FALSE
          BY <1>1, <5>1 DEF LocalInv, Deciding, DaemonTypes
        <5>3. QED
          BY <1>1, <5>1, <5>2, ServeIdle DEF ListRead, ServeInv
      <4>3. CASE LeaseExpires(h)
        <5>1. UNCHANGED <<rpc, seen, collection, half>>
          BY <4>3 DEF LeaseExpires
        <5>2. QED
          BY <1>1, <3>1, <5>1, KeptHarmless, ServeHarmless
      <4>4. QED
        BY <2>2, <4>1, <4>2, <4>3
    <3>3. QED
      BY <1>4, <3>1, <3>2 DEF ServeAll
  <2>3. CASE ReadEnabled(h) \/ ReadList(h) \/ ReadQueue(h)
    BY <1>1, <1>4, <2>3, ReadCopies, ServeReads DEF ServeAll
  <2>4. CASE ReadGroup(h)
    <3>1. UNCHANGED <<list, queue, served>>
      BY <1>1, <2>4, ReadGroupCopies DEF GroupRead
    <3>2. QED
      BY <1>1, <1>4, <2>4, <3>1, ServeReadGroup DEF ServeAll
  <2>5. CASE UpdateProcessingGroup(h)
    <3>1. /\ UNCHANGED <<list, queue, served, seen, collection, half>>
          /\ rpc[h] = "move" /\ rpc'[h] = "collect" /\ collection[h] = NoEntries
      BY <1>1, <2>5 DEF UpdateProcessingGroup, Goto, DaemonTypes, ckeVars
    <3>2. CollectionInv(h)'
      BY <1>1, <3>1, NoEntriesIs DEF CollectionInv, ListRead
    <3>3. \A i : SeenQueued(h, i)' <=> SeenQueued(h, i)
      BY <3>1 DEF SeenQueued
    <3>4. ServeInv(h)'
      BY <1>1, <3>1, <3>3, NoEntriesIs DEF ServeInv, QueueRead
    <3>5. QED
      BY <1>4, <3>1, <3>2, <3>4 DEF ServeAll
  <2>6. CASE Collect(h)
    <3>1. UNCHANGED <<list, queue, served>>
      BY <2>6 DEF Collect, necoVars, ckeVars
    <3>2. QED
      BY <1>1, <1>4, <2>6, <3>1, ServeCollects DEF ServeAll
  <2>7. QED
    BY <2>1, <2>2, <2>3, <2>4, <2>5, <2>6, DaemonCases
<1>6. QED
  BY <1>2, <1>3, <1>5 DEF ServedInv, ServeAll


LEMMA ServeQuiet ==
  ASSUME ~Duplicates, ServedInv, GroupsInv', Harmless,
         UNCHANGED <<rpc, seen, collection, half>>
  PROVE  ServedInv' /\ LeavesServed
<1>1. DaemonTypes /\ SameNodes /\ TypeInv
  BY TypeParts DEF ServedInv, GroupsInv, TypeInv
<1>2. ASSUME NEW h \in Host PROVE CollectionInv(h)' /\ ServeInv(h)'
  <2>1. LocalInv(h) /\ CollectionInv(h) /\ ServeInv(h)
    BY <1>1 DEF ServedInv, TypeInv
  <2>2. QED
    BY <1>1, <2>1, ServeHarmless
<1>3. OneOf(list)' /\ QueuedServed'
  BY SharedHarmless DEF ServedInv
<1>4. LeavesServed
  BY DEF Harmless, ListDisturbed, LeavesServed
<1>5. QED
  BY <1>2, <1>3, <1>4 DEF ServedInv

LEMMA ServeInitial ==
  RebooterInit => ServedInv
<1> SUFFICES ASSUME RebooterInit PROVE ServedInv
  OBVIOUS
<1>1. list = EmptyMap /\ DOMAIN EmptyMap = {}
  BY DEF RebooterInit, EmptyMap
<1>2. OneOf(list) /\ QueuedServed
  BY <1>1 DEF OneOf, QueuedServed, Queued
<1>3. DOMAIN Nothing.list = {}
  BY SMT DEF Nothing, EmptyMap
<1>4. ASSUME NEW h \in Host PROVE CollectionInv(h) /\ ServeInv(h)
  <2>1. rpc[h] = "down" /\ collection[h] = NoEntries /\ half[h] = FALSE
        /\ seen[h] = Nothing
    BY <1>4 DEF RebooterInit
  <2>2. OneOf(seen[h].list)
    BY <1>3, <2>1 DEF OneOf
  <2>3. QED
    BY <2>1, <2>2, NoEntriesIs, LoopNames DEF CollectionInv, ServeInv, ListRead, QueueRead
<1>5. QED
  BY <1>2, <1>4, GroupsInitial DEF ServedInv

LEMMA ServeStep ==
  ASSUME ~Overlap, ~Duplicates, ServedInv, [RebooterNext]_rebooterVars
  PROVE  ServedInv' /\ LeavesServed
<1>1. GroupsInv /\ GroupsInv' /\ StoreTypes /\ SameNodes
  BY GroupsStep, TypeParts DEF ServedInv, GroupsInv, TypeInv
<1>2. CASE Environment
  <2>1. Disturbed
    BY <1>1, <1>2, EnvironmentDisturbs
  <2>2. Harmless /\ UNCHANGED <<rpc, seen, collection, half>>
    BY <2>1 DEF Disturbed, Harmless, daemonVars
  <2>3. QED
    BY <1>1, <2>2, ServeQuiet
<1>3. CASE UNCHANGED rebooterVars
  <2>1. UNCHANGED <<list, queue, served, rpc, seen, collection, half>>
    BY <1>3 DEF rebooterVars, necoVars, ckeVars, daemonVars
  <2>2. Harmless
    BY <1>1, <2>1, KeptHarmless
  <2>3. QED
    BY <1>1, <2>1, <2>2, ServeQuiet
<1>4. QED
  BY <1>2, <1>3, NextIs, ServeDaemon

\* RemovedWhenServed, whatever the hosts, the nodes, their groups and the times:
\* as long as a daemon stops before its lease expires and no node is listed
\* twice, what the daemon takes for completed was rebooted.
THEOREM RemovedOnlyWhenServed ==
  ~Overlap /\ ~Duplicates => (RebooterSpec => RemovedWhenServed)
<1> SUFFICES ASSUME ~Overlap, ~Duplicates PROVE RebooterSpec => RemovedWhenServed
  OBVIOUS
<1>1. ServedInv /\ [RebooterNext]_rebooterVars => ServedInv'
  BY ServeStep
<1>2. ServedInv /\ [RebooterNext]_rebooterVars =>
        [\A i \in DOMAIN list \ DOMAIN list' :
           i \in served \/ list[i].status = "Cancelled"]_rebooterVars
  BY ServeStep DEF LeavesServed
<1>3. QED
  BY <1>1, <1>2, ServeInitial, PTL DEF RebooterSpec, RemovedWhenServed

=============================================================================
