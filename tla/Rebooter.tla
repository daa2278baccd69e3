------------------------------ MODULE Rebooter ------------------------------
(***************************************************************************)
(* neco-rebooter: the elected daemon moves the nodes of the reboot list,   *)
(* group by group, into CKE's reboot queue; administrators add, cancel,    *)
(* enable and disable.                                                     *)
(* Source: pkg/neco-rebooter, storage/neco-rebooter.go and the commands    *)
(* `neco rebooter`.  CKE is modelled from the statuses this code reads.    *)
(*                                                                         *)
(* runOnce reads the list, the queue and the group, and then issues one    *)
(* request after the other on the strength of what it has read: the model  *)
(* keeps the copies (seen) and the entries that its loops have not yet     *)
(* treated (collection).                                                   *)
(***************************************************************************)
EXTENDS Integers, Sequences

CONSTANTS
  Host,         \* boot servers, each with a neco-rebooter
  NoHost,       \* the election key has no owner
  Node,         \* nodes of the Kubernetes cluster
  GroupOf,      \* the value of each node's group label
  NoGroup,      \* no processing group has been recorded
  Labels,       \* the labels of each node
  RebootTimes,  \* configured times: [match, deny, allow], in order
  Overlap,      \* may a daemon go on for a while after its lease expired?
  Duplicates    \* may a node be listed that is on the list already?

ASSUME RebooterAssumption ==
  /\ NoHost \notin Host
  /\ DOMAIN RebootTimes \subseteq Nat \ {0}
  /\ NoGroup \notin {GroupOf[n] : n \in Node}
  /\ {Overlap, Duplicates} \subseteq BOOLEAN

VARIABLES
  enabled, list, writeIndex, group,  \* neco's keys in etcd
  leader,        \* the owner of the election key
  queue, queueIndex,                 \* CKE's reboot queue
  within,        \* the schedules the present time is within
  rpc,           \* where each daemon is
  seen,          \* what its runOnce has read: [enabled, list, queue, group]
  allGroups,     \* its package variable: the order of the groups
  collection,    \* the entries its runOnce has still to treat, for each loop
  half,          \* has it made the first of two requests for an entry?
  cancelling,    \* the entries that `cancel-all` has still to cancel
  served         \* history: entries whose node was rebooted while listed

necoVars == <<enabled, list, writeIndex, group>>
ckeVars == <<queue, queueIndex>>
daemonVars == <<leader, rpc, seen, allGroups, collection, half>>
rebooterVars == <<necoVars, ckeVars, within, daemonVars, cancelling, served>>

EmptyMap == [i \in {} |-> 0]
Put(f, k, v) == [x \in DOMAIN f \cup {k} |-> IF x = k THEN v ELSE f[x]]
Without(f, k) == [x \in DOMAIN f \ {k} |-> f[x]]
Least(S) == CHOOSE x \in S : \A y \in S : x <= y

Nothing == [enabled |-> FALSE, list |-> EmptyMap, queue |-> EmptyMap,
            group |-> NoGroup]

Loops == {"CancelledEntry", "OrphanedEntry", "CompletedEntry", "NewEntry",
          "TimedOutEntry", "QueuedEntry"}
NoEntries == [loop \in Loops |-> {}]

----------------------------------------------------------------------------
(* What runOnce decides from what it has read. *)

\* matchRebootTimes: the first time whose labels the node has; 0: none.
matchRebootTimes(n) ==
  LET matching == {t \in DOMAIN RebootTimes : RebootTimes[t].match \subseteq Labels[n]}
  IN  IF matching = {} THEN 0 ELSE Least(matching)

\* isRebootable, for the time that Add stored in the entry: deny comes first.
isRebootable(e) ==
  LET t == RebootTimes[e.time]
  IN  t.deny \cap within = {} /\ t.allow \cap within # {}

\* findRebootQueueEntry..., findRebootListEntry...: entries are matched by
\* their node, and the first one counts; 0 is nil.
First(entries, n) ==
  LET same == {i \in DOMAIN entries : entries[i].node = n}
  IN  IF same = {} THEN 0 ELSE Least(same)

\* collectEntries.
CancelledEntry(l) == {i \in DOMAIN l : l[i].status = "Cancelled"}

\* Variant: nodes of every group.
NewEntryAnyGroup(l, q, g) ==
  {i \in DOMAIN l : /\ l[i].status = "Pending" /\ First(q, l[i].node) = 0
                    /\ isRebootable(l[i])}

NewEntry(l, q, g) ==
  {i \in DOMAIN l : /\ l[i].status = "Pending" /\ First(q, l[i].node) = 0
                    /\ GroupOf[l[i].node] = g /\ isRebootable(l[i])}

CompletedEntry(l, q) ==
  {i \in DOMAIN l : l[i].status = "Queued" /\ First(q, l[i].node) = 0}

QueuedEntry(l, q) ==
  {i \in DOMAIN l : l[i].status = "Queued" /\ First(q, l[i].node) # 0}

TimedOutEntry(l, q) ==
  {i \in QueuedEntry(l, q) : /\ ~isRebootable(l[i])
                             /\ q[First(q, l[i].node)].status # "rebooting"}

OrphanedEntry(l, q) ==
  {j \in DOMAIN q :
     /\ q[j].status # "cancelled"
     /\ LET i == First(l, q[j].node)
        IN  i = 0 \/ (i # 0 /\ l[i].status = "Pending")}

\* The copies are changed as well: dequeueAndCancelEntry writes through
\* pointers into them.
ListDequeued(l, S) ==
  [i \in DOMAIN l |-> IF i \in S THEN [l[i] EXCEPT !.status = "Pending"]
                                 ELSE l[i]]

QueueCancelled(l, q, S) ==
  [j \in DOMAIN q |-> IF \E i \in S : j = First(q, l[i].node)
                        THEN [q[j] EXCEPT !.status = "cancelled"] ELSE q[j]]

\* The orders of a set of at most n elements.
Shuffles(S, n) ==
  {order \in UNION {[1 .. m -> S] : m \in 0 .. n} :
     /\ \A x \in S : \E k \in DOMAIN order : order[k] = x
     /\ \A k, m \in DOMAIN order : order[k] = order[m] => k = m}

\* getAllGroups, isEqualContents: the order is shuffled when the set of groups
\* of the list has changed, and kept otherwise.
Orders(h, l) ==
  LET groups == {GroupOf[l[i].node] : i \in DOMAIN l}
      before == allGroups[h]
  IN  IF {before[k] : k \in DOMAIN before} = groups THEN {before}
      ELSE Shuffles(groups, writeIndex)

\* cycleSlices: the order, beginning at the processing group.
cycleSlices(order, g) ==
  LET at == {k \in DOMAIN order : order[k] = g}
      shifted(k) == [m \in DOMAIN order |-> order[((m + k - 2) % Len(order)) + 1]]
  IN  IF at = {} THEN order ELSE shifted(Least(at))

findRebootableNodeInGroup(l, g) ==
  {i \in DOMAIN l : GroupOf[l[i].node] = g /\ isRebootable(l[i])}

isStuck(q) ==
  \A j \in DOMAIN q : q[j].status # "rebooting" /\ q[j].backedOff

\* Variant: the processing group is kept.
NextGroupSame(l, order, g) == g

\* moveToNextGroup: the first candidate that is another group.
NextGroup(l, order, g) ==
  LET cycled == cycleSlices(order, g)
      others == {k \in DOMAIN cycled :
                   cycled[k] # g /\ findRebootableNodeInGroup(l, cycled[k]) # {}}
  IN  IF others = {} THEN g ELSE cycled[Least(others)]

\* Variant: nothing is taken back when the rebooter is disabled.
CollectedDisabled(l, q, g, on) ==
  IF CancelledEntry(l) # {}
    THEN [NoEntries EXCEPT !.CancelledEntry = CancelledEntry(l)]
  ELSE IF OrphanedEntry(l, q) # {}
    THEN [NoEntries EXCEPT !.OrphanedEntry = OrphanedEntry(l, q)]
  ELSE [NoEntries EXCEPT
          !.CompletedEntry = CompletedEntry(l, q),
          !.NewEntry = IF on THEN NewEntry(l, q, g) ELSE {},
          !.TimedOutEntry = IF on THEN TimedOutEntry(l, q) ELSE {}]

\* The second half of runOnce: which loops it goes through, over what.
Collected(l, q, g, on) ==
  IF CancelledEntry(l) # {}
    THEN [NoEntries EXCEPT !.CancelledEntry = CancelledEntry(l)]
  ELSE IF OrphanedEntry(l, q) # {}
    THEN [NoEntries EXCEPT !.OrphanedEntry = OrphanedEntry(l, q)]
  ELSE [NoEntries EXCEPT
          !.CompletedEntry = CompletedEntry(l, q),
          !.NewEntry = IF on THEN NewEntry(l, q, g) ELSE {},
          !.TimedOutEntry = IF on THEN TimedOutEntry(l, q) ELSE {},
          !.QueuedEntry = IF on THEN {} ELSE QueuedEntry(l, q)]

----------------------------------------------------------------------------
(* The daemon: Run and runOnce. *)

Goto(h, place) == rpc' = [rpc EXCEPT ![h] = place]

Running(h) == rpc[h] \notin {"down", "campaign"}

\* The process ends; the next one starts with fresh variables.
Gone(h) ==
  /\ Goto(h, "down")
  /\ seen' = [seen EXCEPT ![h] = Nothing]
  /\ allGroups' = [allGroups EXCEPT ![h] = <<>>]
  /\ collection' = [collection EXCEPT ![h] = NoEntries]
  /\ half' = [half EXCEPT ![h] = FALSE]

\* Run returns, after an error, a signal or the loss of the leader key: it
\* resigns unless the session has ended.
Returns(h) ==
  /\ Running(h)
  /\ Gone(h)
  /\ leader' = IF leader = h THEN NoHost ELSE leader

Exit(h) ==
  /\ Returns(h)
  /\ UNCHANGED <<necoVars, ckeVars, within, cancelling, served>>

Start(h) ==
  /\ rpc[h] = "down"
  /\ Goto(h, "campaign")
  /\ UNCHANGED <<necoVars, leader, ckeVars, within, seen, allGroups, collection,
                 half, cancelling, served>>

\* Campaign returns.
Elected(h) ==
  /\ rpc[h] = "campaign"
  /\ leader = NoHost
  /\ leader' = h
  /\ Goto(h, "tick")
  /\ UNCHANGED <<necoVars, ckeVars, within, seen, allGroups, collection, half,
                 cancelling, served>>

\* One of the reads at the beginning of runOnce.
Reads(h, from, to, copy) ==
  /\ rpc[h] = from
  /\ Goto(h, to)
  /\ seen' = [seen EXCEPT ![h] = copy]
  /\ UNCHANGED <<necoVars, leader, ckeVars, within, allGroups, collection, half,
                 cancelling, served>>

\* The ticker fires when the previous runOnce has ended.
ReadEnabled(h) ==
  /\ collection[h] = NoEntries
  /\ Reads(h, "tick", "list", [Nothing EXCEPT !.enabled = enabled])

ReadList(h) ==
  Reads(h, "list", "queue", [seen[h] EXCEPT !.list = list])

ReadQueue(h) ==
  Reads(h, "queue", "group", [seen[h] EXCEPT !.queue = queue])

\* The last read, and the decision to leave the processing group: when the
\* queue is stuck its entries are taken back first.
ReadGroup(h) ==
  LET l == seen[h].list
      q == seen[h].queue
      moves == /\ seen[h].enabled /\ \E i \in DOMAIN l : isRebootable(l[i])
               /\ q = EmptyMap \/ isStuck(q)
      back == IF moves THEN QueuedEntry(l, q) ELSE {}
  IN  /\ rpc[h] = "group"
      /\ \E order \in Orders(h, l) :
           LET next == IF moves THEN NextGroup(l, order, group) ELSE group
           IN  /\ allGroups' = [allGroups EXCEPT ![h] = order]
               /\ seen' = [seen EXCEPT ![h] =
                    [enabled |-> seen[h].enabled, list |-> ListDequeued(l, back),
                     queue |-> QueueCancelled(l, q, back), group |-> next]]
               /\ Goto(h, IF next = group THEN "collect" ELSE "move")
      /\ collection' = [collection EXCEPT ![h].QueuedEntry = back]
      /\ UNCHANGED <<necoVars, leader, ckeVars, within, half, cancelling, served>>

UpdateProcessingGroup(h) ==
  /\ rpc[h] = "move"
  /\ collection[h] = NoEntries
  /\ group' = seen[h].group
  /\ Goto(h, "collect")
  /\ UNCHANGED <<enabled, list, writeIndex, leader, ckeVars, within, seen,
                 allGroups, collection, half, cancelling, served>>

\* The second half begins when the first is done; the ticker waits for its end.
Collect(h) ==
  /\ rpc[h] = "collect"
  /\ collection[h] = NoEntries
  /\ collection' = [collection EXCEPT ![h] =
       Collected(seen[h].list, seen[h].queue, seen[h].group, seen[h].enabled)]
  /\ Goto(h, "tick")
  /\ UNCHANGED <<necoVars, leader, ckeVars, within, seen, allGroups, half,
                 cancelling, served>>

\* UpdateRebootListEntry writes the whole entry over what is there; ErrNotFound.
UpdateRebootListEntry(i, status) ==
  /\ list' = IF i \in DOMAIN list THEN [list EXCEPT ![i].status = status] ELSE list
  /\ UNCHANGED <<enabled, writeIndex, group, ckeVars>>

\* RemoveRebootListEntry: the only request that requires the leader key.
RemoveRebootListEntry(h, i) ==
  /\ list' = IF leader = h THEN Without(list, i) ELSE list
  /\ UNCHANGED <<enabled, writeIndex, group, ckeVars>>

\* CKE's UpdateRebootsEntry, with the status that cancels; ErrNotFound.
CancelRebootsEntry(j) ==
  /\ queue' = IF j \in DOMAIN queue THEN [queue EXCEPT ![j].status = "cancelled"]
              ELSE queue
  /\ UNCHANGED <<necoVars, queueIndex>>

\* CKE's RegisterRebootsEntry.
RegisterRebootsEntry(n) ==
  /\ queue' = Put(queue, queueIndex + 1,
                  [node |-> n, status |-> "queued", backedOff |-> FALSE])
  /\ queueIndex' = queueIndex + 1
  /\ UNCHANGED necoVars

\* The turn of a loop, when those before it are done: the entry it is at, and
\* the one of the queue that was found for it.
Turn(h, loop, before) ==
  collection[h][loop] # {} /\ \A b \in before : collection[h][b] = {}
At(h, loop) == Least(collection[h][loop])
rqEntry(h, i) == First(seen[h].queue, seen[h].list[i].node)

\* After the first of two requests, and after the last one; an error ends Run.
Halfway(h, ok) ==
  IF ok THEN half' = [half EXCEPT ![h] = TRUE]
             /\ UNCHANGED <<leader, rpc, seen, allGroups, collection>>
        ELSE Returns(h)

EntryDone(h, loop, ok) ==
  IF ok THEN /\ collection' = [collection EXCEPT ![h][loop] =
                                collection[h][loop] \ {At(h, loop)}]
             /\ half' = [half EXCEPT ![h] = FALSE]
             /\ UNCHANGED <<leader, rpc, seen, allGroups>>
        ELSE Returns(h)

removeCancelledEntry(h) ==
  LET i == At(h, "CancelledEntry")
      j == rqEntry(h, i)
  IN  /\ Turn(h, "CancelledEntry", {})
      /\ \/ j # 0 /\ ~half[h] /\ CancelRebootsEntry(j)
            /\ Halfway(h, j \in DOMAIN queue)
         \/ (j = 0 \/ half[h]) /\ RemoveRebootListEntry(h, i)
            /\ EntryDone(h, "CancelledEntry", leader = h)
      /\ UNCHANGED <<within, cancelling, served>>

RemoveOrphanedEntry(h) ==
  LET j == At(h, "OrphanedEntry")
  IN  /\ Turn(h, "OrphanedEntry", {})
      /\ CancelRebootsEntry(j) /\ EntryDone(h, "OrphanedEntry", j \in DOMAIN queue)
      /\ UNCHANGED <<within, cancelling, served>>

removeCompletedEntry(h) ==
  LET i == At(h, "CompletedEntry")
  IN  /\ Turn(h, "CompletedEntry", {})
      /\ RemoveRebootListEntry(h, i) /\ EntryDone(h, "CompletedEntry", leader = h)
      /\ UNCHANGED <<within, cancelling, served>>

addRebootListEntry(h) ==
  LET i == At(h, "NewEntry")
  IN  /\ Turn(h, "NewEntry", {"CompletedEntry"})
      /\ \/ ~half[h] /\ RegisterRebootsEntry(seen[h].list[i].node)
            /\ Halfway(h, TRUE)
         \/ half[h] /\ UpdateRebootListEntry(i, "Queued")
            /\ EntryDone(h, "NewEntry", i \in DOMAIN list)
      /\ UNCHANGED <<within, cancelling, served>>

\* Variant: the queue entry is cancelled first.
dequeueAndCancelEntrySwapped(h, loop) ==
  LET i == At(h, loop)
      j == rqEntry(h, i)
  IN  /\ Turn(h, loop, {"CompletedEntry", "NewEntry"})
      /\ \/ half[h] /\ UpdateRebootListEntry(i, "Pending")
            /\ EntryDone(h, loop, i \in DOMAIN list)
         \/ ~half[h] /\ CancelRebootsEntry(j) /\ Halfway(h, j \in DOMAIN queue)
      /\ UNCHANGED <<within, cancelling, served>>

\* Of the timed out entries, or of all that are queued.
dequeueAndCancelEntry(h, loop) ==
  LET i == At(h, loop)
      j == rqEntry(h, i)
  IN  /\ Turn(h, loop, {"CompletedEntry", "NewEntry"})
      /\ \/ ~half[h] /\ UpdateRebootListEntry(i, "Pending")
            /\ Halfway(h, i \in DOMAIN list)
         \/ half[h] /\ CancelRebootsEntry(j) /\ EntryDone(h, loop, j \in DOMAIN queue)
      /\ UNCHANGED <<within, cancelling, served>>

DaemonStep(h) ==
  \/ Start(h) \/ Elected(h) \/ ReadEnabled(h) \/ ReadList(h) \/ ReadQueue(h)
  \/ ReadGroup(h) \/ UpdateProcessingGroup(h) \/ Collect(h)
  \/ removeCancelledEntry(h) \/ RemoveOrphanedEntry(h) \/ removeCompletedEntry(h)
  \/ addRebootListEntry(h)
  \/ \E loop \in {"TimedOutEntry", "QueuedEntry"} : dequeueAndCancelEntry(h, loop)

\* The process is killed; its key remains until the lease expires.
Crash(h) ==
  /\ Running(h)
  /\ Gone(h)
  /\ UNCHANGED <<necoVars, leader, ckeVars, within, cancelling, served>>

\* etcd drops the lease.  A daemon that still runs learns of it through
\* watchLeaderKey (Exit), perhaps only after further requests.
LeaseExpires(h) ==
  /\ leader = h
  /\ Running(h) => Overlap
  /\ leader' = NoHost
  /\ UNCHANGED <<necoVars, ckeVars, within, rpc, seen, allGroups, collection,
                 half, cancelling, served>>

----------------------------------------------------------------------------
(* The administrators' commands. *)

AdminVarsKept == UNCHANGED <<ckeVars, within, daemonVars, served>>

\* Variant: the write index is left as it is.
RegisterRebootListEntryInPlace(e) ==
  /\ list' = Put(list, writeIndex + 1, e)
  /\ UNCHANGED <<enabled, writeIndex, group>>

\* One transaction, tried again when the write index was changed meanwhile.
RegisterRebootListEntry(e) ==
  /\ list' = Put(list, writeIndex + 1, e)
  /\ writeIndex' = writeIndex + 1
  /\ UNCHANGED <<enabled, group>>

\* add and reboot-worker, which do this once per node.
Add(n) ==
  /\ matchRebootTimes(n) # 0
  /\ RegisterRebootListEntry([node |-> n, time |-> matchRebootTimes(n),
                              status |-> "Pending"])
  /\ UNCHANGED cancelling
  /\ AdminVarsKept

Cancel(i) ==
  /\ i \in DOMAIN list
  /\ UpdateRebootListEntry(i, "Cancelled")
  /\ UNCHANGED <<within, daemonVars, cancelling, served>>

\* cancel-all reads the list, then cancels entry by entry; it gives up when one
\* of them has gone in the meantime.
CancelAll ==
  /\ cancelling = {}
  /\ list # EmptyMap
  /\ cancelling' = DOMAIN list
  /\ UNCHANGED necoVars
  /\ AdminVarsKept

CancelNext ==
  LET i == Least(cancelling)
  IN  /\ cancelling # {}
      /\ UpdateRebootListEntry(i, "Cancelled")
      /\ cancelling' = IF i \in DOMAIN list THEN cancelling \ {i} ELSE {}
      /\ UNCHANGED <<within, daemonVars, served>>

\* enable, disable.
EnableNecoRebooter(flag) ==
  /\ enabled' = flag
  /\ UNCHANGED <<list, writeIndex, group, cancelling>>
  /\ AdminVarsKept

----------------------------------------------------------------------------
(* CKE and the time. *)

CKEKeeps == UNCHANGED <<necoVars, daemonVars, within, cancelling>>

SetQueue(j, status, backedOff) ==
  queue' = [queue EXCEPT ![j] =
              [node |-> queue[j].node, status |-> status, backedOff |-> backedOff]]

Drain(j) ==
  /\ queue[j].status = "queued"
  /\ SetQueue(j, "draining", queue[j].backedOff)
  /\ UNCHANGED <<queueIndex, served>>
  /\ CKEKeeps

DrainFails(j) ==
  /\ queue[j].status = "draining"
  /\ SetQueue(j, "queued", TRUE)
  /\ UNCHANGED <<queueIndex, served>>
  /\ CKEKeeps

Reboot(j) ==
  /\ queue[j].status = "draining"
  /\ SetQueue(j, "rebooting", queue[j].backedOff)
  /\ served' = served \cup {i \in DOMAIN list : list[i].node = queue[j].node}
  /\ UNCHANGED queueIndex
  /\ CKEKeeps

\* The node is back, or the entry was cancelled: CKE deletes it.
Leaves(j) ==
  /\ queue[j].status \in {"rebooting", "cancelled"}
  /\ queue' = Without(queue, j)
  /\ UNCHANGED <<queueIndex, served>>
  /\ CKEKeeps

CKEStep == \E j \in DOMAIN queue : Drain(j) \/ Reboot(j) \/ Leaves(j)

Schedules ==
  UNION {RebootTimes[t].deny \cup RebootTimes[t].allow : t \in DOMAIN RebootTimes}

TimePasses(schedules) ==
  /\ within' = schedules
  /\ within' # within
  /\ UNCHANGED <<necoVars, ckeVars, daemonVars, cancelling, served>>

----------------------------------------------------------------------------
RebooterInit ==
  /\ enabled = FALSE /\ list = EmptyMap /\ writeIndex = 0 /\ group = NoGroup
  /\ leader = NoHost
  /\ queue = EmptyMap /\ queueIndex = 0
  /\ within \in SUBSET Schedules
  /\ rpc = [h \in Host |-> "down"]
  /\ seen = [h \in Host |-> Nothing]
  /\ allGroups = [h \in Host |-> <<>>]
  /\ collection = [h \in Host |-> NoEntries]
  /\ half = [h \in Host |-> FALSE]
  /\ cancelling = {}
  /\ served = {}

Listed(n) == \E i \in DOMAIN list : list[i].node = n

RebooterNext ==
  \/ \E h \in Host : DaemonStep(h) \/ Exit(h) \/ Crash(h) \/ LeaseExpires(h)
  \/ \E n \in Node : (Duplicates \/ ~Listed(n)) /\ Add(n)
  \/ \E i \in DOMAIN list : Cancel(i)
  \/ CancelAll \/ CancelNext
  \/ \E flag \in BOOLEAN : EnableNecoRebooter(flag)
  \/ CKEStep \/ \E j \in DOMAIN queue : DrainFails(j)
  \/ \E schedules \in SUBSET Schedules : TimePasses(schedules)

RebooterSpec == RebooterInit /\ [][RebooterNext]_rebooterVars

----------------------------------------------------------------------------
Entry == [node : Node, time : DOMAIN RebootTimes,
          status : {"Pending", "Queued", "Cancelled"}]
QueueEntry == [node : Node, backedOff : BOOLEAN,
               status : {"queued", "draining", "rebooting", "cancelled"}]
Places == {"down", "campaign", "tick", "list", "queue", "group", "move", "collect"}
Groups == {GroupOf[n] : n \in Node}
Copies(n, Value) == UNION {[I -> Value] : I \in SUBSET (1 .. n)}

\* Every key and every local variable holds what the code stores in it, and no
\* index of the list or of the queue, read or kept, is above the last one given.
RebooterTypeOK ==
  /\ enabled \in BOOLEAN /\ writeIndex \in Nat /\ queueIndex \in Nat
  /\ group \in Groups \cup {NoGroup}
  /\ leader \in Host \cup {NoHost}
  /\ list \in Copies(writeIndex, Entry)
  /\ queue \in Copies(queueIndex, QueueEntry)
  /\ within \subseteq Schedules
  /\ rpc \in [Host -> Places] /\ half \in [Host -> BOOLEAN]
  /\ seen \in [Host -> [enabled : BOOLEAN, group : Groups \cup {NoGroup},
                        list : Copies(writeIndex, Entry),
                        queue : Copies(queueIndex, QueueEntry)]]
  /\ allGroups \in [Host -> Seq(Groups)]
  /\ collection \in [Host -> [Loops -> SUBSET (Nat \ {0})]]
  /\ cancelling \subseteq 1 .. writeIndex
  /\ served \subseteq 1 .. writeIndex

\* "no nodes with different groups are enqueued simultaneously"
\* (docs/neco-rebooter.md): the entries of the queue that are not cancelled
\* belong to one group (moveToNextGroup, addRebootListEntry, and what runOnce
\* does with a stuck queue).
OneGroupAtATime ==
  \A j, k \in DOMAIN queue :
    queue[j].status # "cancelled" /\ queue[k].status # "cancelled" =>
      GroupOf[queue[j].node] = GroupOf[queue[k].node]

\* "If the reboot is completed, remove the node from the reboot list": an entry
\* leaves the list after its node was rebooted, or when it was cancelled
\* (removeCompletedEntry infers completion from the absence of a queue entry).
RemovedWhenServed ==
  [][\A i \in DOMAIN list \ DOMAIN list' :
       i \in served \/ list[i].status = "Cancelled"]_rebooterVars

\* An entry that was cancelled stays so until it is removed (cancel, cancel-all,
\* and the write-back of entries read earlier by runOnce).
CancelledForGood ==
  [][\A i \in DOMAIN list \cap DOMAIN list' :
       list[i].status = "Cancelled" => list'[i].status = "Cancelled"]_rebooterVars

\* Disabling takes back whatever is queued (runOnce, the branch ~enabled),
\* though CKE may have stopped working on it.
DisabledDrains ==
  []<>(enabled \/ \A j \in DOMAIN queue : queue[j].status = "cancelled")

\* A node on the list is rebooted, or its entry cancelled, in the end, unless
\* the rebooter is disabled: no group and no entry starves, whatever the order
\* of the groups (runOnce).
EveryEntryLeaves == []<>(~enabled \/ list = EmptyMap)
=============================================================================
