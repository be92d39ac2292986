--------------------------- MODULE GovernanceQueue ---------------------------
(***************************************************************************)
(* The review queue of governance_store.  Tools and daemons append items,  *)
(* a person resolves them; a merge also rewrites two pages and records an  *)
(* alias in the transaction that marks its item.  The table is saved whole:*)
(* keys absent from the caller's snapshot are deleted.  What serialises    *)
(* the snapshots is governance_queue_session, one file lock.               *)
(***************************************************************************)
EXTENDS Naturals, FiniteSets

CONSTANTS
    Actors,   \* processes that append or resolve
    QueuePages,
    Keys,     \* what an item is about: [kind, and for merges survivor and consumed]
    ItemIds,  \* item ids drawn at random (uuid4)
    BatchId,  \* the id derived from a batch of evidence gaps
    None

VARIABLES
    queue,      \* id -> [key, status], or None: the table governance_queue
    queueLock,  \* holder of governance_queue.lock, or None
    actor,      \* actor -> phase, snapshot and intention
    existing,   \* pages that exist
    alias,      \* page -> page it was merged into (rows of alias_registry), or None
    applied     \* history: items whose merge was committed

queueVars == <<queue, queueLock, actor, existing, alias, applied>>

ItemKinds == {"pair", "bulk", "naming", "batch"}
Merges == {"pair", "bulk"}
Statuses == {"pending", "skipped", "merged"}

\* A merge names two distinct pages of the wiki (_resolve_locked refuses any
\* other), the id of a batch is not one drawn at random, and None is nothing else.
ASSUME QueueAssumption ==
    /\ \A key \in Keys : key.kind \in ItemKinds
    /\ \A key \in Keys : key.kind \in Merges =>
          {key.survivor, key.consumed} \subseteq QueuePages /\ key.survivor # key.consumed
    /\ \A key \in Keys, status \in Statuses : [key |-> key, status |-> status] # None
    /\ BatchId \notin ItemIds
    /\ None \notin Actors \cup QueuePages

AllIds == ItemIds \cup {BatchId}
Empty == [id \in AllIds |-> None]
NoTask == [at |-> "idle", snap |-> Empty, key |-> None, id |-> None]

QueueInit ==
    /\ queue = Empty /\ queueLock = None
    /\ actor = [a \in Actors |-> NoTask]
    /\ existing = QueuePages /\ alias = [p \in QueuePages |-> None]
    /\ applied = {}

Items(table) == {id \in AllIds : table[id] # None}
Become(a, p) == actor' = [actor EXCEPT ![a] = p]

-----------------------------------------------------------------------------
\* Operators with a suffix after an underscore are faulty variants: they show
\* which property would notice, and no specification uses them.

(* Appending.                                                              *)

\* What a producer takes for the same item.  Suggested pairs are compared
\* whatever became of them, a community only while it is pending, a batch by
\* its id.  bulk_reconcile compares two fields no item has.
Known(table, key) ==
    CASE key.kind = "pair"   -> \E id \in Items(table) : table[id].key = key
      [] key.kind = "naming" -> \E id \in Items(table) :
                                   table[id].key = key /\ table[id].status = "pending"
      [] key.kind = "batch"  -> table[BatchId] # None
      [] OTHER               -> FALSE

\* The semantic dedup daemon and the dispatch of evidence gaps look at the
\* queue first, without the lock, and go on if they found something new.
Scan(a, key) ==
    /\ actor[a].at = "idle" /\ key.kind \in {"pair", "batch"} /\ ~Known(queue, key)
    /\ Become(a, [NoTask EXCEPT !.at = "scanned", !.key = key])
    /\ UNCHANGED <<queue, queueLock, existing, alias, applied>>

\* governance_queue_session and load_governance_queue.
Unlocked_Always == TRUE
Unlocked == queueLock = None

Enter(a, key) ==
    /\ Unlocked
    /\ \/ actor[a].at = "scanned" /\ key = actor[a].key
       \/ actor[a].at = "idle" /\ key.kind # "batch"
    /\ queueLock' = a
    /\ Become(a, [NoTask EXCEPT !.at = "append", !.snap = queue, !.key = key])
    /\ UNCHANGED <<queue, existing, alias, applied>>

\* Inside the lock the producers of merges and names look again; the dispatch
\* of evidence gaps does not.
IsNew_Trusting(p) == TRUE
IsNew(p) == p.key.kind = "batch" \/ ~Known(p.snap, p.key)
NewId(p) == IF p.key.kind = "batch" THEN {BatchId} ELSE ItemIds \ Items(p.snap)

\* _save_db_queue: the snapshot replaces the table.
Append(a) ==
    /\ actor[a].at = "append"
    /\ IF IsNew(actor[a])
       THEN \E id \in NewId(actor[a]) :
               queue' = [actor[a].snap EXCEPT ![id] = [key |-> actor[a].key, status |-> "pending"]]
       ELSE UNCHANGED queue
    /\ queueLock' = None
    /\ Become(a, NoTask)
    /\ UNCHANGED <<existing, alias, applied>>

-----------------------------------------------------------------------------
(* resolve_governance_item.                                                *)

Open(table, id, resolution) ==
    /\ table[id] # None
    /\ table[id].status = "pending" \/ resolution = "merge"

EnterResolve(a, id) ==
    /\ actor[a].at = "idle" /\ Unlocked
    /\ queueLock' = a
    /\ Become(a, [NoTask EXCEPT !.at = "resolve", !.snap = queue, !.id = id])
    /\ UNCHANGED <<queue, existing, alias, applied>>

Marked(p, status) == [p.snap EXCEPT ![p.id].status = status]

\* Any resolution but a merge records the decision alone.
Skip(a) ==
    /\ actor[a].at = "resolve" /\ Open(actor[a].snap, actor[a].id, "skip")
    /\ queue' = Marked(actor[a], "skipped")
    /\ queueLock' = None
    /\ Become(a, NoTask)
    /\ UNCHANGED <<existing, alias, applied>>

\* Not there, not open, no merge item, a page is missing, the manifest is not
\* met, or the batch is refused: nothing is saved.
Refuse(a) ==
    /\ actor[a].at \in {"resolve", "merge"}
    /\ queueLock' = None
    /\ Become(a, NoTask)
    /\ UNCHANGED <<queue, existing, alias, applied>>

\* The pages are read and merged before the transaction.
Read(a) ==
    LET p == actor[a] IN
    /\ p.at = "resolve" /\ Open(p.snap, p.id, "merge")
    /\ p.snap[p.id].key.kind \in Merges
    /\ {p.snap[p.id].key.survivor, p.snap[p.id].key.consumed} \subseteq existing
    /\ Become(a, [p EXCEPT !.at = "merge", !.key = p.snap[p.id].key])
    /\ UNCHANGED <<queue, queueLock, existing, alias, applied>>

\* delete_node_cascade drops the aliases of a deleted page, _refresh_alias_delta
\* those of a rewritten one.
Dropped(table, key) ==
    [p \in QueuePages |-> IF table[p] \in {key.survivor, key.consumed} THEN None ELSE table[p]]

\* The item is marked by the callback of the batch, in its transaction.
Recorded(p) == Marked(p, "merged")

\* execute_mutation_batch: survivor rewritten, consumed page deleted, alias and
\* item recorded; versions of the pages are not checked.
CommitMerge(a) ==
    LET p == actor[a] IN
    /\ p.at = "merge"
    /\ existing' = (existing \cup {p.key.survivor}) \ {p.key.consumed}
    /\ alias' = [Dropped(alias, p.key) EXCEPT ![p.key.consumed] = p.key.survivor]
    /\ queue' = Recorded(p)
    /\ applied' = applied \cup {p.id}
    /\ queueLock' = None
    /\ Become(a, NoTask)

\* The process ends; the system frees the lock.
Crash(a) ==
    /\ actor[a].at # "idle"
    /\ queueLock' = IF queueLock = a THEN None ELSE queueLock
    /\ Become(a, NoTask)
    /\ UNCHANGED <<queue, existing, alias, applied>>

-----------------------------------------------------------------------------
(* Other writers of the pages take no part in the lock.                    *)

WritePage(p) ==
    /\ existing' = existing \cup {p}
    /\ alias' = [q \in QueuePages |-> IF alias[q] = p THEN None ELSE alias[q]]
    /\ UNCHANGED <<queue, queueLock, actor, applied>>

DeletePage(p) ==
    /\ p \in existing
    /\ existing' = existing \ {p}
    /\ alias' = [q \in QueuePages |-> IF alias[q] = p THEN None ELSE alias[q]]
    /\ UNCHANGED <<queue, queueLock, actor, applied>>

QueueNext ==
    \/ \E a \in Actors :
          \/ \E key \in Keys : Scan(a, key) \/ Enter(a, key)
          \/ Append(a)
          \/ \E id \in AllIds : EnterResolve(a, id)
          \/ Skip(a) \/ Refuse(a) \/ Read(a) \/ CommitMerge(a) \/ Crash(a)
    \/ \E p \in QueuePages : WritePage(p) \/ DeletePage(p)

QueueSpec == QueueInit /\ [][QueueNext]_queueVars

-----------------------------------------------------------------------------
(* Correctness.                                                            *)

Decided(id) == queue[id] # None /\ queue[id].status # "pending"

\* Nobody's item is lost, and what a person decided stays decided, whoever
\* saves which snapshot (governance_queue_session).  The status of a batch of
\* evidence gaps is the exception: its item is looked for without the lock and
\* enqueued again under the same id.
RecordStep ==
    /\ Items(queue) \subseteq Items(queue')
    /\ \A id \in ItemIds : Decided(id) => Decided(id)'

\* A suggested pair is in the queue once, although the scan that found it took
\* long and others suggested the same pair meanwhile.
OnePair ==
    \A i, j \in Items(queue) :
        queue[i].key = queue[j].key /\ queue[i].key.kind = "pair" => i = j

\* An item says merged exactly when its merge was committed, wherever the
\* process stopped: no merge is on record that was not done, and none is done
\* whose item still asks for it (unless it was asked for again).
MergesAreOnRecord ==
    \A id \in AllIds : id \in applied <=> (queue[id] # None /\ queue[id].status = "merged")

\* Following aliases ends, also when pages are recreated and merged the other
\* way round, without the manifest's guard.
AliasesEnd == \A loop \in (SUBSET QueuePages) \ {{}} : \E p \in loop : alias[p] \notin loop

\* What a reader of the queue relies on: no pair twice, no merge whose item
\* disagrees, no cycle of aliases.
QueueIsSound == OnePair /\ MergesAreOnRecord /\ AliasesEnd
=============================================================================
