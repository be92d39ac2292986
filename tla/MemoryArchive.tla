---------------------------- MODULE MemoryArchive ----------------------------
(***************************************************************************)
(* Maintenance of memories whose page is gone (scripts/                    *)
(* repair_orphan_memory): freeze copies them read-only into an archive,    *)
(* apply deletes exactly these rows, restore puts them back, and           *)
(* refresh-triggers renews the two triggers that keep the lookup table.    *)
(* Pages come and go while the archive lies there, and a stage that fails  *)
(* may leave its files behind.                                             *)
(***************************************************************************)
EXTENDS Naturals, FiniteSetsExt

CONSTANTS
    Memories,          \* memory ids; each is made from one claim of one page
    Texts,
    Operators,         \* processes that run the script
    MaxArchiveUpsets,  \* bound: what pages do to memories
    NoRow

\* A memory's number is its rowid at first, and NoRow is no row.
ASSUME ArchiveAssumption ==
    /\ IsFiniteSet(Memories) /\ Memories \subseteq 1 .. Cardinality(Memories)
    /\ NoRow \notin [text : Texts \cup {0}, rowid : Nat]
    /\ MaxArchiveUpsets \in Nat

VARIABLES
    memoryRow,  \* memory -> its row in operational_memory: text and rowid
    lookup,     \* memory -> its row in operational_memory_index
    dirty,      \* memories with a marker for the n-gram index
    live,       \* memories whose claim and page are in the canonical tables
    pending,    \* a mutation waits in the outbox
    current,    \* the triggers are those of this release
    archive,    \* how far it is written, and the rows of its snapshot
    operator,   \* operator -> the mode it has prepared
    removed,    \* history: memory -> what apply deleted last
    archiveUpsets

archiveVars ==
    <<memoryRow, lookup, dirty, live, pending, current, archive, operator, removed, archiveUpsets>>

NoRows == [m \in Memories |-> NoRow]
Stored == {m \in Memories : memoryRow[m] # NoRow}

\* A trigger of an earlier release writes the row differently.
Indexed(row) == IF current THEN row ELSE [row EXCEPT !.text = 0]

ArchiveInit ==
    /\ \E t \in Texts, here \in SUBSET Memories :
         memoryRow = [m \in Memories |-> IF m \in here THEN [text |-> t, rowid |-> m] ELSE NoRow]
    /\ live \in SUBSET Stored
    /\ lookup = memoryRow /\ dirty = {}
    /\ pending = FALSE /\ current \in BOOLEAN
    /\ archive = [at |-> "none", rows |-> NoRows]
    /\ operator = [p \in Operators |-> "idle"]
    /\ removed = NoRows /\ archiveUpsets = 0

Orphaned == Stored \ live
Scope == {m \in Memories : archive.rows[m] # NoRow}
ArchiveUpset == archiveUpsets < MaxArchiveUpsets /\ archiveUpsets' = archiveUpsets + 1
-----------------------------------------------------------------------------
(* freeze                                                                  *)

\* One read transaction: the outbox is settled, the count is the expected one,
\* and the backup is of the same snapshot. A directory is used once.
TakeSnapshot ==
    /\ archive.at = "none" /\ ~pending /\ Orphaned # {}
    /\ archive' = [at |-> "backup",
                   rows |-> [m \in Memories |-> IF m \in Orphaned THEN memoryRow[m] ELSE NoRow]]
    /\ UNCHANGED <<memoryRow, lookup, dirty, live, pending, current, operator, removed, archiveUpsets>>

Stages == <<"backup", "records", "manifest">>

WriteArchive ==
    /\ \E k \in 1 .. 2 : archive.at = Stages[k] /\ archive' = [archive EXCEPT !.at = Stages[k + 1]]
    /\ UNCHANGED <<memoryRow, lookup, dirty, live, pending, current, operator, removed, archiveUpsets>>

FreezeFails ==
    /\ archive.at \in {"backup", "records"}
    /\ archive' = [at |-> "none", rows |-> NoRows]
    /\ UNCHANGED <<memoryRow, lookup, dirty, live, pending, current, operator, removed, archiveUpsets>>
-----------------------------------------------------------------------------
(* maintain and refresh_triggers                                           *)

Modes == {"apply", "restore", "refresh"}

\* load_archive, recovery_rowids and the receipt "prepared", before any write.
Prepare(p, mode) ==
    /\ operator[p] = "idle" /\ archive.at = "manifest"
    /\ operator' = [operator EXCEPT ![p] = mode]
    /\ UNCHANGED <<memoryRow, lookup, dirty, live, pending, current, archive, removed, archiveUpsets>>

(* As if the ids were enough.                                              *)
SameScope_Ids == ~pending /\ Scope \subseteq Stored

\* check_scope: the orphans of now are the frozen rows, neither more nor less.
SameScope ==
    /\ ~pending /\ Orphaned = Scope
    /\ \A m \in Scope : memoryRow[m].text = archive.rows[m].text

SameRowids == \A m \in Scope : memoryRow[m].rowid = archive.rows[m].rowid

Concluded(p) == operator' = [operator EXCEPT ![p] = "idle"]

Apply(p) ==
    /\ operator[p] = "apply" /\ SameScope
    /\ SameRowids /\ \A m \in Scope : lookup[m] # NoRow
    /\ memoryRow' = [m \in Memories |-> IF m \in Scope THEN NoRow ELSE memoryRow[m]]
    /\ lookup' = [m \in Memories |-> IF m \in Scope THEN NoRow ELSE lookup[m]]
    /\ dirty' = dirty \cup Scope
    /\ removed' = [m \in Memories |-> IF m \in Scope THEN memoryRow[m] ELSE removed[m]]
    /\ Concluded(p)
    /\ UNCHANGED <<live, pending, current, archive, archiveUpsets>>

(* As if a restore replaced what is there.                                 *)
Free_Always == TRUE

\* Neither the ids nor the rowids of the archive are in use.
Free ==
    /\ Scope \cap Stored = {}
    /\ \A m \in Scope, other \in Stored : memoryRow[other].rowid # archive.rows[m].rowid

\* The rows get back their rowids, and the lookup rows must come out right.
Restore(p) ==
    /\ operator[p] = "restore" /\ ~pending /\ Free
    /\ \A m \in Scope : Indexed(archive.rows[m]) = archive.rows[m]
    /\ memoryRow' = [m \in Memories |-> IF m \in Scope THEN archive.rows[m] ELSE memoryRow[m]]
    /\ lookup' = [m \in Memories |-> IF m \in Scope THEN Indexed(archive.rows[m]) ELSE lookup[m]]
    /\ dirty' = dirty \cup Scope
    /\ Concluded(p)
    /\ UNCHANGED <<live, pending, current, archive, removed, archiveUpsets>>

\* Bound to the same scope, it changes no row.
RefreshTriggers(p) ==
    /\ operator[p] = "refresh" /\ SameScope
    /\ current' = TRUE
    /\ Concluded(p)
    /\ UNCHANGED <<memoryRow, lookup, dirty, live, pending, archive, removed, archiveUpsets>>

\* A check fails, the deadline passes or the process stops: rolled back.
MaintainFails(p) ==
    /\ operator[p] # "idle"
    /\ Concluded(p)
    /\ UNCHANGED <<memoryRow, lookup, dirty, live, pending, current, archive, removed, archiveUpsets>>
-----------------------------------------------------------------------------
(* Pages and the indexes.                                                  *)

\* A rowid is one above all that are in use.
NextRowid(used) == IF used = {} THEN 1 ELSE Max({memoryRow[m].rowid : m \in used}) + 1

\* A page is written: the memories of its claims are deleted and inserted again.
Remember(m, t) ==
    /\ ArchiveUpset
    /\ LET row == [text |-> t, rowid |-> NextRowid(Stored \ {m})]
       IN memoryRow' = [memoryRow EXCEPT ![m] = row] /\ lookup' = [lookup EXCEPT ![m] = Indexed(row)]
    /\ live' = live \cup {m} /\ dirty' = dirty \cup {m}
    /\ UNCHANGED <<pending, current, archive, operator, removed>>

\* delete_node_cascade: a page goes and takes its memories along.
DeleteNode(m) ==
    /\ ArchiveUpset /\ m \in live
    /\ memoryRow' = [memoryRow EXCEPT ![m] = NoRow] /\ lookup' = [lookup EXCEPT ![m] = NoRow]
    /\ live' = live \ {m} /\ dirty' = dirty \cup {m}
    /\ UNCHANGED <<pending, current, archive, operator, removed>>

\* A page goes, in a release that left the memory behind.
Orphan(m) ==
    /\ ArchiveUpset /\ m \in live
    /\ live' = live \ {m}
    /\ UNCHANGED <<memoryRow, lookup, dirty, pending, current, archive, operator, removed>>

Outbox ==
    /\ ArchiveUpset /\ pending' = ~pending
    /\ UNCHANGED <<memoryRow, lookup, dirty, live, current, archive, operator, removed>>

ArchiveNext ==
    \/ TakeSnapshot \/ WriteArchive \/ FreezeFails
    \/ \E p \in Operators :
         \/ \E mode \in Modes : Prepare(p, mode)
         \/ Apply(p) \/ Restore(p) \/ RefreshTriggers(p) \/ MaintainFails(p)
    \/ \E m \in Memories : DeleteNode(m) \/ Orphan(m) \/ \E t \in Texts : Remember(m, t)
    \/ Outbox

ArchiveSpec == ArchiveInit /\ [][ArchiveNext]_archiveVars
-----------------------------------------------------------------------------
\* What was deleted is in the complete archive, as it was, or is back; the
\* lookup table has the same memories as the store.
ArchiveIsSound ==
    /\ \A m \in Memories : removed[m] # NoRow => archive.at = "manifest" /\ archive.rows[m] = removed[m]
    /\ \A m \in Memories : (lookup[m] = NoRow) = (memoryRow[m] = NoRow)

Concludes(p) == operator[p] # "idle" /\ operator'[p] = "idle"

\* An operator deletes only memories without a page, which are those of the
\* archive; it never changes a memory that is there, and no two memories ever
\* share a rowid.
ArchiveStep ==
    /\ \A m, n \in Memories : memoryRow'[m] # NoRow /\ memoryRow'[n] # NoRow /\ m # n
                                => memoryRow'[m].rowid # memoryRow'[n].rowid
    /\ \A m \in Memories : memoryRow'[m] # memoryRow[m] /\ (\E p \in Operators : Concludes(p)) =>
         IF memoryRow[m] = NoRow THEN memoryRow'[m] = archive.rows[m]
         ELSE memoryRow'[m] = NoRow /\ m \notin live /\ memoryRow[m] = archive.rows[m]
=============================================================================
