--------------------------- MODULE SchemaUpgrade ---------------------------
(* init_db of vector_lake/db_store.py: how a process brings the database to  *)
(* its own schema, and the writes it makes on the way.                       *)
(*                                                                           *)
(* A command calls init_db before it reads or writes. A complete schema      *)
(* takes the fast path, which issues no DDL, fills gaps of the memory        *)
(* projection and applies the recorded prunes; any other schema is created   *)
(* or altered in one transaction first. Every transaction() is one step: it  *)
(* holds the write lock of SQLite from its first statement to its commit.    *)
(* The gap-fill is not in a transaction(): sqlite3 opens one for it that     *)
(* nothing commits (an "open" transaction), so the connection keeps the      *)
(* write lock until it is closed.                                            *)
EXTENDS FiniteSets, Naturals

CONSTANTS Processes,  \* processes that use the database
          MaxFaults,  \* statements that fail
          MaxBypasses, \* writes of programs that are not of this release
          MaxStops,   \* ends and crashes of processes
          Nobody

ASSUME BoundsAssumption == {MaxFaults, MaxBypasses, MaxStops} \subseteq Nat

VARIABLES have,   \* the groups of schema objects in the database
          done,   \* names in schema_migrations
          rows,   \* duplicated idempotency keys: none, only in history, in live rows
          unique, \* strength of the unique index on them
          gap,    \* a memory has no row in operational_memory_index
          revived, \* history: a removed release has made a table of its own again
          lock,   \* the process whose connection has an open transaction
          proc,   \* [Processes -> what the process does]
          faults, bypasses, stops \* how often each of these happened

counts == <<faults, bypasses, stops>>
schemaVars == <<have, done, rows, unique, gap, revived, lock, proc, counts>>

(* Objects: the tables of _SCHEMA_SENTINELS; the generated columns that the  *)
(* format probes look for; the index on that of entities, and those on the   *)
(* others; the retired indexes which these two replace, those on entities    *)
(* and the others; tables of removed releases; the observation columns of    *)
(* processed_files.                                                          *)
Objects == {"tables", "columns", "entityIndex", "indexes", "entityJson", "retired", "legacy",
            "snapshot"}
Migrations == {"legacy", "entityJson", "retired", "snapshot"}

\* What the DDL makes; the two kinds of indexes are tried last.
Needed == {"tables", "columns"}
BestEffort == {"entityIndex", "indexes"}

SchemaTypeOK ==
    /\ have \subseteq Objects /\ done \subseteq Migrations
    /\ rows \in {"none", "history", "live"}
    /\ unique \in {"absent", "active", "full"}
    /\ gap \in BOOLEAN /\ revived \in BOOLEAN /\ lock \in Processes \cup {Nobody}
    /\ proc \in [Processes -> [at : {"off", "idle", "fill", "ddl", "prune", "ready"},
                               memo : BOOLEAN, pending : SUBSET Migrations]]
    /\ faults \in 0 .. MaxFaults /\ bypasses \in 0 .. MaxBypasses /\ stops \in 0 .. MaxStops

Fresh == [at |-> "off", memo |-> FALSE, pending |-> {}]

\* A database of this or an earlier release, or none.
SchemaInit ==
    /\ LET old == {"entityJson", "retired"}  made == Needed \cup BestEffort IN
       have \in {{}, old \cup {"legacy"}, old \cup {"tables", "legacy"}, old \cup Needed,
                old \cup made, made \cup {"snapshot"}}
    /\ done = (IF "snapshot" \in have THEN Migrations ELSE {})
    /\ rows \in IF have = {} THEN {"none"} ELSE {"none", "history", "live"}
    /\ unique \in IF "columns" \notin have THEN {"absent"}
                  ELSE IF rows = "none" THEN {"full"}
                  ELSE IF rows = "history" THEN {"absent", "active"} ELSE {"absent"}
    /\ gap = FALSE /\ revived = FALSE /\ lock = Nobody
    /\ proc = [p \in Processes |-> Fresh]
    /\ faults = 0 /\ bypasses = 0 /\ stops = 0

Goes(p, at) == proc' = [proc EXCEPT ![p].at = at]

\* BEGIN IMMEDIATE succeeds: no connection has an open transaction. It fails
\* at once on a connection that has one itself (an OperationalError), and
\* after its budget when another has (DatabaseLockTimeout).
CanWrite == lock = Nobody

Faulty == faults < MaxFaults /\ faults' = faults + 1 /\ UNCHANGED <<bypasses, stops>>
Sound == UNCHANGED counts
----------------------------------------------------------------------------
(* As if only the tables were probed.                                       *)
Complete_Tables == "tables" \in have

\* The ten probes of the fast path, all reads.
Complete == Needed \cup BestEffort \subseteq have

Start(p) ==
    /\ proc[p].at = "off"
    /\ Goes(p, "idle")
    /\ UNCHANGED <<have, done, rows, unique, gap, revived, lock, counts>>

\* A database this process has initialised is not looked at again.
InitAgain(p) ==
    /\ proc[p].at = "idle" /\ proc[p].memo
    /\ Goes(p, "ready")
    /\ UNCHANGED <<have, done, rows, unique, gap, revived, lock, counts>>

\* The fast path remembers the database before it fills gaps.
InitFast(p) ==
    /\ proc[p].at = "idle" /\ ~proc[p].memo /\ Complete
    /\ proc' = [proc EXCEPT ![p].at = "fill", ![p].memo = TRUE]
    /\ UNCHANGED <<have, done, rows, unique, gap, revived, lock, counts>>

InitFull(p) ==
    /\ proc[p].at = "idle" /\ ~proc[p].memo /\ ~Complete
    /\ Goes(p, "ddl")
    /\ UNCHANGED <<have, done, rows, unique, gap, revived, lock, counts>>

\* What is left to prune is read once, before the first of them.
Pending == Migrations \ done
ToPrune(p, memo) == proc' = [proc EXCEPT ![p] = [at |-> "prune", memo |-> memo, pending |-> Pending]]

\* ensure_operational_memory_index: nothing to do; or a fill that opens a
\* transaction; or a wait for the lock which raises out of init_db.
Fill(p) ==
    /\ proc[p].at = "fill"
    /\ \/ ~gap /\ ToPrune(p, TRUE) /\ UNCHANGED lock
       \/ gap /\ lock \in {Nobody, p} /\ lock' = p /\ ToPrune(p, TRUE)
       \/ gap /\ lock \notin {Nobody, p} /\ Goes(p, "idle") /\ UNCHANGED lock
    /\ UNCHANGED <<have, done, rows, unique, gap, revived, counts>>

\* _ensure_idempotency_index: the strongest index that the keys allow, which
\* is added to what there is.
Strongest(r, u) ==
    IF r = "none" \/ u = "full" THEN "full"
    ELSE IF r = "history" \/ u = "active" THEN "active" ELSE "absent"

\* _init_db_once: one transaction. The indexes on generated columns are
\* created last, that on entities before the others; the first that fails is
\* logged and leaves out the rest. A failure of any other statement undoes all
\* of it. It also rebuilds the projection's gaps.
Ddl(p) ==
    /\ proc[p].at = "ddl" /\ CanWrite
    /\ \E made \in {{}, {"entityIndex"}, BestEffort} :
         /\ have' = have \cup Needed \cup made
                         \cup (IF "tables" \in have THEN {} ELSE {"snapshot"})
         /\ \/ made = BestEffort /\ Sound
            \/ made # BestEffort /\ Faulty
    /\ unique' = Strongest(rows, unique)
    /\ gap' = FALSE
    /\ ToPrune(p, TRUE)
    /\ UNCHANGED <<done, rows, revived, lock>>

DdlFails(p) ==
    /\ proc[p].at = "ddl"
    /\ \/ ~CanWrite /\ Sound
       \/ CanWrite /\ Faulty
    /\ Goes(p, "idle")
    /\ UNCHANGED <<have, done, rows, unique, gap, revived, lock>>

(* As if retired indexes were dropped whatever replaces them.               *)
Pruned_Always(m) ==
    IF m = "snapshot" THEN have \cup {"snapshot"} ELSE have \ {m}

\* The steps of one migration. The json indexes on entities go in any case; the
\* other retired indexes only when what replaces them is there, and the
\* migration is recorded either way.
Pruned(m) ==
    CASE m \in {"legacy", "entityJson"} -> have \ {m}
      [] m = "retired" -> IF "indexes" \in have THEN have \ {"retired"} ELSE have
      [] m = "snapshot" -> have \cup {"snapshot"}

Order == [m \in Migrations |-> CASE m = "legacy" -> 1 [] m = "entityJson" -> 2
                                 [] m = "retired" -> 3 [] m = "snapshot" -> 4]
First(p) == CHOOSE m \in proc[p].pending : \A n \in proc[p].pending : Order[m] <= Order[n]

\* apply_legacy_schema_prunes: one transaction per migration, which looks at
\* the ledger again and records what it did.
Prune(p) ==
    /\ proc[p].at = "prune" /\ proc[p].pending # {} /\ CanWrite
    /\ have' = IF First(p) \in done THEN have ELSE Pruned(First(p))
    /\ done' = done \cup {First(p)}
    /\ proc' = [proc EXCEPT ![p].pending = @ \ {First(p)}]
    /\ UNCHANGED <<rows, unique, gap, revived, lock, counts>>

\* An OperationalError leaves the rest for another time; a lock that does not
\* come free in its budget is an error of the command.
PruneFails(p) ==
    /\ proc[p].at = "prune" /\ proc[p].pending # {}
    /\ \/ lock = p /\ Goes(p, "ready") /\ Sound
       \/ CanWrite /\ Faulty /\ Goes(p, "ready")
       \/ lock \notin {Nobody, p} /\ Goes(p, "idle") /\ Sound
    /\ UNCHANGED <<have, done, rows, unique, gap, revived, lock>>

PruneEnds(p) ==
    /\ proc[p].at = "prune" /\ proc[p].pending = {}
    /\ Goes(p, "ready")
    /\ UNCHANGED <<have, done, rows, unique, gap, revived, lock, counts>>
----------------------------------------------------------------------------
\* search_memory reconciles the projection before it reads it, the same way.
Search(p) ==
    /\ proc[p].at = "ready" /\ gap /\ CanWrite
    /\ lock' = p
    /\ UNCHANGED <<have, done, rows, unique, gap, revived, proc, counts>>

\* repair_idempotency_keys: all but one row of a key lose it.
Repair(p) ==
    /\ proc[p].at = "ready" /\ CanWrite /\ rows # "none"
    /\ rows' = "none" /\ unique' = Strongest("none", unique)
    /\ UNCHANGED <<have, done, gap, revived, lock, proc, counts>>

\* The rows that shared a key and were still live are closed.
Close(p) ==
    /\ proc[p].at = "ready" /\ CanWrite /\ rows = "live"
    /\ rows' = "history"
    /\ UNCHANGED <<have, done, unique, gap, revived, lock, proc, counts>>

Return(p) ==
    /\ proc[p].at = "ready"
    /\ Goes(p, "idle")
    /\ UNCHANGED <<have, done, rows, unique, gap, revived, lock, counts>>

\* The connection is closed: what it has open is rolled back.
Release(p) == lock' = IF lock = p THEN Nobody ELSE lock

CloseConnection(p) ==
    /\ proc[p].at = "idle" /\ lock = p
    /\ Release(p)
    /\ UNCHANGED <<have, done, rows, unique, gap, revived, proc, counts>>

Stop(p) ==
    /\ proc[p].at # "off"
    /\ proc' = [proc EXCEPT ![p] = Fresh]
    /\ Release(p)
    /\ stops < MaxStops /\ stops' = stops + 1
    /\ UNCHANGED <<have, done, rows, unique, gap, revived, faults, bypasses>>

\* A writer that bypasses the triggers adds a memory without its projection.
Bypass ==
    /\ "tables" \in have /\ CanWrite /\ ~gap
    /\ bypasses < MaxBypasses /\ bypasses' = bypasses + 1
    /\ gap' = TRUE
    /\ UNCHANGED <<have, done, rows, unique, revived, lock, proc, faults, stops>>

\* A process of a removed release makes a table again that this one has dropped.
Revive ==
    /\ "tables" \in have /\ "legacy" \notin have /\ CanWrite
    /\ bypasses < MaxBypasses /\ bypasses' = bypasses + 1
    /\ have' = have \cup {"legacy"} /\ revived' = TRUE
    /\ UNCHANGED <<done, rows, unique, gap, lock, proc, faults, stops>>

Initialise(p) ==
    \/ Start(p) \/ InitAgain(p) \/ InitFast(p) \/ InitFull(p)
    \/ Fill(p) \/ Ddl(p) \/ DdlFails(p) \/ Prune(p) \/ PruneFails(p) \/ PruneEnds(p)

SchemaNext ==
    \/ \E p \in Processes :
         \/ Initialise(p) \/ Search(p) \/ Repair(p) \/ Close(p) \/ Return(p)
         \/ CloseConnection(p) \/ Stop(p)
    \/ Bypass \/ Revive

SchemaSpec == SchemaInit /\ [][SchemaNext]_schemaVars

\* Commands of a process that is started go on, and those that are over let
\* their connection go.
SchemaFairSpec ==
    /\ SchemaSpec
    /\ \A p \in Processes :
         WF_schemaVars(Initialise(p)) /\ WF_schemaVars(Return(p) \/ CloseConnection(p))
----------------------------------------------------------------------------
(* A command that got past init_db finds every table and column the code     *)
(* names; the indexes are best effort.                                       *)
ReadyIsUsable ==
    \A p \in Processes : proc[p].at \in {"prune", "ready"} => Needed \subseteq have

(* What the ledger records as done is so: no table of a removed release is   *)
(* left unless such a release made it again, and the observation columns are *)
(* there. The unique index never claims more than the keys keep.             *)
LedgerIsTrue ==
    /\ "legacy" \in done /\ ~revived => "legacy" \notin have
    /\ "snapshot" \in done => "snapshot" \in have
    /\ unique = "full" => rows = "none"
    /\ unique = "active" => rows # "live"

SchemaIsSound == ReadyIsUsable /\ LedgerIsTrue

(* What upgrades take away from queries. Nothing that the DDL makes; a       *)
(* retired index only while what replaces it is there, except the one on     *)
(* entities, which goes without a replacement only if a statement has failed.*)
UpgradeStep ==
    LET gone == have \ have' IN
    /\ (Needed \cup BestEffort) \cap gone = {}
    /\ "retired" \in gone => "indexes" \in have
    /\ "entityJson" \in gone => "entityIndex" \in have \/ faults > 0

(* "Keep the cheap gap-fill so a writer that bypassed the triggers still     *)
(* gets reconciled" (db_store.py:1643): a gap that the fast path comes to is *)
(* filled in the end.                                                        *)
GapsAreFilled == \A p \in Processes : (proc[p].at = "fill" /\ gap) ~> ~gap
=============================================================================
