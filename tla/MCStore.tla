------------------------------- MODULE MCStore -------------------------------
(* Instance for TLC of what keeps, upgrades, archives and rewrites the       *)
(* canonical store: nine models that share no state.  A behaviour is one of  *)
(* the part that is chosen in the initial state; the others stay as they are *)
(* there.                                                                    *)
EXTENDS StoreParts

VARIABLES part

\* Two merges of the same pages, a renaming and a batch of gaps.
Merge(kind, survivor, consumed) == [kind |-> kind, survivor |-> survivor, consumed |-> consumed]
TheKeys == {Merge("pair", "a", "b"), Merge("bulk", "b", "a"), [kind |-> "naming"],
            [kind |-> "batch"]}

\* Two claims of one page and one of another; two competing ranks.
TheOwner == [c \in 1 .. 3 |-> IF c = 3 THEN "q" ELSE "p"]
TheContents == {[slot |-> "fact", rank |-> 1, state |-> "active"],
                [slot |-> "key", rank |-> 1, state |-> "weak"],
                [slot |-> "key", rank |-> 2, state |-> "active"],
                [slot |-> "key", rank |-> 2, state |-> "expired"]}

\* What a store that has no memories yet may hold of each claim.
TheFirst(c) == [slot |-> "key", rank |-> IF c = 2 THEN 1 ELSE 2,
                state |-> IF c = 2 THEN "weak" ELSE "active"]

TheRank == [e \in {1, 2} \X {1, 2, 3} |-> e[1] * 10 + e[2]]

\* Each approval names a request of its own.
TheRequests == [c \in {"a", "c"} |-> IF c = "c" THEN 2 ELSE 1]
-----------------------------------------------------------------------------
Parts == {"schema", "backup", "queue", "memory", "timeline", "final", "recompile", "archive",
          "removal"}

TheInit ==
    /\ part \in Parts
    /\ SchemaInit /\ (part # "schema" => have = {})
    /\ BackupInit /\ (part # "backup" => unit = [u \in Units |-> "none"])
    /\ QueueInit
    /\ MemoryInit /\ \A c \in 1 .. 3 : claims[c] \in {Nil, TheFirst(c)}
    /\ part # "memory" => claims = NoMemories
    /\ TimelineInit /\ wording[1] = 1 /\ wording[2] \in {1, NoClaim}
    /\ rowid = [c \in {1, 2} |-> c]
    /\ part # "timeline" => wording[2] = NoClaim /\ event[<<1, 1>>] = "full"
    /\ FinalInit
    /\ part # "final" => job["s"].status = "none" /\ \A p \in {"s", "t"} : canon[p] = NoPage
    /\ RecompileInit
    /\ part # "recompile" => \A s \in {1, 2} : page[s].owner = "proven"
    /\ ArchiveInit
    /\ part # "archive" => Stored = {} /\ current /\ archive.rows = NoRows
    /\ RemovalInit
    /\ part # "removal" => text["other"] = NoText

TheNext ==
    \/ part = "schema" /\ SchemaNext /\ UNCHANGED <<backupVars, queueVars, memoryVars,
           timelineVars, finalVars, recompileVars, archiveVars, removalVars>>
    \/ part = "backup" /\ BackupNext /\ UNCHANGED <<schemaVars, queueVars, memoryVars,
           timelineVars, finalVars, recompileVars, archiveVars, removalVars>>
    \/ part = "queue" /\ QueueNext /\ UNCHANGED <<schemaVars, backupVars, memoryVars,
           timelineVars, finalVars, recompileVars, archiveVars, removalVars>>
    \/ part = "memory" /\ MemoryNext /\ UNCHANGED <<schemaVars, backupVars, queueVars,
           timelineVars, finalVars, recompileVars, archiveVars, removalVars>>
    \/ part = "timeline" /\ TimelineNext /\ UNCHANGED <<schemaVars, backupVars,
           queueVars, memoryVars, finalVars, recompileVars, archiveVars, removalVars>>
    \/ part = "final" /\ FinalNext /\ UNCHANGED <<schemaVars, backupVars, queueVars,
           memoryVars, timelineVars, recompileVars, archiveVars, removalVars>>
    \/ part = "recompile" /\ RecompileNext /\ UNCHANGED <<schemaVars, backupVars,
           queueVars, memoryVars, timelineVars, finalVars, archiveVars, removalVars>>
    \/ part = "archive" /\ ArchiveNext /\ UNCHANGED <<schemaVars, backupVars, queueVars,
           memoryVars, timelineVars, finalVars, recompileVars, removalVars>>
    \/ part = "removal" /\ RemovalNext /\ UNCHANGED <<schemaVars, backupVars, queueVars,
           memoryVars, timelineVars, finalVars, recompileVars, archiveVars>>

allVars == <<part, schemaVars, backupVars, queueVars, memoryVars, timelineVars, finalVars,
             recompileVars, archiveVars, removalVars>>
TheSpec == TheInit /\ [][TheNext /\ part' = part]_allVars
=============================================================================
