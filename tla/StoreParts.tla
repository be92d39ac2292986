------------------------------ MODULE StoreParts ------------------------------
(***************************************************************************)
(* What keeps, upgrades, copies, archives and rewrites the canonical       *)
(* store.  Nine models that share no state; here are the properties that   *)
(* two or more of them have together.                                      *)
(***************************************************************************)
EXTENDS SchemaUpgrade, BackupRetention,                           \* the database
        GovernanceQueue, OperationalMemory,                       \* its records
        Finalization, ControlledRecompile,                        \* what makes pages
        TimelineProjection, MemoryArchive, PageRemoval            \* what follows them

\* The decisions and memories that governance_store keeps: no decision is lost
\* or carried out twice, and every key has one current memory at most.
RecordsAreSound == QueueIsSound /\ MemoryIsSound

\* The rounds that a source goes through: a dispatched packet is about one
\* version of the file, and recompilations share one budget, one at a time.
SourcesAreSound == PacketsAreTrue /\ RecompileIsSound

\* What was made from a page follows when the page is rewritten or removed:
\* its timeline, its memories and the references to it.
PagesAreSound == TimelineFollows /\ ArchiveIsSound /\ ReferencesFollow

\* What a step may not do: to the tables, to copies of them, to the records, to
\* the rounds of a source, and to what was made from pages.
StoreStep ==
    /\ [][UpgradeStep]_schemaVars /\ [][BackupStep]_backupVars
    /\ [][RecordStep]_queueVars /\ [][LoserStep]_memoryVars
    /\ [][FinalStep]_finalVars /\ [][RecompileStep]_recompileVars
    /\ [][TimelineStep]_timelineVars /\ [][ArchiveStep]_archiveVars
    /\ [][RemovalStep]_removalVars
===============================================================================
