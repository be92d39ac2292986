-------------------------- MODULE IndexPublication --------------------------
(***************************************************************************)
(* What a publication consists of (indexer.py, page_index_projection.py).  *)
(* The outbox consumer, the scheduler, the clustering daemon and the       *)
(* operator's commands bring index.json, the full-text table and           *)
(* claim_topology.json in step with the canonical tables; whoever          *)
(* publishes index.json also refreshes the SQLite rows that readers        *)
(* prefer, in three transactions, and the consumer heals rows that are     *)
(* behind.  Publishers hold the index lock, heals and search repairs do    *)
(* not.                                                                    *)
(*                                                                         *)
(* A text stands for a page's title, summary, body and links; a text of    *)
(* Linking earns its page an edge.  The (mtime, size) stamp of index.json  *)
(* is a counter, 0 while the file is missing.  Outbox rows are those of    *)
(* MutationOutbox, reduced to the pages whose row is not completed.        *)
(***************************************************************************)
EXTENDS Integers, FiniteSets, Sequences

CONSTANTS
    Pages,           \* pages that become nodes of the index
    PageTexts,
    Linking,         \* texts with links, a subset of PageTexts
    MaxIndexWrites,  \* bound: committed changes of pages
    MaxIndexUpsets   \* bound: commands, failed transactions, stopped processes

Absent == "gone"
Sys  == "System_Community"  \* a page of the clustering daemon, never a node
Free == "free"

\* Pages that become nodes are not the daemon's; a text of Linking is a text.
ASSUME IndexAssumption ==
    Sys \notin Pages /\ Linking \subseteq PageTexts /\ Absent \notin PageTexts

Nodes    == [Pages -> PageTexts \cup {Absent}]
NoNodes  == [p \in Pages |-> Absent]
Edges(n) == {p \in Pages : n[p] \in Linking}

VARIABLES
    canon,      \* canonical text of each page
    owed,       \* pages whose latest outbox row is not completed
    index,      \* index.json
    ftsRows,    \* wiki_search_index
    graph,      \* claim_topology.json
    projected,  \* page_index_nodes, page_index_edges, page_index_state
    marker,     \* page_index_projection.stale.json exists
    indexLock,  \* holder of index.json.lock
    proc,       \* what each process is doing
    torn,       \* history: stores that a named race or stop left behind
    indexWrites, indexUpsets

stores == <<index, ftsRows, graph>>
readside == <<projected, marker>>
indexBounds == <<indexWrites, indexUpsets>>
indexVars == <<canon, owed, stores, readside, indexLock, proc, torn, indexBounds>>

\* The consumer thread, the scheduler thread, another process.
Procs == {"consumer", "scheduler", "operator"}
Steps == [idle     |-> <<"idle">>,
          update   |-> <<"lock", "sql", "write", "nodes", "edges", "state", "graph", "end">>,
          topology |-> <<"lock", "write", "nodes", "edges", "state", "end">>,
          rebuild  |-> <<"lock", "claims", "sync", "graph", "write",
                         "nodes", "edges", "state", "end">>,
          heal     |-> <<"load", "nodes", "edges", "state", "end">>,
          cluster  |-> <<"lock", "pages", "write", "end">>,
          repair   |-> <<"sync", "end">>]

NoJob == [job |-> "idle", at |-> 1, batch |-> {}, data |-> NoNodes,
          claims |-> NoNodes, gen |-> 0, stamp |-> 0, rewrite |-> FALSE]

Pc(x)        == Steps[proc[x].job][proc[x].at]
AtStep(x, s) == Pc(x) = s
Advance(x)   == proc' = [proc EXCEPT ![x].at = @ + 1]
StartJob(x, job, batch, data) ==
    /\ AtStep(x, "idle")
    /\ proc' = [proc EXCEPT ![x] = [NoJob EXCEPT !.job = job, !.batch = batch,
                    !.data = data, !.gen = IF job = "repair" THEN index.gen
                                                             ELSE 0]]

IndexInit ==
    /\ canon \in Nodes
    /\ owed = {p \in Pages : canon[p] # Absent}
    /\ index = [gen |-> 0, nodes |-> NoNodes, dirty |-> FALSE]
    /\ ftsRows = NoNodes /\ graph = NoNodes
    /\ projected = [nodes |-> NoNodes, edges |-> {}, stamp |-> 0, count |-> 0,
                    digest |-> {}]
    /\ marker = FALSE
    /\ indexLock = Free
    /\ proc = [x \in Procs |-> NoJob]
    /\ torn = {}
    /\ indexWrites = 0 /\ indexUpsets = 0

\* Operators with a suffix after an underscore are faulty variants of the
\* operator that follows them; no specification uses them.
PageLocks_FirstPhase == {}

\* Page locks: a batch is published under the locks of its pages.
PageLocks == UNION {proc[x].batch : x \in Procs}
\* global_task_lock: batches and topology refreshes of one daemon.
TaskLock == \E x \in {"consumer", "scheduler"} :
                proc[x].job \in {"update", "topology", "rebuild"}

IndexUpset == indexUpsets < MaxIndexUpsets /\ indexUpsets' = indexUpsets + 1

-----------------------------------------------------------------------------
\* execute_mutation_batch commits a page, with its outbox row.
Commit(p, t) ==
    /\ indexWrites < MaxIndexWrites /\ indexWrites' = indexWrites + 1
    /\ p \notin PageLocks /\ canon[p] # t
    /\ canon' = [canon EXCEPT ![p] = t]
    /\ owed' = owed \cup {p}
    /\ UNCHANGED <<stores, readside, indexLock, proc, torn, indexUpsets>>

\* A batch of claimed rows; without index.json everything is rebuilt.
StartUpdate(batch) ==
    /\ ~TaskLock
    /\ batch # {} /\ batch \subseteq owed
    /\ StartJob("consumer", IF index.gen = 0 /\ batch # {Sys} THEN "rebuild"
                                                              ELSE "update",
                batch, [p \in Pages |-> IF p \in batch THEN canon[p] ELSE Absent])
    /\ UNCHANGED <<canon, owed, stores, readside, indexLock, torn, indexBounds>>

\* refresh_graph_topology_if_dirty: the unlocked probe.
StartTopology ==
    /\ ~TaskLock
    /\ index.gen = 0 \/ index.dirty
    /\ StartJob("scheduler", IF index.gen = 0 THEN "rebuild" ELSE "topology",
                {}, index.nodes)
    /\ UNCHANGED <<canon, owed, stores, readside, indexLock, torn, indexBounds>>

StartRebuild ==
    /\ IndexUpset
    /\ StartJob("operator", "rebuild", {}, NoNodes)
    /\ UNCHANGED <<canon, owed, stores, readside, indexLock, torn, indexWrites>>

\* The clustering daemon; repair_search_projection reads index.json first.
StartOther(job) ==
    /\ IndexUpset /\ index.gen # 0
    /\ StartJob("operator", job, {}, index.nodes)
    /\ UNCHANGED <<canon, owed, stores, readside, indexLock, torn, indexWrites>>

Current == index.gen # 0 /\ projected.stamp = index.gen

StartHeal_ByMarker ==
    /\ index.gen # 0 /\ marker
    /\ IF Current
       THEN AtStep("consumer", "idle") /\ marker' = FALSE /\ UNCHANGED proc
       ELSE StartJob("consumer", "heal", {}, NoNodes) /\ UNCHANGED marker
    /\ UNCHANGED <<canon, owed, stores, projected, indexLock, torn, indexBounds>>

\* heal_projection_if_stale, on the consumer thread between batches.
StartHeal ==
    /\ index.gen # 0 /\ (~Current \/ marker)
    /\ IF Current
       THEN AtStep("consumer", "idle") /\ marker' = FALSE /\ UNCHANGED proc
       ELSE StartJob("consumer", "heal", {}, NoNodes) /\ UNCHANGED marker
    /\ UNCHANGED <<canon, owed, stores, projected, indexLock, torn, indexBounds>>

-----------------------------------------------------------------------------
\* What is published: index.json as it is now, with the batch's nodes as
\* read before the lock was taken; a rebuild reads the canonical tables.
Planned(x) ==
    IF proc[x].job = "rebuild" THEN canon
    ELSE [p \in Pages |-> IF proc[x].job = "update" /\ p \in proc[x].batch
                          THEN proc[x].data[p] ELSE index.nodes[p]]

\* Nothing to do when somebody else refreshed the topology; an update of
\* no node at all returns before it looks for the lock.
Lock(x) ==
    /\ AtStep(x, "lock") /\ indexLock = Free
    /\ IF \/ proc[x].job = "topology" /\ ~index.dirty
          \/ proc[x].job = "update" /\ proc[x].batch = {Sys}
       THEN /\ proc' = [proc EXCEPT ![x].at = Len(Steps[proc[x].job])]
            /\ UNCHANGED indexLock
       ELSE /\ indexLock' = x
            /\ proc' = [proc EXCEPT ![x].at = @ + 1, ![x].data = Planned(x),
                                    ![x].claims = IF proc[x].job = "update"
                                                  THEN canon ELSE NoNodes]
    /\ UNCHANGED <<canon, owed, stores, readside, torn, indexBounds>>

\* A rebuild reads the claims after the entities.
ReadClaims(x) ==
    /\ AtStep(x, "claims")
    /\ proc' = [proc EXCEPT ![x].at = @ + 1, ![x].claims = canon]
    /\ UNCHANGED <<canon, owed, stores, readside, indexLock, torn, indexBounds>>

\* Only a page the index still lists is deleted from the table.
Touched(x) == {p \in proc[x].batch \ {Sys} :
                   proc[x].data[p] # Absent \/ index.nodes[p] # Absent}

\* The batch's changes of the full-text table, in one transaction.
UpdateRows(x) ==
    /\ AtStep(x, "sql")
    /\ ftsRows' = [p \in Pages |-> IF p \in Touched(x) THEN proc[x].data[p]
                                                       ELSE ftsRows[p]]
    /\ Advance(x)
    /\ UNCHANGED <<canon, owed, index, graph, readside, indexLock, torn, indexBounds>>

\* Search rows are committed that index.json does not know yet.
HalfPublished(x) == \/ proc[x].job = "update" /\ AtStep(x, "write")
                    \/ proc[x].job = "rebuild"
                       /\ Pc(x) \in {"sync", "graph", "write"}

\* _sync_search_index: one transaction a row.
SyncRow(x, p) ==
    /\ AtStep(x, "sync") /\ ftsRows[p] # proc[x].data[p]
    /\ ftsRows' = [ftsRows EXCEPT ![p] = proc[x].data[p]]
    /\ torn' = IF /\ proc[x].job = "repair"
                  /\ \/ proc[x].gen # index.gen
                     \/ \E y \in Procs : HalfPublished(y)
               THEN torn \cup {"fts"} ELSE torn
    /\ UNCHANGED <<canon, owed, index, graph, readside, indexLock, proc, indexBounds>>

SyncEnds(x) ==
    /\ AtStep(x, "sync") /\ ftsRows = proc[x].data
    /\ Advance(x)
    /\ UNCHANGED <<canon, owed, stores, readside, indexLock, torn, indexBounds>>

\* The daemon commits its pages while it holds the index lock.
CommunityPages(x) ==
    /\ AtStep(x, "pages")
    /\ IF Edges(proc[x].data) = {} THEN UNCHANGED owed
       ELSE Sys \notin PageLocks /\ owed' = owed \cup {Sys}
    /\ Advance(x)
    /\ UNCHANGED <<canon, stores, readside, indexLock, torn, indexBounds>>

WriteIndex(x) ==
    /\ AtStep(x, "write")
    /\ index' = [gen |-> index.gen + 1, nodes |-> proc[x].data,
                 dirty |-> proc[x].job = "update"]
    /\ Advance(x)
    /\ UNCHANGED <<canon, owed, ftsRows, graph, readside, indexLock, torn, indexBounds>>

WriteGraph(x) ==
    /\ AtStep(x, "graph")
    /\ graph' = proc[x].claims
    /\ proc' = [proc EXCEPT ![x].at = @ + 1, ![x].claims = NoNodes]
    /\ UNCHANGED <<canon, owed, index, ftsRows, readside, indexLock, torn, indexBounds>>

-----------------------------------------------------------------------------
(* refresh_page_index_projection                                           *)

\* The three transactions of a refresh.
Refreshing(x) == Pc(x) \in {"nodes", "edges", "state"}

\* A heal that was overtaken by a publication goes on with what it read.
MayTear(x) == torn' = IF proc[x].job = "heal" /\ proc[x].gen # index.gen
                      THEN torn \cup {"rows"} ELSE torn

Load(x) ==
    /\ AtStep(x, "load")
    /\ proc' = [proc EXCEPT ![x].at = @ + 1, ![x].data = index.nodes,
                            ![x].gen = index.gen]
    /\ UNCHANGED <<canon, owed, stores, readside, indexLock, torn, indexBounds>>

\* Equal count and digest as recorded: the edge rows are left alone.
EdgesChanged(x) == \/ projected.count # Cardinality(Edges(proc[x].data))
                   \/ projected.digest # Edges(proc[x].data)

\* The node rows; the stamp and the recorded edge state are read at once.
RefreshNodes(x) ==
    /\ AtStep(x, "nodes")
    /\ projected' = [projected EXCEPT !.nodes = proc[x].data]
    /\ proc' = [proc EXCEPT ![x].at = @ + 1, ![x].stamp = index.gen,
                            ![x].rewrite = EdgesChanged(x)]
    /\ MayTear(x)
    /\ UNCHANGED <<canon, owed, stores, marker, indexLock, indexBounds>>

RefreshEdges(x) ==
    /\ AtStep(x, "edges")
    /\ projected' = IF proc[x].rewrite
                    THEN [projected EXCEPT !.edges = Edges(proc[x].data)] ELSE projected
    /\ MayTear(x)
    /\ Advance(x)
    /\ UNCHANGED <<canon, owed, stores, marker, indexLock, indexBounds>>

RecordState(x) ==
    /\ AtStep(x, "state")
    /\ projected' = [projected EXCEPT !.stamp = proc[x].stamp,
                                 !.count = Cardinality(projected.edges),
                                 !.digest = Edges(proc[x].data)]
    /\ marker' = FALSE
    /\ MayTear(x)
    /\ Advance(x)
    /\ UNCHANGED <<canon, owed, stores, indexLock, indexBounds>>

\* A transaction times out.  A publisher only leaves the marker.
RefreshFails(x) ==
    /\ Refreshing(x)
    /\ IndexUpset
    /\ marker' = IF proc[x].job = "heal" THEN marker ELSE TRUE
    /\ torn' = IF AtStep(x, "state") /\ proc[x].rewrite
               THEN torn \cup {"rows"} ELSE torn
    /\ proc' = [proc EXCEPT ![x].at = IF proc[x].job = "update"
            THEN Len(Steps.update) - 1 ELSE Len(Steps[proc[x].job])]
    /\ UNCHANGED <<canon, owed, stores, projected, indexLock, indexWrites>>

-----------------------------------------------------------------------------

LeaveJob(x) == /\ proc' = [proc EXCEPT ![x] = NoJob]
               /\ indexLock' = IF indexLock = x THEN Free ELSE indexLock

\* The batch's outbox rows are completed.
End(x) ==
    /\ AtStep(x, "end")
    /\ LeaveJob(x)
    /\ owed' = owed \ proc[x].batch
    /\ UNCHANGED <<canon, stores, readside, torn, indexBounds>>

\* FileLock gives up: on the index (15, 30 or 120 s), or on a page.
LockTimeout(x) ==
    /\ \/ AtStep(x, "lock") /\ indexLock # Free
       \/ AtStep(x, "pages") /\ Sys \in PageLocks
    /\ LeaveJob(x)
    /\ UNCHANGED <<canon, owed, stores, readside, torn, indexBounds>>

\* The process dies or an exception ends the job; file locks are released.
Stops(x) ==
    /\ ~AtStep(x, "idle") /\ ~AtStep(x, "end")
    /\ IndexUpset
    /\ LeaveJob(x)
    /\ torn' = torn \cup (IF AtStep(x, "state") /\ proc[x].rewrite
                          THEN {"rows"} ELSE {})
                    \cup (IF HalfPublished(x) THEN {"fts"} ELSE {})
    /\ UNCHANGED <<canon, owed, stores, readside, indexWrites>>

-----------------------------------------------------------------------------
Publish(x) == \/ Lock(x) \/ ReadClaims(x) \/ UpdateRows(x) \/ SyncEnds(x)
              \/ \E p \in Pages : SyncRow(x, p)
              \/ CommunityPages(x) \/ WriteIndex(x) \/ WriteGraph(x)
RefreshStep(x) == Load(x) \/ RefreshNodes(x) \/ RefreshEdges(x)
                  \/ RecordState(x)
Work(x) == Publish(x) \/ RefreshStep(x) \/ End(x) \/ LockTimeout(x)

IndexNext == \/ \E p \in Pages, t \in PageTexts \cup {Absent} : Commit(p, t)
             \/ \E batch \in SUBSET owed : StartUpdate(batch)
             \/ StartTopology \/ StartHeal \/ StartRebuild
             \/ \E job \in {"cluster", "repair"} : StartOther(job)
             \/ \E x \in Procs : Work(x) \/ RefreshFails(x) \/ Stops(x)

IndexSpec == IndexInit /\ [][IndexNext]_indexVars

\* The consumer's loop retries its rows and heals; the scheduler refreshes
\* the topology; what was begun goes on.
IndexFairSpec == /\ IndexSpec
                 /\ WF_indexVars(StartUpdate(owed)) /\ WF_indexVars(StartHeal)
                 /\ WF_indexVars(StartTopology)
                 /\ \A x \in Procs : WF_indexVars(Work(x))

-----------------------------------------------------------------------------
\* A completed outbox row is kept by every store of the index, whatever was
\* published, rebuilt or clustered meanwhile; the full-text table excepted
\* once a publication stopped half-way or a repair was overtaken.
CompletedIsPublished ==
    \A p \in Pages \ owed :
        /\ index.nodes[p] = canon[p]
        /\ graph[p] = canon[p]
        /\ "fts" \in torn \/ ftsRows[p] = canon[p]

\* Rows that carry the stamp of index.json hold its nodes and edges, unless
\* a heal was overtaken or a refresh stopped before its state row.  (Edges are
\* taken for unchanged by their count and digest: after such a stop the digest
\* on record is that of other edges, and they stay.)
CurrentUnlessTorn ==
    Current /\ "rows" \notin torn /\ (\A x \in Procs : ~Refreshing(x))
        => projected.nodes = index.nodes /\ projected.edges = Edges(index.nodes)

\* What readers are given is what was committed.
StoresFollowCanon == CompletedIsPublished /\ CurrentUnlessTorn

\* In the end every committed page is published, the topology is clean and
\* the readers' rows carry the stamp of the last index.json.
IndexSettled == owed = {} /\ ~index.dirty /\ (Current \/ index.gen = 0)
=============================================================================
