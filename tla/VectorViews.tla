----------------------------- MODULE VectorViews -----------------------------
(***************************************************************************)
(* Readers of the vectors: query_view of two_stage_index pins a snapshot   *)
(* of the database, and ram_candidate_index lends it a matrix of the       *)
(* shadow table that is cached for the process.  The cache is reused       *)
(* without reading the table as long as a stamp of the connection says     *)
(* that nothing was written.  Writers mirror every vector into the shadow  *)
(* in the transaction that stores it.                                      *)
(***************************************************************************)
EXTENDS Naturals, FiniteSets

CONSTANTS
    ViewPages,
    Vals,          \* vectors
    Models,        \* encoders
    None,          \* no vector, no table, no record
    Exact,         \* the lease of a view that scans the table instead
    Queries,       \* threads with a connection of their own
    MaxViewWrites  \* bound: transactions

\* None is no number and no table.
ASSUME ViewsAssumption ==
    None \notin Nat /\ None \notin [ViewPages -> Vals \cup {None}] /\ MaxViewWrites \in Nat

VARIABLES
    db,       \* the database: vectors, shadow, meta and the counters below
    view,     \* query -> its snapshot, or None
    hint,     \* query -> token and state of the previous round, or None
    lease,    \* query -> the matrix it was lent, or Exact, or None
    current,  \* the cached matrix, or None
    retired,  \* the matrix whose last references the cache waits for, or None
    binding,  \* query -> stamp under which it verified the cached matrix
    built     \* matrices built so far

viewVars == <<db, view, hint, lease, current, retired, binding, built>>
cache == <<current, retired, binding, built>>

Rows == [ViewPages -> Vals \cup {None}]
Count(t) == Cardinality({p \in ViewPages : t[p] # None})

\* commits stands for data_version and total_changes of a connection, schema
\* for schema_version, revision for the counter that triggers maintain.
\* No vectors yet; the shadow may have been built for the model on record, and
\* the triggers installed.
Empty == [p \in ViewPages |-> None]
ViewsInit ==
    /\ \E m \in Models \cup {None}, shadow \in {Empty, None}, tracked \in BOOLEAN :
          /\ tracked => shadow # None
          /\ shadow # None => m # None
          /\ db = [vectors |-> Empty, shadow |-> shadow, model |-> m,
                   meta |-> IF shadow = None THEN None ELSE m,
                   tracked |-> tracked, revision |-> 0, commits |-> 0, schema |-> 0]
    /\ view = [q \in Queries |-> None] /\ hint = [q \in Queries |-> None]
    /\ lease = [q \in Queries |-> None]
    /\ current = None /\ retired = None /\ built = 0
    /\ binding = [q \in Queries |-> None]

-----------------------------------------------------------------------------
\* Operators with a suffix after an underscore are faulty variants: they show
\* which property would notice, and no specification uses them.

(* Writers.                                                                *)

Bump(n, really) == IF really THEN n + 1 ELSE n
Commits(d) == /\ db.commits < MaxViewWrites
              /\ db' = [d EXCEPT !.commits = @ + 1]
              /\ UNCHANGED <<view, hint, lease, cache>>

\* _store_vector and _delete_vectors, with mirror_write and mirror_delete.
Mirrored(p, v) == IF db.shadow = None THEN None ELSE [db.shadow EXCEPT ![p] = v]
WriteVectors(p, v) ==
    Commits([db EXCEPT !.vectors[p] = v, !.shadow = Mirrored(p, v),
                       !.revision = Bump(@, db.tracked /\ (v # None \/ db.shadow[p] # None))])

\* record_embedding_projection: another encoder invalidates the shadow (and
\* cannot be recorded where the shadow was never built).
RecordModel(m) ==
    /\ db.model \in {None, m} \/ db.shadow # None
    /\ Commits([db EXCEPT !.model = m, !.meta = IF db.model = m THEN @ ELSE None])

\* build: both shadow tables from the vectors.
Build ==
    /\ db.model # None
    /\ Commits([db EXCEPT !.shadow = db.vectors, !.meta = db.model,
                          !.revision = Bump(@, db.tracked /\ Count(db.vectors) > 0),
                          !.schema = Bump(@, db.shadow = None)])

\* scoped_retrieval_index.apply: the triggers that count revisions.
Track ==
    /\ db.shadow # None /\ ~db.tracked
    /\ Commits([db EXCEPT !.tracked = TRUE, !.schema = @ + 1])

-----------------------------------------------------------------------------
(* query_view and acquire.                                                 *)

\* status: recorded for the model on record, and the tables of equal size.
Usable(d) == /\ d.shadow # None /\ d.meta # None /\ d.meta = d.model
             /\ Count(d.shadow) = Count(d.vectors)
Status(d) == IF Usable(d)
             THEN [model |-> d.meta, rows |-> Count(d.vectors),
                   revision |-> IF d.tracked THEN d.revision ELSE None]
             ELSE None

\* BEGIN, and the first read, which pins the snapshot.
Pin(q) ==
    /\ view[q] = None
    /\ view' = [view EXCEPT ![q] = db]
    /\ UNCHANGED <<db, hint, lease, cache>>

\* A round of a widening loop hands the state of the one before back in.
ViewToken(q) == <<view[q].commits, view[q].schema>>
State(q) == IF hint[q] # None /\ hint[q].token = ViewToken(q) THEN hint[q].state
            ELSE Status(view[q])

Stamp_Size(q, state) == <<view[q].schema, state>>
Stamp(q, state) ==
    <<IF state.revision # None THEN state.revision ELSE view[q].commits,
      view[q].schema, state>>

Opening(q) == view[q] # None /\ lease[q] = None
Lent == {q \in Queries : lease[q] \notin {None, Exact}}

\* The lease of a view, and the state the next round may reuse.
Open(q, m, state) ==
    /\ lease' = [lease EXCEPT ![q] = m]
    /\ hint' = [hint EXCEPT ![q] = [token |-> ViewToken(q), state |-> state]]
    /\ UNCHANGED <<db, view>>

\* No trusted shadow, a matrix over the resource policy, or every slot for a
\* view taken: the table is scanned.
OpenExact(q) ==
    /\ Opening(q)
    /\ Open(q, Exact, None)
    /\ UNCHANGED cache

Acquiring(q) == Opening(q) /\ State(q) # None
Bind(q) == [stamp |-> Stamp(q, State(q)), digest |-> view[q].shadow]

\* This connection verified the cached matrix and has seen no write since.
Attached(q) == /\ binding[q] # None /\ current # None
            /\ current.state = State(q)
            /\ binding[q] = [stamp |-> Stamp(q, State(q)), digest |-> current.rows]
LeaseBound(q) ==
    /\ Acquiring(q) /\ Attached(q)
    /\ Open(q, current, State(q))
    /\ UNCHANGED cache

\* The cached matrix has every byte of the snapshot.
Matches(q) == /\ current # None /\ current.state = State(q)
              /\ current.rows = view[q].shadow
LeaseVerified(q) ==
    /\ Acquiring(q) /\ ~Attached(q) /\ Matches(q)
    /\ Open(q, current, State(q))
    /\ binding' = [binding EXCEPT ![q] = [Bind(q) EXCEPT !.digest = current.rows]]
    /\ UNCHANGED <<current, retired, built>>

\* A matrix of another generation retires; while a view still holds it no
\* other is built.
Retiring == IF current # None THEN current.id ELSE retired
Held_Never(m) == FALSE
Held(m) == \E q \in Lent : lease[q].id = m
Unbound == [q \in Queries |-> IF current # None THEN None ELSE binding[q]]
LeaseLoaded(q) ==
    /\ Acquiring(q) /\ ~Attached(q) /\ ~Matches(q) /\ ~Held(Retiring)
    /\ current' = [id |-> built + 1, state |-> State(q), rows |-> view[q].shadow]
    /\ Open(q, current', State(q))
    /\ binding' = [Unbound EXCEPT ![q] = Bind(q)]
    /\ retired' = None /\ built' = built + 1

ExactInstead(q) ==
    /\ Acquiring(q) /\ ~Attached(q) /\ ~Matches(q) /\ Held(Retiring)
    /\ Open(q, Exact, None)
    /\ current' = None /\ retired' = Retiring /\ binding' = Unbound
    /\ UNCHANGED built

\* The end of the view: lease closed, transaction rolled back.
CloseView(q) ==
    /\ lease[q] # None
    /\ view' = [view EXCEPT ![q] = None] /\ lease' = [lease EXCEPT ![q] = None]
    /\ UNCHANGED <<db, hint, cache>>

\* The widening loop ends.
EndLoop(q) ==
    /\ view[q] = None /\ hint[q] # None
    /\ hint' = [hint EXCEPT ![q] = None]
    /\ UNCHANGED <<db, view, lease, cache>>

\* More connections than MAX_CONNECTION_BINDINGS: the oldest binding goes.
Evict(q) ==
    /\ binding[q] # None
    /\ binding' = [binding EXCEPT ![q] = None]
    /\ UNCHANGED <<db, view, hint, lease, current, retired, built>>

ViewsNext ==
    \/ \E p \in ViewPages, v \in Vals \cup {None} : WriteVectors(p, v)
    \/ \E m \in Models : RecordModel(m)
    \/ Build \/ Track
    \/ \E q \in Queries :
          \/ Pin(q) \/ OpenExact(q)
          \/ LeaseBound(q) \/ LeaseVerified(q) \/ LeaseLoaded(q) \/ ExactInstead(q)
          \/ CloseView(q) \/ EndLoop(q) \/ Evict(q)

ViewsSpec == ViewsInit /\ [][ViewsNext]_viewVars

-----------------------------------------------------------------------------
(* Correctness.                                                            *)

\* A query that scans the lent matrix (two_stage_index.shortlist_keys) looks
\* at the vectors of its own snapshot, all of them and no others, whatever
\* was written, rebuilt or re-encoded while the matrix was cached.
LeaseIsTheView ==
    \A q \in Lent : /\ lease[q].rows = view[q].shadow
                     /\ lease[q].rows = view[q].vectors
                     /\ lease[q].state.model = view[q].model

\* At most one matrix is in memory, counting the ones that only a running
\* query still holds (acquire: a changed generation waits).
OneMatrix ==
    Cardinality({lease[q].id : q \in Lent}
                \cup (IF current = None THEN {} ELSE {current.id})) <= 1

\* What acquire promises to the queries and to the memory.
ViewsAreSound == LeaseIsTheView /\ OneMatrix
=============================================================================
