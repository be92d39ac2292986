---------------------------- MODULE MCOutboxViews ----------------------------
(* Instance for TLC of the outbox, where pages become visible, of the readers *)
(* of the vectors, and of one search request.  They share no state: a         *)
(* behaviour is one of the part that is chosen in the initial state.          *)
EXTENDS MutationOutbox, VectorViews, SearchRequest, TLC

VARIABLES part

\* The copy of index.json is tried with selectors and no other option, chunks
\* with plain selectors, and a quota without chunks.
Combined ==
    /\ req.catalog = "file" => req.kind # "plain" /\ ~req.chunks /\ req.quota = 0
    /\ req.quota # 0 => req.kind = "selectors" /\ ~req.chunks
    /\ req.chunks => req.kind = "selectors"
Unasked == /\ \A p \in SearchPages : meta[p] = "absent"
           /\ req.kind = "plain" /\ req.catalog = "projection"

TheInit ==
    /\ part \in {"outbox", "views", "search"}
    /\ Init /\ ViewsInit /\ SearchInit /\ Combined
    /\ part # "views" => db.model = None
    /\ part # "search" => Unasked
    /\ part # "outbox" => canon = [p \in Pages |-> Gone]

TheNext ==
    \/ part = "outbox" /\ Next /\ UNCHANGED <<part, viewVars, searchVars>>
    \/ part = "views" /\ ViewsNext /\ UNCHANGED <<part, vars, searchVars>>
    \/ part = "search" /\ SearchNext /\ UNCHANGED <<part, vars, viewVars>>

TheSpec == TheInit /\ [][TheNext]_<<part, vars, viewVars, searchVars>>

\* The parts share their model values: texts are vectors, writers are readers,
\* consumers are pages.
OutboxSymmetry == Permutations(Texts) \cup Permutations(Writers)
                  \cup Permutations(Consumers)
=============================================================================
