----------------------------- MODULE Embeddings -----------------------------
(***************************************************************************)
(* The vectors of the pages.  Publication of the index drops the vector of *)
(* every page it rewrites and never calls a provider; backfills (the sweep *)
(* of periodic_catch_up and an operator's command) read index.json, the    *)
(* bodies and the ledger of input digests one after the other, embed what  *)
(* is missing or stale in batches, and store each vector with the digest   *)
(* of its input.  A page's text stands for both parts of that input: what  *)
(* index.json holds of it (title, aliases, summary) and its body.          *)
(***************************************************************************)
EXTENDS Naturals, FiniteSets

CONSTANTS
    Pages,       \* numbers, in the order of their keys
    Texts,       \* texts of a page
    Gone,        \* the text of a page that does not exist
    Models,      \* embedding models
    None,        \* nothing recorded
    Limit,       \* pages a sweep may embed
    BatchItems,  \* max_batch_items
    MaxEdits,    \* bound: commits of pages
    MaxUpsets    \* bound: crashes, provider failures, operator commands, new models

VARIABLES
    canon,    \* page -> its body in the canonical tables
    index,    \* page -> its node in index.json
    due,      \* pages committed and not yet published
    pub,      \* the publication between its rows and its file, or None
    vectors,  \* page -> input and model of its row in vec_embeddings, or None
    inputs,   \* page -> recorded digest (vec_embedding_inputs), or None
    marker,   \* vec_embedding_projection: the model on record, or None
    model,    \* the configured model
    shadow,   \* the tables of two_stage_index were built once
    lock,     \* holder of .embedding-backfill.lock, or None
    run,      \* backfill -> its phase and what it has read
    bounds    \* edits and upsets so far

stores == <<canon, index, due, pub>>
vectorRows == <<vectors, inputs, marker, shadow>>
backfillVars == <<stores, vectorRows, model, lock, run, bounds>>

\* The sweep is bounded per turn, the operator's command is not.
Backfills == {"sweep", "operator"}
Content == Texts \cup {Gone}
Input == [node : Texts, body : Content]
Vector == [input : Input, model : Models]

\* A model is configured, and None is not a vector.
ASSUME BackfillAssumption == Models # {} /\ None \notin Vector

Idle == [at |-> "idle", nodes |-> [p \in Pages |-> Gone], bodies |-> [p \in Pages |-> Gone],
         todo |-> {}, batch |-> {}, embedded |-> FALSE, model |-> None]

BackfillInit ==
    /\ canon \in [Pages -> Content] /\ index = canon
    /\ due = {} /\ pub = None
    /\ vectors = [p \in Pages |-> None] /\ inputs = [p \in Pages |-> None]
    /\ marker = None /\ shadow \in BOOLEAN
    /\ model = CHOOSE m \in Models : TRUE
    /\ lock = None
    /\ run = [b \in Backfills |-> Idle]
    /\ bounds = [edits |-> 0, upsets |-> 0]

Upset == /\ bounds.upsets < MaxUpsets
         /\ bounds' = [bounds EXCEPT !.upsets = @ + 1]

-----------------------------------------------------------------------------
(* Pages change and are published (modules MutationOutbox and              *)
(* IndexPublication; here only what touches the vectors).                  *)

Commit(p, t) ==
    /\ bounds.edits < MaxEdits /\ canon[p] # t
    /\ pub # None => p \notin pub.batch
    /\ canon' = [canon EXCEPT ![p] = t]
    /\ due' = due \cup {p}
    /\ bounds' = [bounds EXCEPT !.edits = @ + 1]
    /\ UNCHANGED <<index, pub, vectorRows, model, lock, run>>

Drop(keys) ==
    /\ vectors' = [p \in Pages |-> IF p \in keys THEN None ELSE vectors[p]]
    /\ inputs' = [p \in Pages |-> IF p \in keys THEN None ELSE inputs[p]]

\* The transaction of update_index_items: a rewritten page loses its vector,
\* and so does a deleted one that the index knows.
PublishRows(p) ==
    /\ pub = None /\ p \in due
    /\ pub' = [batch |-> {p}, nodes |-> [index EXCEPT ![p] = canon[p]]]
    /\ Drop(IF canon[p] = Gone /\ index[p] = Gone THEN {} ELSE {p})
    /\ UNCHANGED <<canon, index, due, marker, shadow, model, lock, run, bounds>>

\* A full rebuild keeps the vectors of all pages it finds.
RebuildRows ==
    /\ pub = None /\ Upset
    /\ pub' = [batch |-> {}, nodes |-> canon]
    /\ Drop({p \in Pages : canon[p] = Gone})
    /\ UNCHANGED <<canon, index, due, marker, shadow, model, lock, run>>

PublishFile ==
    /\ pub # None
    /\ index' = pub.nodes /\ due' = due \ pub.batch
    /\ pub' = None
    /\ UNCHANGED <<canon, vectorRows, model, lock, run, bounds>>

PublishStops ==
    /\ pub # None /\ Upset
    /\ pub' = None
    /\ UNCHANGED <<canon, index, due, vectorRows, model, lock, run>>

-----------------------------------------------------------------------------
(* embedding_backfill.                                                     *)

\* Operators with a suffix after an underscore are faulty variants: they show
\* which property would notice, and no specification uses them.

InputOf(nodes, bodies, p) == [node |-> nodes[p], body |-> bodies[p]]

\* index.json.
ReadIndex(b) ==
    /\ run[b].at = "idle"
    /\ run' = [run EXCEPT ![b].at = "bodies", ![b].nodes = index, ![b].model = model]
    /\ IF b = "operator" THEN Upset ELSE UNCHANGED bounds
    /\ UNCHANGED <<stores, vectorRows, model, lock>>

\* page_bodies_for_keys.
ReadBodies(b) ==
    /\ run[b].at = "bodies"
    /\ run' = [run EXCEPT ![b].at = "plan", ![b].bodies = canon]
    /\ UNCHANGED <<stores, vectorRows, model, lock, bounds>>

\* stale_embedding_keys: the recorded digest is not that of the input now.
Stale_Never(r, p) == FALSE
Stale(r, p) == inputs[p] # InputOf(r.nodes, r.bodies, p)
\* _candidate_items: missing or stale, in the order of the keys, up to a limit.
Pending(r) == {p \in Pages : r.nodes[p] # Gone /\ (vectors[p] = None \/ Stale(r, p))}
First(keys, n) == {p \in keys : Cardinality({q \in keys : q < p}) < n}
Candidates(b, everything) ==
    LET pending == IF everything THEN {p \in Pages : run[b].nodes[p] # Gone}
                                 ELSE Pending(run[b])
    IN  IF b = "sweep" THEN First(pending, Limit) ELSE pending

\* The operator may ask for all pages (include_existing).
Plan(b, everything) ==
    /\ run[b].at = "plan" /\ (everything => b = "operator")
    /\ run' = [run EXCEPT ![b] = IF Candidates(b, everything) = {} THEN Idle
                                 ELSE [@ EXCEPT !.at = "lock",
                                                !.todo = Candidates(b, everything)]]
    /\ UNCHANGED <<stores, vectorRows, model, lock, bounds>>

\* One backfill at a time; the other one is skipped.
Lock(b) ==
    /\ run[b].at = "lock"
    /\ IF lock = None THEN /\ lock' = b
                           /\ run' = [run EXCEPT ![b].at = "request"]
                      ELSE /\ run' = [run EXCEPT ![b] = Idle]
                           /\ UNCHANGED lock
    /\ UNCHANGED <<stores, vectorRows, model, bounds>>

NextBatch(b) == First(run[b].todo, BatchItems)

\* The provider embeds a batch.
Request(b) ==
    /\ run[b].at = "request" /\ run[b].todo # {}
    /\ run' = [run EXCEPT ![b].at = "store", ![b].batch = NextBatch(b),
                          ![b].todo = @ \ NextBatch(b)]
    /\ UNCHANGED <<stores, vectorRows, model, lock, bounds>>

\* The provider, or the store of one of its vectors, fails: the rest of the
\* batch is left to a later sweep; the run may stop (consecutive failures).
BatchFails(b, stop) ==
    /\ \/ run[b].at = "request" /\ run[b].todo # {}
       \/ run[b].at = "store"
    /\ Upset
    /\ run' = [run EXCEPT ![b].at = "request", ![b].batch = {},
                  ![b].todo = IF stop THEN {}
                              ELSE IF run[b].at = "store" THEN @ ELSE @ \ NextBatch(b)]
    /\ UNCHANGED <<stores, vectorRows, model, lock>>

\* The digest of the input the vector was made from.
Digest_Now(b, p) == [node |-> run[b].nodes[p], body |-> canon[p]]
Digest(b, p) == InputOf(run[b].nodes, run[b].bodies, p)

\* upsert_embedding: vector and digest in one transaction.
Store(b, p) ==
    /\ run[b].at = "store" /\ run[b].batch # {} /\ {p} = First(run[b].batch, 1)
    /\ vectors' = [vectors EXCEPT ![p] =
          [input |-> InputOf(run[b].nodes, run[b].bodies, p), model |-> run[b].model]]
    /\ inputs' = [inputs EXCEPT ![p] = Digest(b, p)]
    /\ run' = [run EXCEPT ![b].batch = @ \ {p}, ![b].embedded = TRUE]
    /\ UNCHANGED <<stores, marker, shadow, model, lock, bounds>>

BatchDone(b) ==
    /\ run[b].at = "store" /\ run[b].batch = {}
    /\ run' = [run EXCEPT ![b].at = "request"]
    /\ UNCHANGED <<stores, vectorRows, model, lock, bounds>>

\* record_embedding_projection: another model than the one on record also
\* invalidates the shadow, in one transaction; without the shadow's tables
\* that statement fails, and with it the record.
Recorded(b) == run[b].embedded /\ (marker \in {None, run[b].model} \/ shadow)
\* The model is recorded when rows were written, and the lock released.
Finish(b) ==
    /\ run[b].at = "request" /\ run[b].todo = {}
    /\ marker' = IF Recorded(b) THEN run[b].model ELSE marker
    /\ lock' = None
    /\ run' = [run EXCEPT ![b] = Idle]
    /\ UNCHANGED <<stores, vectors, inputs, shadow, model, bounds>>

\* The process ends: nothing is recorded, the system frees the lock.
Crash(b) ==
    /\ run[b].at # "idle" /\ Upset
    /\ lock' = IF lock = b THEN None ELSE lock
    /\ run' = [run EXCEPT ![b] = Idle]
    /\ UNCHANGED <<stores, vectorRows, model>>

\* The host is configured with another model.
ChangeModel(m) ==
    /\ m # model /\ Upset
    /\ model' = m
    /\ UNCHANGED <<stores, vectorRows, lock, run>>

BackfillStep(b) ==
    \/ ReadIndex(b) \/ ReadBodies(b) \/ Lock(b) \/ Request(b)
    \/ \E everything \in BOOLEAN : Plan(b, everything)
    \/ \E p \in Pages : Store(b, p)
    \/ BatchDone(b) \/ Finish(b)

BackfillNext ==
    \/ \E p \in Pages, t \in Content : Commit(p, t)
    \/ \E p \in Pages : PublishRows(p)
    \/ RebuildRows \/ PublishFile \/ PublishStops
    \/ \E b \in Backfills : \/ BackfillStep(b)
                            \/ \E stop \in BOOLEAN : BatchFails(b, stop)
                            \/ Crash(b)
    \/ \E m \in Models : ChangeModel(m)

BackfillSpec == BackfillInit /\ [][BackfillNext]_backfillVars

\* The outbox publishes what is due; the sweep comes back every fifteen
\* minutes, and a backfill that started goes on.  Failures of the provider
\* are bounded by MaxUpsets: it answers in the end.
BackfillFairness ==
    /\ WF_backfillVars(PublishFile) /\ WF_backfillVars(\E p \in Pages : PublishRows(p))
    /\ WF_backfillVars(BackfillStep("sweep"))
    /\ WF_backfillVars(run["operator"].at # "idle" /\ BackfillStep("operator"))
BackfillFairSpec == BackfillSpec /\ BackfillFairness

-----------------------------------------------------------------------------
(* Correctness.                                                            *)

\* The digest on record is that of the input the stored vector was made from,
\* whoever dropped, stored or rebuilt in between: a sweep that trusts the
\* digest never keeps a vector of another text.
StampIsTheInput ==
    \A p \in Pages : inputs[p] = IF vectors[p] = None THEN None ELSE vectors[p].input

\* In the end every page of the index has the vector of its text now, however
\* publication, sweeps, the operator's backfill and failures interleaved.
Fresh(p) == vectors[p] # None /\ vectors[p].input = InputOf(index, canon, p)
VectorsArrive == <>[](\A p \in Pages : index[p] # Gone => Fresh(p))
=============================================================================
