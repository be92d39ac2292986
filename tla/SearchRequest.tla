--------------------------- MODULE SearchRequest ---------------------------
(***************************************************************************)
(* One page search of tool_search while the projected nodes and the files  *)
(* change under it: text, vector and chunk arm, each read and judged in    *)
(* two moments and widened until enough pages pass the selectors; fusion,  *)
(* expansion along the graph, the candidate pool, and the evidence that is *)
(* shown.  A deadline may pass between any two steps, and reads may fail.  *)
(* Scores are abstracted: every order of the fused pages is possible.      *)
(***************************************************************************)
EXTENDS FiniteSets, Integers

CONSTANTS
    PageCount,    \* pages 1..PageCount, as the text arm ranks them
    Depth,        \* CANDIDATE_DEPTH, and the 25 of the chunk arm
    Cap,          \* MAX_FILTERED_RECALL_CANDIDATES, and MAX_CANDIDATES of chunks
    PoolSize,     \* CANDIDATE_POOL
    Quotas,       \* values of VECTOR_LAKE_EXPANSION_QUOTA, 0 when it is unset
    ExpandMax,    \* expansion_limit
    Batch,        \* batch_size of the expansion
    TopK,
    Rooms,        \* how many evidence blocks fit the answer
    MaxChanges,   \* bound: changes of a node or a file
    MaxFaults     \* bound: reads that fail

ASSUME SearchAssumption == /\ PageCount \in Nat /\ Depth \in Nat \ {0} /\ Cap \in Nat
                           /\ PoolSize \in Nat \ {0} /\ Quotas \subseteq Nat
                           /\ ExpandMax \in Nat /\ Batch \in Nat /\ TopK \in Nat
                           /\ Rooms \subseteq Nat

VARIABLES
    meta,      \* page -> what its projected node says to the selectors
    edited,    \* pages whose file changed since the chunk sidecar read it
    req,       \* the request: its kind and the locals of _search_scored_pages
    late,      \* its deadline has passed
    changes, faults,
    steady,    \* history: pages whose node did not change since the start
    missed     \* history: steady pages an arm matched and did not pass on

searchVars == <<meta, edited, req, late, changes, faults, steady, missed>>

SearchPages == 1..PageCount
\* A rank says in which order an arm, or the fusion, has the pages.
TextRank   == [p \in SearchPages |-> p]
VectorRank == [p \in SearchPages |-> PageCount + 1 - p]
Ranks      == {r \in [SearchPages -> SearchPages] :
                  \A p, q \in SearchPages : r[p] = r[q] => p = q}
Fewer(a, b) == IF a < b THEN a ELSE b
\* The first n pages of S.
First(n, S, rank) == {p \in S : Cardinality({q \in S : rank[q] < rank[p]}) < n}

\* No node; a node the selectors refuse; one they accept, and whether it is of
\* type Source.  The nodes a request has read are "absent" where it has none.
NodeValues == {"absent", "out", "page", "source"}
Known(nodes)      == {p \in SearchPages : nodes[p] # "absent"}
Keeping(nodes, S) == [p \in SearchPages |-> IF p \in S THEN nodes[p] ELSE "absent"]
Over(new, old)    == [p \in SearchPages |-> IF new[p] # "absent" THEN new[p] ELSE old[p]]

\* Of the legacy profile; the others have no cap on sources.
SourceCap     == (6 * PoolSize) \div 10
\* The projection, or, while it is behind, a copy of index.json.
Catalogs      == {"projection", "file"}

Nothing == [p \in SearchPages |-> "absent"]
SearchInit ==
    /\ meta \in [SearchPages -> NodeValues]
    /\ edited = {} /\ late = FALSE /\ changes = 0 /\ faults = 0
    /\ steady = SearchPages /\ missed = {}
    /\ \E kind \in {"plain", "selectors", "expr"}, catalog \in Catalogs,
          chunks \in BOOLEAN, quota \in Quotas, room \in Rooms :
         /\ chunks => kind # "plain"
         /\ req = [at |-> "text", kind |-> kind, catalog |-> catalog,
                   chunks |-> chunks, quota |-> quota, room |-> room,
                   hits |-> {}, limit |-> 0, rows |-> {}, raw |-> 0, checked |-> {},
                   lexical |-> Nothing, vector |-> {}, chunk |-> {},
                   scored |-> Nothing, ranked |-> {}, eligible |-> {},
                   expanded |-> Nothing, pool |-> {}, answer |-> {}, shown |-> {},
                   notes |-> {}, status |-> "open"]

-----------------------------------------------------------------------------
\* A node as the catalog of the request has it: the projection, or a copy of
\* index.json, which does not change.
Node(p)   == meta[p]
Passes(v) == v # "absent" /\ (req.kind # "plain" => v # "out")
Passing(S) == {p \in S : Passes(Node(p))}
NodesOf(S) == Keeping([p \in SearchPages |-> Node(p)], S)

\* The plain selectors are part of the statement of the text arm, an expression
\* is not.
Joined(p) == req.catalog = "projection" =>
                 meta[p] # "absent" /\ (req.kind = "selectors" => meta[p] # "out")

Fault == faults < MaxFaults /\ faults' = faults + 1
Broken == \/ late /\ UNCHANGED faults
          \/ Fault
Calm   == UNCHANGED faults
Still  == UNCHANGED <<meta, edited, late, changes, steady>>

\* What an arm loses when it goes on with the pages S.
Lost(S) == {p \in (req.hits \cap steady) \ S : Passes(Node(p))}
Loses(S) == missed' = missed \cup Lost(S)

\* An arm opens with the pages it matches, and asks for the first few.  The cap
\* is one of the selectors: without them nothing is filtered.
Opens(at, S) == [req EXCEPT !.at = at, !.hits = S, !.rows = {}, !.raw = 0, !.checked = {},
                            !.limit = IF req.kind = "plain" THEN Depth ELSE Fewer(Depth, Cap)]
\* It closes with its first pages; rows and matches are done with.
Closes(r, at, notes) == [r EXCEPT !.at = at, !.hits = {}, !.limit = 0, !.rows = {},
                                  !.raw = 0, !.checked = {}, !.notes = @ \cup notes]

Fetched(at, rows, raw) == req' = [req EXCEPT !.at = at, !.rows = rows, !.raw = raw]

\* _filtered_recall after a read: enough pages passed, or the source itself ran
\* out, or the cap is reached; otherwise ask for twice as many.
Selected == IF req.kind = "plain" THEN req.rows ELSE Passing(req.rows)
\* As if the rows were counted before the selectors.
Complete_ByRows == req.kind = "plain" \/ Cardinality(req.rows) >= Depth \/ req.raw < req.limit
Complete == req.kind = "plain" \/ Cardinality(Selected) >= Depth \/ req.raw < req.limit
Capped   == req.limit >= Cap /\ ~Complete
Widens(at) == /\ ~Complete /\ ~Capped
              /\ req' = [req EXCEPT !.at = at, !.limit = Fewer(2 * @, Cap),
                                    !.rows = {}, !.raw = 0]
              /\ UNCHANGED missed
Enough == First(Depth, Selected, IF req.at = "vector-judge" THEN VectorRank ELSE TextRank)
\* A full arm owes nothing to the pages behind its last one.
Settled == IF Cardinality(Enough) < Depth THEN Enough ELSE req.hits
CapNote(arm) == IF Capped THEN {arm} ELSE {}

-----------------------------------------------------------------------------
\* The text arm.
TextOpens ==
    /\ req.at = "text"
    /\ \E S \in SUBSET SearchPages : req' = Opens("text-read", S)
    /\ Calm /\ Still /\ UNCHANGED missed

TextReads ==
    /\ req.at = "text-read" /\ (late => req.kind = "plain")
    /\ LET rows == First(req.limit, {p \in req.hits : Joined(p)}, TextRank)
       IN  Fetched("text-judge", rows, Cardinality(rows))
    /\ Calm /\ Still /\ UNCHANGED missed

TextJudged ==
    /\ req.at = "text-judge"
    /\ \/ Widens("text-read")
       \/ /\ Complete \/ Capped
          /\ req' = [req EXCEPT !.at = "text-nodes", !.rows = Enough,
                                !.notes = @ \cup CapNote("text")]
          /\ Loses(Settled)
    /\ Calm /\ Still

\* The nodes of the text arm are kept for the rest of the request.
TextKeeps ==
    /\ req.at = "text-nodes"
    /\ req' = Closes([req EXCEPT !.lexical = NodesOf(req.rows)], "embed", {})
    /\ Calm /\ Still /\ UNCHANGED missed

\* The index of texts failed: titles of the copy of index.json may answer.
TextFallsBack ==
    /\ req.at = "text-read" /\ req.catalog = "file"
    /\ \E S \in SUBSET req.hits :
          /\ req' = [req EXCEPT !.at = "text-nodes", !.notes = @ \cup {"text"},
                                !.rows = First(Depth, S, TextRank)]
          /\ Loses(First(Depth, S, TextRank))
    /\ Fault /\ Still

TextBreaks ==
    /\ req.at \in {"text-read", "text-judge", "text-nodes"}
    /\ req' = Closes(req, "embed", {"text"}) /\ Loses({})
    /\ Broken /\ Still

-----------------------------------------------------------------------------
\* The vector arm: no vector by policy, by failure or for want of time; or the
\* pages that are close enough, which come first in its order.
NoVector ==
    /\ req.at = "embed"
    /\ \/ req' = Closes(req, "chunk", {}) /\ Calm /\ ~late
       \/ req' = Closes(req, "chunk", {"vector"}) /\ Broken
    /\ Still /\ UNCHANGED missed

VectorOpens ==
    /\ req.at = "embed" /\ ~late
    /\ \E n \in 0..PageCount : req' = Opens("vector-read", First(n, SearchPages, VectorRank))
    /\ Calm /\ Still /\ UNCHANGED missed

\* Without the shadow index, or without selectors: the nearest pages.
VectorReads ==
    /\ req.at = "vector-read" /\ (late => req.kind = "plain")
    /\ LET rows == First(req.limit, req.hits, VectorRank)
       IN  Fetched("vector-judge", rows, Cardinality(rows))
    /\ Calm /\ Still /\ UNCHANGED missed

\* With it: the shortlist, judged before it is ranked, in one snapshot.
VectorReadsFiltered ==
    /\ req.at = "vector-read" /\ ~late /\ req.kind # "plain"
    /\ LET shortlist == First(req.limit, SearchPages, VectorRank)
       IN  Fetched("vector-judge", Passing(shortlist) \cap req.hits, Cardinality(shortlist))
    /\ Calm /\ Still /\ UNCHANGED missed

\* An arm without any match is taken for one that has to be built.
NoMatch == req.rows = {} /\ ~Capped /\ ~req.chunks
VectorJudged ==
    /\ req.at = "vector-judge"
    /\ \/ Widens("vector-read")
       \/ /\ Complete \/ Capped
          /\ req' = Closes([req EXCEPT !.vector = Enough], "chunk",
                           CapNote("vector") \cup IF NoMatch THEN {"vector"} ELSE {})
          /\ Loses(Settled)
    /\ Calm /\ Still

VectorBreaks ==
    /\ req.at = "vector-read"
    /\ req' = Closes(req, "chunk", {"vector"}) /\ Loses({})
    /\ Broken /\ Still

\* The nodes are read outside of what the arm catches but its own deadline.
VectorJudgeFails ==
    /\ req.at = "vector-judge" /\ req.kind # "plain" /\ req.catalog = "projection"
    /\ req' = Closes(req, "failed", {"request"}) /\ Loses({})
    /\ Broken /\ Still

-----------------------------------------------------------------------------
\* The chunk arm judges each page once, by its node and by its file.
NoChunks ==
    /\ req.at = "chunk" /\ ~req.chunks
    /\ req' = [req EXCEPT !.at = "fuse"]
    /\ Calm /\ Still /\ UNCHANGED missed

ChunksOpen ==
    /\ req.at = "chunk" /\ req.chunks
    /\ \E S \in SUBSET SearchPages : req' = Opens("chunk-read", S)
    /\ Calm /\ Still /\ UNCHANGED missed

ChunksRead ==
    /\ req.at = "chunk-read" /\ ~late
    /\ LET rows == First(req.limit, req.hits, TextRank)
       IN  Fetched("chunk-judge", rows, Cardinality(rows))
    /\ Calm /\ Still /\ UNCHANGED missed

Unseen   == req.rows \ req.checked
Fitting  == {p \in Unseen : Passes(Node(p))}
Accepted == req.chunk \cup (Fitting \ edited)
ChunksJudged ==
    /\ req.at = "chunk-judge"
    /\ LET r == [req EXCEPT !.chunk = Accepted, !.checked = @ \cup Unseen,
                            !.notes = @ \cup IF Fitting \cap edited = {} THEN {} ELSE {"chunk"}]
           done == Cardinality(Accepted) >= Depth \/ req.raw < req.limit
       IN  \/ /\ ~done /\ req.limit < Cap
              /\ req' = [r EXCEPT !.at = "chunk-read", !.limit = Fewer(2 * @, Cap)]
              /\ UNCHANGED missed
           \/ /\ done \/ req.limit >= Cap
              /\ req' = Closes([r EXCEPT !.chunk = First(Depth, @, TextRank)],
                               "fuse", IF done THEN {} ELSE {"chunk"})
              /\ Loses(IF Cardinality(Accepted) < Depth THEN Accepted \cup req.checked ELSE req.hits)
    /\ Calm /\ Still

\* Time that runs out over a file leaves the pages judged before it.
ChunksBreak ==
    /\ req.at \in {"chunk-read", "chunk-judge"}
    /\ \E S \in SUBSET (IF late /\ req.at = "chunk-judge" THEN Accepted ELSE {}) :
          req' = Closes([req EXCEPT !.chunk = First(Depth, S, TextRank)], "fuse", {"chunk"})
    /\ Loses({})
    /\ Broken /\ Still

-----------------------------------------------------------------------------
\* Fusion: the nodes the text arm kept, and the others read now; all are judged
\* again.
Missing == (req.vector \cup req.chunk) \ Known(req.lexical)
Fuses(nodes, notes) ==
    req' = [req EXCEPT !.at = "expand", !.notes = @ \cup notes, !.vector = {},
                       !.scored = Keeping(nodes, {p \in SearchPages : Passes(nodes[p])})]

Fuse ==
    /\ req.at = "fuse"
    /\ Fuses(IF late THEN req.lexical ELSE Over(req.lexical, NodesOf(Missing)), {})
    /\ missed' = IF late THEN missed \cup (Missing \cap steady) ELSE missed
    /\ Calm /\ Still

FuseFails ==
    /\ req.at = "fuse" /\ Missing # {}
    /\ Fuses(req.lexical, {"nodes"})
    /\ missed' = missed \cup (Missing \cap steady)
    /\ Fault /\ Still

-----------------------------------------------------------------------------
\* Expansion along the graph: any pages that were not found yet, in rank order.
Joins(nodes) == Over(req.expanded, nodes)
Wanted == ExpandMax - Cardinality(Known(req.expanded))

ExpandOpens ==
    /\ req.at = "expand" /\ ~late /\ Known(req.scored) # {}
    /\ \E S \in SUBSET (SearchPages \ Known(req.scored)) :
          req' = [req EXCEPT !.at = "walk", !.ranked = S]
    /\ Calm /\ Still /\ UNCHANGED missed

\* A batch is judged by its cheap fields and read again, or, where these do not
\* suffice, read once.
WalkBatch ==
    /\ req.at = "walk" /\ req.eligible = {} /\ req.ranked # {} /\ Wanted > 0
    /\ LET batch == First(Batch, req.ranked, TextRank)
           fit   == Passing(batch)
       IN  req' = IF req.kind = "selectors"
                  THEN [req EXCEPT !.ranked = @ \ batch, !.eligible = fit]
                  ELSE [req EXCEPT !.ranked = @ \ batch,
                                   !.expanded = Joins(NodesOf(First(Wanted, fit, TextRank)))]
    /\ Calm /\ Still /\ UNCHANGED missed

Reread(S) == NodesOf(Passing(S))
WalkTake ==
    /\ req.at = "walk" /\ req.eligible # {} /\ Wanted > 0
    /\ LET batch == First(Wanted, req.eligible, TextRank)
       IN  req' = [req EXCEPT !.expanded = Joins(Reread(batch)), !.eligible = @ \ batch]
    /\ Calm /\ Still /\ UNCHANGED missed

Pools(r, notes) == req' = [r EXCEPT !.at = "pool", !.ranked = {}, !.eligible = {},
                                    !.notes = @ \cup notes]
ExpandEnds ==
    /\ \/ req.at = "expand" /\ (late \/ Known(req.scored) = {})
       \/ req.at = "walk" /\ (Wanted <= 0 \/ req.ranked \cup req.eligible = {})
    /\ Pools(req, {})
    /\ Calm /\ Still /\ UNCHANGED missed

ExpandBreaks ==
    /\ req.at = "walk"
    /\ Pools([req EXCEPT !.expanded = Nothing], {"graph"})
    /\ Broken /\ Still /\ UNCHANGED missed

-----------------------------------------------------------------------------
\* The pool: pages in score order, with one cap on sources for all of it, so
\* that the sources behind the last one it has room for are passed over.  The
\* capacity is looked at after a page is taken: one is taken anyhow.
Found   == Over(req.scored, req.expanded)
Sources(S) == {p \in S : Found[p] = "source"}
Admitted(pool, S, rank) ==
    (S \ Sources(S)) \cup First(SourceCap - Cardinality(Sources(pool)), Sources(S), rank)
Filled(pool, S, capacity, rank) ==
    pool \cup First(IF capacity > 0 THEN capacity ELSE 1, Admitted(pool, S, rank), rank)

PoolOf(rank) ==
    IF req.quota = 0 THEN Filled({}, Known(Found), PoolSize, rank)
    ELSE LET quota   == Fewer(req.quota, PoolSize)
             primary == Filled({}, Known(req.scored), PoolSize - quota, rank)
             both    == Filled(primary, Known(req.expanded), quota, rank)
         IN  IF Cardinality(both) < PoolSize
             THEN Filled(both, Known(Found) \ both, PoolSize - Cardinality(both), rank)
             ELSE both

Pool ==
    /\ req.at = "pool"
    /\ \E rank \in Ranks : req' = [req EXCEPT !.at = "rank", !.pool = PoolOf(rank)]
    /\ Calm /\ Still /\ UNCHANGED missed

\* Reranking puts the pool in any order; the answer is its first pages.
Reranked == {S \in SUBSET req.pool : Cardinality(S) = Fewer(TopK, Cardinality(req.pool))}
Ranked ==
    /\ req.at = "rank"
    /\ \E answer \in Reranked :
          req' = [req EXCEPT !.at = "show", !.answer = answer,
                             !.notes = IF late THEN @ \cup {"late"} ELSE @,
                             !.lexical = Nothing, !.scored = Nothing, !.expanded = Nothing,
                             !.pool = {}]
    /\ Calm /\ Still /\ UNCHANGED missed

\* Evidence: the file as it is, unless a chunk was recalled from another one.
Evident(p) == ~late /\ ~(p \in req.chunk /\ p \in edited)
Full == Cardinality(req.shown) = Fewer(Cardinality(req.answer), req.room)
ShowNext ==
    /\ req.at = "show" /\ ~Full
    /\ \E p \in req.answer \ req.shown :
          LET show(notes) == req' = [req EXCEPT !.shown = @ \cup {p}, !.notes = @ \cup notes]
          IN  \/ show(IF Evident(p) THEN {} ELSE {"evidence"}) /\ Calm
              \/ show({"evidence"}) /\ Fault
    /\ Still /\ UNCHANGED missed

Record ==
    /\ req.at = "show" /\ Full
    /\ LET notes == IF req.shown # req.answer THEN req.notes \cup {"room"} ELSE req.notes
       IN  req' = [req EXCEPT !.at = "done", !.notes = notes,
                     !.status = IF notes = {} THEN "complete"
                                ELSE IF req.answer = {} THEN "failed" ELSE "partial"]
    /\ Calm /\ Still /\ UNCHANGED missed

-----------------------------------------------------------------------------
\* Publication changes nodes and files, one after the other; time passes.  (No
\* node is read once the pool is made.)
Pending == req.at \notin {"done", "failed"}
NodeChanges ==
    /\ req.at \notin {"rank", "show", "done", "failed"} /\ req.catalog = "projection"
    /\ changes < MaxChanges
    /\ \E p \in SearchPages, v \in NodeValues :
          /\ v # meta[p] /\ meta' = [meta EXCEPT ![p] = v]
          /\ steady' = steady \ {p}
    /\ changes' = changes + 1
    /\ UNCHANGED <<edited, req, late, faults, missed>>

FileChanges ==
    /\ Pending /\ changes < MaxChanges /\ req.chunks
    /\ \E p \in SearchPages \ edited : edited' = edited \cup {p}
    /\ changes' = changes + 1
    /\ UNCHANGED <<meta, req, late, faults, steady, missed>>

Expire ==
    /\ Pending /\ ~late /\ late' = TRUE
    /\ UNCHANGED <<meta, edited, req, changes, faults, steady, missed>>

TextStep   == TextOpens \/ TextReads \/ TextJudged \/ TextKeeps \/ TextFallsBack \/ TextBreaks
VectorStep == \/ NoVector \/ VectorOpens \/ VectorReads \/ VectorReadsFiltered
              \/ VectorJudged \/ VectorBreaks \/ VectorJudgeFails
ChunkStep  == NoChunks \/ ChunksOpen \/ ChunksRead \/ ChunksJudged \/ ChunksBreak
GraphStep  == Fuse \/ FuseFails \/ ExpandOpens \/ WalkBatch \/ WalkTake \/ ExpandEnds \/ ExpandBreaks
LastStep   == Pool \/ Ranked \/ ShowNext \/ Record

SearchNext == \/ TextStep \/ VectorStep \/ ChunkStep \/ GraphStep \/ LastStep
              \/ NodeChanges \/ FileChanges \/ Expire
SearchSpec == SearchInit /\ [][SearchNext]_searchVars

-----------------------------------------------------------------------------
\* Every page of the pool passed the selectors in the very node it is returned
\* with, although the arms judged it by earlier reads.
ReturnedAsJudged == \A p \in req.pool : Passes(Found[p])

\* A complete answer hides nothing: a page an arm matched, which passed the
\* selectors all the time, was passed on unless the arm was full.  A heavy
\* filter is not mistaken for the end of the source.
CompleteMissesNothing == req.status = "complete" => missed = {}

\* The pool has one cap on sources for all its parts, and space is left only
\* when nothing but sources is left.  It holds one page too many when the
\* whole of it is reserved for the expansion.
PoolIsFair ==
    req.at = "rank" =>
        /\ Cardinality(Sources(req.pool)) <= SourceCap
        /\ Cardinality(req.pool) <= PoolSize + (IF req.quota >= PoolSize THEN 1 ELSE 0)
        /\ Cardinality(req.pool) < PoolSize =>
               \A p \in Known(Found) \ req.pool :
                  Found[p] = "source" /\ Cardinality(Sources(req.pool)) = SourceCap

\* What the text arm found survives the deadline and the failures of the later
\* arms, unless it is a source and the pool admits none.
TextSurvives ==
    req.at = "rank" =>
        ((\E p \in SearchPages : /\ Passes(req.lexical[p])
                                 /\ req.lexical[p] = "source" => SourceCap > 0)
            => req.pool # {})

\* The invariants of a request.
RequestsAreSound == ReturnedAsJudged /\ CompleteMissesNothing /\ PoolIsFair /\ TextSurvives
=============================================================================
