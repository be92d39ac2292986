------------------------ MODULE SearchRequest_proofs ------------------------
(***************************************************************************)
(* Proofs about SearchRequest, for every number of pages and all limits.   *)
(*                                                                         *)
(* An arm that has read fewer rows than it asked for has all its matches   *)
(* that pass and whose node never changed; from the moment it loses one    *)
(* there is a note, or the deadline has passed and the last step will      *)
(* leave one.  What was fused or joined passes in the very node that is    *)
(* kept, and the pool is counted part by part.                             *)
(***************************************************************************)
EXTENDS SearchRequest, FiniteSetTheorems, WellFoundedInduction,
        NaturalsInduction, TLAPS

Judging  == {"text-judge", "vector-judge", "chunk-judge"}
Reading  == {"text-read", "vector-read", "chunk-read"}
Expanded == {"expand", "walk", "pool", "rank"}
Phases   == Judging \cup Reading \cup Expanded
            \cup {"text", "text-nodes", "embed", "chunk", "fuse", "show", "done", "failed"}
Remarks  == {"text", "vector", "chunk", "request", "nodes", "graph", "late", "evidence", "room"}
Nodes    == [SearchPages -> NodeValues]

Requests ==
    [at : Phases, kind : {"plain", "selectors", "expr"}, catalog : Catalogs, chunks : BOOLEAN,
     quota : Nat, room : Nat, hits : SUBSET SearchPages, limit : Nat, rows : SUBSET SearchPages,
     raw : Nat, checked : SUBSET SearchPages, lexical : Nodes, vector : SUBSET SearchPages,
     chunk : SUBSET SearchPages, scored : Nodes, ranked : SUBSET SearchPages,
     eligible : SUBSET SearchPages, expanded : Nodes, pool : SUBSET SearchPages,
     answer : SUBSET SearchPages, shown : SUBSET SearchPages, notes : SUBSET Remarks,
     status : {"open", "complete", "partial", "failed"}]

RequestTypes ==
    /\ meta \in Nodes /\ edited \subseteq SearchPages /\ req \in Requests
    /\ late \in BOOLEAN /\ changes \in Nat /\ faults \in Nat
    /\ steady \subseteq SearchPages /\ missed \subseteq SearchPages

\* A short read has all the matches that pass and passed all the time.
RowsHaveAll ==
    req.at \in Judging /\ req.raw < req.limit =>
        \A p \in req.hits \cap steady : Passes(Node(p)) => p \in req.rows

\* Without selectors an arm reads once, and counts what it reads.
PlainReadsOnce ==
    req.kind = "plain" =>
        /\ req.at \in Judging \cup Reading => req.limit = Depth
        /\ req.at \in Judging => req.raw = Cardinality(req.rows)
        /\ ~req.chunks /\ req.at \notin {"chunk-read", "chunk-judge"}

\* What was lost is noted, or will be.
MissedIsNoted ==
    missed # {} => req.notes # {} \/ (late /\ req.at \in Expanded)

StatusIsDue ==
    req.status = "complete" => req.at = "done" /\ missed = {}

\* What the request keeps passes as it is kept.
KeptAsJudged ==
    \A p \in SearchPages : /\ p \in Known(req.scored) => Passes(req.scored[p])
                           /\ p \in Known(req.expanded) => Passes(req.expanded[p])

\* What the text arm found is among the fused pages.
TextIsFused ==
    req.at \in Expanded =>
        \A p \in SearchPages : Passes(req.lexical[p]) => req.scored[p] = req.lexical[p]

PoolIsRanked ==
    /\ req.at # "rank" => req.pool = {}
    /\ req.pool \subseteq Known(Found)
    /\ PoolIsFair

RequestFacts == /\ RequestTypes /\ RowsHaveAll /\ PlainReadsOnce /\ MissedIsNoted
                /\ StatusIsDue /\ KeptAsJudged /\ TextIsFused /\ PoolIsRanked

-----------------------------------------------------------------------------
(* The first pages of a set.                                               *)

\* A non-empty set of numbers has a least one.
LEMMA LeastExists ==
    ASSUME NEW S \in SUBSET Nat, S # {}
    PROVE  \E m \in S : \A x \in S : m <= x
<1> DEFINE R == {ss \in Nat \X Nat : ss[1] < ss[2]}
<1>1. IsWellFoundedOn(R, Nat)
  BY NatLessThanWellFounded, Zenon DEF OpToRel
<1>2. \A x, m \in Nat : x < m => <<x, m>> \in R
  OBVIOUS
<1> HIDE DEF R
<1>3. PICK m \in S : \A x \in S : ~ (<<x, m>> \in R)
  BY <1>1, WFMin, Zenon
<1>4. ASSUME NEW x \in S
      PROVE  m <= x
  <2>1. x \in Nat /\ m \in Nat /\ ~(x < m)
    BY <1>2, <1>3
  <2> QED BY <2>1
<1> QED BY <1>4

\* Pages are numbers, and there are finitely many.
LEMMA PagesAre ==
    /\ IsFiniteSet(SearchPages) /\ SearchPages \subseteq Nat
    /\ \A S \in SUBSET SearchPages : IsFiniteSet(S) /\ Cardinality(S) \in Nat
<1>1. IsFiniteSet(SearchPages) /\ SearchPages \subseteq Nat
  BY SearchAssumption, FS_Interval DEF SearchPages
<1> QED BY <1>1, FS_Subset, FS_CardinalityType

\* Fewer pages in a part.
LEMMA PartIsFewer ==
    ASSUME NEW S \in SUBSET SearchPages, NEW T \in SUBSET S
    PROVE  Cardinality(T) <= Cardinality(S)
  BY PagesAre, FS_Subset

\* Two parts together.
LEMMA TogetherAre ==
    ASSUME NEW S \in SUBSET SearchPages, NEW T \in SUBSET SearchPages
    PROVE  /\ Cardinality(S \cup T) <= Cardinality(S) + Cardinality(T)
           /\ S \cap T = {} => Cardinality(S \cup T) = Cardinality(S) + Cardinality(T)
<1>1. /\ Cardinality(S \cup T) = Cardinality(S) + Cardinality(T) - Cardinality(S \cap T)
      /\ Cardinality(S) \in Nat /\ Cardinality(T) \in Nat /\ Cardinality(S \cap T) \in Nat
  <2>1. S \cap T \in SUBSET SearchPages
    OBVIOUS
  <2> QED BY <2>1, PagesAre, FS_Union
<1>2. S \cap T = {} => Cardinality(S \cap T) = 0
  BY FS_EmptySet
<1> QED BY <1>1, <1>2

\* The orders of the arms are ranks.
LEMMA RanksAre == TextRank \in Ranks /\ VectorRank \in Ranks
  BY SearchAssumption DEF TextRank, VectorRank, Ranks, SearchPages

\* A set of pages has one that comes first.
LEMMA FirstExists ==
    ASSUME NEW T \in SUBSET SearchPages, T # {}, NEW rank \in Ranks
    PROVE  \E p \in T : \A q \in T : rank[p] <= rank[q]
<1> DEFINE R == {rank[p] : p \in T}
<1>0. \A p \in T : rank[p] \in Nat
  BY PagesAre DEF Ranks
<1>1. R \in SUBSET Nat /\ R # {}
  BY <1>0
<1> HIDE DEF R
<1>2. PICK m \in R : \A x \in R : m <= x
  BY <1>1, LeastExists
<1> USE DEF R
<1> QED BY <1>2

\* And one that comes last.
LEMMA LastExists ==
    ASSUME NEW T \in SUBSET SearchPages, T # {}, NEW rank \in Ranks
    PROVE  \E p \in T : \A q \in T : rank[q] <= rank[p]
<1> DEFINE R == {PageCount - rank[p] : p \in T}
<1>0. \A p \in T : rank[p] \in Nat /\ rank[p] <= PageCount /\ PageCount - rank[p] \in Nat
  BY SearchAssumption DEF Ranks, SearchPages
<1>1. R \in SUBSET Nat /\ R # {}
  BY <1>0
<1> HIDE DEF R
<1>2. PICK m \in R : \A x \in R : m <= x
  BY <1>1, LeastExists
<1> USE DEF R
<1>3. PICK p \in T : m = PageCount - rank[p]
  OBVIOUS
<1>4. \A q \in T : PageCount - rank[p] <= PageCount - rank[q]
  BY <1>2, <1>3
<1> QED BY <1>0, <1>4, SearchAssumption

\* When there are fewer than n, they are all.
LEMMA FirstIsAll ==
    ASSUME NEW S \in SUBSET SearchPages, NEW n \in Int, NEW rank \in Ranks,
           Cardinality(First(n, S, rank)) < n
    PROVE  First(n, S, rank) = S
<1> DEFINE F == First(n, S, rank)
           Ahead(p) == {q \in S : rank[q] < rank[p]}
<1>1. F \in SUBSET S /\ \A p \in S \ F : ~(Cardinality(Ahead(p)) < n)
  BY DEF First
<1> SUFFICES ASSUME S \ F # {}
             PROVE  FALSE
  BY <1>1
<1>2. PICK p \in S \ F : \A q \in S \ F : rank[p] <= rank[q]
  BY FirstExists
<1>3. Ahead(p) \in SUBSET F
  <2> SUFFICES ASSUME NEW q \in S, rank[q] < rank[p], q \notin F
               PROVE  FALSE
    OBVIOUS
  <2>1. rank[p] <= rank[q] /\ rank[p] \in Nat /\ rank[q] \in Nat
    BY <1>2, PagesAre DEF Ranks
  <2> QED BY <2>1
<1> HIDE DEF Ahead, F
<1>4. Cardinality(Ahead(p)) <= Cardinality(F) /\ Cardinality(Ahead(p)) \in Nat /\ Cardinality(F) \in Nat
  BY <1>1, <1>3, PartIsFewer, PagesAre
<1>5. Cardinality(F) < n
  BY DEF F
<1> QED BY <1>1, <1>2, <1>4, <1>5

\* There are never more than n.
LEMMA FirstAreFew ==
    ASSUME NEW S \in SUBSET SearchPages, NEW n \in Nat, NEW rank \in Ranks
    PROVE  /\ First(n, S, rank) \in SUBSET S
           /\ Cardinality(First(n, S, rank)) <= n
<1> DEFINE F == First(n, S, rank)
           Ahead(p) == {q \in S : rank[q] < rank[p]}
<1>1. F \in SUBSET S /\ \A p \in F : Cardinality(Ahead(p)) < n
  BY DEF First
<1>2. CASE F = {}
  BY <1>1, <1>2, FS_EmptySet
<1>3. CASE F # {}
  <2>1. PICK p \in F : \A q \in F : rank[q] <= rank[p]
    BY <1>1, <1>3, LastExists
  <2>2. F \in SUBSET (Ahead(p) \cup {p})
    <3> SUFFICES ASSUME NEW q \in F, q # p
                 PROVE  rank[q] < rank[p]
      BY <1>1
    <3>1. rank[q] <= rank[p] /\ rank[q] # rank[p] /\ rank[p] \in Nat /\ rank[q] \in Nat
      BY <1>1, <2>1, PagesAre DEF Ranks
    <3> QED BY <3>1
  <2>3. Ahead(p) \in SUBSET SearchPages /\ p \notin Ahead(p) /\ p \in SearchPages
    <3>1. p \in SearchPages /\ rank[p] \in Nat
      BY <1>1, PagesAre DEF Ranks
    <3> QED BY <3>1
  <2> HIDE DEF F, Ahead
  <2>4. /\ Cardinality(Ahead(p) \cup {p}) = Cardinality(Ahead(p)) + 1
        /\ Cardinality(Ahead(p)) < n /\ Cardinality(Ahead(p)) \in Nat
    BY <1>1, <2>3, PagesAre, FS_AddElement
  <2>5. Ahead(p) \cup {p} \in SUBSET SearchPages
    BY <2>3
  <2>6. Cardinality(F) <= Cardinality(Ahead(p) \cup {p}) /\ Cardinality(F) \in Nat
    BY <1>1, <2>2, <2>5, PartIsFewer, PagesAre
  <2>7. Cardinality(F) <= n
    BY <2>4, <2>6
  <2> QED BY <1>1, <2>7 DEF F
<1> QED BY <1>2, <1>3

-----------------------------------------------------------------------------
(* Steps of the arms.                                                      *)

\* The record of a request keeps what an arm does not touch.
SameKept(r) ==
    /\ r \in Requests
    /\ r.kind = req.kind /\ r.catalog = req.catalog /\ r.chunks = req.chunks
    /\ r.quota = req.quota /\ r.status = req.status
    /\ r.scored = req.scored /\ r.expanded = req.expanded /\ r.pool = req.pool
    /\ req.notes \subseteq r.notes

\* What an arm keeps, when it opens, closes or has read.
LEMMA OpensKeeps ==
    ASSUME RequestTypes, NEW at \in Phases, NEW S \in SUBSET SearchPages
    PROVE  LET r == Opens(at, S)
           IN  /\ SameKept(r) /\ r.at = at /\ r.hits = S
               /\ req.kind = "plain" => r.limit = Depth
  BY SearchAssumption DEF RequestTypes, SameKept, Requests, Opens, Fewer

\* The same of an arm that closes.
LEMMA ClosesKeeps ==
    ASSUME RequestTypes, NEW s, SameKept(s), NEW at \in Phases, NEW notes \in SUBSET Remarks
    PROVE  LET r == Closes(s, at, notes)
           IN  SameKept(r) /\ r.at = at /\ s.notes \subseteq r.notes /\ notes \subseteq r.notes
  BY DEF RequestTypes, SameKept, Requests, Closes

\* The same of an arm that has read.
LEMMA FetchedKeeps ==
    ASSUME RequestTypes, NEW at \in Phases, NEW rows \in SUBSET SearchPages, NEW raw \in Nat,
           Fetched(at, rows, raw)
    PROVE  /\ SameKept(req') /\ req'.at = at /\ req'.rows = rows /\ req'.raw = raw
           /\ req'.hits = req.hits /\ req'.limit = req.limit
  BY DEF RequestTypes, SameKept, Requests, Fetched

\* And of one that asks for more.
LEMMA WidensKeeps ==
    ASSUME RequestTypes, NEW at \in Phases, Widens(at)
    PROVE  SameKept(req') /\ req'.at = at /\ req.kind # "plain"
<1>1. req.limit \in Nat /\ req \in Requests
  BY DEF RequestTypes, Requests
<1>2. Fewer(2 * req.limit, Cap) \in Nat
  BY <1>1, SearchAssumption DEF Fewer
<1>3. req' = [req EXCEPT !.at = at, !.limit = Fewer(2 * req.limit, Cap), !.rows = {}, !.raw = 0]
  BY DEF Widens
<1>4. SameKept(req') /\ req'.at = at
  BY <1>1, <1>2, <1>3 DEF SameKept, Requests
<1> QED BY <1>4 DEF Widens, Complete

\* What a step of an arm has to show: that its reads are complete, and that
\* what it loses is noted.
LEMMA ArmStep ==
    ASSUME RequestFacts, req.at \notin Expanded \cup {"done"}, req'.at \notin Expanded,
           SameKept(req'), RowsHaveAll', PlainReadsOnce', Still, faults' \in Nat,
           \/ UNCHANGED missed
           \/ \E S \in SUBSET SearchPages : Loses(S) /\ (Lost(S) = {} \/ req'.notes # {})
    PROVE  RequestFacts'
<1>1. missed' # {} => req'.notes # {}
  BY DEF RequestFacts, MissedIsNoted, SameKept, Loses
<1>2. missed' \subseteq SearchPages
  BY DEF RequestFacts, RequestTypes, Loses, Lost
<1>3. RequestTypes'
  BY <1>2 DEF RequestFacts, RequestTypes, Still, SameKept
<1>4. StatusIsDue' /\ MissedIsNoted'
  BY <1>1 DEF RequestFacts, StatusIsDue, MissedIsNoted, SameKept
<1>5. KeptAsJudged'
  BY DEF RequestFacts, KeptAsJudged, SameKept, Known, Passes
<1>6. TextIsFused'
  BY DEF TextIsFused
<1>7. PoolIsRanked'
  <2>1. req.pool = {} /\ req.at # "rank" /\ req'.at # "rank"
    BY DEF RequestFacts, PoolIsRanked, Expanded
  <2> QED BY <2>1 DEF PoolIsRanked, PoolIsFair, SameKept
<1> QED BY <1>3, <1>4, <1>5, <1>6, <1>7 DEF RequestFacts

\* Where no arm is judged nothing is asked of rows.
LEMMA NoRows ==
    ASSUME RequestFacts, SameKept(req'), req'.at \notin Judging \cup Reading
    PROVE  RowsHaveAll' /\ PlainReadsOnce'
  BY DEF RequestFacts, RowsHaveAll, PlainReadsOnce, SameKept, Judging, Reading

\* An arm that closes.
LEMMA ArmCloses ==
    ASSUME RequestFacts, req.at \notin Expanded \cup {"done"},
           NEW at \in Phases \ (Expanded \cup Judging \cup Reading), NEW s, SameKept(s),
           NEW notes \in SUBSET Remarks, req' = Closes(s, at, notes),
           Still, faults' \in Nat,
           \/ UNCHANGED missed
           \/ \E S \in SUBSET SearchPages :
                 Loses(S) /\ (Lost(S) = {} \/ s.notes # {} \/ notes # {})
    PROVE  RequestFacts'
<1>1. SameKept(req') /\ req'.at = at /\ s.notes \subseteq req'.notes /\ notes \subseteq req'.notes
  BY ClosesKeeps DEF RequestFacts
<1>2. RowsHaveAll' /\ PlainReadsOnce'
  BY <1>1, NoRows
<1>3. \/ UNCHANGED missed
      \/ \E S \in SUBSET SearchPages : Loses(S) /\ (Lost(S) = {} \/ req'.notes # {})
  BY <1>1
<1> QED BY <1>1, <1>2, <1>3, ArmStep

\* Counting faults.
LEMMA FaultsCount ==
    ASSUME RequestTypes, Calm \/ Fault \/ Broken
    PROVE  faults' \in Nat
  BY DEF RequestTypes, Calm, Fault, Broken

\* A request, left as it is, keeps itself.
LEMMA KeepsItself == ASSUME RequestTypes PROVE SameKept(req)
  BY DEF RequestTypes, SameKept

\* An arm opens.
LEMMA ArmOpens ==
    ASSUME RequestFacts, req.at \notin Expanded \cup {"done"},
           NEW at \in Reading, NEW S \in SUBSET SearchPages, req' = Opens(at, S),
           req.kind = "plain" => at # "chunk-read",
           Still, Calm, UNCHANGED missed
    PROVE  RequestFacts'
<1>1. SameKept(req') /\ req'.at = at /\ (req.kind = "plain" => req'.limit = Depth)
  BY OpensKeeps DEF RequestFacts, Phases
<1>2. RowsHaveAll'
  BY <1>1 DEF RowsHaveAll, Judging, Reading
<1>3. PlainReadsOnce'
  BY <1>1 DEF RequestFacts, PlainReadsOnce, Judging, Reading, SameKept
<1>4. req'.at \notin Expanded /\ faults' \in Nat
  BY <1>1, FaultsCount DEF Expanded, Reading, RequestFacts
<1> QED BY <1>1, <1>2, <1>3, <1>4, ArmStep

\* An arm asks for more.
LEMMA ArmWidens ==
    ASSUME RequestFacts, req.at \notin Expanded \cup {"done"},
           NEW at \in Reading, Widens(at), Still, Calm
    PROVE  RequestFacts'
<1>1. SameKept(req') /\ req'.at = at /\ req.kind # "plain"
  BY WidensKeeps DEF RequestFacts, Phases
<1>2. RowsHaveAll' /\ PlainReadsOnce'
  BY <1>1 DEF RowsHaveAll, PlainReadsOnce, Judging, Reading, SameKept
<1>3. req'.at \notin Expanded /\ faults' \in Nat
  BY <1>1, FaultsCount DEF Expanded, Reading, RequestFacts
<1> QED BY <1>1, <1>2, <1>3, ArmStep DEF Widens

\* An arm has read: when it has fewer rows than it asked for, all its matches
\* that pass are among them.
LEMMA ArmReads ==
    ASSUME RequestFacts, req.at \in Reading, NEW at \in Judging,
           NEW rows \in SUBSET SearchPages, NEW raw \in Nat, Fetched(at, rows, raw),
           raw < req.limit => \A p \in req.hits \cap steady : Passes(Node(p)) => p \in rows,
           req.kind = "plain" => raw = Cardinality(rows) /\ at # "chunk-judge",
           Still, Calm, UNCHANGED missed
    PROVE  RequestFacts'
<1>1. /\ SameKept(req') /\ req'.at = at /\ req'.rows = rows /\ req'.raw = raw
      /\ req'.hits = req.hits /\ req'.limit = req.limit
  BY FetchedKeeps DEF RequestFacts, Phases
<1>2. RowsHaveAll'
  BY <1>1 DEF RowsHaveAll, SameKept, Passes, Node, Still
<1>3. PlainReadsOnce'
  BY <1>1 DEF RequestFacts, PlainReadsOnce, SameKept, Judging, Reading
<1>4. req.at \notin Expanded \cup {"done"} /\ req'.at \notin Expanded /\ faults' \in Nat
  BY <1>1, FaultsCount DEF Expanded, Judging, Reading, RequestFacts
<1> QED BY <1>1, <1>2, <1>3, <1>4, ArmStep

-----------------------------------------------------------------------------
(* The text arm and the vector arm.                                        *)

\* What is judged are pages.
LEMMA JudgedArePages ==
    ASSUME RequestTypes
    PROVE  /\ Selected \in SUBSET req.rows /\ req.rows \in SUBSET SearchPages
           /\ req.hits \in SUBSET SearchPages
           /\ Enough \in SUBSET Selected /\ Settled \in SUBSET SearchPages
<1>1. req.rows \in SUBSET SearchPages /\ req.hits \in SUBSET SearchPages
  BY DEF RequestTypes, Requests
<1>2. Selected \in SUBSET req.rows
  BY DEF Selected, Passing
<1>3. Enough \in SUBSET Selected
  BY DEF Enough, First
<1> QED BY <1>1, <1>2, <1>3 DEF Settled

\* An arm that is complete loses nothing.
LEMMA CompleteLosesNothing ==
    ASSUME RequestFacts, req.at \in {"text-judge", "vector-judge"}, Complete
    PROVE  Lost(Settled) = {}
<1>1. /\ Selected \in SUBSET SearchPages /\ Selected \in SUBSET req.rows
      /\ req.hits \in SUBSET SearchPages /\ req.rows \in SUBSET SearchPages
  BY JudgedArePages DEF RequestFacts
<1>2. CASE ~(Cardinality(Enough) < Depth)
  BY <1>2 DEF Settled, Lost
<1>3. CASE Cardinality(Enough) < Depth
  <2>1. Enough = Selected
    BY <1>1, <1>3, RanksAre, FirstIsAll, SearchAssumption DEF Enough
  <2>2. req.raw < req.limit
    <3>1. CASE req.kind = "plain"
      BY <1>3, <2>1, <3>1 DEF RequestFacts, PlainReadsOnce, Judging, Selected
    <3>2. CASE req.kind # "plain"
      <4>1. Cardinality(Selected) \in Nat /\ Cardinality(Selected) < Depth
        BY <1>1, <1>3, <2>1, PagesAre
      <4> QED BY <3>2, <4>1, SearchAssumption DEF Complete
    <3> QED BY <3>1, <3>2
  <2>3. \A p \in req.hits \cap steady : Passes(Node(p)) => p \in Selected
    BY <2>2 DEF RequestFacts, RowsHaveAll, Judging, Selected, Passing
  <2> QED BY <1>3, <2>1, <2>3 DEF Settled, Lost
<1> QED BY <1>2, <1>3

\* What an arm that ends loses is noted.
LEMMA EndedIsNoted ==
    ASSUME RequestFacts, req.at \in {"text-judge", "vector-judge"}, Complete \/ Capped, NEW arm
    PROVE  Lost(Settled) = {} \/ CapNote(arm) # {}
  BY CompleteLosesNothing DEF CapNote

\* The text arm.
LEMMA TextFacts ==
    ASSUME RequestFacts, TextStep
    PROVE  RequestFacts'
<1>0. RequestTypes /\ SameKept(req)
  BY KeepsItself DEF RequestFacts
<1>1. CASE TextOpens
  BY <1>1, ArmOpens DEF TextOpens, Expanded, Reading
<1>2. CASE TextReads
  <2> DEFINE joined == {p \in req.hits : Joined(p)}
             rows   == First(req.limit, joined, TextRank)
  <2>1. joined \in SUBSET SearchPages /\ req.limit \in Nat
    BY <1>0 DEF RequestTypes, Requests
  <2>2. \A p \in req.hits : Passes(Node(p)) => p \in joined
    BY DEF Joined, Passes, Node
  <2>3. Fetched("text-judge", rows, Cardinality(rows))
    BY <1>2 DEF TextReads
  <2> HIDE DEF joined
  <2>4. rows \in SUBSET SearchPages /\ Cardinality(rows) \in Nat
    BY <2>1, PagesAre DEF First
  <2>5. Cardinality(rows) < req.limit => rows = joined
    BY <2>1, RanksAre, FirstIsAll
  <2> HIDE DEF rows
  <2> QED BY <1>2, <2>2, <2>3, <2>4, <2>5, ArmReads DEF TextReads, Reading, Judging
<1>3. CASE TextJudged
  <2>1. CASE Widens("text-read")
    BY <1>3, <2>1, ArmWidens DEF TextJudged, Expanded, Reading
  <2>2. CASE ~Widens("text-read")
    <3>1. /\ req.at = "text-judge" /\ (Complete \/ Capped) /\ Loses(Settled)
          /\ req' = [req EXCEPT !.at = "text-nodes", !.rows = Enough,
                                !.notes = @ \cup CapNote("text")]
          /\ Calm /\ Still
      BY <1>3, <2>2 DEF TextJudged
    <3>2. Enough \in SUBSET SearchPages /\ Settled \in SUBSET SearchPages
      BY <1>0, JudgedArePages
    <3>3. CapNote("text") \in SUBSET Remarks
      BY DEF CapNote, Remarks
    <3>4. SameKept(req') /\ req'.at = "text-nodes" /\ CapNote("text") \subseteq req'.notes
      BY <1>0, <3>1, <3>2, <3>3 DEF SameKept, Requests, RequestTypes, Phases
    <3>5. RowsHaveAll' /\ PlainReadsOnce'
      BY <3>4, NoRows DEF Judging, Reading
    <3>6. Lost(Settled) = {} \/ req'.notes # {}
      BY <3>1, <3>4, EndedIsNoted
    <3>7. req.at \notin Expanded \cup {"done"} /\ req'.at \notin Expanded /\ faults' \in Nat
      BY <1>0, <3>1, <3>4, FaultsCount DEF Expanded
    <3> QED BY <3>1, <3>2, <3>4, <3>5, <3>6, <3>7, ArmStep
  <2> QED BY <2>1, <2>2
<1>4. CASE TextKeeps
  <2> DEFINE s == [req EXCEPT !.lexical = NodesOf(req.rows)]
  <2>1. NodesOf(req.rows) \in Nodes
    BY <1>0 DEF RequestTypes, NodesOf, Keeping, Node, Nodes, NodeValues
  <2>2. SameKept(s)
    BY <1>0, <2>1 DEF SameKept, RequestTypes, Requests
  <2>3. req' = Closes(s, "embed", {})
    BY <1>4 DEF TextKeeps
  <2> HIDE DEF s
  <2> QED BY <1>0, <1>4, <2>2, <2>3, ArmCloses, FaultsCount
          DEF TextKeeps, Expanded, Phases, Judging, Reading
<1>5. CASE TextFallsBack
  <2>1. PICK S \in SUBSET req.hits :
           /\ req' = [req EXCEPT !.at = "text-nodes", !.notes = @ \cup {"text"},
                                 !.rows = First(Depth, S, TextRank)]
           /\ Loses(First(Depth, S, TextRank))
    BY <1>5 DEF TextFallsBack
  <2>2. First(Depth, S, TextRank) \in SUBSET SearchPages
    BY <1>0 DEF First, RequestTypes, Requests
  <2>3. SameKept(req') /\ req'.at = "text-nodes" /\ "text" \in req'.notes
    BY <1>0, <2>1, <2>2 DEF SameKept, RequestTypes, Requests, Phases, Remarks
  <2>4. RowsHaveAll' /\ PlainReadsOnce'
    BY <2>3, NoRows DEF Judging, Reading
  <2>5. req.at \notin Expanded \cup {"done"} /\ req'.at \notin Expanded /\ faults' \in Nat /\ Still
    BY <1>0, <1>5, <2>3, FaultsCount DEF Expanded, TextFallsBack
  <2> QED BY <2>1, <2>2, <2>3, <2>4, <2>5, ArmStep
<1>6. CASE TextBreaks
  <2>1. {"text"} \in SUBSET Remarks /\ {} \in SUBSET SearchPages
    BY DEF Remarks
  <2> QED BY <1>0, <1>6, <2>1, ArmCloses, FaultsCount
          DEF TextBreaks, Expanded, Phases, Judging, Reading
<1> QED BY <1>1, <1>2, <1>3, <1>4, <1>5, <1>6 DEF TextStep

\* The vector arm.
LEMMA VectorFacts ==
    ASSUME RequestFacts, VectorStep
    PROVE  RequestFacts'
<1>0. RequestTypes /\ SameKept(req)
  BY KeepsItself DEF RequestFacts
<1>r. {"vector"} \in SUBSET Remarks /\ {"request"} \in SUBSET Remarks /\ {} \in SUBSET Remarks
  BY DEF Remarks
<1>1. CASE NoVector
  <2>1. \E notes \in SUBSET Remarks : req' = Closes(req, "chunk", notes)
    BY <1>1, <1>r DEF NoVector
  <2>2. faults' \in Nat
    BY <1>0, <1>1, FaultsCount DEF NoVector
  <2> QED BY <1>0, <1>1, <2>1, <2>2, ArmCloses
          DEF NoVector, Expanded, Phases, Judging, Reading
<1>2. CASE VectorOpens
  <2>1. \E S \in SUBSET SearchPages : req' = Opens("vector-read", S)
    BY <1>2 DEF VectorOpens, First
  <2> QED BY <1>2, <2>1, ArmOpens DEF VectorOpens, Expanded, Reading
<1>3. CASE VectorReads
  <2> DEFINE rows == First(req.limit, req.hits, VectorRank)
  <2>1. req.hits \in SUBSET SearchPages /\ req.limit \in Nat
    BY <1>0 DEF RequestTypes, Requests
  <2>2. Fetched("vector-judge", rows, Cardinality(rows))
    BY <1>3 DEF VectorReads
  <2>3. rows \in SUBSET SearchPages /\ Cardinality(rows) \in Nat
    BY <2>1, PagesAre DEF First
  <2>4. Cardinality(rows) < req.limit => rows = req.hits
    BY <2>1, RanksAre, FirstIsAll
  <2> HIDE DEF rows
  <2> QED BY <1>3, <2>2, <2>3, <2>4, ArmReads DEF VectorReads, Reading, Judging
<1>4. CASE VectorReadsFiltered
  <2> DEFINE shortlist == First(req.limit, SearchPages, VectorRank)
             rows      == Passing(shortlist) \cap req.hits
  <2>1. req.hits \in SUBSET SearchPages /\ req.limit \in Nat
    BY <1>0 DEF RequestTypes, Requests
  <2>2. Fetched("vector-judge", rows, Cardinality(shortlist))
    BY <1>4 DEF VectorReadsFiltered
  <2>3. shortlist \in SUBSET SearchPages /\ Cardinality(shortlist) \in Nat
    BY PagesAre DEF First
  <2>4. Cardinality(shortlist) < req.limit => shortlist = SearchPages
    BY <2>1, RanksAre, FirstIsAll
  <2> HIDE DEF shortlist
  <2>5. rows \in SUBSET SearchPages
    BY <2>1
  <2>6. Cardinality(shortlist) < req.limit => \A p \in req.hits : Passes(Node(p)) => p \in rows
    BY <2>1, <2>4 DEF Passing
  <2> HIDE DEF rows
  <2> QED BY <1>4, <2>2, <2>3, <2>5, <2>6, ArmReads DEF VectorReadsFiltered, Reading, Judging
<1>5. CASE VectorJudged
  <2>1. CASE Widens("vector-read")
    BY <1>5, <2>1, ArmWidens DEF VectorJudged, Expanded, Reading
  <2>2. CASE ~Widens("vector-read")
    <3> DEFINE s     == [req EXCEPT !.vector = Enough]
               notes == CapNote("vector") \cup IF NoMatch THEN {"vector"} ELSE {}
    <3>1. /\ req.at = "vector-judge" /\ (Complete \/ Capped) /\ Loses(Settled)
          /\ req' = Closes(s, "chunk", notes) /\ Calm /\ Still
      BY <1>5, <2>2 DEF VectorJudged
    <3>2. Enough \in SUBSET SearchPages /\ Settled \in SUBSET SearchPages
      BY <1>0, JudgedArePages
    <3>3. notes \in SUBSET Remarks
      BY DEF CapNote, Remarks
    <3>4. SameKept(s)
      BY <1>0, <3>2 DEF SameKept, Requests, RequestTypes
    <3>5. Lost(Settled) = {} \/ notes # {}
      BY <3>1, EndedIsNoted
    <3>6. faults' \in Nat
      BY <1>0, <3>1, FaultsCount
    <3> HIDE DEF s, notes
    <3> QED BY <3>1, <3>2, <3>3, <3>4, <3>5, <3>6, ArmCloses
            DEF Expanded, Phases, Judging, Reading
  <2> QED BY <2>1, <2>2
<1>6. CASE VectorBreaks
  BY <1>0, <1>r, <1>6, ArmCloses, FaultsCount
     DEF VectorBreaks, Expanded, Phases, Judging, Reading
<1>7. CASE VectorJudgeFails
  BY <1>0, <1>r, <1>7, ArmCloses, FaultsCount
     DEF VectorJudgeFails, Expanded, Phases, Judging, Reading
<1> QED BY <1>1, <1>2, <1>3, <1>4, <1>5, <1>6, <1>7 DEF VectorStep

-----------------------------------------------------------------------------
(* The chunk arm.                                                          *)

\* A chunk arm has selectors.
LEMMA ChunksAreSelected ==
    ASSUME RequestFacts, req.chunks \/ req.at \in {"chunk-read", "chunk-judge"}
    PROVE  req.kind # "plain"
  BY DEF RequestFacts, PlainReadsOnce

\* What the chunk arm loses at its end is noted.
LEMMA ChunksLose ==
    ASSUME RequestFacts, req.at = "chunk-judge", Cardinality(Accepted) < Depth,
           req.raw < req.limit
    PROVE  Lost(Accepted \cup req.checked) = {} \/ Fitting \cap edited # {}
  BY DEF RequestFacts, RowsHaveAll, Judging, Lost, Accepted, Fitting, Unseen

\* The chunk arm.
LEMMA ChunkFacts ==
    ASSUME RequestFacts, ChunkStep
    PROVE  RequestFacts'
<1>0. RequestTypes /\ SameKept(req)
  BY KeepsItself DEF RequestFacts
<1>r. {"chunk"} \in SUBSET Remarks /\ {} \in SUBSET Remarks /\ {} \in SUBSET SearchPages
  BY DEF Remarks
<1>a. Accepted \in SUBSET SearchPages /\ Unseen \in SUBSET SearchPages
      /\ req.checked \in SUBSET SearchPages /\ req.hits \in SUBSET SearchPages
      /\ req.limit \in Nat
  BY <1>0 DEF Accepted, Fitting, Unseen, RequestTypes, Requests
<1>1. CASE NoChunks
  <2>1. SameKept(req') /\ req'.at = "fuse"
    BY <1>0, <1>1 DEF NoChunks, SameKept, RequestTypes, Requests, Phases
  <2>2. RowsHaveAll' /\ PlainReadsOnce'
    BY <2>1, NoRows DEF Judging, Reading
  <2>3. req.at \notin Expanded \cup {"done"} /\ req'.at \notin Expanded /\ faults' \in Nat /\ Still
        /\ UNCHANGED missed
    BY <1>0, <1>1, <2>1, FaultsCount DEF Expanded, NoChunks
  <2> QED BY <2>1, <2>2, <2>3, ArmStep
<1>2. CASE ChunksOpen
  BY <1>2, ArmOpens, ChunksAreSelected DEF ChunksOpen, Expanded, Reading
<1>3. CASE ChunksRead
  <2> DEFINE rows == First(req.limit, req.hits, TextRank)
  <2>1. Fetched("chunk-judge", rows, Cardinality(rows))
    BY <1>3 DEF ChunksRead
  <2>2. rows \in SUBSET SearchPages /\ Cardinality(rows) \in Nat
    BY <1>a, PagesAre DEF First
  <2>3. Cardinality(rows) < req.limit => rows = req.hits
    BY <1>a, RanksAre, FirstIsAll
  <2>4. req.kind # "plain"
    BY <1>3, ChunksAreSelected DEF ChunksRead
  <2> HIDE DEF rows
  <2> QED BY <1>3, <2>1, <2>2, <2>3, <2>4, ArmReads DEF ChunksRead, Reading, Judging
<1>4. CASE ChunksJudged
  <2> DEFINE stale == IF Fitting \cap edited = {} THEN {} ELSE {"chunk"}
             r     == [req EXCEPT !.chunk = Accepted, !.checked = @ \cup Unseen,
                                  !.notes = @ \cup stale]
             done  == Cardinality(Accepted) >= Depth \/ req.raw < req.limit
             s     == [r EXCEPT !.chunk = First(Depth, @, TextRank)]
             notes == IF done THEN {} ELSE {"chunk"}
             kept  == IF Cardinality(Accepted) < Depth THEN Accepted \cup req.checked ELSE req.hits
  <2>1. stale \in SUBSET Remarks /\ notes \in SUBSET Remarks /\ kept \in SUBSET SearchPages
    BY <1>a DEF Remarks
  <2>2. /\ req.at = "chunk-judge" /\ Calm /\ Still
        /\ \/ /\ req' = [r EXCEPT !.at = "chunk-read", !.limit = Fewer(2 * @, Cap)]
              /\ UNCHANGED missed
           \/ req' = Closes(s, "fuse", notes) /\ Loses(kept)
    BY <1>4 DEF ChunksJudged
  <2>3. SameKept(r) /\ r.limit = req.limit /\ r.notes = req.notes \cup stale
    <3> HIDE DEF stale
    <3> QED BY <1>0, <1>a, <2>1 DEF SameKept, RequestTypes, Requests
  <2> HIDE DEF r
  <2>4. CASE req' = [r EXCEPT !.at = "chunk-read", !.limit = Fewer(2 * @, Cap)] /\ UNCHANGED missed
    <3>1. Fewer(2 * r.limit, Cap) \in Nat
      BY <1>a, <2>3, SearchAssumption DEF Fewer
    <3>2. SameKept(req') /\ req'.at = "chunk-read"
      <4>1. "chunk-read" \in Phases
        BY DEF Phases, Reading
      <4>2. PICK k \in Nat : req' = [r EXCEPT !.at = "chunk-read", !.limit = k]
        BY <2>4, <3>1
      <4> HIDE DEF s, notes, kept, stale, done
      <4> QED BY <2>3, <4>1, <4>2 DEF SameKept, Requests
    <3>3. req'.kind # "plain"
      BY <2>2, <3>2, ChunksAreSelected DEF SameKept
    <3>4. RowsHaveAll' /\ PlainReadsOnce'
      BY <3>2, <3>3 DEF RowsHaveAll, PlainReadsOnce, Judging
    <3>5. req.at \notin Expanded \cup {"done"} /\ req'.at \notin Expanded /\ faults' \in Nat
      BY <1>0, <2>2, <3>2, FaultsCount DEF Expanded
    <3> QED BY <2>2, <2>4, <3>2, <3>4, <3>5, ArmStep
  <2>5. CASE req' = Closes(s, "fuse", notes) /\ Loses(kept)
    <3>1. First(Depth, r.chunk, TextRank) \in SUBSET SearchPages
      BY <2>3 DEF First, SameKept, Requests
    <3>2. SameKept(s) /\ s.notes = req.notes \cup stale
      BY <2>3, <3>1 DEF SameKept, Requests
    <3> HIDE DEF s
    <3>3. Lost(kept) = {} \/ s.notes # {} \/ notes # {}
      <4>1. CASE ~(Cardinality(Accepted) < Depth)
        BY <4>1 DEF Lost
      <4>2. CASE Cardinality(Accepted) < Depth /\ req.raw < req.limit
        BY <2>2, <3>2, <4>2, ChunksLose
      <4>3. CASE Cardinality(Accepted) < Depth /\ ~(req.raw < req.limit)
        <5>1. ~done
          BY <1>a, <4>3, PagesAre, SearchAssumption
        <5> QED BY <5>1
      <4> QED BY <4>1, <4>2, <4>3
    <3>4. faults' \in Nat
      BY <1>0, <2>2, FaultsCount
    <3> HIDE DEF notes, kept
    <3> QED BY <2>1, <2>2, <2>5, <3>2, <3>3, <3>4, ArmCloses
            DEF Expanded, Phases, Judging, Reading
  <2> HIDE DEF s, notes, kept
  <2> QED BY <2>2, <2>4, <2>5
<1>5. CASE ChunksBreak
  <2>1. PICK S \in SUBSET SearchPages :
           req' = Closes([req EXCEPT !.chunk = First(Depth, S, TextRank)], "fuse", {"chunk"})
    BY <1>a, <1>5 DEF ChunksBreak
  <2> DEFINE s == [req EXCEPT !.chunk = First(Depth, S, TextRank)]
  <2>2. First(Depth, S, TextRank) \in SUBSET SearchPages
    BY DEF First
  <2>3. SameKept(s)
    BY <1>0, <2>2 DEF SameKept, RequestTypes, Requests
  <2>4. req' = Closes(s, "fuse", {"chunk"})
    BY <2>1
  <2> HIDE DEF s
  <2> QED BY <1>0, <1>r, <1>5, <2>3, <2>4, ArmCloses, FaultsCount
          DEF ChunksBreak, Expanded, Phases, Judging, Reading
<1> QED BY <1>1, <1>2, <1>3, <1>4, <1>5 DEF ChunkStep

-----------------------------------------------------------------------------
(* Fusion and expansion.                                                   *)

\* What no step after the arms changes of a request.
SameRequest(r) ==
    /\ r \in Requests
    /\ r.kind = req.kind /\ r.chunks = req.chunks /\ r.quota = req.quota
    /\ r.status = req.status
    /\ req.notes \subseteq r.notes

\* What a step behind the arms has to show.
LEMMA LaterStep ==
    ASSUME RequestFacts, req.at # "done", SameRequest(req'),
           req'.at \notin Judging \cup Reading,
           Still, faults' \in Nat, missed' \in SUBSET SearchPages,
           MissedIsNoted', KeptAsJudged', TextIsFused', PoolIsRanked'
    PROVE  RequestFacts'
<1>1. RequestTypes'
  BY DEF RequestFacts, RequestTypes, Still, SameRequest
<1>2. RowsHaveAll' /\ PlainReadsOnce'
  BY DEF RequestFacts, RowsHaveAll, PlainReadsOnce, SameRequest, Judging, Reading
<1>3. StatusIsDue'
  BY DEF RequestFacts, StatusIsDue, SameRequest
<1> QED BY <1>1, <1>2, <1>3 DEF RequestFacts

\* Nodes that are read, kept or put over others are nodes.
LEMMA NodesAre ==
    ASSUME RequestTypes, NEW S, NEW old \in Nodes, NEW new \in Nodes
    PROVE  /\ NodesOf(S) \in Nodes /\ Keeping(new, S) \in Nodes /\ Over(new, old) \in Nodes
           /\ \A p \in SearchPages :
                 /\ NodesOf(S)[p] = IF p \in S THEN Node(p) ELSE "absent"
                 /\ Keeping(new, S)[p] = IF p \in S THEN new[p] ELSE "absent"
                 /\ Over(new, old)[p] = IF new[p] # "absent" THEN new[p] ELSE old[p]
  BY DEF RequestTypes, NodesOf, Keeping, Over, Node, Nodes, NodeValues

\* Fusion keeps what passes, and all of the text arm that does.
LEMMA FusesFacts ==
    ASSUME RequestFacts, req.at = "fuse", NEW nodes \in Nodes,
           NEW notes \in SUBSET Remarks, Fuses(nodes, notes),
           \A p \in SearchPages : req.lexical[p] # "absent" => nodes[p] = req.lexical[p],
           Still, faults' \in Nat,
           \/ UNCHANGED missed
           \/ missed' = missed \cup (Missing \cap steady) /\ (late \/ notes # {})
    PROVE  RequestFacts'
<1>0. RequestTypes /\ req.lexical \in Nodes /\ req.vector \in SUBSET SearchPages
      /\ req.chunk \in SUBSET SearchPages
  BY DEF RequestFacts, RequestTypes, Requests
<1> DEFINE good   == {p \in SearchPages : Passes(nodes[p])}
           scored == Keeping(nodes, good)
<1>1. /\ scored \in Nodes
      /\ \A p \in SearchPages : scored[p] = IF p \in good THEN nodes[p] ELSE "absent"
  <2> HIDE DEF good
  <2> QED BY DEF Keeping, Nodes, NodeValues
<1>2. req' = [req EXCEPT !.at = "expand", !.notes = @ \cup notes, !.vector = {},
                         !.scored = scored]
  BY DEF Fuses
<1> HIDE DEF scored
<1>3. /\ SameRequest(req') /\ req'.at = "expand" /\ req'.lexical = req.lexical
      /\ req'.scored = scored /\ req'.expanded = req.expanded /\ req'.pool = req.pool
      /\ notes \subseteq req'.notes
  BY <1>0, <1>1, <1>2 DEF SameRequest, RequestTypes, Requests, Phases, Expanded
<1>4. KeptAsJudged'
  BY <1>1, <1>3 DEF RequestFacts, KeptAsJudged, SameRequest, Known, Passes
<1>5. TextIsFused'
  BY <1>1, <1>3 DEF TextIsFused, SameRequest, Passes
<1>6. PoolIsRanked'
  <2>1. req.pool = {}
    BY DEF RequestFacts, PoolIsRanked
  <2> QED BY <1>3, <2>1 DEF PoolIsRanked, PoolIsFair
<1>7. missed' \in SUBSET SearchPages
  BY <1>0 DEF Missing, RequestTypes
<1>8. MissedIsNoted'
  <2>1. missed # {} => req.notes # {}
    BY DEF RequestFacts, MissedIsNoted, Expanded
  <2> QED BY <1>3, <2>1 DEF MissedIsNoted, Expanded, SameRequest, Still
<1> QED BY <1>3, <1>4, <1>5, <1>6, <1>7, <1>8, LaterStep DEF Judging, Reading

\* A step of the expansion, which joins only what passes.
LEMMA ExpansionFacts ==
    ASSUME RequestFacts, req.at \in {"expand", "walk"}, req'.at \in {"walk", "pool"},
           SameRequest(req'), req'.lexical = req.lexical, req'.scored = req.scored,
           req'.pool = req.pool,
           \A p \in SearchPages : p \in Known(req'.expanded) => Passes(req'.expanded[p]),
           Still, faults' \in Nat, UNCHANGED missed
    PROVE  RequestFacts'
<1>1. KeptAsJudged'
  BY DEF RequestFacts, KeptAsJudged, SameRequest, Known, Passes
<1>2. TextIsFused'
  BY DEF RequestFacts, TextIsFused, SameRequest, Passes, Expanded
<1>3. PoolIsRanked'
  <2>1. req.pool = {}
    BY DEF RequestFacts, PoolIsRanked
  <2> QED BY <2>1 DEF PoolIsRanked, PoolIsFair
<1>4. MissedIsNoted'
  BY DEF RequestFacts, MissedIsNoted, Expanded, SameRequest, Still
<1>5. missed' \in SUBSET SearchPages /\ req'.at \notin Judging \cup Reading
  BY DEF RequestFacts, RequestTypes, Judging, Reading
<1> QED BY <1>1, <1>2, <1>3, <1>4, <1>5, LaterStep

\* What is joined passes.
LEMMA JoinedPass ==
    ASSUME RequestFacts, NEW S, \A p \in S : Passes(Node(p))
    PROVE  LET e == Joins(NodesOf(S))
           IN  e \in Nodes /\ \A p \in SearchPages : p \in Known(e) => Passes(e[p])
<1>1. RequestTypes /\ req.expanded \in Nodes
  BY DEF RequestFacts, RequestTypes, Requests
<1>2. /\ NodesOf(S) \in Nodes
      /\ \A p \in SearchPages : NodesOf(S)[p] = IF p \in S THEN Node(p) ELSE "absent"
  BY <1>1, NodesAre
<1>3. /\ Joins(NodesOf(S)) \in Nodes
      /\ \A p \in SearchPages :
            Joins(NodesOf(S))[p] = IF req.expanded[p] # "absent" THEN req.expanded[p]
                                   ELSE NodesOf(S)[p]
  BY <1>1, <1>2, NodesAre DEF Joins
<1> QED BY <1>2, <1>3 DEF RequestFacts, KeptAsJudged, Known

\* Fusion and expansion.
LEMMA GraphFacts ==
    ASSUME RequestFacts, GraphStep
    PROVE  RequestFacts'
<1>0. RequestTypes /\ req \in Requests /\ req.lexical \in Nodes /\ req.expanded \in Nodes
  BY DEF RequestFacts, RequestTypes, Requests
<1>k. \A p \in SearchPages : p \in Known(req.expanded) => Passes(req.expanded[p])
  BY DEF RequestFacts, KeptAsJudged
<1>1. CASE Fuse
  <2> DEFINE nodes == IF late THEN req.lexical ELSE Over(req.lexical, NodesOf(Missing))
  <2>1. /\ nodes \in Nodes
        /\ \A p \in SearchPages : req.lexical[p] # "absent" => nodes[p] = req.lexical[p]
    <3>1. NodesOf(Missing) \in Nodes
      BY <1>0, NodesAre
    <3> QED BY <1>0, <3>1, NodesAre
  <2>2. /\ req.at = "fuse" /\ Fuses(nodes, {}) /\ Still /\ Calm
        /\ missed' = IF late THEN missed \cup (Missing \cap steady) ELSE missed
    BY <1>1 DEF Fuse
  <2> HIDE DEF nodes
  <2> QED BY <1>0, <2>1, <2>2, FusesFacts, FaultsCount
<1>2. CASE FuseFails
  <2>1. {"nodes"} \in SUBSET Remarks
    BY DEF Remarks
  <2> QED BY <1>0, <1>2, <2>1, FusesFacts, FaultsCount DEF FuseFails
<1>3. CASE ExpandOpens
  <2>1. PICK S \in SUBSET SearchPages : req' = [req EXCEPT !.at = "walk", !.ranked = S]
    BY <1>3 DEF ExpandOpens
  <2>2. /\ SameRequest(req') /\ req'.at = "walk" /\ req'.lexical = req.lexical
        /\ req'.scored = req.scored /\ req'.pool = req.pool /\ req'.expanded = req.expanded
    BY <1>0, <2>1 DEF SameRequest, Requests, Phases, Expanded
  <2> QED BY <1>0, <1>3, <1>k, <2>2, ExpansionFacts, FaultsCount DEF ExpandOpens, Known, Passes
<1>4. CASE WalkBatch
  <2> DEFINE batch == First(Batch, req.ranked, TextRank)
             fit   == Passing(batch)
             take  == First(Wanted, fit, TextRank)
  <2>1. /\ \A p \in take : Passes(Node(p))
        /\ fit \in SUBSET SearchPages /\ req.ranked \ batch \in SUBSET SearchPages
    BY <1>0 DEF First, Passing, Requests
  <2>2. /\ req.at = "walk" /\ Still /\ Calm /\ UNCHANGED missed
        /\ \/ req' = [req EXCEPT !.ranked = @ \ batch, !.eligible = fit]
           \/ req' = [req EXCEPT !.ranked = @ \ batch, !.expanded = Joins(NodesOf(take))]
    BY <1>4 DEF WalkBatch
  <2> HIDE DEF batch, fit, take
  <2>3. CASE req' = [req EXCEPT !.ranked = @ \ batch, !.eligible = fit]
    <3>1. /\ SameRequest(req') /\ req'.at = req.at /\ req'.lexical = req.lexical
          /\ req'.scored = req.scored /\ req'.pool = req.pool /\ req'.expanded = req.expanded
      BY <1>0, <2>1, <2>3 DEF SameRequest, Requests
    <3> QED BY <1>0, <1>k, <2>2, <3>1, ExpansionFacts, FaultsCount DEF Known
  <2>4. CASE req' = [req EXCEPT !.ranked = @ \ batch, !.expanded = Joins(NodesOf(take))]
    <3> DEFINE e == Joins(NodesOf(take))
    <3>1. e \in Nodes /\ \A p \in SearchPages : p \in Known(e) => Passes(e[p])
      BY <2>1, JoinedPass
    <3>2. req' = [req EXCEPT !.ranked = @ \ batch, !.expanded = e]
      BY <2>4
    <3> HIDE DEF e
    <3>3. /\ SameRequest(req') /\ req'.at = req.at /\ req'.lexical = req.lexical
          /\ req'.scored = req.scored /\ req'.pool = req.pool /\ req'.expanded = e
      BY <1>0, <2>1, <3>1, <3>2 DEF SameRequest, Requests
    <3> QED BY <1>0, <2>2, <3>1, <3>3, ExpansionFacts, FaultsCount DEF Known
  <2> QED BY <2>2, <2>3, <2>4
<1>5. CASE WalkTake
  <2> DEFINE batch == First(Wanted, req.eligible, TextRank)
             e     == Joins(Reread(batch))
  <2>1. e \in Nodes /\ \A p \in SearchPages : p \in Known(e) => Passes(e[p])
    <3>1. \A p \in Passing(batch) : Passes(Node(p))
      BY DEF Passing
    <3> QED BY <3>1, JoinedPass DEF Reread
  <2>2. /\ req.at = "walk" /\ Still /\ Calm /\ UNCHANGED missed
        /\ req' = [req EXCEPT !.expanded = e, !.eligible = @ \ batch]
    BY <1>5 DEF WalkTake
  <2> HIDE DEF e, batch
  <2>3. /\ SameRequest(req') /\ req'.at = req.at /\ req'.lexical = req.lexical
        /\ req'.scored = req.scored /\ req'.pool = req.pool /\ req'.expanded = e
    BY <1>0, <2>1, <2>2 DEF SameRequest, Requests
  <2> QED BY <1>0, <2>1, <2>2, <2>3, ExpansionFacts, FaultsCount DEF Known
<1>6. CASE ExpandEnds
  <2>1. req' = [req EXCEPT !.at = "pool", !.ranked = {}, !.eligible = {}, !.notes = @ \cup {}]
    BY <1>6 DEF ExpandEnds, Pools
  <2>2. /\ SameRequest(req') /\ req'.at = "pool" /\ req'.lexical = req.lexical
        /\ req'.scored = req.scored /\ req'.pool = req.pool /\ req'.expanded = req.expanded
    BY <1>0, <2>1 DEF SameRequest, Requests, Phases, Expanded
  <2> QED BY <1>0, <1>6, <1>k, <2>2, ExpansionFacts, FaultsCount DEF ExpandEnds, Known
<1>7. CASE ExpandBreaks
  <2>1. Nothing \in Nodes /\ Known(Nothing) = {}
    BY DEF Nothing, Known, Nodes, NodeValues
  <2>2. req' = [[req EXCEPT !.expanded = Nothing] EXCEPT
                  !.at = "pool", !.ranked = {}, !.eligible = {}, !.notes = @ \cup {"graph"}]
    BY <1>7 DEF ExpandBreaks, Pools
  <2>3. /\ SameRequest(req') /\ req'.at = "pool" /\ req'.lexical = req.lexical
        /\ req'.scored = req.scored /\ req'.pool = req.pool /\ req'.expanded = Nothing
    BY <1>0, <2>1, <2>2 DEF SameRequest, Requests, Phases, Expanded, Remarks
  <2> QED BY <1>0, <1>7, <2>1, <2>3, ExpansionFacts, FaultsCount DEF ExpandBreaks
<1> QED BY <1>1, <1>2, <1>3, <1>4, <1>5, <1>6, <1>7 DEF GraphStep

-----------------------------------------------------------------------------
(* The pool.                                                               *)

\* The pages that are found are those that were fused or joined.
LEMMA FoundIs ==
    ASSUME RequestTypes
    PROVE  /\ Known(Found) \in SUBSET SearchPages
           /\ Known(req.scored) \in SUBSET Known(Found)
           /\ Known(req.expanded) \in SUBSET Known(Found)
           /\ \A S : Sources(S) \in SUBSET S
  BY DEF Known, Found, Over, Sources

\* A part of the pool: it keeps to the cap on sources and to its capacity, and
\* what it leaves are sources, once there are as many as the cap allows.
LEMMA FilledIs ==
    ASSUME RequestTypes, NEW pool \in SUBSET SearchPages, NEW S \in SUBSET SearchPages,
           NEW capacity \in Nat, NEW rank \in Ranks, Cardinality(Sources(pool)) <= SourceCap
    PROVE  LET filled == Filled(pool, S, capacity, rank)
               room   == IF capacity > 0 THEN capacity ELSE 1
           IN  /\ filled \in SUBSET (pool \cup S)
               /\ Cardinality(Sources(filled)) <= SourceCap
               /\ Cardinality(filled) <= Cardinality(pool) + room
               /\ S \cap pool = {} /\ Cardinality(filled) < Cardinality(pool) + room =>
                      \A p \in S \ filled :
                         Found[p] = "source" /\ Cardinality(Sources(filled)) = SourceCap
<1> DEFINE room   == IF capacity > 0 THEN capacity ELSE 1
           budget == SourceCap - Cardinality(Sources(pool))
           few    == First(budget, Sources(S), rank)
           admits == Admitted(pool, S, rank)
           more   == First(room, admits, rank)
           filled == Filled(pool, S, capacity, rank)
<1>1. SourceCap \in Nat /\ room \in Nat
  BY SearchAssumption DEF SourceCap
<1>2. /\ Sources(S) \in SUBSET SearchPages /\ Sources(pool) \in SUBSET SearchPages
      /\ Cardinality(Sources(pool)) \in Nat /\ Cardinality(pool) \in Nat
  BY PagesAre DEF Sources
<1>3. budget \in Nat /\ Cardinality(Sources(pool)) + budget = SourceCap
  <2> HIDE DEF SourceCap
  <2> QED BY <1>1, <1>2
<1> HIDE DEF room, budget
<1>4. few \in SUBSET Sources(S) /\ Cardinality(few) <= budget
  BY <1>2, <1>3, FirstAreFew
<1>5. admits = (S \ Sources(S)) \cup few
  BY DEF Admitted, budget
<1> HIDE DEF admits
<1>6. admits \in SUBSET S
  BY <1>4, <1>5 DEF Sources
<1>7. more \in SUBSET admits /\ Cardinality(more) <= room
  BY <1>1, <1>6, FirstAreFew
<1>8. filled = pool \cup more
  BY DEF Filled, admits, room
<1>9. few \in SUBSET SearchPages /\ more \in SUBSET SearchPages
      /\ Cardinality(few) \in Nat /\ Cardinality(more) \in Nat
  BY <1>2, <1>4, <1>6, <1>7, PagesAre
<1> HIDE DEF filled
<1>10. filled \in SUBSET (pool \cup S)
  BY <1>6, <1>7, <1>8
<1>11. Cardinality(Sources(filled)) <= SourceCap
  <2>1. Sources(filled) \in SUBSET (Sources(pool) \cup few)
    BY <1>5, <1>7, <1>8 DEF Sources
  <2>2. /\ Cardinality(Sources(filled)) <= Cardinality(Sources(pool) \cup few)
        /\ Cardinality(Sources(pool) \cup few) <= Cardinality(Sources(pool)) + Cardinality(few)
    BY <1>2, <1>9, <2>1, PartIsFewer, TogetherAre
  <2>3. /\ Cardinality(Sources(filled)) \in Nat
        /\ Cardinality(Sources(pool) \cup few) \in Nat
    BY <1>2, <1>9, <2>1, PagesAre
  <2> HIDE DEF SourceCap, few
  <2> QED BY <1>1, <1>2, <1>3, <1>4, <1>9, <2>2, <2>3
<1>12. Cardinality(filled) <= Cardinality(pool) + room
  <2>1. Cardinality(filled) <= Cardinality(pool) + Cardinality(more) /\ Cardinality(filled) \in Nat
    BY <1>8, <1>9, TogetherAre, PagesAre
  <2> HIDE DEF more
  <2> QED BY <1>1, <1>2, <1>7, <1>9, <2>1
<1>13. ASSUME S \cap pool = {}, Cardinality(filled) < Cardinality(pool) + room, NEW p \in S \ filled
       PROVE  Found[p] = "source" /\ Cardinality(Sources(filled)) = SourceCap
  <2>1. Cardinality(filled) = Cardinality(pool) + Cardinality(more)
    <3>1. pool \cap more = {}
      BY <1>6, <1>7, <1>13
    <3> QED BY <1>8, <1>9, <3>1, TogetherAre
  <2>2. Cardinality(more) < room
    <3> HIDE DEF more
    <3> QED BY <1>1, <1>2, <1>9, <1>13, <2>1
  <2>3. more = admits
    BY <1>1, <1>6, <2>2, FirstIsAll
  <2>4. p \in Sources(S) /\ p \notin few
    BY <1>5, <1>8, <1>13, <2>3
  <2>5. ~(Cardinality(few) < budget)
    BY <1>2, <1>3, <2>4, FirstIsAll
  <2>6. Cardinality(few) = budget
    <3> HIDE DEF few
    <3> QED BY <1>3, <1>4, <1>9, <2>5
  <2>7. Sources(filled) = Sources(pool) \cup few
    BY <1>4, <1>5, <1>8, <2>3 DEF Sources
  <2>8. Sources(pool) \cap few = {}
    BY <1>4, <1>13 DEF Sources
  <2>9. Cardinality(Sources(filled)) = Cardinality(Sources(pool)) + Cardinality(few)
    BY <1>2, <1>9, <2>7, <2>8, TogetherAre
  <2> QED BY <1>3, <2>4, <2>6, <2>9 DEF Sources
<1> QED BY <1>10, <1>11, <1>12, <1>13 DEF filled, room

\* The pool, whole or in three parts.
LEMMA PoolOfIs ==
    ASSUME RequestTypes, NEW rank \in Ranks
    PROVE  LET pool == PoolOf(rank)
           IN  /\ pool \in SUBSET Known(Found)
               /\ Cardinality(Sources(pool)) <= SourceCap
               /\ Cardinality(pool) <= PoolSize + (IF req.quota >= PoolSize THEN 1 ELSE 0)
               /\ Cardinality(pool) < PoolSize =>
                      \A p \in Known(Found) \ pool :
                         Found[p] = "source" /\ Cardinality(Sources(pool)) = SourceCap
<1>1. /\ PoolSize \in Nat /\ PoolSize > 0 /\ req.quota \in Nat /\ SourceCap \in Nat
      /\ {} \in SUBSET SearchPages /\ Cardinality({}) = 0
  BY SearchAssumption, FS_EmptySet DEF SourceCap, RequestTypes, Requests
<1>2. Cardinality(Sources({})) <= SourceCap
  <2>1. Sources({}) = {}
    BY DEF Sources
  <2> QED BY <1>1, <2>1
<1>3. /\ Known(Found) \in SUBSET SearchPages
      /\ Known(req.scored) \in SUBSET Known(Found)
      /\ Known(req.expanded) \in SUBSET Known(Found)
  BY FoundIs
<1> HIDE DEF SourceCap
<1>4. CASE req.quota = 0
  <2> DEFINE pool == Filled({}, Known(Found), PoolSize, rank)
  <2>1. /\ pool \in SUBSET ({} \cup Known(Found))
        /\ Cardinality(Sources(pool)) <= SourceCap
        /\ Cardinality(pool) <= Cardinality({}) + PoolSize
        /\ Known(Found) \cap {} = {} /\ Cardinality(pool) < Cardinality({}) + PoolSize =>
               \A p \in Known(Found) \ pool :
                  Found[p] = "source" /\ Cardinality(Sources(pool)) = SourceCap
    <3> HIDE DEF pool
    <3> QED BY <1>1, <1>2, <1>3, FilledIs DEF pool
  <2>2. PoolOf(rank) = pool
    BY <1>4 DEF PoolOf
  <2> HIDE DEF pool
  <2>3. ~(req.quota >= PoolSize)
    BY <1>1, <1>4
  <2> QED BY <1>1, <2>1, <2>2, <2>3
<1>5. CASE req.quota # 0
  <2> DEFINE quota   == Fewer(req.quota, PoolSize)
             primary == Filled({}, Known(req.scored), PoolSize - quota, rank)
             both    == Filled(primary, Known(req.expanded), quota, rank)
             rest    == Known(Found) \ both
             all     == Filled(both, rest, PoolSize - Cardinality(both), rank)
  <2>1. PoolOf(rank) = IF Cardinality(both) < PoolSize THEN all ELSE both
    BY <1>5 DEF PoolOf
  <2>2. /\ quota \in Nat /\ quota > 0 /\ PoolSize - quota \in Nat
        /\ quota < PoolSize => req.quota < PoolSize
        /\ quota = PoolSize => req.quota >= PoolSize
    BY <1>1, <1>5 DEF Fewer
  <2> HIDE DEF quota
  <2>3. /\ primary \in SUBSET Known(Found)
        /\ Cardinality(Sources(primary)) <= SourceCap
        /\ Cardinality(primary) <= IF PoolSize - quota > 0 THEN PoolSize - quota ELSE 1
    <3>1. /\ primary \in SUBSET ({} \cup Known(req.scored))
          /\ Cardinality(Sources(primary)) <= SourceCap
          /\ Cardinality(primary) <=
                Cardinality({}) + IF PoolSize - quota > 0 THEN PoolSize - quota ELSE 1
      <4>1. Known(req.scored) \in SUBSET SearchPages
        BY <1>3
      <4> HIDE DEF primary
      <4> QED BY <1>1, <1>2, <2>2, <4>1, FilledIs DEF primary
    <3> HIDE DEF primary
    <3> QED BY <1>1, <1>3, <2>2, <3>1
  <2> HIDE DEF primary
  <2>4. primary \in SUBSET SearchPages /\ Cardinality(primary) \in Nat
    BY <1>3, <2>3, PagesAre
  <2>5. /\ both \in SUBSET Known(Found)
        /\ Cardinality(Sources(both)) <= SourceCap
        /\ Cardinality(both) <= Cardinality(primary) + quota
    <3>1. /\ both \in SUBSET (primary \cup Known(req.expanded))
          /\ Cardinality(Sources(both)) <= SourceCap
          /\ Cardinality(both) <= Cardinality(primary) + IF quota > 0 THEN quota ELSE 1
      <4>1. Known(req.expanded) \in SUBSET SearchPages
        BY <1>3
      <4> HIDE DEF both
      <4> QED BY <2>2, <2>3, <2>4, <4>1, FilledIs DEF both
    <3> HIDE DEF both
    <3> QED BY <1>3, <2>2, <2>3, <3>1
  <2> HIDE DEF both
  <2>6. both \in SUBSET SearchPages /\ Cardinality(both) \in Nat
    BY <1>3, <2>5, PagesAre
  <2>7. CASE ~(Cardinality(both) < PoolSize)
    <3>1. PoolOf(rank) = both
      BY <2>1, <2>7
    <3> HIDE DEF all
    <3>2. Cardinality(both) <= PoolSize + (IF req.quota >= PoolSize THEN 1 ELSE 0)
      BY <1>1, <2>2, <2>3, <2>4, <2>5, <2>6
    <3> QED BY <2>5, <2>7, <3>1, <3>2
  <2>8. CASE Cardinality(both) < PoolSize
    <3>1. PoolOf(rank) = all /\ rest \in SUBSET SearchPages /\ rest \cap both = {}
      BY <1>3, <2>1, <2>8
    <3>2. PoolSize - Cardinality(both) \in Nat /\ PoolSize - Cardinality(both) > 0
      BY <1>1, <2>6, <2>8
    <3>3. /\ all \in SUBSET (both \cup rest)
          /\ Cardinality(Sources(all)) <= SourceCap
          /\ Cardinality(all) <= Cardinality(both) + (PoolSize - Cardinality(both))
          /\ rest \cap both = {}
             /\ Cardinality(all) < Cardinality(both) + (PoolSize - Cardinality(both)) =>
                 \A p \in rest \ all :
                    Found[p] = "source" /\ Cardinality(Sources(all)) = SourceCap
      <4> HIDE DEF all, rest
      <4> QED BY <2>5, <2>6, <3>1, <3>2, FilledIs DEF all
    <3>4. both \in SUBSET all
      BY DEF Filled
    <3>5. Known(Found) \ all \in SUBSET (rest \ all) /\ all \in SUBSET Known(Found)
      BY <2>5, <3>3, <3>4
    <3> HIDE DEF all, rest
    <3>6. Cardinality(both) + (PoolSize - Cardinality(both)) = PoolSize
      BY <1>1, <2>6
    <3>7. Cardinality(all) \in Nat
      BY <1>3, <3>5, PagesAre
    <3>8. Cardinality(all) <= PoolSize + (IF req.quota >= PoolSize THEN 1 ELSE 0)
      BY <1>1, <3>3, <3>6, <3>7
    <3> QED BY <3>1, <3>3, <3>5, <3>6, <3>8
  <2> QED BY <2>7, <2>8
<1> QED BY <1>4, <1>5

\* The pool is made, and counted.
LEMMA PoolFacts ==
    ASSUME RequestFacts, Pool
    PROVE  RequestFacts'
<1>0. RequestTypes /\ req \in Requests
  BY DEF RequestFacts, RequestTypes
<1>1. PICK rank \in Ranks : req' = [req EXCEPT !.at = "rank", !.pool = PoolOf(rank)]
  BY DEF Pool
<1> DEFINE pool == PoolOf(rank)
<1>2. /\ pool \in SUBSET Known(Found)
      /\ Cardinality(Sources(pool)) <= SourceCap
      /\ Cardinality(pool) <= PoolSize + (IF req.quota >= PoolSize THEN 1 ELSE 0)
      /\ Cardinality(pool) < PoolSize =>
             \A p \in Known(Found) \ pool :
                Found[p] = "source" /\ Cardinality(Sources(pool)) = SourceCap
  BY <1>0, PoolOfIs
<1>3. req' = [req EXCEPT !.at = "rank", !.pool = pool]
  BY <1>1
<1> HIDE DEF pool
<1>4. pool \in SUBSET SearchPages
  BY <1>0, <1>2, FoundIs
<1>5. /\ SameRequest(req') /\ req'.at = "rank" /\ req'.lexical = req.lexical
      /\ req'.scored = req.scored /\ req'.expanded = req.expanded /\ req'.pool = pool
  BY <1>0, <1>3, <1>4 DEF SameRequest, Requests, Phases, Expanded
<1>6. KeptAsJudged'
  BY <1>5 DEF RequestFacts, KeptAsJudged, SameRequest, Known, Passes
<1>7. TextIsFused'
  BY <1>5 DEF RequestFacts, TextIsFused, SameRequest, Passes, Expanded, Pool
<1>8. PoolIsRanked'
  <2>1. Found' = Found
    BY <1>5 DEF Found
  <2>2. Known(Found)' = Known(Found)
    BY <2>1 DEF Known
  <2>3. Sources(req.pool)' = Sources(pool)
    BY <1>5, <2>1 DEF Sources
  <2> HIDE DEF SourceCap
  <2> QED BY <1>2, <1>5, <2>1, <2>2, <2>3 DEF PoolIsRanked, PoolIsFair, SameRequest
<1>9. MissedIsNoted'
  BY <1>5 DEF RequestFacts, MissedIsNoted, Expanded, SameRequest, Still, Pool
<1>10. /\ missed' \in SUBSET SearchPages /\ faults' \in Nat /\ Still
       /\ req.at # "done" /\ req'.at \notin Judging \cup Reading
  BY <1>0, <1>5, FaultsCount DEF RequestTypes, Judging, Reading, Pool
<1> QED BY <1>5, <1>6, <1>7, <1>8, <1>9, <1>10, LaterStep

-----------------------------------------------------------------------------
(* The answer, publication, and the whole.                                 *)

\* The steps after the pool; the last one decides on the status.
LEMMA LastFacts ==
    ASSUME RequestFacts, LastStep
    PROVE  RequestFacts'
<1>0. RequestTypes /\ req \in Requests
  BY DEF RequestFacts, RequestTypes
<1>1. CASE Pool
  BY <1>1, PoolFacts
<1>2. CASE Ranked
  <2>1. Nothing \in Nodes /\ Known(Nothing) = {}
    BY DEF Nothing, Known, Nodes, NodeValues
  <2>2. PICK answer \in SUBSET req.pool :
           req' = [req EXCEPT !.at = "show", !.answer = answer,
                              !.notes = IF late THEN @ \cup {"late"} ELSE @,
                              !.lexical = Nothing, !.scored = Nothing, !.expanded = Nothing,
                              !.pool = {}]
    BY <1>2 DEF Ranked, Reranked
  <2>3. answer \in SUBSET SearchPages
    BY <1>0 DEF Requests
  <2>4. /\ SameRequest(req') /\ req'.at = "show" /\ req'.pool = {}
        /\ req'.scored = Nothing /\ req'.expanded = Nothing
        /\ late => req'.notes # {}
    BY <1>0, <2>1, <2>2, <2>3 DEF SameRequest, Requests, Phases, Remarks
  <2>5. KeptAsJudged' /\ TextIsFused' /\ PoolIsRanked'
    BY <2>1, <2>4 DEF KeptAsJudged, TextIsFused, Expanded, PoolIsRanked, PoolIsFair
  <2>6. MissedIsNoted'
    BY <1>2, <2>4 DEF RequestFacts, MissedIsNoted, SameRequest, Ranked
  <2>7. /\ missed' \in SUBSET SearchPages /\ faults' \in Nat /\ Still
        /\ req.at # "done" /\ req'.at \notin Judging \cup Reading
    BY <1>0, <1>2, <2>4, FaultsCount DEF RequestTypes, Judging, Reading, Ranked
  <2> QED BY <2>4, <2>5, <2>6, <2>7, LaterStep
<1>3. CASE ShowNext
  <2>1. PICK p \in req.answer, notes \in SUBSET Remarks :
           req' = [req EXCEPT !.shown = @ \cup {p}, !.notes = @ \cup notes]
    <3>1. {"evidence"} \in SUBSET Remarks /\ {} \in SUBSET Remarks
      BY DEF Remarks
    <3> QED BY <1>3, <3>1 DEF ShowNext
  <2>2. /\ SameRequest(req') /\ req'.at = req.at /\ req'.pool = req.pool
        /\ req'.scored = req.scored /\ req'.expanded = req.expanded
    BY <1>0, <2>1 DEF SameRequest, Requests
  <2>3. req.at = "show" /\ Still /\ UNCHANGED missed /\ (Calm \/ Fault)
    BY <1>3 DEF ShowNext
  <2>4. KeptAsJudged'
    BY <2>2 DEF RequestFacts, KeptAsJudged, SameRequest, Known, Passes
  <2>5. TextIsFused' /\ PoolIsRanked' /\ MissedIsNoted'
    BY <2>2, <2>3 DEF RequestFacts, TextIsFused, Expanded, PoolIsRanked, PoolIsFair,
                      MissedIsNoted, SameRequest
  <2>6. /\ missed' \in SUBSET SearchPages /\ faults' \in Nat
        /\ req.at # "done" /\ req'.at \notin Judging \cup Reading
    BY <1>0, <2>2, <2>3, FaultsCount DEF RequestTypes, Judging, Reading
  <2> QED BY <2>2, <2>3, <2>4, <2>5, <2>6, LaterStep
<1>4. CASE Record
  <2>1. PICK notes \in SUBSET Remarks, status \in {"complete", "partial", "failed"} :
           /\ req.notes \subseteq notes /\ (status = "complete" => notes = {})
           /\ req' = [req EXCEPT !.at = "done", !.notes = notes, !.status = status]
    <3> DEFINE notes  == IF req.shown # req.answer THEN req.notes \cup {"room"} ELSE req.notes
               status == IF notes = {} THEN "complete"
                         ELSE IF req.answer = {} THEN "failed" ELSE "partial"
    <3>1. req' = [req EXCEPT !.at = "done", !.notes = notes, !.status = status]
      BY <1>4 DEF Record
    <3>2. notes \in SUBSET Remarks /\ req.notes \subseteq notes
      BY <1>0 DEF Requests, Remarks
    <3> HIDE DEF notes
    <3> QED BY <3>1, <3>2
  <2>2. /\ req' \in Requests /\ req'.at = "done" /\ req'.pool = req.pool
        /\ req'.kind = req.kind /\ req'.chunks = req.chunks
        /\ req'.scored = req.scored /\ req'.expanded = req.expanded
        /\ req'.notes = notes /\ req'.status = status
    BY <1>0, <2>1 DEF Requests, Phases
  <2>3. req.at = "show" /\ Still /\ UNCHANGED missed /\ Calm
    BY <1>4 DEF Record
  <2>4. RequestTypes'
    BY <1>0, <2>2, <2>3, FaultsCount DEF RequestTypes, Still
  <2>5. RowsHaveAll' /\ PlainReadsOnce' /\ KeptAsJudged'
    BY <2>2 DEF RequestFacts, RowsHaveAll, PlainReadsOnce, KeptAsJudged, Judging, Reading,
                Known, Passes
  <2>6. TextIsFused' /\ PoolIsRanked'
    BY <2>2, <2>3 DEF RequestFacts, TextIsFused, Expanded, PoolIsRanked, PoolIsFair
  <2>7. MissedIsNoted' /\ StatusIsDue'
    BY <2>1, <2>2, <2>3 DEF RequestFacts, MissedIsNoted, StatusIsDue, Expanded
  <2> QED BY <2>4, <2>5, <2>6, <2>7 DEF RequestFacts
<1> QED BY <1>1, <1>2, <1>3, <1>4 DEF LastStep

\* Publication makes pages unsteady; that time passes only asks for a note
\* that will come.
LEMMA PublicationFacts ==
    ASSUME RequestFacts, NodeChanges \/ FileChanges \/ Expire
    PROVE  RequestFacts'
<1>1. UNCHANGED <<req, missed>>
  BY DEF NodeChanges, FileChanges, Expire
<1>2. RequestTypes'
  <2>1. CASE NodeChanges
    <3>1. PICK p \in SearchPages, v \in NodeValues :
             meta' = [meta EXCEPT ![p] = v] /\ steady' = steady \ {p}
      BY <2>1 DEF NodeChanges
    <3>2. meta' \in Nodes /\ steady' \subseteq SearchPages
      BY <3>1 DEF RequestFacts, RequestTypes, Nodes
    <3> QED BY <2>1, <3>2 DEF RequestFacts, RequestTypes, NodeChanges
  <2>2. CASE FileChanges
    <3>1. edited' \subseteq SearchPages
      BY <2>2 DEF RequestFacts, RequestTypes, FileChanges
    <3> QED BY <2>2, <3>1 DEF RequestFacts, RequestTypes, FileChanges
  <2>3. CASE Expire
    BY <2>3 DEF RequestFacts, RequestTypes, Expire
  <2> QED BY <2>1, <2>2, <2>3
<1>3. RowsHaveAll'
  <2>1. \A p \in steady' : p \in steady /\ meta'[p] = meta[p]
    BY DEF RequestFacts, RequestTypes, NodeChanges, FileChanges, Expire, Nodes
  <2> QED BY <1>1, <2>1 DEF RequestFacts, RowsHaveAll, Passes, Node
<1>4. MissedIsNoted'
  BY <1>1 DEF RequestFacts, MissedIsNoted, NodeChanges, FileChanges, Expire
<1>5. PlainReadsOnce' /\ StatusIsDue' /\ KeptAsJudged' /\ TextIsFused' /\ PoolIsRanked'
  BY <1>1 DEF RequestFacts, PlainReadsOnce, StatusIsDue, KeptAsJudged, TextIsFused,
              PoolIsRanked, PoolIsFair, Known, Found, Passes, Sources
<1> QED BY <1>2, <1>3, <1>4, <1>5 DEF RequestFacts

\* A request that starts has lost nothing.
LEMMA InitFacts == SearchInit => RequestFacts
<1> SUFFICES ASSUME SearchInit
             PROVE  RequestFacts
  OBVIOUS
<1>1. Nothing \in Nodes /\ Known(Nothing) = {}
  BY DEF Nothing, Known, Nodes, NodeValues
<1>2. PICK kind \in {"plain", "selectors", "expr"}, catalog \in Catalogs,
           chunks \in BOOLEAN, quota \in Quotas, room \in Rooms :
         /\ chunks => kind # "plain"
         /\ req = [at |-> "text", kind |-> kind, catalog |-> catalog,
                   chunks |-> chunks, quota |-> quota, room |-> room,
                   hits |-> {}, limit |-> 0, rows |-> {}, raw |-> 0, checked |-> {},
                   lexical |-> Nothing, vector |-> {}, chunk |-> {},
                   scored |-> Nothing, ranked |-> {}, eligible |-> {},
                   expanded |-> Nothing, pool |-> {}, answer |-> {}, shown |-> {},
                   notes |-> {}, status |-> "open"]
  BY DEF SearchInit
<1>3. /\ req \in Requests /\ req.at = "text" /\ req.scored = Nothing /\ req.expanded = Nothing
      /\ req.pool = {} /\ req.status = "open" /\ (req.kind = "plain" => ~req.chunks)
  BY <1>1, <1>2, SearchAssumption DEF Requests, Phases
<1>4. RequestTypes /\ missed = {}
  BY <1>3 DEF SearchInit, RequestTypes, Nodes
<1>5. RowsHaveAll /\ PlainReadsOnce /\ MissedIsNoted /\ StatusIsDue /\ TextIsFused
  BY <1>3, <1>4 DEF RowsHaveAll, PlainReadsOnce, MissedIsNoted, StatusIsDue, TextIsFused,
                    Judging, Reading, Expanded
<1>6. KeptAsJudged /\ PoolIsRanked
  BY <1>1, <1>3 DEF KeptAsJudged, PoolIsRanked, PoolIsFair
<1> QED BY <1>4, <1>5, <1>6 DEF RequestFacts

\* The facts are inductive.
THEOREM RequestInductive ==
    ASSUME RequestFacts, [SearchNext]_searchVars
    PROVE  RequestFacts'
<1>1. CASE UNCHANGED searchVars
  BY <1>1 DEF searchVars, RequestFacts, RequestTypes, RowsHaveAll, PlainReadsOnce,
              MissedIsNoted, StatusIsDue, KeptAsJudged, TextIsFused, PoolIsRanked,
              PoolIsFair, Known, Found, Passes, Sources, Node
<1>2. CASE SearchNext
  BY <1>2, TextFacts, VectorFacts, ChunkFacts, GraphFacts, LastFacts, PublicationFacts
     DEF SearchNext
<1> QED BY <1>1, <1>2

\* What the facts say of the answer.
LEMMA FactsAreSound ==
    ASSUME RequestFacts
    PROVE  RequestsAreSound
<1>0. req \in Requests /\ PoolSize \in Nat
  BY SearchAssumption DEF RequestFacts, RequestTypes
<1>1. ReturnedAsJudged
  <2> SUFFICES ASSUME NEW p \in req.pool
               PROVE  Passes(Found[p])
    BY DEF ReturnedAsJudged
  <2>1. p \in SearchPages /\ p \in Known(Found)
    BY <1>0 DEF RequestFacts, PoolIsRanked, Requests
  <2> QED BY <2>1 DEF RequestFacts, KeptAsJudged, Known, Found, Over
<1>2. CompleteMissesNothing
  BY DEF RequestFacts, StatusIsDue, CompleteMissesNothing
<1>3. PoolIsFair
  BY DEF RequestFacts, PoolIsRanked
<1>4. TextSurvives
  <2> SUFFICES ASSUME req.at = "rank", NEW p \in SearchPages, Passes(req.lexical[p]),
                      req.lexical[p] = "source" => SourceCap > 0, req.pool = {}
               PROVE  FALSE
    BY DEF TextSurvives
  <2>1. req.scored[p] = req.lexical[p] /\ req.lexical[p] # "absent"
    BY DEF RequestFacts, TextIsFused, Expanded, Passes
  <2>2. Found[p] = req.lexical[p] /\ p \in Known(Found) \ req.pool
    BY <2>1 DEF Found, Over, Known
  <2>3. /\ Cardinality(req.pool) = 0 /\ Sources(req.pool) = {}
        /\ Cardinality(Sources(req.pool)) = 0
    BY FS_EmptySet DEF Sources
  <2>4. Found[p] = "source" /\ Cardinality(Sources(req.pool)) = SourceCap
    <3>1. Cardinality(req.pool) < PoolSize
      BY <2>3, SearchAssumption
    <3> QED BY <1>3, <2>2, <3>1 DEF PoolIsFair
  <2> HIDE DEF SourceCap
  <2> QED BY <2>2, <2>3, <2>4
<1> QED BY <1>1, <1>2, <1>3, <1>4 DEF RequestsAreSound

\* Every answer is as its evidence was judged: each page passed in the very node
\* it is returned with, what is called complete misses nothing that an arm
\* matched, the pool is fair, and the text arm survives.
THEOREM RequestsAreAlwaysSound == SearchSpec => []RequestsAreSound
<1>1. SearchInit => RequestFacts
  BY InitFacts
<1>2. RequestFacts /\ [SearchNext]_searchVars => RequestFacts'
  BY RequestInductive
<1>3. RequestFacts => RequestsAreSound
  BY FactsAreSound
<1> QED BY <1>1, <1>2, <1>3, PTL DEF SearchSpec
=============================================================================
