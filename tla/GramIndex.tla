------------------------------ MODULE GramIndex ------------------------------
(***************************************************************************)
(* The n-gram index over operational_memory_index.  Triggers mark every    *)
(* document whose indexed fields change; a search answers from the index   *)
(* only while no live document is marked.  A rebuild stages the documents  *)
(* batch by batch in tables of its own, each with a digest of what it was  *)
(* read from, packs them gram by gram and publishes in one transaction     *)
(* that drops the markers of the documents that still have that digest.    *)
(* Nothing keeps two rebuilds apart; history variables say when two were   *)
(* under way at once and whether one of them published the base there is.  *)
(***************************************************************************)
EXTENDS FiniteSetsExt

CONSTANTS
    Docs,          \* row ids 1..n of operational_memory_index
    Grams,         \* numbers, in the order of their keys
    DocTexts,      \* what a document may hold: sets of grams
    Rebuilders,    \* threads and processes that may rebuild
    Missing,       \* no row, no table
    MaxDocWrites,  \* bound: writes of documents
    MaxCrashes     \* bound: rebuilds that stop on the way

\* Rows and grams are numbered, a text is a set of grams, and Missing is neither
\* a text nor a number nor a table.
ASSUME GramAssumption ==
    /\ Docs \subseteq Nat \ {0} /\ Grams \subseteq Nat /\ DocTexts \subseteq SUBSET Grams
    /\ Missing \notin Nat /\ \A text \in SUBSET Grams : Missing # text
    /\ \A table \in (SUBSET (Grams \X Docs)) \cup [Docs -> DocTexts \cup {Missing}] :
           Missing # table

VARIABLES
    docs,     \* document -> its text, or Missing
    dirty,    \* operational_memory_gram_dirty
    base,     \* operational_memory_gram: postings <<gram, document>>
    state,    \* operational_memory_gram_state: the grams it counts, or Missing
    scratch,  \* the tables stage, stamp and new; Missing for one that is not there
    rebuild,  \* rebuilder -> its phase and what it has read
    search,   \* a search on its way, with what it was told
    overlap,  \* history: two rebuilds met, since one last began with no other
    mixed,    \* history: the base was published by a rebuild that met another
    counts    \* writes and crashes so far

content == <<docs, dirty>>
history == <<overlap, mixed>>
gramVars == <<content, base, state, scratch, rebuild, search, history, counts>>

NoRebuild == [at |-> "idle", last |-> 0, batch |-> {}, grams |-> {}, packed |-> 0]
Resting == [at |-> "idle"]
NoTables == [stage |-> Missing, stamp |-> Missing, new |-> Missing]
NewTables == [stage |-> {}, stamp |-> [d \in Docs |-> Missing], new |-> {}]

Live == {d \in Docs : docs[d] # Missing}
PostingsOf(d, text) == {<<g, d>> : g \in text}

GramInit ==
    /\ docs \in [Docs -> DocTexts \cup {Missing}]
    /\ \A d \in Docs : docs[d] = Missing => \A e \in Docs : e > d => docs[e] = Missing
    /\ dirty = Live /\ base = {} /\ state = Missing
    /\ scratch = NoTables
    /\ rebuild = [r \in Rebuilders |-> NoRebuild]
    /\ search = Resting
    /\ overlap = FALSE /\ mixed = FALSE
    /\ counts = [writes |-> 0, crashes |-> 0]

-----------------------------------------------------------------------------
\* Operators with a suffix after an underscore are faulty variants: they show
\* which property would notice, and no specification uses them.

(* Writers of the memory; the triggers mark what they change.              *)

\* What a search may answer for its term, and must, since it was admitted.
Witnessed(d, text) ==
    search' = IF search.at = "idle" THEN search
              ELSE LET has == text # Missing /\ search.term \in text IN
                   [search EXCEPT !.had = @ \cup (IF has THEN {d} ELSE {}),
                                  !.kept = @ \ {d}]

Becomes(d, text) ==
    /\ counts.writes < MaxDocWrites /\ docs[d] # text
    /\ docs' = [docs EXCEPT ![d] = text]
    /\ dirty' = dirty \cup {d}
    /\ counts' = [counts EXCEPT !.writes = @ + 1]
    /\ Witnessed(d, text)
    /\ UNCHANGED <<base, state, scratch, rebuild, history>>

\* A new row takes the number after the last one, also if it was used before.
Insert(text) == \E d \in Docs : /\ d = Max(Live \cup {0}) + 1
                                /\ Becomes(d, text)
Update(d, text) == d \in Live /\ Becomes(d, text)
Delete(d) == d \in Live /\ Becomes(d, Missing)

-----------------------------------------------------------------------------
(* rebuild_memory_gram_index.                                              *)

InPhase(r, phase) == rebuild[r].at = phase
Go(r, step) == rebuild' = [rebuild EXCEPT ![r] = step]

\* Another rebuild is under way, or none was and the tables are this one's own.
Meets(r) == overlap' = \E s \in Rebuilders \ {r} : ~InPhase(s, "idle")

\* The tables of an earlier rebuild are dropped, whoever uses them.
BeginRebuild_Keep(r) ==
    /\ InPhase(r, "idle") /\ scratch = NoTables
    /\ scratch' = NewTables
    /\ Go(r, [NoRebuild EXCEPT !.at = "read"])
    /\ Meets(r)
    /\ UNCHANGED <<content, base, state, search, mixed, counts>>
BeginRebuild(r) ==
    /\ InPhase(r, "idle")
    /\ scratch' = NewTables
    /\ Go(r, [NoRebuild EXCEPT !.at = "read"])
    /\ Meets(r)
    /\ UNCHANGED <<content, base, state, search, mixed, counts>>

\* A batch (here of one document) is read without a transaction ...
Next1(r) == {d \in Live : d > rebuild[r].last}
ReadBatch(r) ==
    /\ InPhase(r, "read")
    /\ IF Next1(r) = {}
       THEN Go(r, [rebuild[r] EXCEPT !.at = "list"])
       ELSE LET d == Min(Next1(r)) IN
            Go(r, [rebuild[r] EXCEPT !.at = "stage", !.last = d, !.batch = docs[d]])
    /\ UNCHANGED <<content, base, state, scratch, search, history, counts>>

\* ... and staged with its digest in one.  A statement that finds a table gone
\* raises: that ends the rebuild and leaves the tables that are there.
Unless(gone, r, tables, step) ==
    IF gone THEN Go(r, NoRebuild) /\ UNCHANGED scratch
    ELSE scratch' = tables /\ Go(r, step)

StageBatch(r) ==
    LET d == rebuild[r].last IN
    /\ InPhase(r, "stage")
    /\ Unless(scratch.stage = Missing, r,
              [scratch EXCEPT !.stage = @ \cup PostingsOf(d, rebuild[r].batch),
                              !.stamp[d] = rebuild[r].batch],
              [rebuild[r] EXCEPT !.at = "read"])
    /\ UNCHANGED <<content, base, state, search, history, counts>>

\* Which grams there are is read once; each chunk (here of one gram) is packed
\* whole.
List(r) ==
    /\ InPhase(r, "list")
    /\ Unless(scratch.stage = Missing, r, scratch,
              [rebuild[r] EXCEPT !.at = "pack", !.grams = {p[1] : p \in scratch.stage}])
    /\ UNCHANGED <<content, base, state, search, history, counts>>

Pack(r) ==
    LET g == Min(rebuild[r].grams)
        chunk == {p \in scratch.stage : p[1] = g}
    IN  /\ InPhase(r, "pack") /\ rebuild[r].grams # {}
        /\ Unless(Missing \in {scratch.stage, scratch.new}, r,
                  [scratch EXCEPT !.new = @ \cup chunk],
                  [rebuild[r] EXCEPT !.grams = @ \ {g},
                                     !.packed = @ + (IF chunk = {} THEN 0 ELSE 1)])
        /\ UNCHANGED <<content, base, state, search, history, counts>>

\* A marker goes if the document is as it was staged, or gone and never staged.
Accounted_Live(d) == docs[d] # Missing => scratch.stamp[d] # Missing
Accounted(d) == scratch.stamp[d] = docs[d]

PublishBase(r) ==
    /\ InPhase(r, "pack") /\ rebuild[r].grams = {}
    /\ Unless(Missing \in {scratch.stamp, scratch.new}, r,
              [scratch EXCEPT !.new = Missing], [NoRebuild EXCEPT !.at = "drop"])
    /\ IF Missing \in {scratch.stamp, scratch.new} THEN UNCHANGED <<dirty, base, state, mixed, search>>
       ELSE /\ dirty' = {d \in dirty : ~Accounted(d)}
            /\ base' = scratch.new
            /\ state' = rebuild[r].packed
            /\ mixed' = overlap
            /\ search' = IF search.at = "idle" THEN search
                         ELSE [search EXCEPT !.mixed = @ \/ overlap]
    /\ UNCHANGED <<docs, overlap, counts>>

Drop(r) ==
    /\ InPhase(r, "drop")
    /\ scratch' = NoTables
    /\ Go(r, NoRebuild)
    /\ UNCHANGED <<content, base, state, search, history, counts>>

\* The process stops; what it committed stays.
Crash(r) ==
    /\ ~InPhase(r, "idle") /\ counts.crashes < MaxCrashes
    /\ counts' = [counts EXCEPT !.crashes = @ + 1]
    /\ Go(r, NoRebuild)
    /\ UNCHANGED <<content, base, state, scratch, search, history>>

RebuildStep(r) ==
    \/ ReadBatch(r) \/ StageBatch(r) \/ List(r)
    \/ Pack(r) \/ PublishBase(r) \/ Drop(r)

-----------------------------------------------------------------------------
(* A search of the memory, for one of its terms.                           *)

\* gram_index_usable: the base is of this format and not empty, and no live
\* document is marked.
BaseReady == state \notin {Missing, 0} /\ base # {}
GramUsable_AnyBase == BaseReady
GramUsable == BaseReady /\ dirty \cap Live = {}

Holding(g) == {d \in Live : g \in docs[d]}
AdmitSearch(g) ==
    /\ search = Resting /\ GramUsable
    /\ search' = [at |-> "admitted", term |-> g, had |-> Holding(g), kept |-> Holding(g),
                  skip |-> {}, hits |-> {}, mixed |-> mixed]
    /\ UNCHANGED <<content, base, state, scratch, rebuild, history, counts>>

\* skip_doc_set, accumulate_relevance and the rows of the hits are read one
\* after the other, without a snapshot.
Skip ==
    /\ search.at = "admitted"
    /\ search' = [search EXCEPT !.at = "skipping", !.skip = dirty]
    /\ UNCHANGED <<content, base, state, scratch, rebuild, history, counts>>
Score ==
    /\ search.at = "skipping"
    /\ search' = [search EXCEPT !.at = "scored",
                    !.hits = {d \in Docs \ search.skip : <<search.term, d>> \in base}]
    /\ UNCHANGED <<content, base, state, scratch, rebuild, history, counts>>
ReturnHits ==
    /\ search.at = "scored"
    /\ search' = Resting
    /\ UNCHANGED <<content, base, state, scratch, rebuild, history, counts>>

GramNext ==
    \/ \E t \in DocTexts : Insert(t) \/ \E d \in Docs : Update(d, t)
    \/ \E d \in Docs : Delete(d)
    \/ \E r \in Rebuilders : BeginRebuild(r) \/ RebuildStep(r) \/ Crash(r)
    \/ \E g \in Grams : AdmitSearch(g)
    \/ Skip \/ Score \/ ReturnHits

GramSpec == GramInit /\ [][GramNext]_gramVars

\* A dirty base is due after an hour at most, a missing one at once: the sweep
\* of every fifteen minutes starts a rebuild, and a rebuild that started ends
\* or raises.
Due(r) == /\ \/ state \in {Missing, 0} /\ Live # {}
             \/ dirty \cap Live # {}
          /\ BeginRebuild(r)
GramFairness == \A r \in Rebuilders : WF_gramVars(Due(r)) /\ WF_gramVars(RebuildStep(r))
GramFairSpec == GramSpec /\ GramFairness

-----------------------------------------------------------------------------
(* Correctness.                                                            *)

\* While the index reports itself usable it is exact: every live document has
\* the postings of its text now, and what the base still holds of a deleted
\* one is skipped, however writes fell between the batches of a rebuild.
UsableIsExact ==
    GramUsable => \A d \in Docs \ dirty :
                  {p \in base : p[2] = d} = IF d \in Live THEN PostingsOf(d, docs[d]) ELSE {}

\* A search that was admitted answers with documents that had the term since,
\* and with all that had it and were not written, although it reads without a
\* snapshot while documents are written and a base is published; unless it met
\* a base of overlapping rebuilds.
AnswersHold ==
    search.at = "scored" /\ ~search.mixed =>
        /\ search.hits \cap Live \subseteq search.had
        /\ search.kept \subseteq search.hits

\* A base that no overlapping rebuild published is exact while it is usable:
\* also after one that was mixed, and although other rebuilds begin, meet, fall
\* over each other's tables and stop.
GramIsExact == (~mixed => UsableIsExact) /\ AnswersHold

\* The indexed path comes back: no stopped rebuild and no write in the middle
\* of one leaves the markers for ever.
GramSettled == Live # {} => GramUsable
=============================================================================
