------------------------------ MODULE RawScan -------------------------------
(***************************************************************************)
(* The scan of the raw directory (tool_ingest.prepare_ingest_batch), the   *)
(* in-flight markers that keep two scans off one source, and the sweep     *)
(* that releases markers with no job behind them                           *)
(* (reconcile_ingest_in_flight), over the job table of JobTable.           *)
(*                                                                         *)
(* A scan reads the ledger, the markers and the abandoned contents one     *)
(* after the other, then walks the files and decides for each from what it *)
(* read; jobs, markers, pages and files go on changing meanwhile.  Several *)
(* scans may run at once (raw watcher, periodic catch-up, MCP tool).       *)
(*                                                                         *)
(* A marker is young for grace_seconds and then old; after the TTL every   *)
(* reader ignores it, which is the same as its being gone.                 *)
(***************************************************************************)
EXTENDS JobTable, FiniteSets

CONSTANTS
    Scans,      \* processes that run prepare_ingest_batch
    BatchSize,  \* batch_size
    MaxUpsets   \* bound: edits, crashes, failures, operator commands

ASSUME RawScanAssumption == BatchSize \in Nat \ {0} /\ MaxUpsets \in Nat

Unread == [p \in Paths |-> EmptyHash]  \* a publication index not built yet

VARIABLES
    page,      \* stamped hash of the Source page that declares each path
    mark,      \* in-flight ledger: processing.json
    scan,      \* what each scan has read and found
    sweep,     \* what the sweep has read
    clears,    \* finalizers that committed and have not cleared their marker
    upsets,
    misrecorded \* history: contents a scan recorded that no page was made from

scanVars == <<page, mark, scan, sweep, clears, upsets, misrecorded>>
vars     == <<job, raw, ledger, abandoned, page, mark, scan, sweep, clears,
              upsets, misrecorded>>

IdleScan  == [phase |-> "idle", seen |-> Unread, marked |-> {}, given |-> {},
              pages |-> Unread, todo |-> {}, pending |-> {}, hash |-> EmptyHash]
IdleSweep == [phase |-> "idle", old |-> {}]

\* n upsets have happened.
InitWith(n) ==
    /\ TableInit
    /\ page \in [Paths -> Hashes \cup {NoHash}]
    /\ mark = [p \in Paths |-> "none"]
    /\ scan = [s \in Scans |-> IdleScan]
    /\ sweep = IdleSweep
    /\ clears = {}
    /\ upsets = n
    /\ misrecorded = {}

Init == InitWith(0)

Upset == upsets < MaxUpsets /\ upsets' = upsets + 1

PathsOf(C)   == {c[1] : c \in C}
Marked       == {p \in Paths : mark[p] # "none"}
Unmarked(S)  == [p \in Paths |-> IF p \in S THEN "none" ELSE mark[p]]

-----------------------------------------------------------------------------
(* prepare_ingest_batch                                                    *)

ScanLedger(s) ==
    /\ scan[s].phase = "idle"
    /\ scan' = [scan EXCEPT ![s] = [IdleScan EXCEPT !.phase = "marks",
                                                    !.seen = ledger]]
    /\ UNCHANGED <<tableVars, page, mark, sweep, clears, upsets, misrecorded>>

ScanMarks(s) ==
    /\ scan[s].phase = "marks"
    /\ scan' = [scan EXCEPT ![s].phase = "abandoned", ![s].marked = Marked]
    /\ UNCHANGED <<tableVars, page, mark, sweep, clears, upsets, misrecorded>>

ScanAbandoned(s) ==
    /\ scan[s].phase = "abandoned"
    /\ scan' = [scan EXCEPT ![s].phase = "walk", ![s].given = abandoned,
                            ![s].todo = Paths]
    /\ UNCHANGED <<tableVars, page, mark, sweep, clears, upsets, misrecorded>>

\* The publication index is built once, at the first file without a row.
IndexOf(s, p) ==
    IF scan[s].pages = Unread /\ scan[s].seen[p] = NoHash
    THEN page ELSE scan[s].pages

\* Operators with a suffix after an underscore are faulty variants of the
\* definition they precede; no specification uses them.

Wanted_SkipsPublished(s, p, index) ==
    IF scan[s].seen[p] # NoHash THEN raw[p] # scan[s].seen[p]
                                ELSE index[p] = NoHash

\* What the file now holds was neither processed nor published.
Wanted(s, p, index) ==
    IF scan[s].seen[p] # NoHash THEN raw[p] # scan[s].seen[p]
                                ELSE raw[p] # index[p]

GivenUp_Never(s, c) == FALSE

GivenUp(s, c) == c \in scan[s].given

\* One file of the walk: skipped, pending, or (published as it is, without a
\* ledger row) to be recorded.
ScanFile(s, p) ==
    LET c       == <<p, raw[p]>>
        index   == IndexOf(s, p)
        present == raw[p] # NoHash
        visible == present /\ p \notin scan[s].marked
        wanted  == visible /\ Wanted(s, p, index) /\ ~GivenUp(s, c)
        record  == /\ visible
                   /\ scan[s].seen[p] = NoHash /\ raw[p] = index[p]
    IN
    /\ scan[s].phase = "walk"
    /\ p \in scan[s].todo
    /\ scan' = [scan EXCEPT ![s].pages = IF visible THEN index ELSE @,
                            ![s].todo = IF record THEN @ ELSE @ \ {p},
                            ![s].phase = IF record THEN "record" ELSE @,
                            ![s].pending = IF wanted THEN @ \cup {c} ELSE @]
    /\ UNCHANGED <<tableVars, page, mark, sweep, clears, upsets, misrecorded>>

\* calculate_hash(filepath): the file is hashed once more, after the verdict.
ScanHash(s, p) ==
    /\ scan[s].phase = "record"
    /\ p \in scan[s].todo
    /\ scan[s].pages[p] # NoHash
    /\ scan' = [scan EXCEPT ![s].phase = "write",
                            ![s].hash = IF raw[p] = NoHash THEN EmptyHash
                                                           ELSE raw[p]]
    /\ UNCHANGED <<tableVars, page, mark, sweep, clears, upsets, misrecorded>>

\* mark_file_processed with that hash: whatever page there is by now.
ScanRecord(s, p) ==
    LET h == scan[s].hash IN
    /\ scan[s].phase = "write"
    /\ p \in scan[s].todo
    /\ scan[s].pages[p] # NoHash
    /\ Recorded(p, h)
    /\ misrecorded' = IF h \in {page[p], EmptyHash} THEN misrecorded
                                                   ELSE misrecorded \cup {<<p, h>>}
    /\ scan' = [scan EXCEPT ![s].phase = "walk", ![s].todo = @ \ {p},
                            ![s].hash = EmptyHash]
    /\ UNCHANGED <<page, mark, sweep, clears, upsets>>

\* The first batch_size pending files are marked before any is enqueued.
ScanMark(s) ==
    /\ scan[s].phase = "walk"
    /\ scan[s].todo = {}
    /\ scan[s].pending # {}
    /\ \E batch \in SUBSET scan[s].pending :
          /\ Cardinality(batch) = IF Cardinality(scan[s].pending) < BatchSize
                                  THEN Cardinality(scan[s].pending) ELSE BatchSize
          /\ mark' = [p \in Paths |-> IF p \in PathsOf(batch) THEN "young"
                                                              ELSE mark[p]]
          /\ scan' = [scan EXCEPT ![s] = [IdleScan EXCEPT !.phase = "enqueue",
                                                          !.pending = batch]]
    /\ UNCHANGED <<tableVars, page, sweep, clears, upsets, misrecorded>>

ScanEnqueue(s, c) ==
    /\ scan[s].phase = "enqueue"
    /\ c \in scan[s].pending
    /\ Enqueued(c)
    /\ scan' = [scan EXCEPT ![s].pending = @ \ {c}]
    /\ UNCHANGED <<page, mark, sweep, clears, upsets, misrecorded>>

\* Building the prompt or enqueueing raises: the batch is left, and whatever
\* was not enqueued loses its marker again.
ScanFails(s) ==
    /\ scan[s].phase = "enqueue"
    /\ scan[s].pending # {}
    /\ Upset
    /\ mark' = Unmarked(PathsOf(scan[s].pending))
    /\ scan' = [scan EXCEPT ![s] = IdleScan]
    /\ UNCHANGED <<tableVars, page, sweep, clears, misrecorded>>

ScanEnds(s) ==
    /\ scan[s].phase \in {"walk", "enqueue"}
    /\ scan[s].todo = {}
    /\ scan[s].pending = {}
    /\ scan' = [scan EXCEPT ![s] = IdleScan]
    /\ UNCHANGED <<tableVars, page, mark, sweep, clears, upsets, misrecorded>>

ScanCrash(s) ==
    /\ scan[s].phase # "idle"
    /\ Upset
    /\ scan' = [scan EXCEPT ![s] = IdleScan]
    /\ UNCHANGED <<tableVars, page, mark, sweep, clears, misrecorded>>

ScanStep(s) ==
    \/ ScanLedger(s) \/ ScanMarks(s) \/ ScanAbandoned(s)
    \/ \E p \in Paths : ScanFile(s, p) \/ ScanHash(s, p) \/ ScanRecord(s, p)
    \/ ScanMark(s)
    \/ \E c \in Contents : ScanEnqueue(s, c)
    \/ ScanEnds(s)

-----------------------------------------------------------------------------
(* reconcile_ingest_in_flight                                              *)

\* The pipeline will still act on a job of the path.
Active(p) == \E c \in Contents : c[1] = p /\ job[c].st \in {"live", "failed"}

SweepLoad ==
    /\ sweep.phase = "idle"
    /\ Marked # {}
    /\ sweep' = [phase |-> "query", old |-> {p \in Paths : mark[p] = "old"}]
    /\ UNCHANGED <<tableVars, page, mark, scan, clears, upsets, misrecorded>>

\* The query without its bound on retries.
SweepQuery_CountsSpent ==
    /\ sweep.phase = "query"
    /\ sweep' = [phase |-> "clear",
                 old |-> {p \in sweep.old : ~Active(p)
                            /\ \A c \in Contents : c[1] = p => job[c].st # "spent"}]
    /\ UNCHANGED <<tableVars, page, mark, scan, clears, upsets, misrecorded>>

SweepQuery ==
    /\ sweep.phase = "query"
    /\ sweep' = [phase |-> "clear", old |-> {p \in sweep.old : ~Active(p)}]
    /\ UNCHANGED <<tableVars, page, mark, scan, clears, upsets, misrecorded>>

\* _clear_ingest_in_flight takes away whatever marker the path has by now.
SweepClear(p) ==
    /\ sweep.phase = "clear"
    /\ p \in sweep.old
    /\ mark' = Unmarked({p})
    /\ sweep' = [sweep EXCEPT !.old = @ \ {p}]
    /\ UNCHANGED <<tableVars, page, scan, clears, upsets, misrecorded>>

SweepEnds ==
    /\ sweep.phase = "clear"
    /\ sweep.old = {}
    /\ sweep' = IdleSweep
    /\ UNCHANGED <<tableVars, page, mark, scan, clears, upsets, misrecorded>>

SweepStep == \/ SweepLoad \/ SweepQuery \/ SweepEnds
             \/ \E p \in Paths : SweepClear(p)

-----------------------------------------------------------------------------
(* The rest of the pipeline, as JobTable sees it.                          *)

\* finalize_ingest: the Source page is stamped with the hash it was compiled
\* from; the marker is cleared after the commit.
Accept(c) ==
    /\ Accepted(c)
    /\ page' = [page EXCEPT ![c[1]] = c[2]]
    /\ clears' = clears \cup {c[1]}
    /\ UNCHANGED <<mark, scan, sweep, upsets, misrecorded>>

ClearMark(p) ==
    /\ p \in clears
    /\ mark' = Unmarked({p})
    /\ clears' = clears \ {p}
    /\ UNCHANGED <<tableVars, page, scan, sweep, upsets, misrecorded>>

\* A crash after the commit, or a marker file that cannot be written.
ClearFails(p) ==
    /\ p \in clears
    /\ Upset
    /\ clears' = clears \ {p}
    /\ UNCHANGED <<tableVars, page, mark, scan, sweep, misrecorded>>

\* record_ingest_failure
Reject(c) ==
    /\ Rejected(c)
    /\ UNCHANGED <<page, mark, scan, sweep, clears, upsets, misrecorded>>

\* A dispatch that finds the file changed fails by itself; other dispatches
\* fail, and packets expire, by mischance.
DispatchFails(c) ==
    /\ AttemptsLost({c})
    /\ IF raw[c[1]] = c[2] THEN Upset ELSE UNCHANGED upsets
    /\ UNCHANGED <<page, mark, scan, sweep, clears, misrecorded>>

Retry(c) ==
    /\ Retried(c)
    /\ UNCHANGED scanVars

\* release_job_for_retry: nothing bounds how often.
Defer(c) ==
    /\ Deferred(c)
    /\ UNCHANGED scanVars

CloseTerminalFailed ==
    /\ Closed
    /\ job' # job
    /\ Upset
    /\ UNCHANGED <<page, mark, scan, sweep, clears, misrecorded>>

ClearAbandoned(p) ==
    /\ p \in PathsOf(abandoned)
    /\ Cleared(p)
    /\ Upset
    /\ UNCHANGED <<page, mark, scan, sweep, clears, misrecorded>>

Edit(p, h) ==
    /\ raw[p] # h
    /\ Edited(p, h)
    /\ Upset
    /\ UNCHANGED <<page, mark, scan, sweep, clears, misrecorded>>

MarkAges(p) ==
    /\ mark[p] = "young"
    /\ mark' = [mark EXCEPT ![p] = "old"]
    /\ UNCHANGED <<tableVars, page, scan, sweep, clears, upsets, misrecorded>>

\* INGEST_IN_FLIGHT_TTL_SECONDS
MarkExpires(p) ==
    /\ mark[p] = "old"
    /\ Upset
    /\ mark' = Unmarked({p})
    /\ UNCHANGED <<tableVars, page, scan, sweep, clears, misrecorded>>

\* Every step but a rejection.
OtherStep ==
    \/ \E s \in Scans : ScanStep(s) \/ ScanFails(s) \/ ScanCrash(s)
    \/ SweepStep
    \/ \E c \in Contents : Accept(c) \/ DispatchFails(c) \/ Retry(c) \/ Defer(c)
    \/ CloseTerminalFailed
    \/ \E p \in Paths : \/ ClearMark(p) \/ ClearFails(p) \/ ClearAbandoned(p)
                        \/ MarkAges(p) \/ MarkExpires(p)
                        \/ \E h \in Hashes \cup {NoHash} : Edit(p, h)

Next == OtherStep \/ \E c \in Contents : Reject(c)

Spec == Init /\ [][Next]_vars

\* catch_up_loop sweeps and scans again and again; a job in the pipeline is
\* answered somehow, be it only by giving the attempt back, and a failed one
\* is dispatched again; markers grow old.  Nothing relies on the expiry of a
\* marker, or on a verdict of the model.
Answered(c) == Accept(c) \/ Reject(c) \/ DispatchFails(c) \/ Defer(c)

Fairness ==
    /\ \A s \in Scans : WF_vars(ScanStep(s))
    /\ WF_vars(SweepStep)
    /\ \A c \in Contents : /\ WF_vars(Answered(c))
                           /\ WF_vars(Retry(c))
    /\ \A p \in Paths : WF_vars(MarkAges(p))

FairSpec == Spec /\ Fairness

-----------------------------------------------------------------------------
(* Correctness.                                                            *)

\* Type invariant of the markers and of what scans and the sweep remember.
TypeOK ==
    /\ job \in [Contents -> Job]
    /\ raw \in [Paths -> Hashes \cup {NoHash}]
    /\ ledger \in [Paths -> Hashes \cup {NoHash, EmptyHash}]
    /\ abandoned \in SUBSET Contents
    /\ page \in [Paths -> Hashes \cup {NoHash}]
    /\ mark \in [Paths -> {"none", "young", "old"}]
    /\ scan \in [Scans -> [phase   : {"idle", "marks", "abandoned", "walk",
                                      "record", "write", "enqueue"},
                           seen    : [Paths -> Hashes \cup {NoHash, EmptyHash}],
                           marked  : SUBSET Paths,
                           given   : SUBSET Contents,
                           pages   : [Paths -> Hashes \cup {NoHash, EmptyHash}],
                           todo    : SUBSET Paths,
                           pending : SUBSET Contents,
                           hash    : Hashes \cup {EmptyHash}]]
    /\ sweep \in [phase : {"idle", "query", "clear"}, old : SUBSET Paths]
    /\ clears \in SUBSET Paths
    /\ upsets \in 0..MaxUpsets
    /\ misrecorded \in SUBSET Contents

\* No source is forgotten: what a file holds is in the end what its Source
\* page was made from, or given up, or left to an operator who closed its
\* job, whatever stale view a scan decided on and whichever marker was left
\* behind.  Two ways out are the code's own: a job of the file is given back
\* again and again, or a scan recorded the content as processed although no
\* page was made from it (the file changed between verdict and second hash).
Handled(p) == \/ raw[p] \in {page[p], NoHash}
              \/ <<p, raw[p]>> \in abandoned
              \/ job[<<p, raw[p]>>].st = "dead"
              \/ <<p, raw[p]>> \in misrecorded
DeferredForEver(c) == []<><<Defer(c)>>_vars
EverySourceIsHandled ==
    \A p \in Paths : \/ []<>Handled(p)
                     \/ \E h \in Hashes : DeferredForEver(<<p, h>>)

\* A marker without a job behind it is a transient state, never a stuck one
\* (the promise of reconcile_ingest_in_flight).
MarkersAreReleased == \A p \in Paths : []<>(mark[p] = "none" \/ Active(p))

\* A content that stays abandoned leaves the pipeline for good: a scan that
\* looked before it was given up may dispatch it once more, not for ever,
\* unless that one dispatch is given back again and again.
AbandonedStops ==
    \A c \in Contents :
        <>[](c \in abandoned) => \/ <>[](job[c].st \notin {"live", "failed"})
                                \/ DeferredForEver(c)
=============================================================================
