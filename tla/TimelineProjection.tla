------------------------- MODULE TimelineProjection -------------------------
(***************************************************************************)
(* The table timeline_events of vector_lake (tool_timeline): one row for   *)
(* each timeline claim, written with the claim in one transaction, rebuilt *)
(* or repaired by passes that read first and write later, and read by      *)
(* searches that trust it as long as a cached comparison of the two tables *)
(* says that they agree.                                                   *)
(***************************************************************************)
EXTENDS Naturals, FiniteSets

CONSTANTS
    TimelineClaims,  \* timeline claims; one page each
    Wordings,        \* date and text of a claim: what its event id is a hash of
    Rank,            \* the order of event ids: <<claim, wording>> -> Nat
    Searchers,       \* processes that search
    Keepers,         \* processes that rebuild or repair
    MaxRewrites,
    NoClaim

\* NoClaim is no wording.
ASSUME TimelineAssumption == NoClaim \notin Wordings

VARIABLES
    wording,    \* claim -> its wording in the table claims, or NoClaim
    rowid,      \* claim -> its rowid
    event,      \* event id -> "none", "legacy" (no claim_id) or "full": the table
    memo,       \* searcher -> its _PARITY_CACHE
    parity,     \* timeline_parity_state.json
    task,       \* searcher or keeper -> what it does
    overtaken,  \* history: a pass wrote although the claims it had read were rewritten
    rewrites

timelineVars == <<wording, rowid, event, memo, parity, task, overtaken, rewrites>>

Events == TimelineClaims \X Wordings
Live == {c \in TimelineClaims : wording[c] # NoClaim}
Claimed == {<<c, wording[c]>> : c \in Live}
Actual == {e \in Events : event[e] # "none"}

NoPrint == [claims |-> <<0, 0>>, events |-> <<0, {}>>]
NoProof == [print |-> NoPrint, known |-> FALSE, agrees |-> FALSE]
Rest == [at |-> "rest", print |-> NoPrint, rows |-> {}, actual |-> {}]

\* Tables in parity, whose rows may be older than their column claim_id.
TimelineInit ==
    /\ wording \in [TimelineClaims -> Wordings \cup {NoClaim}]
    /\ rowid \in [TimelineClaims -> 1 .. Cardinality(TimelineClaims)]
    /\ \A c, d \in TimelineClaims : c # d => rowid[c] # rowid[d]
    /\ \E old \in SUBSET Claimed :
         event = [e \in Events |-> IF e \in old THEN "legacy"
                                   ELSE IF e \in Claimed THEN "full" ELSE "none"]
    /\ memo = [p \in Searchers |-> NoProof] /\ parity = NoProof
    /\ task = [p \in Searchers \cup Keepers |-> Rest]
    /\ overtaken = FALSE /\ rewrites = 0
-----------------------------------------------------------------------------
(* Writers of claims.                                                      *)

\* INSERT gives the rowid above all that are in use.
Highest(set) == IF set = {} THEN 0
                ELSE rowid[CHOOSE c \in set : \A d \in set : rowid[c] >= rowid[d]]

(* As if rows without claim_id were not looked for.                        *)
Ours_Full(c) == {e \in Events : c \in Live /\ e[1] = c /\ event[e] = "full"}

\* The rows of a claim that is in the table claims: only those are looked for.
Ours(c) ==
    {e \in Events : c \in Live /\ e[1] = c /\ (event[e] = "full" \/ e[2] = wording[c])}
Cleared(c) == [e \in Events |-> IF e \in Ours(c) THEN "none" ELSE event[e]]

(* As if the rows were only deleted by the id that the claim gives now.    *)
Synced_ById(c, w) ==
    [e \in Events |-> IF e = <<c, w>> THEN "full"
                      ELSE IF e = <<c, wording[c]>> THEN "none" ELSE event[e]]

\* sync_timeline_events_for_claim_delta: rows go by claim_id, and those
\* without one by the recomputed id.
Synced(c, w) == [Cleared(c) EXCEPT ![<<c, w>>] = "full"]

\* Both caches that this process can reach are dropped; readers have others.
Invalidated == parity' = NoProof

\* A page is rewritten (its claims are deleted and inserted again) or removed.
RewriteClaim(c) ==
    /\ rewrites < MaxRewrites /\ rewrites' = rewrites + 1
    /\ \/ \E w \in Wordings :
            /\ wording' = [wording EXCEPT ![c] = w]
            /\ rowid' = [rowid EXCEPT ![c] = Highest(Live \ {c}) + 1]
            /\ event' = Synced(c, w)
       \/ /\ c \in Live
          /\ wording' = [wording EXCEPT ![c] = NoClaim]
          /\ event' = Cleared(c)
          /\ UNCHANGED rowid
    /\ Invalidated
    /\ UNCHANGED <<memo, task, overtaken>>
-----------------------------------------------------------------------------
(* Passes over the whole table. They read outside of the transaction in    *)
(* which they write.                                                       *)

PassReads(k) ==
    /\ task[k].at = "rest"
    /\ \E at \in {"rebuild", "repair"} :
         task' = [task EXCEPT ![k] =
                    [at |-> at, print |-> NoPrint, rows |-> Claimed, actual |-> Actual]]
    /\ UNCHANGED <<wording, rowid, event, memo, parity, overtaken, rewrites>>

\* The ids that a repair found without a claim of that wording are deleted,
\* the missing ones inserted, and legacy rows completed in place.
Repaired(k) ==
    [e \in Events |->
        IF e \in task[k].rows
        THEN IF e \notin task[k].actual \/ event[e] # "none" THEN "full" ELSE "none"
        ELSE IF e \in task[k].actual THEN "none" ELSE event[e]]
Rebuilt(k) == [e \in Events |-> IF e \in task[k].rows THEN "full" ELSE "none"]

PassWrites(k) ==
    /\ task[k].at \in {"rebuild", "repair"}
    /\ event' = IF task[k].at = "repair" THEN Repaired(k) ELSE Rebuilt(k)
    /\ overtaken' = (overtaken \/ task[k].rows # Claimed)
    /\ task' = [task EXCEPT ![k] = Rest]
    /\ Invalidated
    /\ UNCHANGED <<wording, rowid, memo, rewrites>>

PassStops(k) ==
    /\ task[k].at # "rest"
    /\ task' = [task EXCEPT ![k] = Rest]
    /\ UNCHANGED <<wording, rowid, event, memo, parity, overtaken, rewrites>>
-----------------------------------------------------------------------------
(* search_timeline_events and timeline_projection_parity. Every SELECT is  *)
(* a step of its own.                                                      *)

Heads(p, at) == task' = [task EXCEPT ![p] = [Rest EXCEPT !.at = at]]

\* _timeline_claims_fingerprint: how many timeline claims and their highest
\* rowid; how many events and their first and last id.
ClaimsPrint == <<Cardinality(Live), Highest(Live)>>
Extremes == {e \in Actual : \/ \A f \in Actual : Rank[e] <= Rank[f]
                            \/ \A f \in Actual : Rank[e] >= Rank[f]}
EventsPrint == <<Cardinality(Actual), Extremes>>

ReadClaimsPrint(p) ==
    /\ task[p].at = "rest"
    /\ task' = [task EXCEPT ![p].at = "print", ![p].print.claims = ClaimsPrint]
    /\ UNCHANGED <<wording, rowid, event, memo, parity, overtaken, rewrites>>

ReadEventsPrint(p) ==
    /\ task[p].at = "print"
    /\ task' = [task EXCEPT ![p].at = "lookup", ![p].print.events = EventsPrint]
    /\ UNCHANGED <<wording, rowid, event, memo, parity, overtaken, rewrites>>

Serves(proof, p) == proof.known /\ proof.print = task[p].print
Served(proof) == IF proof.agrees THEN "table" ELSE "claims"

\* The proof of this process, then the one on disk, then a new one, whose
\* first half are the claims.
Lookup(p) ==
    /\ task[p].at = "lookup"
    /\ \/ Serves(memo[p], p) /\ Heads(p, Served(memo[p])) /\ UNCHANGED memo
       \/ /\ ~Serves(memo[p], p) /\ Serves(parity, p)
          /\ memo' = [memo EXCEPT ![p] = parity]
          /\ Heads(p, Served(parity))
       \/ /\ ~Serves(memo[p], p) /\ ~Serves(parity, p)
          /\ task' = [task EXCEPT ![p].at = "compare", ![p].rows = Claimed]
          /\ UNCHANGED memo
    /\ UNCHANGED <<wording, rowid, event, parity, overtaken, rewrites>>

\* The second half of the comparison; the file is written when it can be.
\* An empty table never serves.
Compare(p) ==
    LET proof == [print |-> task[p].print, known |-> TRUE,
                  agrees |-> Actual # {} /\ task[p].rows = Actual]
    IN /\ task[p].at = "compare"
       /\ memo' = [memo EXCEPT ![p] = proof]
       /\ parity' \in {parity, proof}
       /\ Heads(p, Served(proof))
       /\ UNCHANGED <<wording, rowid, event, overtaken, rewrites>>

\* From the table when the proof holds, else from the claims, and marked so.
Answer(p) ==
    /\ task[p].at \in {"table", "claims"}
    /\ task' = [task EXCEPT ![p] = Rest]
    /\ UNCHANGED <<wording, rowid, event, memo, parity, overtaken, rewrites>>
-----------------------------------------------------------------------------
TimelineNext ==
    \/ \E c \in TimelineClaims : RewriteClaim(c)
    \/ \E k \in Keepers : PassReads(k) \/ PassWrites(k) \/ PassStops(k)
    \/ \E p \in Searchers :
         \/ ReadClaimsPrint(p) \/ ReadEventsPrint(p) \/ Lookup(p) \/ Compare(p)
         \/ Answer(p)

TimelineSpec == TimelineInit /\ [][TimelineNext]_timelineVars
-----------------------------------------------------------------------------
(* As long as no pass wrote what it had read before a rewrite, the table   *)
(* is what the claims say, rows of earlier releases included.              *)
TimelineFollows == ~overtaken => Actual = Claimed

(* A rewrite of a claim that was in the table heals its rows, whatever a   *)
(* pass left of them, rows without claim_id excepted; a rebuild that nobody*)
(* overtook heals the whole table.                                         *)
TimelineStep ==
    /\ \A c \in TimelineClaims :
         /\ rewrites' # rewrites /\ wording[c] # NoClaim
         /\ <<wording[c], rowid[c]>> # <<wording'[c], rowid'[c]>>
         => \A w \in Wordings : event'[<<c, w>>] = "full" => wording'[c] = w
    /\ \A k \in Keepers :
         task[k].at = "rebuild" /\ task'[k].at = "rest" /\ event' # event
             /\ task[k].rows = Claimed => Actual' = Claimed

(* "Anything that can change the id sets moves one of those numbers,       *)
(* including writes made by another process, so the cache cannot silently  *)
(* go stale" (tool_timeline.py): a remembered agreement whose numbers are  *)
(* those of the tables is still true.                                      *)
CacheIsTrue ==
    \A p \in Searchers :
        memo[p].agrees /\ memo[p].print = [claims |-> ClaimsPrint, events |-> EventsPrint]
            => Actual = Claimed
=============================================================================
