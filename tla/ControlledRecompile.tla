------------------------- MODULE ControlledRecompile -------------------------
(***************************************************************************)
(* Recompilation of sources that an operator has approved                  *)
(* (controlled_recompile): a plan freezes what the raw files and the       *)
(* ledger hold, a request is bound to the plan by its identity, and jobs   *)
(* are handed out in batches, while files, pages, the ledger and ordinary  *)
(* jobs go on.  validate_marker is asked at every handoff and again when   *)
(* the result is committed.                                                *)
(***************************************************************************)
EXTENDS Naturals, FiniteSets

CONSTANTS
    Planned,             \* sources, numbered in the order of the plan
    RawVersions,         \* what a raw file may hold
    Scopes,              \* plans with their approval
    RequestId,           \* the request id each approval names
    MaxAttempts,         \* MAX_INGEST_ATTEMPTS
    MaxRecompileUpsets,  \* bound: what others do
    NoScope

VARIABLES
    bytes,       \* source -> what the file holds
    processed,   \* source -> processed_files
    page,        \* source -> its Source page: version, stamp and ownership
    plan,        \* scope -> what was frozen
    request,     \* request id -> the scope it is bound to, and whether it stands
    deferred,    \* request id -> sources registered as deferred
    recompiles,  \* request id -> source -> its job
    native,      \* sources with unfinished ordinary jobs
    recompileUpsets

recompileVars == <<bytes, processed, page, plan, request, deferred, recompiles, native,
                   recompileUpsets>>

\* Hashes are numbers, 0 being that of nothing.
ASSUME RecompileAssumption ==
    /\ 1 \in RawVersions /\ RawVersions \subseteq Nat /\ MaxAttempts \in Nat
    /\ NoScope \notin Scopes /\ IsFiniteSet(Scopes)

RequestIds == {RequestId[c] : c \in Scopes}
NoPlan == [raw |-> [s \in Planned |-> 0], ledger |-> [s \in Planned |-> 0]]
NoRecompile == [status |-> "none", retries |-> 0, hash |-> 0, base |-> 0]
FirstPage(owner) == [version |-> 1, stamp |-> 0, owner |-> owner]

\* Some Source pages of earlier releases do not say whose they are.
RecompileInit ==
    /\ bytes = [s \in Planned |-> 1] /\ processed = [s \in Planned |-> 0]
    /\ page \in [Planned -> {FirstPage("proven"), FirstPage("unproven")}]
    /\ plan = [c \in Scopes |-> NoPlan]
    /\ request = [i \in RequestIds |-> [scope |-> NoScope, stands |-> FALSE]]
    /\ deferred = [i \in RequestIds |-> {}]
    /\ recompiles = [i \in RequestIds |-> [s \in Planned |-> NoRecompile]]
    /\ native = {} /\ recompileUpsets = 0

RecompileUpset == recompileUpsets < MaxRecompileUpsets /\ recompileUpsets' = recompileUpsets + 1
-----------------------------------------------------------------------------
(* What a handoff and a commit ask.                                        *)

Approved(i) == plan[request[i].scope]

\* current_version_proven: the page proves that these bytes were compiled.
Proven(s) == page[s].stamp = bytes[s] /\ page[s].owner = "proven"

\* _check_source_state
SameState(p, s) == processed[s] = p.ledger[s] /\ ~Proven(s)

(* As if the marker only bound the source to the request.                  *)
Valid_Marker(i, s, base) == request[i].stands /\ s \notin deferred[i]

\* validate_marker: the request, the deferral, the ledger, the bytes, who owns
\* the Source page and its version.
Valid(i, s, base) ==
    /\ request[i].stands /\ s \notin deferred[i]
    /\ SameState(Approved(i), s)
    /\ bytes[s] = Approved(i).raw[s]
    /\ page[s].owner = "proven"
    /\ page[s].version = base

Unfinished == {"queued", "awaiting", "processing"}
Active(j) == j.status \in Unfinished \/ (j.status = "failed" /\ j.retries < MaxAttempts)

OtherWork(i, s) == s \in native \/ \E k \in RequestIds \ {i} : Active(recompiles[k][s])

\* The attempts that any request made at a content.
Attempts(s, hash) ==
    UNION {{k} \X (1 .. recompiles[k][s].retries) :
             k \in {i \in RequestIds : recompiles[i][s].hash = hash}}

\* Changing the identity of the request does not reset the budget of a content.
Spent(s, hash) == Cardinality(Attempts(s, hash))

(* As if every request had a budget of its own.                            *)
Skipped_ByRequest(i, s, hash) ==
    \/ s \in deferred[i] \/ recompiles[i][s].status \notin {"none", "failed", "queued"}
    \/ recompiles[i][s].retries >= MaxAttempts

\* Handed out, finished, or without attempts.
Skipped(i, s, hash) ==
    \/ s \in deferred[i] \/ recompiles[i][s].status \notin {"none", "failed", "queued"}
    \/ recompiles[i][s].retries >= MaxAttempts
    \/ ~OtherWork(i, s) /\ Spent(s, hash) >= MaxAttempts
-----------------------------------------------------------------------------
(* The operator's entry.                                                   *)

Freeze(c) ==
    /\ plan[c] = NoPlan
    /\ plan' = [plan EXCEPT ![c] = [raw |-> bytes, ledger |-> processed]]
    /\ UNCHANGED <<bytes, processed, page, request, deferred, recompiles, native, recompileUpsets>>

\* The identity is bound to one scope for ever; a revoked one is refused.
Binds(c) ==
    LET i == RequestId[c]
    IN /\ plan[c] # NoPlan
       /\ \/ request[i].scope = NoScope
          \/ request[i].scope = c /\ request[i].stands
       /\ request' = [request EXCEPT ![i] = [scope |-> c, stands |-> TRUE]]

(* As if a retry took a new baseline.                                      *)
Base_Now(i, s) == page[s].version

\* What the Source page was when the job was first handed out.
Base(i, s) == IF recompiles[i][s].status = "none" THEN page[s].version ELSE recompiles[i][s].base

\* A retry keeps the baseline and the attempts of its first handoff.
Handed(i, s, p) ==
    [recompiles[i][s] EXCEPT !.status = "awaiting", !.hash = p.raw[s], !.base = Base(i, s)]

\* dispatch_scope hands out the first so many in the order of the plan; one
\* that fails its checks undoes them all.
Dispatch(c, n) ==
    LET i == RequestId[c]
        p == plan[c]
        open == {s \in Planned : ~Skipped(i, s, p.raw[s])}
        batch == {s \in open : Cardinality({r \in open : r < s}) < n}
    IN /\ Binds(c)
       /\ \A s \in batch :
            /\ ~OtherWork(i, s)
            /\ s \notin deferred[i] /\ SameState(p, s) /\ bytes[s] = p.raw[s]
            /\ page[s].owner = "proven" /\ page[s].version = Base(i, s)
       /\ recompiles' = [recompiles EXCEPT ![i] =
                            [s \in Planned |-> IF s \in batch THEN Handed(i, s, p) ELSE @[s]]]
       /\ UNCHANGED <<bytes, processed, page, plan, deferred, native, recompileUpsets>>

(* As if work that is handed out did not matter.                           *)
Deferrable_Busy(s) == page[s].owner # "proven" /\ s \notin native

\* A source whose page belongs to nobody may be set aside, without unfinished
\* work for it; not every failed row is over.
Deferrable(s) ==
    /\ page[s].owner # "proven" /\ s \notin native
    /\ \A k \in RequestIds : recompiles[k][s].status \notin Unfinished \cup {"failed"}

Defer(c, s) ==
    LET i == RequestId[c]
    IN /\ Binds(c)
       /\ deferred[i] = {} /\ Deferrable(s)
       /\ SameState(plan[c], s) /\ bytes[s] = plan[c].raw[s]
       /\ deferred' = [deferred EXCEPT ![i] = {s}]
       /\ UNCHANGED <<bytes, processed, page, plan, recompiles, native, recompileUpsets>>

Revoke(i) ==
    /\ request[i].stands /\ RecompileUpset
    /\ request' = [request EXCEPT ![i].stands = FALSE]
    /\ UNCHANGED <<bytes, processed, page, plan, deferred, recompiles, native>>
-----------------------------------------------------------------------------
(* The jobs, and what else happens to the sources.                         *)

Take(i, s) ==
    /\ recompiles[i][s].status = "awaiting"
    /\ recompiles' = [recompiles EXCEPT ![i][s].status = "processing"]
    /\ UNCHANGED <<bytes, processed, page, plan, request, deferred, native, recompileUpsets>>

\* Refused, or its lease ran out.
EndJob(i, s) ==
    /\ recompiles[i][s].status = "processing"
    /\ recompiles' = [recompiles EXCEPT ![i][s].status = "failed", ![i][s].retries = @ + 1]
    /\ UNCHANGED <<bytes, processed, page, plan, request, deferred, native, recompileUpsets>>

Recompiled(s, hash) == [version |-> page[s].version + 1, stamp |-> hash, owner |-> "proven"]

CompleteJob(i, s) ==
    /\ recompiles[i][s].status = "processing" /\ Valid(i, s, recompiles[i][s].base)
    /\ recompiles' = [recompiles EXCEPT ![i][s].status = "finalized"]
    /\ page' = [page EXCEPT ![s] = Recompiled(s, recompiles[i][s].hash)]
    /\ processed' = [processed EXCEPT ![s] = recompiles[i][s].hash]
    /\ UNCHANGED <<bytes, plan, request, deferred, native, recompileUpsets>>

\* Ordinary ingest asks for none of this.
NativeStart(s) ==
    /\ RecompileUpset /\ s \notin native
    /\ native' = native \cup {s}
    /\ UNCHANGED <<bytes, processed, page, plan, request, deferred, recompiles>>

NativeEnd(s) ==
    /\ s \in native /\ native' = native \ {s}
    /\ \/ /\ page' = [page EXCEPT ![s] = Recompiled(s, bytes[s])]
          /\ processed' = [processed EXCEPT ![s] = bytes[s]]
       \/ UNCHANGED <<page, processed>>
    /\ UNCHANGED <<bytes, plan, request, deferred, recompiles, recompileUpsets>>

EditSource(s) ==
    /\ RecompileUpset
    /\ \E v \in RawVersions \ {bytes[s]} : bytes' = [bytes EXCEPT ![s] = v]
    /\ UNCHANGED <<processed, page, plan, request, deferred, recompiles, native>>

\* A hand edit; it may declare whose the page is.
EditPage(s) ==
    /\ RecompileUpset
    /\ \E owner \in {"proven", "unproven"} :
         page' = [page EXCEPT ![s] = [page[s] EXCEPT !.version = @ + 1, !.owner = owner]]
    /\ UNCHANGED <<bytes, processed, plan, request, deferred, recompiles, native>>

RecompileNext ==
    \/ \E c \in Scopes :
         \/ Freeze(c) \/ \E n \in 1 .. Cardinality(Planned) : Dispatch(c, n)
         \/ \E s \in Planned : Defer(c, s)
    \/ \E i \in RequestIds :
         Revoke(i) \/ \E s \in Planned : Take(i, s) \/ EndJob(i, s) \/ CompleteJob(i, s)
    \/ \E s \in Planned : NativeStart(s) \/ NativeEnd(s) \/ EditSource(s) \/ EditPage(s)

RecompileSpec == RecompileInit /\ [][RecompileNext]_recompileVars
-----------------------------------------------------------------------------
\* All requests together spend at most the attempts of a content.
BudgetIsShared == \A s \in Planned, v \in RawVersions : Spent(s, v) <= MaxAttempts

\* A source has one unfinished recompilation at most, and none when deferred.
OneAtATime ==
    \A s \in Planned :
        /\ Cardinality({i \in RequestIds : recompiles[i][s].status \in Unfinished}) <= 1
        /\ \A i \in RequestIds :
             s \in deferred[i] => recompiles[i][s].status \notin Unfinished \cup {"failed"}

RecompileIsSound == BudgetIsShared /\ OneAtATime

\* What is completed is the version that was approved, on the ledger that was
\* approved; nothing is completed for a deferred source or a revoked request.
Completes(i, s) ==
    LET p == plan[request[i].scope]
    IN /\ request[i].stands /\ s \notin deferred[i]
       /\ bytes[s] = p.raw[s] /\ processed[s] = p.ledger[s] /\ ~Proven(s)
       /\ processed'[s] = bytes[s] /\ Proven(s)'

\* An approval never gets a newer Source page to replace than the first.
RecompileStep ==
    \A i \in RequestIds, s \in Planned :
        /\ recompiles[i][s].status # "finalized" /\ recompiles'[i][s].status = "finalized"
             => Completes(i, s)
        /\ recompiles[i][s].status # "none" => recompiles'[i][s].base = recompiles[i][s].base
=============================================================================
