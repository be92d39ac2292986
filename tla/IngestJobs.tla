----------------------------- MODULE IngestJobs -----------------------------
(***************************************************************************)
(* The durable ingest job table (vector_lake/db_store.py), the dispatch    *)
(* worker (ingest_worker.py), the host runner slots                        *)
(* (scripts/ingest_runner.py) and the ledgers a job ends in:               *)
(* processed_files and ingest_abandoned_sources.                           *)
(*                                                                         *)
(* Every action is one SQLite transaction, or one step of a process        *)
(* between two transactions.  Writers are serialised by BEGIN IMMEDIATE,   *)
(* so a transaction is atomic; what a process REMEMBERS between two of its *)
(* transactions (its claim) may be out of date, and that is what the       *)
(* fences of the code are about.                                           *)
(*                                                                         *)
(* Time is abstract: a lease is "live" until LeaseLapses, and a row waits  *)
(* (~due) for available_at until BackoffEnds.  A lease token is drawn      *)
(* afresh at every claim and cleared whenever the lease is, so owner,      *)
(* token and generation together are equal exactly when the generation is  *)
(* equal and a lease is held; a dispatch claim is recognised in the same   *)
(* way by lease_until and updated_at, which here is the number stamp.      *)
(***************************************************************************)
EXTENDS Integers, FiniteSets

CONSTANTS
    Paths,        \* raw source files
    Hashes,       \* the contents a raw file may have
    Workers,      \* dispatch workers (ingest_worker.start_worker)
    Runners,      \* execution slots that lease subagent jobs
    MaxAttempts,  \* MAX_INGEST_ATTEMPTS
    MaxJobs,      \* bound: rows ever inserted into jobs
    MaxClaims,    \* bound: runner leases ever given out of one row
    MaxUpsets     \* bound: environment events (see Upset)

ASSUME AttemptsAssumption == MaxAttempts \in Nat \ {0}
ASSUME BoundsAssumption   == /\ MaxJobs \in Nat /\ MaxUpsets \in Nat
                             /\ MaxClaims \in Nat

NoHash    == "none"  \* no such file, or no ledger row for it
EmptyHash == ""      \* what calculate_hash returns for an unreadable file
ASSUME NoHashAssumption == NoHash \notin Hashes /\ EmptyHash \notin Hashes

Contents == Paths \X Hashes
JobIds   == 1..MaxJobs

Status == {"absent", "queued", "dispatched", "awaiting_subagent",
           "subagent_processing", "failed", "finalized", "superseded"}
Lease  == {"none", "live", "lapsed"}

\* A row of the jobs table: keyed says that the row holds the idempotency
\* key of its content; content is the (filepath, hash) of its payload.
Row == [status  : Status,
        content : Contents \cup {<<>>},
        keyed   : BOOLEAN,
        retries : Nat,
        due     : BOOLEAN,
        lease   : Lease,
        stamp   : Nat,
        gen     : Nat]

AbsentRow == [status |-> "absent", content |-> <<>>, keyed |-> FALSE,
              retries |-> 0, due |-> TRUE, lease |-> "none",
              stamp |-> 0, gen |-> 0]

\* What a process remembers of the row it claimed; job 0 is no claim.
Claim   == [job : 0..MaxJobs, number : Nat, built : BOOLEAN]
NoClaim == [job |-> 0, number |-> 0, built |-> FALSE]

VARIABLES
    jobs,       \* the jobs table
    rows,       \* how many rows were inserted; ids follow created_at
    raw,        \* the raw files on disk
    ledger,     \* processed_files: filepath -> file_hash
    abandoned,  \* ingest_abandoned_sources
    wclaim,     \* the claim each worker holds in memory
    rclaim,     \* the claim each runner slot holds in memory
    upsets      \* environment events so far

vars == <<jobs, rows, raw, ledger, abandoned, wclaim, rclaim, upsets>>

Init ==
    /\ jobs = [j \in JobIds |-> AbsentRow]
    /\ rows = 0
    /\ raw \in [Paths -> Hashes \cup {NoHash}]
    /\ ledger = [p \in Paths |-> NoHash]
    /\ abandoned = {}
    /\ wclaim = [w \in Workers |-> NoClaim]
    /\ rclaim = [r \in Runners |-> NoClaim]
    /\ upsets = 0

-----------------------------------------------------------------------------
(* The predicates of the SQL statements and of the ownership checks.       *)

PathOf(j) == jobs[j].content[1]
HashOf(j) == jobs[j].content[2]

\* Operators with a suffix after an underscore are faulty variants of the
\* definition they precede; no specification uses them.

\* Rows the pipeline will still act on; at the cap a failed row is terminal.
Live(j) == \/ jobs[j].status \in {"queued", "dispatched",
                                  "awaiting_subagent", "subagent_processing"}
           \/ jobs[j].status = "failed" /\ jobs[j].retries < MaxAttempts

\* The rows that hold the idempotency key of content c.
Holders(c) == {j \in JobIds : jobs[j].keyed /\ jobs[j].content = c}

\* The statuses the scan's enqueue may take a key from (replace_terminal
\* and supersede_finished).
Replaceable(j) == jobs[j].status \in {"failed", "finalized"}

Dispatchable_IgnoresCap(j) ==
    \/ jobs[j].status \in {"queued", "failed"} /\ jobs[j].due
    \/ jobs[j].status = "dispatched" /\ jobs[j].lease = "lapsed"

Dispatchable(j) ==
    \/ /\ jobs[j].status \in {"queued", "failed"}
       /\ jobs[j].retries < MaxAttempts
       /\ jobs[j].due
    \/ jobs[j].status = "dispatched" /\ jobs[j].lease = "lapsed"

Leasable_IgnoresLease(j) ==
    jobs[j].status \in {"awaiting_subagent", "subagent_processing"}

Leasable_NoRecovery(j) == jobs[j].status = "awaiting_subagent"

Leasable(j) ==
    \/ jobs[j].status = "awaiting_subagent"
    \/ jobs[j].status = "subagent_processing" /\ jobs[j].lease = "lapsed"

Oldest(j, S) == j \in S /\ \A k \in S : j <= k

\* _dispatch_claim_current: the row is still this worker's dispatch.
DispatchCurrent(w) ==
    LET c == wclaim[w] IN
    /\ c.job # 0
    /\ jobs[c.job].status = "dispatched"
    /\ jobs[c.job].lease = "live"
    /\ jobs[c.job].stamp = c.number

LeaseCurrent_AnyGeneration(r) ==
    LET c == rclaim[r] IN
    /\ c.job # 0
    /\ jobs[c.job].status = "subagent_processing"
    /\ jobs[c.job].lease = "live"

\* validate_ingest_job_finalization and _ingest_failure_claim_current: the
\* row is still leased to this slot.
LeaseCurrent(r) ==
    LET c == rclaim[r] IN
    /\ c.job # 0
    /\ jobs[c.job].status = "subagent_processing"
    /\ jobs[c.job].lease = "live"
    /\ jobs[c.job].gen = c.number

SourceIs_Exists(j) == raw[PathOf(j)] # NoHash

SourceIs(j) == raw[PathOf(j)] = HashOf(j)

-----------------------------------------------------------------------------
(* The rows the UPDATE statements write.                                   *)

NewRow_PathOnly(c) == [AbsentRow EXCEPT !.status = "queued", !.keyed = TRUE,
                                        !.content = <<c[1]>>]

NewRow(c) == [AbsentRow EXCEPT !.status = "queued", !.content = c,
                               !.keyed = TRUE]

KeyTaken_StaysFailed(row) == [row EXCEPT !.keyed = FALSE]

KeyTaken_Erases(row) ==
    [row EXCEPT !.keyed = FALSE, !.status = "superseded"]

KeyTaken(row) ==
    [row EXCEPT !.keyed = FALSE,
                !.status = IF @ = "failed" THEN "superseded" ELSE @]

\* The attempt being recorded is the last one of the budget.
LastAttempt_Early(row) == row.retries + 2 >= MaxAttempts

LastAttempt(row) == row.retries + 1 >= MaxAttempts

Failed(row, due) ==
    [row EXCEPT !.status = "failed", !.retries = @ + 1, !.due = due,
                !.lease = "none"]

Released(row) ==
    [row EXCEPT !.status = "failed", !.due = FALSE, !.lease = "none"]

DispatchedRow(row) ==
    [row EXCEPT !.status = "dispatched", !.lease = "live", !.stamp = @ + 1]

HandedOff(row) ==
    [row EXCEPT !.status = "awaiting_subagent", !.lease = "none"]

Leased(row) ==
    [row EXCEPT !.status = "subagent_processing", !.lease = "live",
                !.gen = @ + 1]

Finalized(row) == [row EXCEPT !.status = "finalized", !.lease = "none"]

\* Events the pipeline does not schedule: edits, crashes, lost time, operator
\* commands, other writers of the ledger.  The bound keeps TLC finite.
Upset == upsets < MaxUpsets /\ upsets' = upsets + 1

-----------------------------------------------------------------------------
(* Scan: enqueue_job("ingest", ..., replace_terminal, supersede_finished). *)
(* Any content the file ever had may arrive, for the scan hashed it some   *)
(* time before; a content whose key an unfinished row holds gets that row  *)
(* back, and nothing changes.                                              *)

Enqueue(c) ==
    /\ rows < MaxJobs
    /\ \A j \in Holders(c) : Replaceable(j)
    /\ rows' = rows + 1
    /\ jobs' = [j \in JobIds |->
                   IF j = rows + 1 THEN NewRow(c)
                   ELSE IF j \in Holders(c) THEN KeyTaken(jobs[j])
                   ELSE jobs[j]]
    /\ UNCHANGED <<raw, ledger, abandoned, wclaim, rclaim, upsets>>

-----------------------------------------------------------------------------
(* Dispatch worker: process_jobs claims one job for 120 s, refreshes the   *)
(* payload against the raw file, writes the packet and hands the job off.  *)

WorkerClaim(w) ==
    /\ wclaim[w].job = 0
    /\ \E j \in JobIds :
          /\ Oldest(j, {k \in JobIds : Dispatchable(k)})
          /\ jobs' = [jobs EXCEPT ![j] = DispatchedRow(@)]
          /\ wclaim' = [wclaim EXCEPT
                           ![w] = [job    |-> j,
                                   number |-> jobs[j].stamp + 1,
                                   built  |-> FALSE]]
    /\ UNCHANGED <<rows, raw, ledger, abandoned, rclaim, upsets>>

BuildPacket(w) ==
    /\ wclaim[w].job # 0
    /\ ~wclaim[w].built
    /\ SourceIs(wclaim[w].job)
    /\ wclaim' = [wclaim EXCEPT ![w].built = TRUE]
    /\ UNCHANGED <<jobs, rows, raw, ledger, abandoned, rclaim, upsets>>

HandOff(w) ==
    /\ wclaim[w].built
    /\ DispatchCurrent(w)
    /\ jobs' = [jobs EXCEPT ![wclaim[w].job] = HandedOff(@)]
    /\ wclaim' = [wclaim EXCEPT ![w] = NoClaim]
    /\ UNCHANGED <<rows, raw, ledger, abandoned, rclaim, upsets>>

\* Any exception before the hand-off: the source changed under the job, or
\* the packet could not be built or written.
FailDispatch(w) ==
    /\ DispatchCurrent(w)
    /\ jobs' = [jobs EXCEPT ![wclaim[w].job] = Failed(@, FALSE)]
    /\ wclaim' = [wclaim EXCEPT ![w] = NoClaim]
    /\ UNCHANGED <<rows, raw, ledger, abandoned, rclaim, upsets>>

\* DispatchClaimLost, or fail_dispatch_claim returning False.
LoseDispatch(w) ==
    /\ wclaim[w].job # 0
    /\ ~DispatchCurrent(w)
    /\ wclaim' = [wclaim EXCEPT ![w] = NoClaim]
    /\ UNCHANGED <<jobs, rows, raw, ledger, abandoned, rclaim, upsets>>

CrashWorker(w) ==
    /\ wclaim[w].job # 0
    /\ Upset
    /\ wclaim' = [wclaim EXCEPT ![w] = NoClaim]
    /\ UNCHANGED <<jobs, rows, raw, ledger, abandoned, rclaim>>

-----------------------------------------------------------------------------
(* Runner slot: claim_subagent_jobs, then one answer to the claim.         *)

RunnerClaim(r) ==
    /\ rclaim[r].job = 0
    /\ \E j \in JobIds :
          /\ Oldest(j, {k \in JobIds : Leasable(k) /\ jobs[k].gen < MaxClaims})
          /\ jobs' = [jobs EXCEPT ![j] = Leased(@)]
          /\ rclaim' = [rclaim EXCEPT
                           ![r] = [job    |-> j,
                                   number |-> jobs[j].gen + 1,
                                   built  |-> FALSE]]
    /\ UNCHANGED <<rows, raw, ledger, abandoned, wclaim, upsets>>

\* The transaction of finalize_ingest: precondition, ledger row and job row.
Finalize(r) ==
    LET j == rclaim[r].job IN
    /\ LeaseCurrent(r)
    /\ SourceIs(j)
    /\ jobs' = [jobs EXCEPT ![j] = Finalized(@)]
    /\ ledger' = [ledger EXCEPT ![PathOf(j)] = HashOf(j)]
    /\ rclaim' = [rclaim EXCEPT ![r] = NoClaim]
    /\ UNCHANGED <<rows, raw, abandoned, wclaim, upsets>>

\* record_ingest_failure with a deterministic reason: a rejected payload, a
\* changed or missing source, an unusable packet.
Reject(r) ==
    LET j == rclaim[r].job IN
    /\ LeaseCurrent(r)
    /\ jobs' = [jobs EXCEPT ![j] = Failed(@, FALSE)]
    /\ abandoned' = IF LastAttempt(jobs[j])
                    THEN abandoned \cup {jobs[j].content}
                    ELSE abandoned
    /\ rclaim' = [rclaim EXCEPT ![r] = NoClaim]
    /\ UNCHANGED <<rows, raw, ledger, wclaim, upsets>>

\* release_job_for_retry: a version conflict, a paused or failed backend, a
\* first answer whose repair failed, a shadow run.  Nothing bounds how often.
Release(r) ==
    /\ LeaseCurrent(r)
    /\ jobs' = [jobs EXCEPT ![rclaim[r].job] = Released(@)]
    /\ rclaim' = [rclaim EXCEPT ![r] = NoClaim]
    /\ UNCHANGED <<rows, raw, ledger, abandoned, wclaim, upsets>>

\* Whatever the slot answers, a claim that is no longer current is refused.
LoseLease(r) ==
    /\ rclaim[r].job # 0
    /\ ~LeaseCurrent(r)
    /\ rclaim' = [rclaim EXCEPT ![r] = NoClaim]
    /\ UNCHANGED <<jobs, rows, raw, ledger, abandoned, wclaim, upsets>>

\* A crash, or a slot that returns without answering: too little of the
\* lease left to execute in, or a resource error while classifying.
DropLease(r) ==
    /\ rclaim[r].job # 0
    /\ rclaim' = [rclaim EXCEPT ![r] = NoClaim]
    /\ UNCHANGED <<jobs, rows, raw, ledger, abandoned, wclaim, upsets>>

-----------------------------------------------------------------------------
(* Housekeeping and operator commands.                                     *)

\* expire_stale_subagent_jobs: the packets nobody claimed for a day.
ExpireStale ==
    /\ Upset
    /\ \E S \in SUBSET {j \in JobIds : jobs[j].status = "awaiting_subagent"} :
          /\ S # {}
          /\ jobs' = [j \in JobIds |-> IF j \in S THEN Failed(jobs[j], TRUE)
                                       ELSE jobs[j]]
    /\ UNCHANGED <<rows, raw, ledger, abandoned, wclaim, rclaim>>

TerminalFailed == {j \in JobIds : jobs[j].status = "failed"
                                  /\ jobs[j].retries >= MaxAttempts}

\* close_terminal_failed_jobs: spent rows whose path has a ledger row.  The
\* row keeps its idempotency key.
CloseTerminalFailed ==
    LET closed == {j \in TerminalFailed : ledger[PathOf(j)] # NoHash} IN
    /\ closed # {}
    /\ jobs' = [j \in JobIds |-> IF j \in closed
                                 THEN [jobs[j] EXCEPT !.status = "superseded"]
                                 ELSE jobs[j]]
    /\ UNCHANGED <<rows, raw, ledger, abandoned, wclaim, rclaim, upsets>>

\* clear_abandoned_sources(filepath)
ClearAbandoned(p) ==
    /\ \E c \in abandoned : c[1] = p
    /\ Upset
    /\ abandoned' = {c \in abandoned : c[1] # p}
    /\ UNCHANGED <<jobs, rows, raw, ledger, wclaim, rclaim>>

\* reset_jobs.py --apply
ResetDispatched ==
    LET stranded == {j \in JobIds : jobs[j].status = "dispatched"
                                    /\ jobs[j].lease = "lapsed"} IN
    /\ stranded # {}
    /\ Upset
    /\ jobs' = [j \in JobIds |->
                   IF j \in stranded
                   THEN [jobs[j] EXCEPT !.status = "queued", !.lease = "none"]
                   ELSE jobs[j]]
    /\ UNCHANGED <<rows, raw, ledger, abandoned, wclaim, rclaim>>

-----------------------------------------------------------------------------
(* The ledger's other writers, which have no job.                          *)

\* mark_file_processed by a scan: a source that is already published, or a
\* row whose snapshot is filled in.  The hash was read some time before, so
\* it may be any the file ever had, or that of a file that was unreadable.
RecordSource(p, h) ==
    /\ Upset
    /\ ledger' = [ledger EXCEPT ![p] = h]
    /\ UNCHANGED <<jobs, rows, raw, abandoned, wclaim, rclaim>>

\* _forget_processed_file, after delete_source removed the raw file.
ForgetSource(p) ==
    /\ Upset
    /\ ledger' = [ledger EXCEPT ![p] = NoHash]
    /\ UNCHANGED <<jobs, rows, raw, abandoned, wclaim, rclaim>>

-----------------------------------------------------------------------------
(* The environment: the user's files, and time.                            *)

Edit(p, h) ==
    /\ raw[p] # h
    /\ Upset
    /\ raw' = [raw EXCEPT ![p] = h]
    /\ UNCHANGED <<jobs, rows, ledger, abandoned, wclaim, rclaim>>

Claimed(j) == \/ \E w \in Workers : DispatchCurrent(w) /\ wclaim[w].job = j
              \/ \E r \in Runners : LeaseCurrent(r) /\ rclaim[r].job = j

\* A lease whose claimant is gone lapses in time; that of a claimant still
\* at work lapses only when the work is late, which counts as an upset.
LeaseLapses(j) ==
    /\ jobs[j].lease = "live"
    /\ IF Claimed(j) THEN Upset ELSE UNCHANGED upsets
    /\ jobs' = [jobs EXCEPT ![j].lease = "lapsed"]
    /\ UNCHANGED <<rows, raw, ledger, abandoned, wclaim, rclaim>>

BackoffEnds(j) ==
    /\ ~jobs[j].due
    /\ jobs' = [jobs EXCEPT ![j].due = TRUE]
    /\ UNCHANGED <<rows, raw, ledger, abandoned, wclaim, rclaim, upsets>>

-----------------------------------------------------------------------------
WorkerStep(w) == \/ WorkerClaim(w) \/ BuildPacket(w) \/ HandOff(w)
                 \/ FailDispatch(w) \/ LoseDispatch(w) \/ CrashWorker(w)

\* What ends a claim.
Answer(r) == \/ Finalize(r) \/ Reject(r) \/ Release(r)
             \/ LoseLease(r) \/ DropLease(r)

RunnerStep(r) == RunnerClaim(r) \/ Answer(r)

Housekeeping == \/ ExpireStale \/ CloseTerminalFailed \/ ResetDispatched
                \/ \E p \in Paths : ClearAbandoned(p)

LedgerStep == \E p \in Paths : \/ ForgetSource(p)
                              \/ \E h \in Hashes \cup {EmptyHash} : RecordSource(p, h)

Environment == \/ \E p \in Paths, h \in Hashes \cup {NoHash} : Edit(p, h)
               \/ \E j \in JobIds : LeaseLapses(j) \/ BackoffEnds(j)

Next == \/ \E c \in Contents : Enqueue(c)
        \/ \E w \in Workers : WorkerStep(w)
        \/ \E r \in Runners : RunnerStep(r)
        \/ Housekeeping
        \/ LedgerStep
        \/ Environment

Spec == Init /\ [][Next]_vars

\* The worker thread loops every five seconds and the runner every cycle:
\* each takes a job when there is one.  A slot answers for its job, or drops
\* it; which answer it gives is not promised, nor that it is ever a verdict.
\* Time passes.  Nothing else is promised.
Fairness ==
    /\ \A w \in Workers : /\ WF_vars(WorkerClaim(w))
                          /\ WF_vars(BuildPacket(w) \/ FailDispatch(w)
                                                    \/ LoseDispatch(w))
                          /\ WF_vars(HandOff(w))
    /\ \A r \in Runners : /\ WF_vars(RunnerClaim(r))
                          /\ WF_vars(Answer(r))
    /\ \A j \in JobIds : WF_vars(LeaseLapses(j)) /\ WF_vars(BackoffEnds(j))

FairSpec == Spec /\ Fairness

-----------------------------------------------------------------------------
(* Correctness.                                                            *)

\* Type invariant of the table, the ledgers and the processes' memories.
TypeOK ==
    /\ jobs \in [JobIds -> Row]
    /\ rows \in 0..MaxJobs
    /\ raw \in [Paths -> Hashes \cup {NoHash}]
    /\ ledger \in [Paths -> Hashes \cup {NoHash, EmptyHash}]
    /\ abandoned \in SUBSET Contents
    /\ wclaim \in [Workers -> Claim]
    /\ rclaim \in [Runners -> Claim]
    /\ upsets \in 0..MaxUpsets

\* At most one row per source content may still be worked on, however scans,
\* failures and supersessions interleave: two would be two model calls for
\* one source (the defect enqueue_job's supersede path names).
OneLiveJobPerContent ==
    \A i, j \in JobIds :
        Live(i) /\ Live(j) /\ jobs[i].content = jobs[j].content => i = j

\* Of all slots that hold a claim in memory, at most one can commit a given
\* content: claims that lapsed and were reissued are fenced.
SingleCommitter ==
    \A q, r \in Runners :
        /\ LeaseCurrent(q) /\ LeaseCurrent(r)
        /\ jobs[rclaim[q].job].content = jobs[rclaim[r].job].content
        => q = r

\* The attempt budget of a row: never overdrawn, and a row at the cap is in
\* nobody's hands (claim_pending_jobs reclaims an expired dispatch without
\* looking at retries, so this is not one guard's doing).
BudgetHolds ==
    \A j \in JobIds :
        /\ jobs[j].retries <= MaxAttempts
        /\ jobs[j].retries = MaxAttempts
           => jobs[j].status \in {"failed", "superseded"}

\* A content is given up only after some row of exactly that content spent
\* its whole budget, and no other event of the table erases that evidence.
AbandonedWasSpent ==
    \A c \in abandoned : \E j \in JobIds : /\ jobs[j].content = c
                                           /\ jobs[j].retries = MaxAttempts

\* While a claim is current nobody but its holder takes the row out of its
\* hands: late answers of an older claimant change nothing.
ClaimsAreExclusive ==
    [][/\ \A r \in Runners :
             LeaseCurrent(r) /\ rclaim'[r] # NoClaim =>
                /\ jobs'[rclaim[r].job].status = "subagent_processing"
                /\ jobs'[rclaim[r].job].gen = rclaim[r].number
       /\ \A w \in Workers :
             DispatchCurrent(w) /\ wclaim'[w] # NoClaim =>
                /\ jobs'[wclaim[w].job].status = "dispatched"
                /\ jobs'[wclaim[w].job].stamp = wclaim[w].number]_vars

\* A job ends only in the ledger: a row becomes finalized only by the step
\* that records its content for its path, and only while the file holds that
\* content.  (The ledger itself also moves without a job: see RecordSource.)
JobsEndInTheLedger ==
    [][\A j \in JobIds :
          jobs[j].status # "finalized" /\ jobs'[j].status = "finalized" =>
             \E p \in Paths : /\ jobs[j].content = <<p, raw[p]>>
                             /\ ledger'[p] = raw[p]]_vars

\* A finished or superseded row is history: it is not run again, and a key
\* it lost does not come back to it.
HistoryStays ==
    [][\A j \in JobIds : jobs[j].status \in {"finalized", "superseded"} =>
          /\ jobs'[j].status = jobs[j].status
          /\ jobs'[j].keyed => jobs[j].keyed]_vars

\* The job of a content, as JobTable sees it: the state of the row that
\* holds the content's key.
RowState(j) ==
    CASE jobs[j].status = "finalized"  -> "done"
      [] jobs[j].status = "superseded" -> "dead"
      [] jobs[j].status = "failed" /\ jobs[j].retries >= MaxAttempts -> "spent"
      [] jobs[j].status = "failed" /\ jobs[j].retries < MaxAttempts -> "failed"
      [] OTHER -> "live"

JobOf(c) == IF Holders(c) = {} THEN [st |-> "none", tries |-> 0]
            ELSE LET j == CHOOSE i \in Holders(c) : TRUE
                 IN  [st |-> RowState(j), tries |-> jobs[j].retries]

TableJob == [c \in Contents |-> JobOf(c)]

Table == INSTANCE JobTable WITH job <- TableJob

\* The rows implement the abstract table of JobTable: a content has one job
\* with one budget, taken over only by a scan that may, given up only with
\* the last attempt.
ImplementsJobTable == Table!TableSpec

\* No job is left lying: it ends (ingested, superseded or failed at the cap)
\* or is handed to a runner again and again, here until the bound on claims,
\* although leases lapse, workers crash and packets expire.  That it ends is
\* not promised: an attempt that is given back is not counted (see
\* SourcesConverge in RunnerPool).
JobsSettle == \A j \in JobIds : []<>(~Live(j) \/ jobs[j].gen = MaxClaims)

\* What enqueue_job's documentation promises of replace_terminal: a scan is
\* never answered with the id of a dead row.
NoDeadKey ==
    \A j \in JobIds : jobs[j].keyed => Live(j) \/ Replaceable(j)
=============================================================================
