--------------------------- MODULE IngestJobs_proofs ---------------------------
(***************************************************************************)
(* Proofs about IngestJobs, for all sets of paths, hashes, workers and     *)
(* runner slots, all numbers of jobs and every attempt budget.             *)
(*                                                                         *)
(* The argument has three layers.  RowStep lists what one step may do to   *)
(* one row of the table, and under which condition on the old row; the     *)
(* facts about single rows (budget, keys, growing generations) follow from *)
(* it.  IInv adds to these what makes them inductive: the ids above rows   *)
(* are unused, a content has one holder of its key, every live row holds   *)
(* its key, and no two processes remember the same claim number of one     *)
(* row.  The safety properties follow from IInv, and so does that the rows *)
(* implement JobTable: one holder per key makes the job of a content the   *)
(* job of a row, and every action moves it as the abstract table may.      *)
(*                                                                         *)
(* The last part is about RawDrain, whose scans fill the table, for every  *)
(* set of files and every batch size.                                      *)
(***************************************************************************)
EXTENDS IngestJobs, RawDrain, TLAPS

\* What a step may do to row j.
RowStep(j) ==
    \/ jobs'[j] = jobs[j]
    \/ /\ j = rows + 1
       /\ rows' = rows + 1
       /\ \E c \in Contents : jobs'[j] = NewRow(c)
    \/ Replaceable(j) /\ jobs'[j] = KeyTaken(jobs[j])
    \/ Dispatchable(j) /\ jobs'[j] = DispatchedRow(jobs[j])
    \/ \E w \in Workers :
          /\ DispatchCurrent(w) /\ wclaim[w].job = j /\ wclaim'[w] = NoClaim
          /\ \/ jobs'[j] = HandedOff(jobs[j])
             \/ jobs'[j] = Failed(jobs[j], FALSE)
    \/ /\ jobs[j].status = "dispatched" /\ jobs[j].lease = "lapsed"
       /\ jobs'[j] = [jobs[j] EXCEPT !.status = "queued", !.lease = "none"]
    \/ Leasable(j) /\ jobs'[j] = Leased(jobs[j])
    \/ \E r \in Runners :
          /\ LeaseCurrent(r) /\ rclaim[r].job = j /\ rclaim'[r] = NoClaim
          /\ \/ jobs'[j] = Finalized(jobs[j])
             \/ jobs'[j] = Failed(jobs[j], FALSE)
             \/ jobs'[j] = Released(jobs[j])
    \/ /\ jobs[j].status = "awaiting_subagent"
       /\ jobs'[j] = Failed(jobs[j], TRUE)
    \/ /\ jobs[j].status = "failed"
       /\ jobs[j].retries >= MaxAttempts
       /\ jobs'[j] = [jobs[j] EXCEPT !.status = "superseded"]
    \/ /\ jobs[j].lease = "live"
       /\ jobs'[j] = [jobs[j] EXCEPT !.lease = "lapsed"]
    \/ ~jobs[j].due /\ jobs'[j] = [jobs[j] EXCEPT !.due = TRUE]

\* Every step is a RowStep of every row: the table is only ever changed in
\* the ways of its UPDATE statements.
LEMMA NextRowStep ==
    ASSUME TypeOK, [Next]_vars
    PROVE  \A j \in JobIds : RowStep(j)
<1>. SUFFICES ASSUME NEW j \in JobIds PROVE RowStep(j)
  OBVIOUS
<1>. USE DEF TypeOK
<1>1. ASSUME NEW c \in Contents, Enqueue(c) PROVE RowStep(j)
  BY <1>1 DEF Enqueue, RowStep, Holders
<1>2. ASSUME NEW w \in Workers, WorkerStep(w) PROVE RowStep(j)
  <2>1. CASE WorkerClaim(w)
    BY <2>1 DEF WorkerClaim, RowStep, Oldest
  <2>2. CASE BuildPacket(w)
    BY <2>2 DEF BuildPacket, RowStep
  <2>3. CASE HandOff(w)
    BY <2>3 DEF HandOff, RowStep
  <2>4. CASE FailDispatch(w)
    BY <2>4 DEF FailDispatch, RowStep
  <2>5. CASE LoseDispatch(w) \/ CrashWorker(w)
    BY <2>5 DEF LoseDispatch, CrashWorker, RowStep
  <2>. QED
    BY <1>2, <2>1, <2>2, <2>3, <2>4, <2>5 DEF WorkerStep
<1>3. ASSUME NEW r \in Runners, RunnerStep(r) PROVE RowStep(j)
  <2>1. CASE RunnerClaim(r)
    BY <2>1 DEF RunnerClaim, RowStep, Oldest
  <2>2. CASE Finalize(r)
    BY <2>2 DEF Finalize, RowStep
  <2>3. CASE Reject(r)
    BY <2>3 DEF Reject, RowStep
  <2>4. CASE Release(r)
    BY <2>4 DEF Release, RowStep
  <2>5. CASE LoseLease(r) \/ DropLease(r)
    BY <2>5 DEF LoseLease, DropLease, RowStep
  <2>. QED
    BY <1>3, <2>1, <2>2, <2>3, <2>4, <2>5 DEF RunnerStep, Answer
<1>4. ASSUME Housekeeping PROVE RowStep(j)
  <2>1. CASE ExpireStale
    BY <2>1 DEF ExpireStale, RowStep
  <2>2. CASE CloseTerminalFailed
    BY <2>2 DEF CloseTerminalFailed, TerminalFailed, RowStep
  <2>3. CASE ResetDispatched
    BY <2>3 DEF ResetDispatched, RowStep
  <2>4. ASSUME NEW p \in Paths, ClearAbandoned(p) PROVE RowStep(j)
    BY <2>4 DEF ClearAbandoned, RowStep
  <2>. QED
    BY <1>4, <2>1, <2>2, <2>3, <2>4 DEF Housekeeping
<1>5. ASSUME Environment PROVE RowStep(j)
  <2>1. ASSUME NEW p \in Paths, NEW h \in Hashes \cup {NoHash}, Edit(p, h)
        PROVE  RowStep(j)
    BY <2>1 DEF Edit, RowStep
  <2>2. ASSUME NEW i \in JobIds, LeaseLapses(i) PROVE RowStep(j)
    BY <2>2 DEF LeaseLapses, RowStep
  <2>3. ASSUME NEW i \in JobIds, BackoffEnds(i) PROVE RowStep(j)
    BY <2>3 DEF BackoffEnds, RowStep
  <2>. QED
    BY <1>5, <2>1, <2>2, <2>3 DEF Environment
<1>6. ASSUME LedgerStep PROVE RowStep(j)
  BY <1>6 DEF LedgerStep, RecordSource, ForgetSource, RowStep
<1>7. CASE UNCHANGED vars
  BY <1>7 DEF vars, RowStep
<1>. QED
  BY <1>1, <1>2, <1>3, <1>4, <1>5, <1>6, <1>7 DEF Next

-----------------------------------------------------------------------------
(* Type correctness.                                                       *)

\* The rows the statements write are rows.
LEMMA RowOps ==
    ASSUME NEW row \in Row
    PROVE  /\ KeyTaken(row) \in Row
           /\ \A isDue \in BOOLEAN : Failed(row, isDue) \in Row
           /\ Released(row) \in Row
           /\ DispatchedRow(row) \in Row
           /\ HandedOff(row) \in Row
           /\ Leased(row) \in Row
           /\ Finalized(row) \in Row
<1>. USE DEF Row, Status, Lease
<1>1. row.retries + 1 \in Nat /\ row.stamp + 1 \in Nat /\ row.gen + 1 \in Nat
  OBVIOUS
<1>2. KeyTaken(row) \in Row
  BY DEF KeyTaken
<1>3. ASSUME NEW isDue \in BOOLEAN PROVE Failed(row, isDue) \in Row
  BY <1>1 DEF Failed
<1>4. Released(row) \in Row
  BY DEF Released
<1>5. DispatchedRow(row) \in Row
  BY <1>1 DEF DispatchedRow
<1>6. HandedOff(row) \in Row
  BY DEF HandedOff
<1>7. Leased(row) \in Row
  BY <1>1 DEF Leased
<1>8. Finalized(row) \in Row
  BY DEF Finalized
<1>. QED
  BY <1>2, <1>3, <1>4, <1>5, <1>6, <1>7, <1>8

\* A new row is a row, and so is an absent one.
LEMMA NewRows ==
    /\ AbsentRow \in Row
    /\ \A c \in Contents : NewRow(c) \in Row
<1>1. AbsentRow \in Row
  BY DEF Row, AbsentRow, Status, Lease
<1>. QED
  BY <1>1 DEF Row, NewRow, Status

\* A row stays a row.
LEMMA RowStepType ==
    ASSUME TypeOK, NEW j \in JobIds, RowStep(j)
    PROVE  jobs'[j] \in Row
<1>1. jobs[j] \in Row
  BY DEF TypeOK
<1>2. ASSUME NEW row \in Row
      PROVE  /\ [row EXCEPT !.status = "queued", !.lease = "none"] \in Row
             /\ [row EXCEPT !.status = "superseded"] \in Row
             /\ [row EXCEPT !.lease = "lapsed"] \in Row
             /\ [row EXCEPT !.due = TRUE] \in Row
  BY DEF Row, Status, Lease
<1>. QED
  BY <1>1, <1>2, RowOps, NewRows DEF RowStep

\* The table keeps its ids.
LEMMA TableStays ==
    ASSUME TypeOK, [Next]_vars
    PROVE  jobs' = [j \in JobIds |-> jobs'[j]]
<1>. USE DEF TypeOK
<1>1. ASSUME NEW c \in Contents, Enqueue(c) PROVE jobs' = [j \in JobIds |-> jobs'[j]]
  BY <1>1 DEF Enqueue
<1>2. ASSUME NEW w \in Workers, WorkerStep(w)
      PROVE  jobs' = [j \in JobIds |-> jobs'[j]]
  BY <1>2 DEF WorkerStep, WorkerClaim, BuildPacket, HandOff, FailDispatch,
              LoseDispatch, CrashWorker
<1>3. ASSUME NEW r \in Runners, RunnerStep(r)
      PROVE  jobs' = [j \in JobIds |-> jobs'[j]]
  BY <1>3 DEF RunnerStep, Answer, RunnerClaim, Finalize, Reject, Release, LoseLease,
              DropLease
<1>4. ASSUME Housekeeping PROVE jobs' = [j \in JobIds |-> jobs'[j]]
  BY <1>4 DEF Housekeeping, ExpireStale, CloseTerminalFailed, ResetDispatched,
              ClearAbandoned
<1>5. ASSUME Environment PROVE jobs' = [j \in JobIds |-> jobs'[j]]
  BY <1>5 DEF Environment, Edit, LeaseLapses, BackoffEnds
<1>6. ASSUME LedgerStep PROVE jobs' = [j \in JobIds |-> jobs'[j]]
  BY <1>6 DEF LedgerStep, RecordSource, ForgetSource
<1>. QED
  BY <1>1, <1>2, <1>3, <1>4, <1>5, <1>6 DEF Next, vars

\* The claims in the memories of workers and slots keep their type.
LEMMA ClaimsType ==
    ASSUME TypeOK, [Next]_vars
    PROVE  /\ wclaim' \in [Workers -> Claim]
           /\ rclaim' \in [Runners -> Claim]
<1>. DEFINE ClaimsOK == /\ wclaim' \in [Workers -> Claim]
                        /\ rclaim' \in [Runners -> Claim]
<1>. USE BoundsAssumption DEF TypeOK, Row, Claim, JobIds
<1>a. NoClaim \in Claim
  BY DEF NoClaim
<1>1. ASSUME NEW c \in Contents, Enqueue(c) PROVE ClaimsOK
  BY <1>1 DEF Enqueue
<1>2. ASSUME NEW w \in Workers, WorkerStep(w) PROVE ClaimsOK
  <2>1. CASE WorkerClaim(w)
    BY <2>1 DEF WorkerClaim
  <2>2. CASE BuildPacket(w)
    BY <2>2 DEF BuildPacket
  <2>3. CASE HandOff(w) \/ FailDispatch(w) \/ LoseDispatch(w) \/ CrashWorker(w)
    BY <1>a, <2>3 DEF HandOff, FailDispatch, LoseDispatch, CrashWorker
  <2>. QED
    BY <1>2, <2>1, <2>2, <2>3 DEF WorkerStep
<1>3. ASSUME NEW r \in Runners, RunnerStep(r) PROVE ClaimsOK
  <2>1. CASE RunnerClaim(r)
    BY <2>1 DEF RunnerClaim
  <2>2. CASE Finalize(r) \/ Reject(r) \/ Release(r) \/ LoseLease(r) \/ DropLease(r)
    BY <1>a, <2>2 DEF Finalize, Reject, Release, LoseLease, DropLease
  <2>. QED
    BY <1>3, <2>1, <2>2 DEF RunnerStep, Answer
<1>4. ASSUME Housekeeping PROVE ClaimsOK
  BY <1>4 DEF Housekeeping, ExpireStale, CloseTerminalFailed, ResetDispatched,
              ClearAbandoned
<1>5. ASSUME Environment PROVE ClaimsOK
  BY <1>5 DEF Environment, Edit, LeaseLapses, BackoffEnds
<1>6. ASSUME LedgerStep PROVE ClaimsOK
  BY <1>6 DEF LedgerStep, RecordSource, ForgetSource
<1>. QED
  BY <1>1, <1>2, <1>3, <1>4, <1>5, <1>6 DEF Next, vars

-----------------------------------------------------------------------------
(* Rows in use.                                                            *)

\* What a step leaves of a row in use: content, numbers, attempts, key and
\* status, field by field.
RowEffect(j) ==
    /\ jobs'[j].content = jobs[j].content
    /\ jobs'[j].status # "absent"
    /\ \/ jobs'[j].gen = jobs[j].gen
       \/ Leasable(j) /\ jobs'[j].gen = jobs[j].gen + 1
    /\ \/ jobs'[j].stamp = jobs[j].stamp
       \/ Dispatchable(j) /\ jobs'[j].stamp = jobs[j].stamp + 1
    /\ \/ jobs'[j].retries = jobs[j].retries
       \/ /\ jobs'[j].retries = jobs[j].retries + 1
          /\ jobs'[j].status = "failed"
          /\ jobs[j].status \in {"dispatched", "awaiting_subagent",
                                 "subagent_processing"}
    /\ Live(j)' => Live(j) /\ (jobs[j].keyed => jobs'[j].keyed)
    /\ jobs'[j].keyed => jobs[j].keyed
    /\ jobs[j].status \in {"finalized", "superseded"}
       => jobs'[j].status = jobs[j].status
    /\ /\ jobs[j].status = "failed"
       /\ jobs[j].retries >= MaxAttempts
       => jobs'[j].status \in {"failed", "superseded"}

\* Whatever action touches an existing row (a claim, a hand-off, a settlement,
\* a repair), the row changes only in the ways RowEffect lists.
LEMMA RowEffects ==
    ASSUME TypeOK, NEW j \in JobIds, j <= rows, jobs[j].status # "absent",
           RowStep(j)
    PROVE  RowEffect(j)
<1>. USE AttemptsAssumption DEF Row, RowEffect, Live
<1>a. jobs[j] \in Row /\ j \in Nat /\ rows \in Nat
  BY BoundsAssumption DEF TypeOK, JobIds
<1>1. CASE jobs'[j] = jobs[j]
  BY <1>a, <1>1
<1>2. CASE Replaceable(j) /\ jobs'[j] = KeyTaken(jobs[j])
  BY <1>a, <1>2 DEF Replaceable, KeyTaken
<1>3. CASE Dispatchable(j) /\ jobs'[j] = DispatchedRow(jobs[j])
  BY <1>a, <1>3 DEF Dispatchable, DispatchedRow
<1>4. CASE jobs[j].status = "dispatched" /\ jobs'[j] = HandedOff(jobs[j])
  BY <1>a, <1>4 DEF HandedOff
<1>5. CASE /\ jobs[j].status \in {"dispatched", "subagent_processing"}
           /\ jobs'[j] = Failed(jobs[j], FALSE)
  BY <1>a, <1>5 DEF Failed
<1>6. CASE /\ jobs[j].status = "dispatched"
           /\ jobs'[j] = [jobs[j] EXCEPT !.status = "queued", !.lease = "none"]
  BY <1>a, <1>6
<1>7. CASE Leasable(j) /\ jobs'[j] = Leased(jobs[j])
  BY <1>a, <1>7 DEF Leasable, Leased
<1>8. CASE jobs[j].status = "subagent_processing" /\ jobs'[j] = Finalized(jobs[j])
  BY <1>a, <1>8 DEF Finalized
<1>9. CASE jobs[j].status = "subagent_processing" /\ jobs'[j] = Released(jobs[j])
  BY <1>a, <1>9 DEF Released
<1>10. CASE jobs[j].status = "awaiting_subagent" /\ jobs'[j] = Failed(jobs[j], TRUE)
  BY <1>a, <1>10 DEF Failed
<1>11. CASE /\ jobs[j].status = "failed"
            /\ jobs[j].retries >= MaxAttempts
            /\ jobs'[j] = [jobs[j] EXCEPT !.status = "superseded"]
  BY <1>a, <1>11
<1>12. CASE \/ jobs'[j] = [jobs[j] EXCEPT !.lease = "lapsed"]
            \/ jobs'[j] = [jobs[j] EXCEPT !.due = TRUE]
  BY <1>a, <1>12
<1>13. j # rows + 1
  BY <1>a
<1>. HIDE DEF Row, RowEffect, Live
<1>. QED
  BY <1>1, <1>2, <1>3, <1>4, <1>5, <1>6, <1>7, <1>8, <1>9, <1>10, <1>11, <1>12,
     <1>13 DEF RowStep, DispatchCurrent, LeaseCurrent

\* The ids up to rows are in use, each for a content; the others are unused.
UsedRows ==
    \A j \in JobIds :
        IF j <= rows THEN jobs[j].status # "absent" /\ jobs[j].content \in Contents
                     ELSE jobs[j] = AbsentRow

\* rows moves only with an insertion.
LEMMA RowsStep ==
    ASSUME TypeOK, [Next]_vars
    PROVE  rows' = rows \/ \E c \in Contents : Enqueue(c)
<1>1. ASSUME NEW w \in Workers, WorkerStep(w) PROVE rows' = rows
  BY <1>1 DEF WorkerStep, WorkerClaim, BuildPacket, HandOff, FailDispatch,
              LoseDispatch, CrashWorker
<1>2. ASSUME NEW r \in Runners, RunnerStep(r) PROVE rows' = rows
  BY <1>2 DEF RunnerStep, Answer, RunnerClaim, Finalize, Reject, Release, LoseLease,
              DropLease
<1>3. ASSUME Housekeeping PROVE rows' = rows
  BY <1>3 DEF Housekeeping, ExpireStale, CloseTerminalFailed, ResetDispatched,
              ClearAbandoned
<1>4. ASSUME Environment PROVE rows' = rows
  BY <1>4 DEF Environment, Edit, LeaseLapses, BackoffEnds
<1>5. ASSUME LedgerStep PROVE rows' = rows
  BY <1>5 DEF LedgerStep, RecordSource, ForgetSource
<1>. QED
  BY <1>1, <1>2, <1>3, <1>4, <1>5 DEF Next, vars

\* The three cases of a row: it was in use and the step has its effect, it
\* was and stays unused, or it is the one a scan inserts.
LEMMA RowCases ==
    ASSUME TypeOK, UsedRows, [Next]_vars, NEW j \in JobIds
    PROVE  \/ /\ j <= rows /\ j <= rows'
              /\ jobs[j].status # "absent" /\ jobs[j].content \in Contents
              /\ RowEffect(j)
           \/ /\ jobs[j] = AbsentRow /\ jobs'[j] = AbsentRow
              /\ ~(j <= rows) /\ ~(j <= rows')
           \/ /\ jobs[j] = AbsentRow
              /\ ~(j <= rows) /\ j <= rows'
              /\ \E c \in Contents : Enqueue(c) /\ jobs'[j] = NewRow(c)
<1>a. rows \in Nat /\ rows' \in Nat /\ (rows' = rows \/ rows' = rows + 1)
  BY RowsStep, BoundsAssumption DEF TypeOK, Enqueue
<1>b. RowStep(j) /\ j \in Nat
  BY NextRowStep, BoundsAssumption DEF JobIds
<1>1. CASE j <= rows
  <2>1. jobs[j].status # "absent" /\ jobs[j].content \in Contents
    BY <1>1 DEF UsedRows
  <2>2. RowEffect(j)
    BY <1>b, <1>1, <2>1, RowEffects
  <2>3. j <= rows'
    BY <1>a, <1>b, <1>1
  <2>. QED
    BY <1>1, <2>1, <2>2, <2>3
<1>2. CASE ~(j <= rows)
  <2>1. jobs[j] = AbsentRow
    BY <1>2 DEF UsedRows
  <2>2. \/ jobs'[j] = AbsentRow
        \/ j = rows + 1 /\ rows' = rows + 1
    <3>1. jobs[j].status = "absent" /\ jobs[j].lease = "none" /\ jobs[j].due
      BY <2>1 DEF AbsentRow
    <3>2. /\ \A w \in Workers : ~(DispatchCurrent(w) /\ wclaim[w].job = j)
          /\ \A r \in Runners : ~(LeaseCurrent(r) /\ rclaim[r].job = j)
      BY <3>1 DEF DispatchCurrent, LeaseCurrent
    <3>. QED
      BY <1>b, <2>1, <3>1, <3>2 DEF RowStep, Replaceable, Dispatchable, Leasable
  <2>3. CASE j = rows + 1 /\ rows' = rows + 1
    <3>1. PICK c \in Contents : Enqueue(c)
      BY <1>a, <2>3, RowsStep
    <3>2. jobs'[j] = NewRow(c)
      BY <2>3, <3>1 DEF Enqueue
    <3>. QED
      BY <1>a, <1>b, <1>2, <2>1, <2>3, <3>1, <3>2
  <2>4. CASE jobs'[j] = AbsentRow /\ ~(j = rows + 1 /\ rows' = rows + 1)
    BY <1>a, <1>b, <1>2, <2>1, <2>4
  <2>. QED
    BY <2>2, <2>3, <2>4
<1>. QED
  BY <1>1, <1>2

\* An insertion fills the first unused id and changes no unused one.
LEMMA UsedRowsStep ==
    ASSUME TypeOK, UsedRows, [Next]_vars
    PROVE  UsedRows'
<1>. SUFFICES ASSUME NEW j \in JobIds
              PROVE  IF j <= rows' THEN /\ jobs'[j].status # "absent"
                                        /\ jobs'[j].content \in Contents
                                   ELSE jobs'[j] = AbsentRow
  BY DEF UsedRows
<1>1. ASSUME NEW c \in Contents, jobs'[j] = NewRow(c)
      PROVE  jobs'[j].status # "absent" /\ jobs'[j].content \in Contents
  BY <1>1 DEF NewRow, AbsentRow
<1>. QED
  BY <1>1, RowCases DEF RowEffect

\* Every memory and ledger has its type at the start.
LEMMA InitTypes == Init => TypeOK
BY BoundsAssumption, NewRows
   DEF Init, TypeOK, NoClaim, Claim, JobIds

\* A step keeps the types.
LEMMA TypeStep ==
    ASSUME TypeOK, UsedRows, [Next]_vars
    PROVE  TypeOK'
<1>1. jobs' \in [JobIds -> Row]
  BY NextRowStep, RowStepType, TableStays
<1>2. /\ wclaim' \in [Workers -> Claim]
      /\ rclaim' \in [Runners -> Claim]
  BY ClaimsType
<1>. DEFINE RestOK == /\ rows' \in 0..MaxJobs
                      /\ raw' \in [Paths -> Hashes \cup {NoHash}]
                      /\ ledger' \in [Paths -> Hashes \cup {NoHash, EmptyHash}]
                      /\ abandoned' \in SUBSET Contents
                      /\ upsets' \in 0..MaxUpsets
<1>3. RestOK
  <2>. USE BoundsAssumption DEF TypeOK
  <2>1. ASSUME NEW c \in Contents, Enqueue(c) PROVE RestOK
    BY <2>1 DEF Enqueue
  <2>2. ASSUME NEW w \in Workers, WorkerStep(w) PROVE RestOK
    <3>1. /\ UNCHANGED <<rows, raw, ledger, abandoned>>
          /\ upsets' = upsets \/ Upset
      BY <2>2 DEF WorkerStep, WorkerClaim, BuildPacket, HandOff, FailDispatch,
                  LoseDispatch, CrashWorker
    <3>. QED
      BY <3>1 DEF Upset
  <2>3. ASSUME NEW r \in Runners, RunnerStep(r) PROVE RestOK
    <3>1. CASE Finalize(r)
      BY <3>1 DEF Finalize, SourceIs
    <3>2. CASE Reject(r)
      <4>1. jobs[rclaim[r].job].content \in Contents
        BY <3>2 DEF Reject, LeaseCurrent, JobIds, Claim, UsedRows, AbsentRow
      <4>. QED
        BY <3>2, <4>1 DEF Reject
    <3>. QED
      BY <2>3, <3>1, <3>2 DEF RunnerStep, Answer, RunnerClaim, Release, LoseLease,
                              DropLease, Upset
  <2>4. ASSUME Housekeeping PROVE RestOK
    <3>1. /\ UNCHANGED <<rows, raw, ledger>>
          /\ abandoned' \subseteq abandoned
          /\ upsets' = upsets \/ Upset
      BY <2>4 DEF Housekeeping, ExpireStale, CloseTerminalFailed,
                  ResetDispatched, ClearAbandoned
    <3>. QED
      BY <3>1 DEF Upset
  <2>5. ASSUME Environment PROVE RestOK
    BY <2>5 DEF Environment, Edit, LeaseLapses, BackoffEnds, Upset
  <2>6. ASSUME LedgerStep PROVE RestOK
    BY <2>6 DEF LedgerStep, RecordSource, ForgetSource, Upset
  <2>. QED
    BY <2>1, <2>2, <2>3, <2>4, <2>5, <2>6 DEF Next, vars
<1>. QED
  BY <1>1, <1>2, <1>3 DEF TypeOK

-----------------------------------------------------------------------------
(* The inductive invariant.                                                *)

LiveIsKeyed == \A j \in JobIds : Live(j) => jobs[j].keyed

OneHolder ==
    \A i, j \in JobIds :
        jobs[i].keyed /\ jobs[j].keyed /\ jobs[i].content = jobs[j].content
        => i = j

\* A remembered claim number was given out by its row, to nobody else.
RunnerNumbers ==
    \A r \in Runners : rclaim[r].job # 0 =>
        /\ rclaim[r].number <= jobs[rclaim[r].job].gen
        /\ \A q \in Runners : rclaim[q].job = rclaim[r].job
                              /\ rclaim[q].number = rclaim[r].number => q = r

WorkerNumbers ==
    \A w \in Workers : wclaim[w].job # 0 =>
        /\ wclaim[w].number <= jobs[wclaim[w].job].stamp
        /\ \A v \in Workers : wclaim[v].job = wclaim[w].job
                              /\ wclaim[v].number = wclaim[w].number => v = w

IInv == /\ TypeOK
        /\ UsedRows
        /\ BudgetHolds
        /\ AbandonedWasSpent
        /\ LiveIsKeyed
        /\ OneHolder
        /\ RunnerNumbers
        /\ WorkerNumbers

\* The fields of a new and of an unused row.
LEMMA FreshFields ==
    /\ /\ AbsentRow.status = "absent" /\ ~AbsentRow.keyed
       /\ AbsentRow.retries = 0 /\ AbsentRow.gen = 0 /\ AbsentRow.stamp = 0
    /\ \A c \in Contents :
          /\ NewRow(c).status = "queued" /\ NewRow(c).keyed
          /\ NewRow(c).content = c /\ NewRow(c).retries = 0
          /\ NewRow(c).gen = 0 /\ NewRow(c).stamp = 0
BY DEF AbsentRow, NewRow

\* The budget of every row is respected.
LEMMA BudgetStep ==
    ASSUME TypeOK, UsedRows, BudgetHolds, [Next]_vars
    PROVE  BudgetHolds'
<1>. SUFFICES ASSUME NEW j \in JobIds
              PROVE  /\ jobs'[j].retries <= MaxAttempts
                     /\ jobs'[j].retries = MaxAttempts
                        => jobs'[j].status \in {"failed", "superseded"}
  BY DEF BudgetHolds
<1>1. CASE RowEffect(j)
  <2>1. jobs[j].retries \in Nat /\ MaxAttempts \in Nat
    BY AttemptsAssumption DEF TypeOK, Row
  <2>. QED
    BY <1>1, <2>1 DEF RowEffect, BudgetHolds
<1>2. CASE jobs'[j].retries = 0
  BY <1>2, AttemptsAssumption
<1>. QED
  BY <1>1, <1>2, RowCases, FreshFields

\* A row that was given up stays as evidence, and a content is only given
\* up with the last attempt of a row.
LEMMA AbandonedStep ==
    ASSUME TypeOK, UsedRows, BudgetHolds, AbandonedWasSpent, [Next]_vars
    PROVE  AbandonedWasSpent'
<1>1. ASSUME NEW j \in JobIds, jobs[j].retries = MaxAttempts
      PROVE  /\ jobs'[j].content = jobs[j].content
             /\ jobs'[j].retries = MaxAttempts
  <2>1. jobs[j] # AbsentRow
    BY <1>1, AttemptsAssumption, FreshFields
  <2>2. RowEffect(j)
    BY <2>1, RowCases
  <2>3. jobs[j].status \in {"failed", "superseded"}
    BY <1>1 DEF BudgetHolds
  <2>. QED
    BY <1>1, <2>2, <2>3 DEF RowEffect
<1>2. CASE abandoned' \subseteq abandoned
  BY <1>1, <1>2 DEF AbandonedWasSpent
<1>3. ASSUME NEW r \in Runners, Reject(r) PROVE AbandonedWasSpent'
  <2>. DEFINE i == rclaim[r].job
  <2>1. i \in JobIds
    BY <1>3, BoundsAssumption DEF Reject, LeaseCurrent, TypeOK, Claim, JobIds
  <2>2. jobs'[i] = Failed(jobs[i], FALSE) /\ jobs[i] \in Row
    BY <1>3, <2>1 DEF Reject, TypeOK
  <2>3. /\ jobs'[i].retries = jobs[i].retries + 1
        /\ jobs'[i].content = jobs[i].content
    BY <2>2 DEF Failed, Row
  <2>4. LastAttempt(jobs[i]) => jobs'[i].retries = MaxAttempts
    <3>1. jobs'[i].retries <= MaxAttempts
      BY <2>1, BudgetStep DEF BudgetHolds
    <3>2. jobs[i].retries \in Nat
      BY <2>2 DEF Row
    <3>. QED
      BY <2>3, <3>1, <3>2, AttemptsAssumption DEF LastAttempt
  <2>5. abandoned' = IF LastAttempt(jobs[i])
                     THEN abandoned \cup {jobs[i].content} ELSE abandoned
    BY <1>3 DEF Reject
  <2>. QED
    BY <1>1, <2>1, <2>3, <2>4, <2>5 DEF AbandonedWasSpent
<1>4. abandoned' \subseteq abandoned \/ \E r \in Runners : Reject(r)
  <2>1. ASSUME NEW w \in Workers, WorkerStep(w) PROVE abandoned' = abandoned
    BY <2>1 DEF WorkerStep, WorkerClaim, BuildPacket, HandOff, FailDispatch,
                LoseDispatch, CrashWorker
  <2>2. ASSUME NEW r \in Runners, RunnerStep(r), ~Reject(r)
        PROVE  abandoned' = abandoned
    BY <2>2 DEF RunnerStep, Answer, RunnerClaim, Finalize, Release, LoseLease, DropLease
  <2>3. ASSUME Housekeeping PROVE abandoned' \subseteq abandoned
    BY <2>3 DEF Housekeeping, ExpireStale, CloseTerminalFailed, ResetDispatched,
                ClearAbandoned
  <2>4. ASSUME Environment PROVE abandoned' = abandoned
    BY <2>4 DEF Environment, Edit, LeaseLapses, BackoffEnds
  <2>5. ASSUME LedgerStep PROVE abandoned' = abandoned
    BY <2>5 DEF LedgerStep, RecordSource, ForgetSource
  <2>. QED
    BY <2>1, <2>2, <2>3, <2>4, <2>5 DEF Next, vars, Enqueue
<1>. QED
  BY <1>2, <1>3, <1>4

\* Only a row that holds its key is worked on, and no content has two.
LEMMA KeysStep ==
    ASSUME TypeOK, UsedRows, LiveIsKeyed, OneHolder, [Next]_vars
    PROVE  LiveIsKeyed' /\ OneHolder'
<1>1. ASSUME NEW j \in JobIds, Live(j)' PROVE jobs'[j].keyed
  <2>1. jobs'[j] # AbsentRow
    BY <1>1, FreshFields DEF Live
  <2>2. RowEffect(j) => jobs'[j].keyed
    BY <1>1 DEF RowEffect, LiveIsKeyed
  <2>. QED
    BY <2>1, <2>2, RowCases, FreshFields
<1>2. ASSUME NEW i \in JobIds, NEW j \in JobIds,
             jobs'[i].keyed, jobs'[j].keyed, jobs'[i].content = jobs'[j].content
      PROVE  i = j
  <2>1. ASSUME NEW k \in JobIds, RowEffect(k)
        PROVE  /\ jobs'[k].content = jobs[k].content
               /\ jobs'[k].keyed => jobs[k].keyed
    BY <2>1 DEF RowEffect
  <2>2. CASE RowEffect(i) /\ RowEffect(j)
    BY <1>2, <2>1, <2>2 DEF OneHolder
  <2>3. ASSUME NEW c \in Contents, Enqueue(c),
               NEW m \in JobIds, NEW k \in JobIds,
               jobs[m] = AbsentRow, jobs'[m] = NewRow(c),
               jobs'[k].keyed, jobs'[k].content = c
        PROVE  k = m
    <3>1. m = rows + 1
      BY <2>3, FreshFields DEF Enqueue, TypeOK, KeyTaken, Holders
    <3>2. k # m => /\ k \notin Holders(c)
                   /\ jobs'[k] = jobs[k]
      BY <2>3, <3>1 DEF Enqueue, KeyTaken, TypeOK, Row, Holders
    <3>. QED
      BY <2>3, <3>2 DEF Holders
  <2>4. jobs'[i] # AbsentRow /\ jobs'[j] # AbsentRow
    BY <1>2, FreshFields
  <2>5. CASE ~RowEffect(i)
    <3>1. PICK c \in Contents : /\ jobs[i] = AbsentRow /\ Enqueue(c)
                                /\ jobs'[i] = NewRow(c)
      BY <2>4, <2>5, RowCases
    <3>. QED
      BY <1>2, <2>3, <3>1, FreshFields
  <2>6. CASE ~RowEffect(j)
    <3>1. PICK c \in Contents : /\ jobs[j] = AbsentRow /\ Enqueue(c)
                                /\ jobs'[j] = NewRow(c)
      BY <2>4, <2>6, RowCases
    <3>. QED
      BY <1>2, <2>3, <3>1, FreshFields
  <2>. QED
    BY <2>2, <2>5, <2>6
<1>. QED
  BY <1>1, <1>2 DEF LiveIsKeyed, OneHolder

-----------------------------------------------------------------------------
(* Claim numbers.                                                          *)

\* The numbers of a row only grow.
LEMMA NumbersGrow ==
    ASSUME TypeOK, UsedRows, [Next]_vars, NEW j \in JobIds
    PROVE  /\ jobs[j].gen \in Nat /\ jobs'[j].gen \in Nat
           /\ jobs[j].gen <= jobs'[j].gen
           /\ jobs[j].stamp \in Nat /\ jobs'[j].stamp \in Nat
           /\ jobs[j].stamp <= jobs'[j].stamp
<1>1. jobs[j].gen \in Nat /\ jobs[j].stamp \in Nat
  BY DEF TypeOK, Row
<1>2. CASE RowEffect(j)
  BY <1>1, <1>2 DEF RowEffect
<1>3. CASE /\ jobs[j].gen = 0 /\ jobs'[j].gen = 0
           /\ jobs[j].stamp = 0 /\ jobs'[j].stamp = 0
  BY <1>3
<1>. QED
  BY <1>2, <1>3, RowCases, FreshFields

\* Other steps of a slot than RunnerClaim keep its claim or drop it.
LEMMA RunnerMemory ==
    ASSUME TypeOK, [Next]_vars
    PROVE  \/ \E r \in Runners : RunnerClaim(r)
           \/ \A r \in Runners : rclaim'[r] = rclaim[r] \/ rclaim'[r] = NoClaim
<1>. DEFINE Kept == \A r \in Runners : rclaim'[r] = rclaim[r] \/ rclaim'[r] = NoClaim
<1>1. ASSUME NEW w \in Workers, WorkerStep(w) PROVE Kept
  BY <1>1 DEF WorkerStep, WorkerClaim, BuildPacket, HandOff, FailDispatch,
              LoseDispatch, CrashWorker
<1>2. ASSUME NEW r \in Runners, RunnerStep(r), ~RunnerClaim(r) PROVE Kept
  BY <1>2 DEF RunnerStep, Answer, Finalize, Reject, Release, LoseLease, DropLease, TypeOK
<1>3. ASSUME Housekeeping PROVE Kept
  BY <1>3 DEF Housekeeping, ExpireStale, CloseTerminalFailed, ResetDispatched,
              ClearAbandoned
<1>4. ASSUME Environment PROVE Kept
  BY <1>4 DEF Environment, Edit, LeaseLapses, BackoffEnds
<1>5. ASSUME LedgerStep PROVE Kept
  BY <1>5 DEF LedgerStep, RecordSource, ForgetSource
<1>. QED
  BY <1>1, <1>2, <1>3, <1>4, <1>5 DEF Next, vars, Enqueue

\* Other steps of a worker than WorkerClaim keep number and job or drop them.
LEMMA WorkerMemory ==
    ASSUME TypeOK, [Next]_vars
    PROVE  \/ \E w \in Workers : WorkerClaim(w)
           \/ \A w \in Workers :
                 \/ /\ wclaim'[w].job = wclaim[w].job
                    /\ wclaim'[w].number = wclaim[w].number
                 \/ wclaim'[w] = NoClaim
<1>. DEFINE Kept == \A w \in Workers :
                       \/ /\ wclaim'[w].job = wclaim[w].job
                          /\ wclaim'[w].number = wclaim[w].number
                       \/ wclaim'[w] = NoClaim
<1>1. ASSUME NEW w \in Workers, WorkerStep(w), ~WorkerClaim(w) PROVE Kept
  <2>1. CASE BuildPacket(w)
    BY <2>1 DEF BuildPacket, TypeOK, Claim
  <2>2. CASE HandOff(w) \/ FailDispatch(w) \/ LoseDispatch(w) \/ CrashWorker(w)
    BY <2>2 DEF HandOff, FailDispatch, LoseDispatch, CrashWorker, TypeOK
  <2>. QED
    BY <1>1, <2>1, <2>2 DEF WorkerStep
<1>2. ASSUME NEW r \in Runners, RunnerStep(r) PROVE Kept
  BY <1>2 DEF RunnerStep, Answer, RunnerClaim, Finalize, Reject, Release, LoseLease,
              DropLease
<1>3. ASSUME Housekeeping PROVE Kept
  BY <1>3 DEF Housekeeping, ExpireStale, CloseTerminalFailed, ResetDispatched,
              ClearAbandoned
<1>4. ASSUME Environment PROVE Kept
  BY <1>4 DEF Environment, Edit, LeaseLapses, BackoffEnds
<1>5. ASSUME LedgerStep PROVE Kept
  BY <1>5 DEF LedgerStep, RecordSource, ForgetSource
<1>. QED
  BY <1>1, <1>2, <1>3, <1>4, <1>5 DEF Next, vars, Enqueue

\* A step keeps the runners' lease numbers distinct and no higher than their
\* row's: a runner gets a new number only with the claim that raises it.
LEMMA RunnerNumbersStep ==
    ASSUME TypeOK, UsedRows, RunnerNumbers, [Next]_vars
    PROVE  RunnerNumbers'
<1>. USE BoundsAssumption
<1>1. ASSUME NEW r \in Runners, rclaim[r].job # 0
      PROVE  /\ rclaim[r].job \in JobIds /\ rclaim[r].number \in Nat
             /\ rclaim[r].number <= jobs'[rclaim[r].job].gen
  <2>1. rclaim[r].job \in JobIds /\ rclaim[r].number \in Nat
    BY <1>1 DEF TypeOK, Claim, JobIds
  <2>. QED
    BY <1>1, <2>1, NumbersGrow DEF RunnerNumbers
<1>2. CASE \A r \in Runners : rclaim'[r] = rclaim[r] \/ rclaim'[r] = NoClaim
  BY <1>1, <1>2 DEF RunnerNumbers, NoClaim
<1>3. ASSUME NEW r \in Runners, RunnerClaim(r) PROVE RunnerNumbers'
  <2>1. PICK j \in JobIds :
           /\ jobs' = [jobs EXCEPT ![j] = Leased(@)]
           /\ rclaim' = [rclaim EXCEPT ![r] = [job    |-> j,
                                               number |-> jobs[j].gen + 1,
                                               built  |-> FALSE]]
    BY <1>3 DEF RunnerClaim
  <2>2. rclaim'[r].job = j /\ rclaim'[r].number = jobs[j].gen + 1
    BY <2>1 DEF TypeOK
  <2>3. jobs[j].gen \in Nat /\ jobs'[j].gen = jobs[j].gen + 1
    BY <2>1 DEF TypeOK, Row, Leased
  <2>4. ASSUME NEW q \in Runners, q # r PROVE rclaim'[q] = rclaim[q]
    BY <2>1, <2>4 DEF TypeOK
  <2>5. ASSUME NEW q \in Runners, q # r, rclaim[q].job = j
        PROVE  rclaim[q].number <= jobs[j].gen /\ rclaim[q].number \in Nat
    BY <1>1, <2>5 DEF RunnerNumbers, JobIds
  <2>6. ASSUME NEW q \in Runners, rclaim'[q].job # 0
        PROVE  rclaim'[q].number <= jobs'[rclaim'[q].job].gen
    BY <1>1, <2>2, <2>3, <2>4, <2>6
  <2>7. ASSUME NEW p \in Runners, NEW q \in Runners, rclaim'[p].job # 0,
               rclaim'[q].job = rclaim'[p].job,
               rclaim'[q].number = rclaim'[p].number
        PROVE  q = p
    <3>1. CASE p # r /\ q # r
      BY <2>4, <2>7, <3>1 DEF RunnerNumbers
    <3>2. CASE p = r /\ q # r
      BY <2>2, <2>3, <2>4, <2>5, <2>7, <3>2
    <3>3. CASE p # r /\ q = r
      BY <2>2, <2>3, <2>4, <2>5, <2>7, <3>3
    <3>. QED
      BY <3>1, <3>2, <3>3
  <2>. QED
    BY <2>6, <2>7 DEF RunnerNumbers
<1>. QED
  BY <1>2, <1>3, RunnerMemory

\* The same for the subagent workers and the processing leases they hold.
LEMMA WorkerNumbersStep ==
    ASSUME TypeOK, UsedRows, WorkerNumbers, [Next]_vars
    PROVE  WorkerNumbers'
<1>. USE BoundsAssumption
<1>1. ASSUME NEW w \in Workers, wclaim[w].job # 0
      PROVE  /\ wclaim[w].job \in JobIds /\ wclaim[w].number \in Nat
             /\ wclaim[w].number <= jobs'[wclaim[w].job].stamp
  <2>1. wclaim[w].job \in JobIds /\ wclaim[w].number \in Nat
    BY <1>1 DEF TypeOK, Claim, JobIds
  <2>. QED
    BY <1>1, <2>1, NumbersGrow DEF WorkerNumbers
<1>2. CASE \A w \in Workers :
              \/ /\ wclaim'[w].job = wclaim[w].job
                 /\ wclaim'[w].number = wclaim[w].number
              \/ wclaim'[w] = NoClaim
  BY <1>1, <1>2 DEF WorkerNumbers, NoClaim
<1>3. ASSUME NEW w \in Workers, WorkerClaim(w) PROVE WorkerNumbers'
  <2>1. PICK j \in JobIds :
           /\ jobs' = [jobs EXCEPT ![j] = DispatchedRow(@)]
           /\ wclaim' = [wclaim EXCEPT ![w] = [job    |-> j,
                                               number |-> jobs[j].stamp + 1,
                                               built  |-> FALSE]]
    BY <1>3 DEF WorkerClaim
  <2>2. wclaim'[w].job = j /\ wclaim'[w].number = jobs[j].stamp + 1
    BY <2>1 DEF TypeOK
  <2>3. jobs[j].stamp \in Nat /\ jobs'[j].stamp = jobs[j].stamp + 1
    BY <2>1 DEF TypeOK, Row, DispatchedRow
  <2>4. ASSUME NEW v \in Workers, v # w PROVE wclaim'[v] = wclaim[v]
    BY <2>1, <2>4 DEF TypeOK
  <2>5. ASSUME NEW v \in Workers, v # w, wclaim[v].job = j
        PROVE  wclaim[v].number <= jobs[j].stamp /\ wclaim[v].number \in Nat
    BY <1>1, <2>5 DEF WorkerNumbers, JobIds
  <2>6. ASSUME NEW v \in Workers, wclaim'[v].job # 0
        PROVE  wclaim'[v].number <= jobs'[wclaim'[v].job].stamp
    BY <1>1, <2>2, <2>3, <2>4, <2>6
  <2>7. ASSUME NEW u \in Workers, NEW v \in Workers, wclaim'[u].job # 0,
               wclaim'[v].job = wclaim'[u].job,
               wclaim'[v].number = wclaim'[u].number
        PROVE  v = u
    <3>1. CASE u # w /\ v # w
      BY <2>4, <2>7, <3>1 DEF WorkerNumbers
    <3>2. CASE u = w /\ v # w
      BY <2>2, <2>3, <2>4, <2>5, <2>7, <3>2
    <3>3. CASE u # w /\ v = w
      BY <2>2, <2>3, <2>4, <2>5, <2>7, <3>3
    <3>. QED
      BY <3>1, <3>2, <3>3
  <2>. QED
    BY <2>6, <2>7 DEF WorkerNumbers
<1>. QED
  BY <1>2, <1>3, WorkerMemory

-----------------------------------------------------------------------------
(* The invariant, and the properties that follow from it.                  *)

\* The inductive invariant holds in every reachable state.
THEOREM Inductive == Spec => []IInv
<1>1. Init => IInv
  <2>. SUFFICES ASSUME Init PROVE IInv
    OBVIOUS
  <2>. USE BoundsAssumption, AttemptsAssumption
  <2>1. TypeOK
    BY InitTypes
  <2>2. \A j \in JobIds : jobs[j] = AbsentRow
    BY DEF Init
  <2>3. UsedRows
    BY <2>2 DEF UsedRows, Init, JobIds
  <2>4. BudgetHolds /\ LiveIsKeyed /\ OneHolder
    BY <2>2, FreshFields DEF BudgetHolds, LiveIsKeyed, OneHolder, Live
  <2>5. AbandonedWasSpent
    BY DEF Init, AbandonedWasSpent
  <2>6. RunnerNumbers /\ WorkerNumbers
    BY DEF Init, RunnerNumbers, WorkerNumbers, NoClaim
  <2>. QED
    BY <2>1, <2>3, <2>4, <2>5, <2>6 DEF IInv
<1>2. IInv /\ [Next]_vars => IInv'
  BY TypeStep, UsedRowsStep, BudgetStep, AbandonedStep, KeysStep,
     RunnerNumbersStep, WorkerNumbersStep DEF IInv
<1>. QED
  BY <1>1, <1>2, PTL DEF Spec

\* Type correctness of the job table, the ledgers and all memories.
THEOREM TypeCorrect == Spec => []TypeOK
<1>1. IInv => TypeOK
  BY DEF IInv
<1>. QED
  BY <1>1, Inductive, PTL

\* Two live rows never stand for the same content, so one source is never
\* paid for twice at a time: enqueue_job and its unique idempotency key.
THEOREM OneLiveJob == Spec => []OneLiveJobPerContent
<1>1. IInv => OneLiveJobPerContent
  BY DEF IInv, LiveIsKeyed, OneHolder, OneLiveJobPerContent
<1>. QED
  BY <1>1, Inductive, PTL

\* A row whose lease is current is live, and two current leases of one
\* content are one.
LEMMA CurrentLeases ==
    ASSUME IInv, NEW q \in Runners, NEW r \in Runners,
           LeaseCurrent(q), LeaseCurrent(r),
           jobs[rclaim[q].job].content = jobs[rclaim[r].job].content
    PROVE  q = r
<1>. USE BoundsAssumption DEF LeaseCurrent, IInv
<1>1. rclaim[q].job \in JobIds /\ rclaim[r].job \in JobIds
  BY DEF TypeOK, Claim, JobIds
<1>2. rclaim[q].job = rclaim[r].job
  BY <1>1 DEF Live, LiveIsKeyed, OneHolder
<1>. QED
  BY <1>2 DEF RunnerNumbers

\* At most one slot can commit a content (the lease fence of
\* validate_ingest_job_finalization).
THEOREM OneCommitter == Spec => []SingleCommitter
<1>1. IInv => SingleCommitter
  BY CurrentLeases DEF SingleCommitter
<1>. QED
  BY <1>1, Inductive, PTL

\* No row spends more attempts than MAX_INGEST_ATTEMPTS, and a row at the
\* cap is in nobody's hands.
THEOREM Budget == Spec => []BudgetHolds
<1>1. IInv => BudgetHolds
  BY DEF IInv
<1>. QED
  BY <1>1, Inductive, PTL

\* A source is given up only with a spent row as evidence
\* (record_abandoned_source).
THEOREM Abandoned == Spec => []AbandonedWasSpent
<1>1. IInv => AbandonedWasSpent
  BY DEF IInv
<1>. QED
  BY <1>1, Inductive, PTL

\* History stays: finished and superseded rows are never run again and get
\* no key back.
THEOREM History == Spec => HistoryStays
<1>. DEFINE Stays == \A j \in JobIds :
                        jobs[j].status \in {"finalized", "superseded"} =>
                           /\ jobs'[j].status = jobs[j].status
                           /\ jobs'[j].keyed => jobs[j].keyed
<1>1. IInv /\ [Next]_vars => Stays
  <2>. SUFFICES ASSUME IInv, [Next]_vars, NEW j \in JobIds,
                       jobs[j].status \in {"finalized", "superseded"}
                PROVE  /\ jobs'[j].status = jobs[j].status
                       /\ jobs'[j].keyed => jobs[j].keyed
    OBVIOUS
  <2>1. jobs[j] # AbsentRow
    BY FreshFields
  <2>2. RowEffect(j)
    BY <2>1, RowCases DEF IInv
  <2>. QED
    BY <2>2 DEF RowEffect
<1>. QED
  BY <1>1, Inductive, PTL DEF Spec, HistoryStays

\* Nobody but its holder takes a row out of a current claim: the fences of
\* _dispatch_claim_current and _ingest_failure_claim_current.
THEOREM ExclusiveClaims == Spec => ClaimsAreExclusive
<1>. DEFINE Leases ==
        \A r \in Runners :
           LeaseCurrent(r) /\ rclaim'[r] # NoClaim =>
              /\ jobs'[rclaim[r].job].status = "subagent_processing"
              /\ jobs'[rclaim[r].job].gen = rclaim[r].number
     Dispatches ==
        \A w \in Workers :
           DispatchCurrent(w) /\ wclaim'[w] # NoClaim =>
              /\ jobs'[wclaim[w].job].status = "dispatched"
              /\ jobs'[wclaim[w].job].stamp = wclaim[w].number
<1>1. IInv /\ [Next]_vars => Leases
  <2>. SUFFICES ASSUME IInv, [Next]_vars, NEW r \in Runners,
                       LeaseCurrent(r), rclaim'[r] # NoClaim
                PROVE  /\ jobs'[rclaim[r].job].status = "subagent_processing"
                       /\ jobs'[rclaim[r].job].gen = rclaim[r].number
    OBVIOUS
  <2>. DEFINE j == rclaim[r].job
  <2>1. j \in JobIds /\ jobs[j] \in Row /\ rows \in Nat /\ j \in Nat
    BY BoundsAssumption DEF IInv, TypeOK, Claim, JobIds, LeaseCurrent
  <2>2. /\ jobs[j].status = "subagent_processing" /\ jobs[j].lease = "live"
        /\ jobs[j].gen = rclaim[r].number
    BY DEF LeaseCurrent
  <2>3. RowStep(j)
    BY <2>1, NextRowStep DEF IInv
  <2>4. ASSUME NEW q \in Runners, LeaseCurrent(q), rclaim[q].job = j,
               rclaim'[q] = NoClaim
        PROVE  FALSE
    BY <2>4, CurrentLeases
  <2>5. j # rows + 1
    BY <2>1, <2>2, FreshFields DEF IInv, UsedRows
  <2>6. jobs'[j] = jobs[j] \/ jobs'[j] = [jobs[j] EXCEPT !.lease = "lapsed"]
                           \/ jobs'[j] = [jobs[j] EXCEPT !.due = TRUE]
    BY <2>2, <2>3, <2>4, <2>5
       DEF RowStep, Replaceable, Dispatchable, Leasable, DispatchCurrent
  <2>. QED
    BY <2>1, <2>2, <2>6 DEF Row
<1>2. IInv /\ [Next]_vars => Dispatches
  <2>. SUFFICES ASSUME IInv, [Next]_vars, NEW w \in Workers,
                       DispatchCurrent(w), wclaim'[w] # NoClaim
                PROVE  /\ jobs'[wclaim[w].job].status = "dispatched"
                       /\ jobs'[wclaim[w].job].stamp = wclaim[w].number
    OBVIOUS
  <2>. DEFINE j == wclaim[w].job
  <2>1. j \in JobIds /\ jobs[j] \in Row /\ rows \in Nat /\ j \in Nat
    BY BoundsAssumption DEF IInv, TypeOK, Claim, JobIds, DispatchCurrent
  <2>2. /\ jobs[j].status = "dispatched" /\ jobs[j].lease = "live"
        /\ jobs[j].stamp = wclaim[w].number
    BY DEF DispatchCurrent
  <2>3. RowStep(j)
    BY <2>1, NextRowStep DEF IInv
  <2>4. ASSUME NEW v \in Workers, DispatchCurrent(v), wclaim[v].job = j,
               wclaim'[v] = NoClaim
        PROVE  FALSE
    BY <2>2, <2>4 DEF DispatchCurrent, IInv, WorkerNumbers
  <2>5. j # rows + 1
    BY <2>1, <2>2, FreshFields DEF IInv, UsedRows
  <2>6. jobs'[j] = jobs[j] \/ jobs'[j] = [jobs[j] EXCEPT !.lease = "lapsed"]
                           \/ jobs'[j] = [jobs[j] EXCEPT !.due = TRUE]
    BY <2>2, <2>3, <2>4, <2>5
       DEF RowStep, Replaceable, Dispatchable, Leasable, LeaseCurrent
  <2>. QED
    BY <2>1, <2>2, <2>6 DEF Row
<1>. QED
  BY <1>1, <1>2, Inductive, PTL DEF Spec, ClaimsAreExclusive

\* A row becomes finalized only in the transaction of finalize_ingest, which
\* records the content the file has at that moment.
THEOREM JobsEndRecorded == Spec => JobsEndInTheLedger
<1>. DEFINE Recorded ==
        \A j \in JobIds :
          jobs[j].status # "finalized" /\ jobs'[j].status = "finalized" =>
             \E p \in Paths : /\ jobs[j].content = <<p, raw[p]>>
                             /\ ledger'[p] = raw[p]
<1>1. IInv /\ [Next]_vars => Recorded
  <2>. SUFFICES ASSUME IInv, [Next]_vars, NEW j \in JobIds,
                       jobs[j].status # "finalized", jobs'[j].status = "finalized"
                PROVE  \E p \in Paths : /\ jobs[j].content = <<p, raw[p]>>
                                        /\ ledger'[p] = raw[p]
    OBVIOUS
  <2>1. jobs[j] \in Row /\ jobs' = [i \in JobIds |-> jobs'[i]]
    BY TableStays DEF IInv, TypeOK
  <2>2. ASSUME NEW q \in Runners, Finalize(q)
        PROVE  \E p \in Paths : /\ jobs[j].content = <<p, raw[p]>>
                                /\ ledger'[p] = raw[p]
    <3>. DEFINE i == rclaim[q].job
    <3>1. i \in JobIds /\ jobs[i].status = "subagent_processing"
      BY <2>2, BoundsAssumption
         DEF Finalize, LeaseCurrent, IInv, TypeOK, Claim, JobIds
    <3>2. i = j
      BY <2>2, <2>1 DEF Finalize, IInv, TypeOK
    <3>3. jobs[j].content \in Paths \X Hashes
      BY <3>1, <3>2, FreshFields DEF IInv, UsedRows, Contents
    <3>4. /\ raw[PathOf(j)] = HashOf(j)
          /\ ledger' = [ledger EXCEPT ![PathOf(j)] = HashOf(j)]
      BY <2>2, <3>2 DEF Finalize, SourceIs
    <3>5. jobs[j].content = <<PathOf(j), HashOf(j)>> /\ PathOf(j) \in Paths
      BY <3>3 DEF PathOf, HashOf
    <3>. QED
      BY <3>4, <3>5 DEF IInv, TypeOK
  <2>3. \E q \in Runners : Finalize(q)
    <3>1. ASSUME NEW q \in Runners, RunnerStep(q), ~Finalize(q) PROVE FALSE
      <4>1. \/ jobs'[j] = jobs[j]
            \/ jobs'[j] = Leased(jobs[j])
            \/ jobs'[j] = Failed(jobs[j], FALSE)
            \/ jobs'[j] = Released(jobs[j])
        BY <2>1, <3>1 DEF RunnerStep, Answer, RunnerClaim, Reject, Release,
                          LoseLease, DropLease, IInv, TypeOK
      <4>. QED
        BY <2>1, <4>1 DEF Leased, Failed, Released, Row
    <3>2. ASSUME NEW w \in Workers, WorkerStep(w) PROVE FALSE
      <4>1. \/ jobs'[j] = jobs[j]
            \/ jobs'[j] = DispatchedRow(jobs[j])
            \/ jobs'[j] = HandedOff(jobs[j])
            \/ jobs'[j] = Failed(jobs[j], FALSE)
        BY <2>1, <3>2 DEF WorkerStep, WorkerClaim, BuildPacket, HandOff,
                          FailDispatch, LoseDispatch, CrashWorker, IInv, TypeOK
      <4>. QED
        BY <2>1, <4>1 DEF DispatchedRow, HandedOff, Failed, Row
    <3>3. ASSUME NEW c \in Contents, Enqueue(c) PROVE FALSE
      BY <2>1, <3>3, FreshFields DEF Enqueue, KeyTaken, Row
    <3>4. ASSUME Housekeeping PROVE FALSE
      <4>1. \/ jobs'[j] = jobs[j]
            \/ jobs'[j] = Failed(jobs[j], TRUE)
            \/ jobs'[j] = [jobs[j] EXCEPT !.status = "superseded"]
            \/ jobs'[j] = [jobs[j] EXCEPT !.status = "queued", !.lease = "none"]
        <5>1. CASE ExpireStale
          BY <5>1 DEF ExpireStale
        <5>2. CASE CloseTerminalFailed
          BY <5>2 DEF CloseTerminalFailed
        <5>3. CASE ResetDispatched
          BY <5>3 DEF ResetDispatched
        <5>4. CASE \E p \in Paths : ClearAbandoned(p)
          BY <5>4 DEF ClearAbandoned
        <5>. QED
          BY <3>4, <5>1, <5>2, <5>3, <5>4 DEF Housekeeping
      <4>. QED
        BY <2>1, <4>1 DEF Failed, Row
    <3>5. ASSUME Environment PROVE FALSE
      BY <2>1, <3>5 DEF Environment, Edit, LeaseLapses, BackoffEnds, Row
    <3>6. ASSUME LedgerStep PROVE FALSE
      BY <2>1, <3>6 DEF LedgerStep, RecordSource, ForgetSource
    <3>. QED
      BY <3>1, <3>2, <3>3, <3>4, <3>5, <3>6 DEF Next, vars
  <2>. QED
    BY <2>2, <2>3
<1>. QED
  BY <1>1, Inductive, PTL DEF Spec, JobsEndInTheLedger

-----------------------------------------------------------------------------
(* The refinement of JobTable.                                             *)

\* One key has one holder, so the job of a content is that of its holder.
LEMMA JobOfHolder ==
    ASSUME OneHolder, NEW c \in Contents
    PROVE  /\ Holders(c) = {} => TableJob[c] = [st |-> "none", tries |-> 0]
           /\ \A j \in Holders(c) :
                 TableJob[c] = [st |-> RowState(j), tries |-> jobs[j].retries]
<1>1. \A i, j \in Holders(c) : i = j
  BY DEF OneHolder, Holders
<1>. QED
  BY <1>1 DEF TableJob, JobOf

\* The same of the next state.
LEMMA JobOfHolderNext ==
    ASSUME OneHolder', NEW c \in Contents
    PROVE  /\ Holders(c)' = {} => TableJob'[c] = [st |-> "none", tries |-> 0]
           /\ \A j \in Holders(c)' :
                 TableJob'[c] = [st |-> RowState(j)', tries |-> jobs'[j].retries]
<1>1. \A i, j \in Holders(c)' : i = j
  BY DEF OneHolder, Holders
<1>. QED
  BY <1>1 DEF TableJob, JobOf

\* A step that leaves every row its key and its content.
KeysStay == \A j \in JobIds : /\ jobs'[j].keyed = jobs[j].keyed
                              /\ jobs'[j].content = jobs[j].content

\* A step that takes no key and no content from a row leaves every content
\* its holder; its job is that of the holder again.
LEMMA HoldersStay ==
    ASSUME OneHolder, OneHolder', KeysStay, NEW c \in Contents
    PROVE  /\ Holders(c)' = Holders(c)
           /\ \A j \in Holders(c) :
                 TableJob'[c] = [st |-> RowState(j)', tries |-> jobs'[j].retries]
           /\ (\A j \in Holders(c) : /\ RowState(j)' = RowState(j)
                                    /\ jobs'[j].retries = jobs[j].retries)
              => TableJob'[c] = TableJob[c]
<1>1. Holders(c)' = Holders(c)
  BY DEF Holders, KeysStay
<1>2. \A j \in Holders(c) :
         TableJob'[c] = [st |-> RowState(j)', tries |-> jobs'[j].retries]
  BY <1>1, JobOfHolderNext
<1>3. CASE Holders(c) = {}
  BY <1>1, <1>3, JobOfHolder, JobOfHolderNext
<1>4. ASSUME NEW j \in Holders(c),
             RowState(j)' = RowState(j), jobs'[j].retries = jobs[j].retries
      PROVE  TableJob'[c] = TableJob[c]
  BY <1>2, <1>4, JobOfHolder
<1>. QED
  BY <1>1, <1>2, <1>3, <1>4

\* The job of a row in the pipeline is live, and the row holds its key.
LEMMA LiveRow ==
    ASSUME IInv, NEW j \in JobIds,
           jobs[j].status \in {"queued", "dispatched", "awaiting_subagent",
                               "subagent_processing"}
    PROVE  /\ jobs[j] \in Row
           /\ jobs[j].content \in Contents
           /\ j \in Holders(jobs[j].content)
           /\ TableJob[jobs[j].content] = [st |-> "live", tries |-> jobs[j].retries]
           /\ jobs[j].retries < MaxAttempts
<1>1. jobs[j] \in Row
  BY DEF IInv, TypeOK
<1>2. jobs[j].content \in Contents
  BY FreshFields DEF IInv, UsedRows
<1>3. j \in Holders(jobs[j].content)
  BY DEF IInv, LiveIsKeyed, Live, Holders
<1>4. RowState(j) = "live"
  BY DEF RowState
<1>5. jobs[j].retries < MaxAttempts
  BY <1>1, AttemptsAssumption DEF IInv, BudgetHolds, Row
<1>. QED
  BY <1>1, <1>2, <1>3, <1>4, <1>5, JobOfHolder DEF IInv

\* When row i, of the pipeline, is all that moves, the job of its content
\* becomes what the row says then, and no other job moves.
LEMMA LiveRowMoves ==
    ASSUME IInv, IInv', NEW i \in JobIds,
           jobs[i].status \in {"queued", "dispatched", "awaiting_subagent",
                               "subagent_processing"},
           \A j \in JobIds \ {i} : jobs'[j] = jobs[j],
           jobs'[i].keyed = jobs[i].keyed, jobs'[i].content = jobs[i].content
    PROVE  TableJob' = [TableJob EXCEPT ![jobs[i].content] =
                           [st |-> RowState(i)', tries |-> jobs'[i].retries]]
<1>1. KeysStay
  BY DEF KeysStay
<1>2. \A j \in JobIds \ {i} : /\ RowState(j)' = RowState(j)
                              /\ jobs'[j].retries = jobs[j].retries
  BY DEF RowState
<1>3. ASSUME NEW c \in Contents
      PROVE  TableJob'[c] = IF c = jobs[i].content
                            THEN [st |-> RowState(i)', tries |-> jobs'[i].retries]
                            ELSE TableJob[c]
  <2>1. i \in Holders(c) <=> c = jobs[i].content
    BY LiveRow DEF Holders
  <2>2. \A j \in Holders(c) : j \in JobIds
    BY DEF Holders
  <2>3. CASE i \in Holders(c)
    BY <1>1, <2>1, <2>3, HoldersStay DEF IInv
  <2>4. CASE i \notin Holders(c)
    BY <1>1, <1>2, <2>1, <2>2, <2>4, HoldersStay DEF IInv
  <2>. QED
    BY <2>3, <2>4
<1>. QED
  BY <1>3, LiveRow DEF TableJob

\* A step that leaves every row its key, its content, its state and its
\* attempts is invisible.
LEMMA NoJobMoves ==
    ASSUME IInv, IInv', KeysStay,
           \A j \in JobIds : /\ RowState(j)' = RowState(j)
                             /\ jobs'[j].retries = jobs[j].retries
    PROVE  TableJob' = TableJob
<1>1. ASSUME NEW c \in Contents PROVE TableJob'[c] = TableJob[c]
  <2>1. \A j \in Holders(c) : j \in JobIds
    BY DEF Holders
  <2>. QED
    BY <2>1, HoldersStay DEF IInv
<1>. QED
  BY <1>1 DEF TableJob

\* A new row for c: a scan makes the job of c live again, with a fresh
\* budget, and only where the old one is not being worked on.
LEMMA EnqueueMaps ==
    ASSUME IInv, IInv', NEW c \in Contents, Enqueue(c)
    PROVE  Table!Enqueued(c)
<1>1. PICK m \in JobIds : m = rows + 1 /\ jobs[m] = AbsentRow
  BY BoundsAssumption DEF Enqueue, IInv, TypeOK, UsedRows, JobIds
<1>a. OneHolder /\ OneHolder'
  BY DEF IInv
<1>2. /\ jobs'[m] = NewRow(c)
      /\ \A j \in Holders(c) : j \in JobIds /\ j # m /\ jobs'[j] = KeyTaken(jobs[j])
      /\ \A j \in JobIds : j # m /\ j \notin Holders(c) => jobs'[j] = jobs[j]
  BY <1>1, FreshFields DEF Enqueue, Holders
<1>3. TableJob'[c] = [st |-> "live", tries |-> 0]
  <2>1. m \in Holders(c)'
    BY <1>1, <1>2, FreshFields DEF Holders
  <2>2. RowState(m)' = "live" /\ jobs'[m].retries = 0
    BY <1>2, FreshFields DEF RowState
  <2>3. TableJob'[c] = [st |-> RowState(m)', tries |-> jobs'[m].retries]
    BY <1>a, <2>1, JobOfHolderNext
  <2>. QED
    BY <2>2, <2>3
<1>4. ASSUME NEW d \in Contents, d # c PROVE TableJob'[d] = TableJob[d]
  <2>1. ASSUME NEW j \in JobIds
        PROVE  /\ j \in Holders(d)' <=> j \in Holders(d)
               /\ j \in Holders(d) => jobs'[j] = jobs[j]
    <3>1. CASE j = m
      BY <1>1, <1>2, <1>4, <3>1, FreshFields DEF Holders
    <3>2. CASE j \in Holders(c)
      <4>1. jobs[j] \in Row /\ jobs[j].content = c /\ jobs'[j] = KeyTaken(jobs[j])
        BY <1>2, <3>2 DEF Holders, IInv, TypeOK
      <4>2. jobs'[j].content = c
        BY <4>1 DEF KeyTaken, Row
      <4>. QED
        BY <1>4, <4>1, <4>2 DEF Holders
    <3>3. CASE j # m /\ j \notin Holders(c)
      BY <1>2, <3>3 DEF Holders
    <3>. QED
      BY <3>1, <3>2, <3>3
  <2>2. Holders(d)' = Holders(d)
    BY <2>1 DEF Holders
  <2>3. CASE Holders(d) = {}
    BY <2>2, <2>3, JobOfHolder, JobOfHolderNext DEF IInv
  <2>4. ASSUME NEW j \in Holders(d) PROVE TableJob'[d] = TableJob[d]
    <3>1. j \in JobIds /\ jobs'[j] = jobs[j]
      BY <2>1, <2>4 DEF Holders
    <3>2. RowState(j)' = RowState(j)
      BY <3>1 DEF RowState
    <3>3. TableJob[d] = [st |-> RowState(j), tries |-> jobs[j].retries]
      BY <1>a, <2>4, JobOfHolder
    <3>4. TableJob'[d] = [st |-> RowState(j)', tries |-> jobs'[j].retries]
      BY <1>a, <2>2, <2>4, JobOfHolderNext
    <3>. QED
      BY <3>1, <3>2, <3>3, <3>4
  <2>. QED
    BY <2>3, <2>4
<1>5. Table!Replaceable(c)
  <2>1. CASE Holders(c) = {}
    BY <2>1, JobOfHolder DEF IInv, Table!Replaceable
  <2>2. ASSUME NEW j \in Holders(c) PROVE Table!Replaceable(c)
    <3>1. Replaceable(j) /\ jobs[j] \in Row
      BY <2>2 DEF Enqueue, Holders, IInv, TypeOK
    <3>2. RowState(j) \in {"done", "spent", "failed"}
      BY <3>1, AttemptsAssumption DEF RowState, Replaceable, Row
    <3>3. TableJob[c] = [st |-> RowState(j), tries |-> jobs[j].retries]
      BY <1>a, <2>2, JobOfHolder
    <3>. QED
      BY <3>2, <3>3 DEF Table!Replaceable
  <2>. QED
    BY <2>1, <2>2
<1>6. TableJob' = [TableJob EXCEPT ![c] = [st |-> "live", tries |-> 0]]
  BY <1>3, <1>4 DEF TableJob
<1>. QED
  BY <1>5, <1>6 DEF Table!Enqueued, Enqueue

\* What a lost attempt makes of the job of a row in the pipeline.
LEMMA AttemptMaps ==
    ASSUME IInv, IInv', NEW j \in JobIds, NEW isDue \in BOOLEAN,
           jobs[j].status \in {"queued", "dispatched", "awaiting_subagent",
                               "subagent_processing"},
           jobs'[j] = Failed(jobs[j], isDue)
    PROVE  /\ [st |-> RowState(j)', tries |-> jobs'[j].retries]
              = Table!Attempted(jobs[j].content)
           /\ LastAttempt(jobs[j])
              <=> Table!Attempted(jobs[j].content).st = "spent"
           /\ jobs'[j].keyed = jobs[j].keyed
           /\ jobs'[j].content = jobs[j].content
<1>. DEFINE c == jobs[j].content
<1>1. /\ TableJob[c] = [st |-> "live", tries |-> jobs[j].retries]
      /\ jobs[j] \in Row /\ jobs[j].retries < MaxAttempts
  BY LiveRow
<1>2. /\ jobs'[j].status = "failed" /\ jobs'[j].retries = jobs[j].retries + 1
      /\ jobs'[j].keyed = jobs[j].keyed /\ jobs'[j].content = jobs[j].content
  BY <1>1 DEF Failed, Row
<1>3. jobs[j].retries \in Nat /\ MaxAttempts \in Nat
  BY <1>1, AttemptsAssumption DEF Row
<1>4. RowState(j)' = IF jobs[j].retries + 1 >= MaxAttempts THEN "spent" ELSE "failed"
  BY <1>2, <1>3 DEF RowState
<1>. QED
  BY <1>1, <1>2, <1>3, <1>4 DEF Table!Attempted, LastAttempt

\* The steps of a dispatch worker: a claim of a failed row is its retry, a
\* failed dispatch loses the attempt.
LEMMA WorkerMaps ==
    ASSUME IInv, IInv', NEW w \in Workers, WorkerStep(w)
    PROVE  [Table!TableNext]_(Table!tableVars)
<1>. USE DEF Table!tableVars
<1>1. CASE WorkerClaim(w)
  <2>1. PICK j \in JobIds : /\ Dispatchable(j)
                            /\ jobs' = [jobs EXCEPT ![j] = DispatchedRow(@)]
    BY <1>1 DEF WorkerClaim, Oldest
  <2>2. jobs[j] \in Row /\ jobs'[j] = DispatchedRow(jobs[j])
    BY <2>1 DEF IInv, TypeOK
  <2>3. /\ jobs'[j].keyed = jobs[j].keyed /\ jobs'[j].content = jobs[j].content
        /\ jobs'[j].retries = jobs[j].retries /\ jobs'[j].status = "dispatched"
    BY <2>2 DEF DispatchedRow, Row
  <2>4. KeysStay
    BY <2>1, <2>3 DEF KeysStay, IInv, TypeOK
  <2>5. \A i \in JobIds \ {j} : /\ RowState(i)' = RowState(i)
                                /\ jobs'[i].retries = jobs[i].retries
    BY <2>1 DEF RowState, IInv, TypeOK
  <2>6. RowState(j)' = "live"
    BY <2>3 DEF RowState
  <2>7. CASE jobs[j].status # "failed"
    <3>1. RowState(j) = "live"
      BY <2>1, <2>7 DEF RowState, Dispatchable
    <3>2. TableJob' = TableJob
      BY <2>3, <2>4, <2>5, <2>6, <3>1, NoJobMoves
    <3>. QED
      BY <1>1, <3>2 DEF WorkerClaim
  <2>8. CASE jobs[j].status = "failed"
    <3>. DEFINE c == jobs[j].content
    <3>1. jobs[j].retries < MaxAttempts
      BY <2>1, <2>8 DEF Dispatchable
    <3>2. j \in Holders(c) /\ c \in Contents
      BY <2>8, <3>1, FreshFields DEF IInv, LiveIsKeyed, Live, Holders, UsedRows
    <3>3. RowState(j) = "failed"
      BY <2>2, <2>8, <3>1, AttemptsAssumption DEF RowState, Row
    <3>4. TableJob[c] = [st |-> "failed", tries |-> jobs[j].retries]
      BY <3>2, <3>3, JobOfHolder DEF IInv
    <3>5. TableJob'[c] = [st |-> "live", tries |-> jobs[j].retries]
      BY <2>3, <2>4, <2>6, <3>2, HoldersStay DEF IInv
    <3>6. ASSUME NEW d \in Contents, d # c PROVE TableJob'[d] = TableJob[d]
      <4>1. \A i \in Holders(d) : i \in JobIds \ {j}
        BY <3>6 DEF Holders
      <4>. QED
        BY <2>4, <2>5, <4>1, HoldersStay DEF IInv
    <3>7. TableJob' = [TableJob EXCEPT ![c].st = "live"]
      BY <3>2, <3>4, <3>5, <3>6 DEF TableJob
    <3>8. Table!Retried(c)
      BY <1>1, <3>4, <3>7 DEF Table!Retried, WorkerClaim
    <3>. QED
      BY <3>2, <3>8 DEF Table!TableNext, Table!Contents, Contents
  <2>. QED
    BY <2>7, <2>8
<1>2. CASE HandOff(w)
  <2>0. wclaim[w].job \in JobIds
    BY <1>2, BoundsAssumption
       DEF HandOff, DispatchCurrent, IInv, TypeOK, Claim, JobIds
  <2>1. PICK j \in JobIds : j = wclaim[w].job
    BY <2>0
  <2>2. /\ jobs[j].status = "dispatched" /\ jobs'[j] = HandedOff(jobs[j])
        /\ jobs[j] \in Row
        /\ \A i \in JobIds \ {j} : jobs'[i] = jobs[i]
    BY <1>2, <2>1 DEF HandOff, DispatchCurrent, IInv, TypeOK
  <2>3. /\ jobs'[j].keyed = jobs[j].keyed /\ jobs'[j].content = jobs[j].content
        /\ jobs'[j].retries = jobs[j].retries
        /\ jobs'[j].status = "awaiting_subagent"
    BY <2>2 DEF HandedOff, Row
  <2>4. KeysStay
    BY <2>2, <2>3 DEF KeysStay
  <2>5. \A i \in JobIds : /\ RowState(i)' = RowState(i)
                          /\ jobs'[i].retries = jobs[i].retries
    BY <2>2, <2>3 DEF RowState
  <2>. QED
    BY <1>2, <2>4, <2>5, NoJobMoves DEF HandOff
<1>3. CASE FailDispatch(w)
  <2>0. wclaim[w].job \in JobIds
    BY <1>3, BoundsAssumption
       DEF FailDispatch, DispatchCurrent, IInv, TypeOK, Claim, JobIds
  <2>1. PICK j \in JobIds : j = wclaim[w].job
    BY <2>0
  <2>2. /\ jobs[j].status = "dispatched" /\ jobs'[j] = Failed(jobs[j], FALSE)
        /\ \A i \in JobIds \ {j} : jobs'[i] = jobs[i]
    BY <1>3, <2>1 DEF FailDispatch, DispatchCurrent, IInv, TypeOK
  <2>. DEFINE c == jobs[j].content
  <2>3. /\ c \in Contents
        /\ TableJob[c] = [st |-> "live", tries |-> jobs[j].retries]
    BY <2>2, LiveRow
  <2>4. TableJob' = [TableJob EXCEPT ![c] = Table!Attempted(c)]
    <3>1. /\ [st |-> RowState(j)', tries |-> jobs'[j].retries] = Table!Attempted(c)
          /\ jobs'[j].keyed = jobs[j].keyed /\ jobs'[j].content = c
      BY <2>2, AttemptMaps
    <3>2. TableJob' = [TableJob EXCEPT ![c] =
                          [st |-> RowState(j)', tries |-> jobs'[j].retries]]
      BY <2>2, <3>1, LiveRowMoves
    <3>. QED
      BY <3>1, <3>2
  <2>5. TableJob' = [d \in Contents |-> IF d \in {c} THEN Table!Attempted(d)
                                        ELSE TableJob[d]]
    BY <2>4 DEF TableJob
  <2>6. Table!AttemptsLost({c})
    BY <1>3, <2>3, <2>5
       DEF Table!AttemptsLost, Table!Contents, Contents, FailDispatch
  <2>. QED
    BY <2>3, <2>6 DEF Table!TableNext, Table!Contents, Contents
<1>4. CASE BuildPacket(w) \/ LoseDispatch(w) \/ CrashWorker(w)
  <2>1. UNCHANGED <<jobs, raw, ledger, abandoned>>
    BY <1>4 DEF BuildPacket, LoseDispatch, CrashWorker
  <2>2. TableJob' = TableJob
    BY <2>1 DEF TableJob, JobOf, Holders, RowState
  <2>. QED
    BY <2>1, <2>2
<1>. QED
  BY <1>1, <1>2, <1>3, <1>4 DEF WorkerStep

\* The steps of a runner slot: its answer to a lease it still holds is an
\* acceptance, a rejection or a deferral of the job of that content.
LEMMA RunnerMaps ==
    ASSUME IInv, IInv', NEW r \in Runners, RunnerStep(r)
    PROVE  [Table!TableNext]_(Table!tableVars)
<1>. USE DEF Table!tableVars
<1>1. CASE RunnerClaim(r)
  <2>1. PICK j \in JobIds : /\ Leasable(j)
                            /\ jobs' = [jobs EXCEPT ![j] = Leased(@)]
    BY <1>1 DEF RunnerClaim, Oldest
  <2>2. /\ jobs[j] \in Row /\ jobs'[j] = Leased(jobs[j])
        /\ \A i \in JobIds \ {j} : jobs'[i] = jobs[i]
    BY <2>1 DEF IInv, TypeOK
  <2>3. /\ jobs'[j].keyed = jobs[j].keyed /\ jobs'[j].content = jobs[j].content
        /\ jobs'[j].retries = jobs[j].retries
        /\ jobs'[j].status = "subagent_processing"
    BY <2>2 DEF Leased, Row
  <2>4. KeysStay
    BY <2>2, <2>3 DEF KeysStay
  <2>5. \A i \in JobIds : /\ RowState(i)' = RowState(i)
                          /\ jobs'[i].retries = jobs[i].retries
    BY <2>1, <2>2, <2>3 DEF RowState, Leasable
  <2>. QED
    BY <1>1, <2>4, <2>5, NoJobMoves DEF RunnerClaim
<1>2. ASSUME Finalize(r) \/ Reject(r) \/ Release(r)
      PROVE  [Table!TableNext]_(Table!tableVars)
  <2>a. LeaseCurrent(r)
    BY <1>2 DEF Finalize, Reject, Release
  <2>0. rclaim[r].job \in JobIds
    BY <2>a, BoundsAssumption DEF LeaseCurrent, IInv, TypeOK, Claim, JobIds
  <2>1. PICK j \in JobIds : j = rclaim[r].job
    BY <2>0
  <2>2. jobs[j].status = "subagent_processing"
    BY <2>a, <2>1 DEF LeaseCurrent
  <2>. DEFINE c == jobs[j].content
  <2>3. /\ c \in Contents /\ jobs[j] \in Row /\ jobs[j].retries < MaxAttempts
        /\ TableJob[c] = [st |-> "live", tries |-> jobs[j].retries]
    BY <2>2, LiveRow
  <2>4. ASSUME jobs'[j].keyed = jobs[j].keyed, jobs'[j].content = c,
               \A i \in JobIds \ {j} : jobs'[i] = jobs[i]
        PROVE  TableJob' = [TableJob EXCEPT ![c] =
                              [st |-> RowState(j)', tries |-> jobs'[j].retries]]
    BY <2>2, <2>4, LiveRowMoves
  <2>5. CASE Finalize(r)
    <3>1. /\ jobs'[j] = Finalized(jobs[j])
          /\ \A i \in JobIds \ {j} : jobs'[i] = jobs[i]
          /\ raw[PathOf(j)] = HashOf(j)
          /\ ledger' = [ledger EXCEPT ![PathOf(j)] = HashOf(j)]
          /\ UNCHANGED <<raw, abandoned>>
      BY <2>1, <2>5 DEF Finalize, SourceIs, IInv, TypeOK
    <3>2. /\ jobs'[j].keyed = jobs[j].keyed /\ jobs'[j].content = c
          /\ jobs'[j].retries = jobs[j].retries /\ jobs'[j].status = "finalized"
      BY <2>3, <3>1 DEF Finalized, Row
    <3>3. RowState(j)' = "done"
      BY <3>2 DEF RowState
    <3>4. TableJob' = [TableJob EXCEPT ![c].st = "done"]
      BY <2>3, <2>4, <3>1, <3>2, <3>3
    <3>5. Table!Accepted(c)
      BY <2>3, <3>1, <3>4 DEF Table!Accepted, PathOf, HashOf
    <3>. QED
      BY <2>3, <3>5 DEF Table!TableNext, Table!Contents, Contents
  <2>6. CASE Reject(r)
    <3>1. /\ jobs'[j] = Failed(jobs[j], FALSE)
          /\ \A i \in JobIds \ {j} : jobs'[i] = jobs[i]
          /\ abandoned' = IF LastAttempt(jobs[j]) THEN abandoned \cup {c}
                                                  ELSE abandoned
          /\ UNCHANGED <<raw, ledger>>
      BY <2>1, <2>6 DEF Reject, IInv, TypeOK
    <3>2. /\ [st |-> RowState(j)', tries |-> jobs'[j].retries] = Table!Attempted(c)
          /\ LastAttempt(jobs[j]) <=> Table!Attempted(c).st = "spent"
          /\ jobs'[j].keyed = jobs[j].keyed /\ jobs'[j].content = c
      BY <2>2, <3>1, AttemptMaps
    <3>3. TableJob' = [TableJob EXCEPT ![c] = Table!Attempted(c)]
      BY <2>4, <3>1, <3>2
    <3>4. Table!Rejected(c)
      BY <2>3, <3>1, <3>2, <3>3 DEF Table!Rejected
    <3>. QED
      BY <2>3, <3>4 DEF Table!TableNext, Table!Contents, Contents
  <2>7. CASE Release(r)
    <3>1. /\ jobs'[j] = Released(jobs[j])
          /\ \A i \in JobIds \ {j} : jobs'[i] = jobs[i]
          /\ UNCHANGED <<raw, ledger, abandoned>>
      BY <2>1, <2>7 DEF Release, IInv, TypeOK
    <3>2. /\ jobs'[j].keyed = jobs[j].keyed /\ jobs'[j].content = c
          /\ jobs'[j].retries = jobs[j].retries /\ jobs'[j].status = "failed"
      BY <2>3, <3>1 DEF Released, Row
    <3>3. RowState(j)' = "failed"
      <4>1. jobs[j].retries \in Nat /\ MaxAttempts \in Nat
        BY <2>3, AttemptsAssumption DEF Row
      <4>. QED
        BY <2>3, <3>2, <4>1 DEF RowState
    <3>4. TableJob' = [TableJob EXCEPT ![c].st = "failed"]
      BY <2>3, <2>4, <3>1, <3>2, <3>3
    <3>5. Table!Deferred(c)
      BY <2>3, <3>1, <3>4 DEF Table!Deferred
    <3>. QED
      BY <2>3, <3>5 DEF Table!TableNext, Table!Contents, Contents
  <2>. QED
    BY <1>2, <2>5, <2>6, <2>7
<1>3. CASE LoseLease(r) \/ DropLease(r)
  <2>1. UNCHANGED <<jobs, raw, ledger, abandoned>>
    BY <1>3 DEF LoseLease, DropLease
  <2>2. TableJob' = TableJob
    BY <2>1 DEF TableJob, JobOf, Holders, RowState
  <2>. QED
    BY <2>1, <2>2
<1>. QED
  BY <1>1, <1>2, <1>3 DEF RunnerStep, Answer

\* Housekeeping: stale packets lose an attempt each, spent jobs of published
\* paths are closed, and a reset of stranded dispatches is invisible.
LEMMA HousekeepingMaps ==
    ASSUME IInv, IInv', Housekeeping
    PROVE  [Table!TableNext]_(Table!tableVars)
<1>. USE DEF Table!tableVars
<1>a. OneHolder /\ OneHolder'
  BY DEF IInv
<1>1. CASE ExpireStale
  <2>1. PICK S \in SUBSET {j \in JobIds : jobs[j].status = "awaiting_subagent"} :
           jobs' = [j \in JobIds |-> IF j \in S THEN Failed(jobs[j], TRUE)
                                     ELSE jobs[j]]
    BY <1>1 DEF ExpireStale
  <2>2. ASSUME NEW j \in S
        PROVE  /\ j \in JobIds /\ jobs[j].status = "awaiting_subagent"
               /\ jobs'[j] = Failed(jobs[j], TRUE)
    BY <2>1
  <2>3. ASSUME NEW j \in S
        PROVE  /\ jobs[j].content \in Contents /\ j \in Holders(jobs[j].content)
               /\ TableJob[jobs[j].content].st = "live"
               /\ [st |-> RowState(j)', tries |-> jobs'[j].retries]
                  = Table!Attempted(jobs[j].content)
               /\ jobs'[j].keyed = jobs[j].keyed
               /\ jobs'[j].content = jobs[j].content
    <3>1. j \in JobIds
      BY <2>2
    <3>2. /\ jobs[j].content \in Contents /\ j \in Holders(jobs[j].content)
          /\ TableJob[jobs[j].content] = [st |-> "live", tries |-> jobs[j].retries]
      BY <2>2, <3>1, LiveRow
    <3>3. /\ [st |-> RowState(j)', tries |-> jobs'[j].retries]
             = Table!Attempted(jobs[j].content)
          /\ jobs'[j].keyed = jobs[j].keyed
          /\ jobs'[j].content = jobs[j].content
      BY <2>2, <3>1, AttemptMaps
    <3>. QED
      BY <3>2, <3>3
  <2>4. KeysStay
    BY <2>1, <2>3 DEF KeysStay
  <2>. DEFINE C == {jobs[j].content : j \in S}
  <2>5. ASSUME NEW c \in Contents
        PROVE  TableJob'[c] = IF c \in C THEN Table!Attempted(c) ELSE TableJob[c]
    <3>1. CASE c \in C
      <4>1. PICK j \in S : jobs[j].content = c
        BY <3>1
      <4>2. TableJob'[c] = [st |-> RowState(j)', tries |-> jobs'[j].retries]
        BY <1>a, <2>3, <2>4, <4>1, HoldersStay
      <4>. QED
        BY <2>3, <3>1, <4>1, <4>2
    <3>2. CASE c \notin C
      <4>1. \A j \in Holders(c) : j \in JobIds /\ j \notin S
        BY <3>2 DEF Holders
      <4>2. \A j \in Holders(c) : /\ RowState(j)' = RowState(j)
                                   /\ jobs'[j].retries = jobs[j].retries
        BY <2>1, <4>1 DEF RowState
      <4>. QED
        BY <1>a, <2>4, <3>2, <4>2, HoldersStay
    <3>. QED
      BY <3>1, <3>2
  <2>6. TableJob' = [c \in Contents |-> IF c \in C THEN Table!Attempted(c)
                                        ELSE TableJob[c]]
    BY <2>5 DEF TableJob
  <2>7. C \in SUBSET Contents /\ \A c \in C : TableJob[c].st = "live"
    BY <2>3
  <2>8. Table!AttemptsLost(C)
    BY <1>1, <2>6, <2>7
       DEF Table!AttemptsLost, Table!Contents, Contents, ExpireStale
  <2>. QED
    BY <2>7, <2>8 DEF Table!TableNext, Table!Contents, Contents
<1>2. CASE CloseTerminalFailed
  <2>. DEFINE D == {j \in TerminalFailed : ledger[PathOf(j)] # NoHash}
  <2>1. jobs' = [j \in JobIds |-> IF j \in D
                                  THEN [jobs[j] EXCEPT !.status = "superseded"]
                                  ELSE jobs[j]]
    BY <1>2 DEF CloseTerminalFailed
  <2>2. ASSUME NEW j \in JobIds
        PROVE  /\ jobs'[j].keyed = jobs[j].keyed
               /\ jobs'[j].content = jobs[j].content
               /\ jobs'[j].retries = jobs[j].retries
               /\ RowState(j)' = IF j \in D THEN "dead" ELSE RowState(j)
    <3>1. jobs[j] \in Row
      BY DEF IInv, TypeOK
    <3>2. jobs'[j] = IF j \in D THEN [jobs[j] EXCEPT !.status = "superseded"]
                     ELSE jobs[j]
      BY <2>1
    <3>. HIDE DEF D
    <3>3. CASE j \in D
      BY <3>1, <3>2, <3>3 DEF Row, RowState
    <3>4. CASE j \notin D
      BY <3>2, <3>4 DEF RowState
    <3>. QED
      BY <3>3, <3>4
  <2>3. KeysStay
    BY <2>2 DEF KeysStay
  <2>4. ASSUME NEW j \in JobIds, NEW c \in Contents, j \in Holders(c)
        PROVE  j \in D <=> RowState(j) = "spent" /\ ledger[c[1]] # NoHash
    <3>1. jobs[j].retries \in Nat /\ MaxAttempts \in Nat /\ jobs[j].content = c
      BY <2>4, AttemptsAssumption DEF IInv, TypeOK, Row, Holders
    <3>. QED
      BY <3>1 DEF RowState, TerminalFailed, PathOf
  <2>. DEFINE Closed(c) == IF TableJob[c].st = "spent" /\ ledger[c[1]] # NoHash
                           THEN [TableJob[c] EXCEPT !.st = "dead"]
                           ELSE TableJob[c]
  <2>5. ASSUME NEW c \in Contents PROVE TableJob'[c] = Closed(c)
    <3>. HIDE DEF D
    <3>1. CASE Holders(c) = {}
      BY <1>a, <2>3, <3>1, JobOfHolder, HoldersStay
    <3>2. ASSUME NEW j \in Holders(c) PROVE TableJob'[c] = Closed(c)
      <4>1. j \in JobIds
        BY <3>2 DEF Holders
      <4>2. TableJob[c] = [st |-> RowState(j), tries |-> jobs[j].retries]
        BY <1>a, <3>2, JobOfHolder
      <4>3. TableJob'[c] = [st |-> RowState(j)', tries |-> jobs'[j].retries]
        BY <1>a, <2>3, <3>2, HoldersStay
      <4>. QED
        BY <2>2, <2>4, <3>2, <4>1, <4>2, <4>3
    <3>. QED
      BY <3>1, <3>2
  <2>6. TableJob' = [c \in Contents |-> Closed(c)]
    BY <2>5 DEF TableJob
  <2>7. Table!Closed
    BY <1>2, <2>6
       DEF Table!Closed, Table!Contents, Contents, Table!NoHash, NoHash,
           CloseTerminalFailed
  <2>. QED
    BY <2>7 DEF Table!TableNext
<1>3. CASE ResetDispatched
  <2>1. ASSUME NEW j \in JobIds
        PROVE  /\ jobs'[j].keyed = jobs[j].keyed
               /\ jobs'[j].content = jobs[j].content
               /\ jobs'[j].retries = jobs[j].retries
               /\ RowState(j)' = RowState(j)
    <3>1. jobs[j] \in Row
      BY DEF IInv, TypeOK
    <3>2. \/ jobs'[j] = jobs[j]
          \/ /\ jobs[j].status = "dispatched"
             /\ jobs'[j] = [jobs[j] EXCEPT !.status = "queued", !.lease = "none"]
      BY <1>3 DEF ResetDispatched
    <3>. QED
      BY <3>1, <3>2 DEF Row, RowState
  <2>2. KeysStay
    BY <2>1 DEF KeysStay
  <2>. QED
    BY <1>3, <2>1, <2>2, NoJobMoves DEF ResetDispatched
<1>4. ASSUME NEW p \in Paths, ClearAbandoned(p)
      PROVE  [Table!TableNext]_(Table!tableVars)
  <2>1. TableJob' = TableJob
    BY <1>4 DEF ClearAbandoned, TableJob, JobOf, Holders, RowState
  <2>2. Table!Cleared(p)
    BY <1>4, <2>1 DEF ClearAbandoned, Table!Cleared
  <2>. QED
    BY <2>2 DEF Table!TableNext
<1>. QED
  BY <1>1, <1>2, <1>3, <1>4 DEF Housekeeping

\* The environment: an edit of a file is one; time is invisible.
LEMMA EnvironmentMaps ==
    ASSUME IInv, IInv', Environment
    PROVE  [Table!TableNext]_(Table!tableVars)
<1>. USE DEF Table!tableVars
<1>1. ASSUME NEW p \in Paths, NEW h \in Hashes \cup {NoHash}, Edit(p, h)
      PROVE  [Table!TableNext]_(Table!tableVars)
  <2>1. TableJob' = TableJob
    BY <1>1 DEF Edit, TableJob, JobOf, Holders, RowState
  <2>2. Table!Edited(p, h)
    BY <1>1, <2>1 DEF Edit, Table!Edited
  <2>. QED
    BY <2>2 DEF Table!TableNext, Table!NoHash, NoHash
<1>2. ASSUME NEW i \in JobIds, LeaseLapses(i) \/ BackoffEnds(i)
      PROVE  [Table!TableNext]_(Table!tableVars)
  <2>1. ASSUME NEW j \in JobIds
        PROVE  /\ jobs'[j].keyed = jobs[j].keyed
               /\ jobs'[j].content = jobs[j].content
               /\ jobs'[j].retries = jobs[j].retries
               /\ RowState(j)' = RowState(j)
    <3>1. jobs[j] \in Row
      BY DEF IInv, TypeOK
    <3>2. \/ jobs'[j] = jobs[j]
          \/ jobs'[j] = [jobs[j] EXCEPT !.lease = "lapsed"]
          \/ jobs'[j] = [jobs[j] EXCEPT !.due = TRUE]
      BY <1>2 DEF LeaseLapses, BackoffEnds, IInv, TypeOK
    <3>. QED
      BY <3>1, <3>2 DEF Row, RowState
  <2>2. KeysStay
    BY <2>1 DEF KeysStay
  <2>. QED
    BY <1>2, <2>1, <2>2, NoJobMoves DEF LeaseLapses, BackoffEnds
<1>. QED
  BY <1>1, <1>2 DEF Environment

\* Every step of the rows is a step of the abstract table, or none.
LEMMA TableStep ==
    ASSUME IInv, IInv', [Next]_vars
    PROVE  [Table!TableNext]_(Table!tableVars)
<1>1. ASSUME NEW c \in Contents, Enqueue(c)
      PROVE  [Table!TableNext]_(Table!tableVars)
  BY <1>1, EnqueueMaps DEF Table!TableNext, Table!Contents, Contents
<1>2. CASE UNCHANGED vars
  BY <1>2 DEF vars, Table!tableVars, TableJob, JobOf, Holders, RowState
<1>3. ASSUME LedgerStep PROVE [Table!TableNext]_(Table!tableVars)
  <2>1. TableJob' = TableJob
    BY <1>3 DEF LedgerStep, RecordSource, ForgetSource, TableJob, JobOf,
                Holders, RowState
  <2>2. PICK p \in Paths : \/ ForgetSource(p)
                           \/ \E h \in Hashes \cup {EmptyHash} : RecordSource(p, h)
    BY <1>3 DEF LedgerStep
  <2>3. CASE ForgetSource(p)
    BY <2>1, <2>3 DEF ForgetSource, Table!Forgotten, Table!TableNext, Table!NoHash,
                      NoHash
  <2>4. ASSUME NEW h \in Hashes \cup {EmptyHash}, RecordSource(p, h)
        PROVE  [Table!TableNext]_(Table!tableVars)
    <3>1. Table!Recorded(p, h)
      BY <2>1, <2>4 DEF RecordSource, Table!Recorded
    <3>. QED
      BY <3>1 DEF Table!TableNext, Table!EmptyHash, EmptyHash
  <2>. QED
    BY <2>2, <2>3, <2>4
<1>. QED
  BY <1>1, <1>2, <1>3, WorkerMaps, RunnerMaps, HousekeepingMaps, EnvironmentMaps
     DEF Next

\* An empty table is one without jobs.
LEMMA TableStart == Init => Table!TableInit
<1>. SUFFICES ASSUME Init PROVE Table!TableInit
  OBVIOUS
<1>1. \A c \in Contents : Holders(c) = {}
  BY FreshFields DEF Init, Holders
<1>2. TableJob = [c \in Contents |-> [st |-> "none", tries |-> 0]]
  BY <1>1 DEF TableJob, JobOf
<1>. QED
  BY <1>2 DEF Init, Table!TableInit, Table!Contents, Contents, Table!NoJob,
              Table!NoHash, NoHash

\* The job table implements JobTable: whatever rows, claims, leases and
\* supersessions it takes, each content has one job with one budget
\* (enqueue_job, claim_pending_jobs, finalize_ingest, record_ingest_failure).
THEOREM ImplementsTable == Spec => ImplementsJobTable
<1>1. IInv /\ IInv' /\ [Next]_vars => [Table!TableNext]_(Table!tableVars)
  BY TableStep
<1>. QED
  BY <1>1, TableStart, Inductive, PTL DEF Spec, ImplementsJobTable, Table!TableSpec

-----------------------------------------------------------------------------
(* The raw watcher and its scans.  NothingForgotten is inductive together  *)
(* with the types: a path that waits is covered by the dirty bit until a   *)
(* scan begins, by the scan until it has looked at the path, and, when the *)
(* batch was full, by the files left over, which make the scan set the bit *)
(* again.                                                                  *)

DrainFacts == DrainTypeOK /\ NothingForgotten

USE DEF DrainTypeOK, NothingForgotten, DrainFacts

Drains == [at : {"none", "check", "scan"}, looked : SUBSET Files,
           enqueued : Nat, remaining : Nat]

\* A task that has looked at one more file is a task.
LEMMA LookedDrain ==
    ASSUME NEW d \in Drains, NEW n \in Nat, NEW p \in Files
    PROVE  /\ [d EXCEPT !.looked = @ \cup {p}, !.enqueued = n] \in Drains
           /\ [d EXCEPT !.looked = @ \cup {p}, !.remaining = n] \in Drains
  BY DEF Drains

\* Nothing waits when the watcher starts.
LEMMA DrainStarts == DrainInit => DrainFacts
  BY DEF DrainInit, NoDrain

\* What the watcher's thread and the file system do.
LEMMA WatcherKeeps ==
    ASSUME DrainFacts, NEW p \in Files, Change(p) \/ Deliver(p) \/ Forget(p)
    PROVE  DrainFacts'
  <1>1. CASE Change(p)
    BY <1>1 DEF Change, ToLook, Again
  <1>2. CASE Ignore(p)
    BY <1>2 DEF Ignore, Delivered, ToLook, Again
  <1>3. CASE Coalesce(p)
    BY <1>3 DEF Coalesce, Accepts, Delivered, ToLook, Again
  <1>4. CASE Submit(p)
    <2>1. taken = {} /\ owed = {}
      BY <1>4 DEF Submit, ToLook
    <2>2. QED
      BY <1>4, <2>1 DEF Submit, Accepts, Delivered, Checking, NoDrain
  <1>5. CASE SubmitFails(p)
    <2>1. taken = {} /\ owed = {}
      BY <1>5 DEF SubmitFails, ToLook
    <2>2. faults' \in Nat
      BY <1>5 DEF SubmitFails, Fault
    <2>3. DrainTypeOK'
      BY <1>5, <2>2 DEF SubmitFails, Accepts, Delivered
    <2>4. QED
      BY <1>5, <2>1, <2>3 DEF SubmitFails
  <1>6. CASE Forget(p)
    BY <1>6 DEF Forget, ToLook, Again
  <1>7. QED
    BY <1>1, <1>2, <1>3, <1>4, <1>5, <1>6 DEF Deliver

\* What the scan does with one file.
LEMMA LookKeeps ==
    ASSUME DrainFacts, NEW p \in Files, Look(p)
    PROVE  DrainFacts'
  <1>1. CASE EnqueueFile(p)
    <2>1. /\ drain'.at = "scan" /\ drain'.looked = drain.looked \cup {p}
          /\ drain'.enqueued = drain.enqueued + 1 /\ drain'.remaining = drain.remaining
      BY <1>1 DEF EnqueueFile, ToLook
    <2>2. DrainTypeOK'
      <3>1. drain \in Drains /\ drain.enqueued + 1 \in Nat
        BY DEF Drains
      <3>2. [drain EXCEPT !.looked = @ \cup {p}, !.enqueued = drain.enqueued + 1] \in Drains
        BY <3>1, LookedDrain
      <3>3. drain' \in Drains
        BY <1>1, <3>2 DEF EnqueueFile
      <3>4. QED
        BY <1>1, <3>3 DEF EnqueueFile, Drains
    <2>3. \A q \in taken' : q \in taken /\ q # p
      BY <1>1 DEF EnqueueFile
    <2>4. Again => Again'
      BY <2>1 DEF Again
    <2>5. \A q \in taken' : ToLook(q)' \/ (drain'.at = "scan" /\ Again')
      BY <2>1, <2>3, <2>4 DEF ToLook
    <2>6. QED
      BY <1>1, <2>1, <2>2, <2>5 DEF EnqueueFile, ToLook
  <1>2. CASE LeaveOver(p)
    <2>1. drain'.remaining > 0 /\ drain'.enqueued > 0 /\ drain'.at = "scan"
      BY <1>2, BatchAssumption DEF LeaveOver, ToLook, Room
    <2>2. DrainTypeOK'
      <3>1. drain \in Drains /\ drain.remaining + 1 \in Nat
        BY DEF Drains
      <3>2. [drain EXCEPT !.looked = @ \cup {p}, !.remaining = drain.remaining + 1] \in Drains
        BY <3>1, LookedDrain
      <3>3. drain' \in Drains
        BY <1>2, <3>2 DEF LeaveOver
      <3>4. QED
        BY <1>2, <3>3 DEF LeaveOver, Drains
    <2>3. QED
      BY <1>2, <2>1, <2>2 DEF LeaveOver, ToLook, Again
  <1>3. CASE Skip(p)
    BY <1>3 DEF Skip, ToLook, Again
  <1>4. QED
    BY <1>1, <1>2, <1>3 DEF Look

\* What the task does between its scans.
LEMMA TaskKeeps ==
    ASSUME DrainFacts, Return \/ Begin \/ Finish \/ SyncFails
    PROVE  DrainFacts'
  <1>1. CASE Return
    <2>1. taken = {}
      BY <1>1 DEF Return, ToLook
    <2>2. owed' = {}
      BY <1>1, <2>1 DEF Return
    <2>3. QED
      BY <1>1, <2>1, <2>2 DEF Return, NoDrain
  <1>2. CASE Begin
    BY <1>2 DEF Begin, NoDrain, ToLook
  <1>3. CASE Finish
    <2>1. \A p \in taken : Again
      BY <1>3 DEF Finish, ToLook
    <2>2. QED
      BY <1>3, <2>1 DEF Finish, Checking, NoDrain
  <1>4. CASE SyncFails
    BY <1>4 DEF SyncFails, Fault, Checking, NoDrain
  <1>5. QED
    BY <1>1, <1>2, <1>3, <1>4

\* A shutdown forgets what waited together with what covers it.
LEMMA ShutdownKeeps ==
    ASSUME DrainFacts, NEW wait \in BOOLEAN, Shutdown(wait)
    PROVE  DrainFacts'
  BY DEF Shutdown, ToLook, Again

\* Every step keeps types and coverage.
LEMMA DrainSteps == DrainFacts /\ [DrainNext]_drainVars => DrainFacts'
  <1>1. SUFFICES ASSUME DrainFacts, [DrainNext]_drainVars
                 PROVE  DrainFacts'
    OBVIOUS
  <1>2. CASE UNCHANGED drainVars
    BY <1>1, <1>2 DEF drainVars, ToLook, Again
  <1>3. CASE DrainNext
    BY <1>1, <1>3, WatcherKeeps, LookKeeps, TaskKeeps, ShutdownKeeps
       DEF DrainNext, DrainStep
  <1>4. QED
    BY <1>1, <1>2, <1>3

\* No accepted event is lost, whatever the order in which the watcher, the
\* pool's thread and a shutdown find the flags of the handler.
THEOREM NothingIsForgotten == DrainSpec => []NothingForgotten
  <1>1. DrainFacts => NothingForgotten
    OBVIOUS
  <1>2. QED
    BY DrainStarts, DrainSteps, <1>1, PTL DEF DrainSpec
=============================================================================
