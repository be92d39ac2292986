------------------------------ MODULE JobTable ------------------------------
(***************************************************************************)
(* What the jobs table and its ledgers promise of one source content,      *)
(* whatever rows, claims and leases it takes: the abstract specification   *)
(* that IngestJobs implements and on which RawScan builds.                 *)
(*                                                                         *)
(* A content (a path and a hash) has at most one job: none yet, live (in   *)
(* the pipeline), failed (waiting for its next attempt), spent (failed at  *)
(* the cap), done (finalized) or dead (closed by close_terminal_failed).   *)
(***************************************************************************)
EXTENDS Integers

CONSTANTS
    Paths,       \* raw source files
    Hashes,      \* contents a file may have
    MaxAttempts  \* MAX_INGEST_ATTEMPTS

ASSUME MaxAttemptsAssumption == MaxAttempts \in Nat \ {0}

NoHash    == "none"   \* no such file, or no ledger row
EmptyHash == ""       \* what calculate_hash returns for an unreadable file
ASSUME NoHashIsNoHash == NoHash \notin Hashes /\ EmptyHash \notin Hashes

Contents == Paths \X Hashes
Job      == [st    : {"none", "live", "failed", "spent", "done", "dead"},
             tries : 0..MaxAttempts]
NoJob    == [st |-> "none", tries |-> 0]

VARIABLES job, raw, ledger, abandoned

tableVars == <<job, raw, ledger, abandoned>>

TableInit ==
    /\ job = [c \in Contents |-> NoJob]
    /\ raw \in [Paths -> Hashes \cup {NoHash}]
    /\ ledger = [p \in Paths |-> NoHash]
    /\ abandoned = {}

\* The statuses whose key a scan may take over.
Replaceable(c) == job[c].st \in {"none", "failed", "spent", "done"}

\* One attempt of the budget is used up.
Attempted(c) == IF job[c].tries + 1 >= MaxAttempts
                THEN [st |-> "spent", tries |-> MaxAttempts]
                ELSE [st |-> "failed", tries |-> job[c].tries + 1]

\* A job that is not finished is found again instead of being replaced.
Enqueued(c) ==
    /\ job' = IF Replaceable(c)
              THEN [job EXCEPT ![c] = [st |-> "live", tries |-> 0]] ELSE job
    /\ UNCHANGED <<raw, ledger, abandoned>>

Retried(c) ==
    /\ job[c].st = "failed"
    /\ job' = [job EXCEPT ![c].st = "live"]
    /\ UNCHANGED <<raw, ledger, abandoned>>

Accepted(c) ==
    /\ job[c].st = "live"
    /\ raw[c[1]] = c[2]
    /\ job' = [job EXCEPT ![c].st = "done"]
    /\ ledger' = [ledger EXCEPT ![c[1]] = c[2]]
    /\ UNCHANGED <<raw, abandoned>>

\* A deterministic failure; the last one gives the content up.
Rejected(c) ==
    /\ job[c].st = "live"
    /\ job' = [job EXCEPT ![c] = Attempted(c)]
    /\ abandoned' = IF Attempted(c).st = "spent" THEN abandoned \cup {c}
                                                 ELSE abandoned
    /\ UNCHANGED <<raw, ledger>>

\* Attempts lost before a runner answered: failed dispatches, stale packets.
AttemptsLost(S) ==
    /\ \A c \in S : job[c].st = "live"
    /\ job' = [c \in Contents |-> IF c \in S THEN Attempted(c) ELSE job[c]]
    /\ UNCHANGED <<raw, ledger, abandoned>>

\* A transient failure: the attempt is not counted.
Deferred(c) ==
    /\ job[c].st = "live"
    /\ job' = [job EXCEPT ![c].st = "failed"]
    /\ UNCHANGED <<raw, ledger, abandoned>>

\* close_terminal_failed_jobs
Closed ==
    /\ job' = [c \in Contents |->
                  IF job[c].st = "spent" /\ ledger[c[1]] # NoHash
                  THEN [job[c] EXCEPT !.st = "dead"] ELSE job[c]]
    /\ UNCHANGED <<raw, ledger, abandoned>>

\* A scan's mark_file_processed, with a hash it read before: no job is part
\* of it.
Recorded(p, h) ==
    /\ ledger' = [ledger EXCEPT ![p] = h]
    /\ UNCHANGED <<job, raw, abandoned>>

\* _forget_processed_file
Forgotten(p) ==
    /\ ledger' = [ledger EXCEPT ![p] = NoHash]
    /\ UNCHANGED <<job, raw, abandoned>>

\* clear_abandoned_sources
Cleared(p) ==
    /\ abandoned' = {c \in abandoned : c[1] # p}
    /\ UNCHANGED <<job, raw, ledger>>

Edited(p, h) ==
    /\ raw' = [raw EXCEPT ![p] = h]
    /\ UNCHANGED <<job, ledger, abandoned>>

TableNext ==
    \/ \E c \in Contents : \/ Enqueued(c) \/ Retried(c) \/ Accepted(c)
                           \/ Rejected(c) \/ Deferred(c)
    \/ \E S \in SUBSET Contents : AttemptsLost(S)
    \/ Closed
    \/ \E p \in Paths : \/ Cleared(p) \/ Forgotten(p)
                        \/ \E h \in Hashes \cup {EmptyHash} : Recorded(p, h)
                        \/ \E h \in Hashes \cup {NoHash} : Edited(p, h)

TableSpec == TableInit /\ [][TableNext]_tableVars
=============================================================================
