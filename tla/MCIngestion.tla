----------------------------- MODULE MCIngestion -----------------------------
(* Instance for TLC of three parts of the ingestion: the scan of the raw     *)
(* directory over the abstract job table, the drain that starts such scans,  *)
(* and the rows that implement the table.  The models share no state: a      *)
(* behaviour is one of the part that is chosen in the initial state.  In the *)
(* part "scan" one scan meets MaxUpsets upsets, in the part "scans" two scans *)
(* run at once and meet none.                                                *)
EXTENDS RawScan, RawDrain

CONSTANTS JobHashes, Workers, Runners, MaxJobs, MaxClaims,
          MaxMishaps,  \* the bound on upsets of the part "jobs"
          OneScan,     \* the scan of the part "scan"
          OneHash      \* what the files hold first: contents are alike, and nothing
                       \* happens to a file that is not there yet

VARIABLES part
VARIABLES jobs, rows, file, processed, given, wclaim, rclaim, mishaps

jobVars == <<jobs, rows, file, processed, given, wclaim, rclaim, mishaps>>

Jobs == INSTANCE IngestJobs WITH Hashes <- JobHashes, MaxUpsets <- MaxMishaps,
            raw <- file, ledger <- processed, abandoned <- given, upsets <- mishaps

Nothing == [p \in Paths |-> NoHash]

Scanning == part \in {"scan", "scans"}

TheInit ==
    /\ part \in {"scan", "scans", "drain", "jobs"}
    /\ DrainInit /\ Jobs!Init
    /\ \E n \in {0, MaxUpsets} : InitWith(n) /\ (n = 0 <=> part # "scans")
    /\ raw = IF Scanning THEN [p \in Paths |-> OneHash] ELSE Nothing
    /\ ~Scanning => page = Nothing
    /\ part # "jobs" => file = Nothing

TheNext ==
    \/ /\ Scanning /\ Next /\ UNCHANGED <<part, drainVars, jobVars>>
       /\ part = "scan" => \A s \in Scans \ {OneScan} : scan'[s] = scan[s]
    \/ part = "drain" /\ DrainNext /\ UNCHANGED <<part, vars, jobVars>>
    \/ part = "jobs" /\ Jobs!Next /\ UNCHANGED <<part, vars, drainVars>>

all == <<part, vars, drainVars, jobVars>>

\* The fairness of RawScan, RawDrain and IngestJobs, for the part that runs.
S(A) == Scanning /\ A
J(A) == part = "jobs" /\ A
TheFairness ==
    /\ \A s \in Scans : WF_vars(S((part = "scans" \/ s = OneScan) /\ ScanStep(s)))
    /\ WF_vars(S(SweepStep))
    /\ \A c \in Contents : WF_vars(S(Answered(c))) /\ WF_vars(S(Retry(c)))
    /\ \A p \in Paths : WF_vars(S(MarkAges(p)))
    /\ WF_drainVars(part = "drain" /\ DrainStep)
    /\ \A w \in Workers :
          /\ WF_jobVars(J(Jobs!WorkerClaim(w)))
          /\ WF_jobVars(J(Jobs!BuildPacket(w) \/ Jobs!FailDispatch(w) \/ Jobs!LoseDispatch(w)))
          /\ WF_jobVars(J(Jobs!HandOff(w)))
    /\ \A r \in Runners :
          /\ WF_jobVars(J(Jobs!RunnerClaim(r)))
          /\ WF_jobVars(J(Jobs!Answer(r)))
    /\ \A j \in Jobs!JobIds : /\ WF_jobVars(J(Jobs!LeaseLapses(j)))
                              /\ WF_jobVars(J(Jobs!BackoffEnds(j)))

TheSpec == TheInit /\ [][TheNext]_all /\ TheFairness

\* What IngestJobs promises of every job: it ends or is handed out again.
JobsSettle == Jobs!JobsSettle
=============================================================================
