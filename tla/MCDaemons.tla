------------------------------ MODULE MCDaemons ------------------------------
(* Instance for TLC of what keeps running: the consumer thread with people   *)
(* who edit the pages, the pool of the ingest runner, and the processes that *)
(* keep the runner alive.  The models share no state: a behaviour is one of  *)
(* the part that is chosen in the initial state.                             *)
EXTENDS WikiEdits, RunnerPool, RunnerSupervision

VARIABLES part

TheInit ==
    /\ part \in {"edits", "pool", "processes"}
    /\ EditsInit /\ PoolInit /\ OwnersInit
    /\ part # "edits" => canon = [p \in Pages |-> Gone]

TheNext ==
    \/ part = "edits" /\ EditsNext /\ UNCHANGED <<part, poolVars, ownersVars>>
    \/ part = "pool" /\ PoolNext /\ UNCHANGED <<part, allVars, ownersVars>>
    \/ part = "processes" /\ OwnersNext /\ UNCHANGED <<part, allVars, poolVars>>

all == <<part, allVars, poolVars, ownersVars>>

\* The fairness of WikiEdits and RunnerSupervision, for the part that runs.
E(A) == part = "edits" /\ A
P(A) == part = "processes" /\ A
TheFairness ==
    /\ SF_allVars(E(DaemonDrains))
    /\ WF_allVars(E(DaemonIdle \/ DaemonTakes \/ DaemonReturns))
    /\ SF_allVars(E(EditStep))
    /\ \A w \in Writers \ {Editor} :
          /\ SF_allVars(E(WriterLock(w) /\ OtherWriter(w)))
          /\ WF_allVars(E(/\ \/ WriterCommit(w) \/ WriterDone(w)
                             \/ \E p \in Pages : WriterProject(w, p)
                          /\ OtherWriter(w)))
    /\ \A p \in Pages : WF_allVars(E(Notice(p))) /\ WF_allVars(E(DebounceEnds(p)))
    /\ WF_allVars(E(TimePasses))
    /\ WF_ownersVars(P(WatchdogStep))
    /\ \A v \in Services : WF_ownersVars(P(ServiceStep(v)))
    /\ \A c \in Runners : WF_ownersVars(P(RunnerStep(c)))

TheSpec == TheInit /\ [][TheNext]_all /\ TheFairness

\* The liveness of RunnerSupervision, for the part that runs.
ConsumerStaysThere == <>[](part = "processes" => Runs)
=============================================================================
