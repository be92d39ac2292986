---------------------------- MODULE MCEmbedding ----------------------------
(* Instance for TLC of four parts of embedding that share no state: the pool *)
(* of clients, the quota, the backfills, and the calls that requests for the *)
(* same query share.  A behaviour is one of the part that is chosen in the   *)
(* initial state.                                                            *)
EXTENDS EmbeddingParts

VARIABLES part

TheInit ==
    /\ part \in {"clients", "quota", "backfill", "flight"}
    /\ Init /\ QuotaInit /\ BackfillInit /\ FlightInit
    /\ part # "clients" => \A g \in Gens : gens[g].key = CHOOSE k \in Keys : TRUE
    /\ part # "backfill" => canon = [p \in Pages |-> Gone] /\ ~shadow
    \* Pages start without text or with the first one.
    /\ \A p \in Pages : canon[p] \in {Gone, CHOOSE t \in Texts : TRUE}

TheNext ==
    \/ part = "clients" /\ Next /\ UNCHANGED <<part, quotaVars, backfillVars, flightVars>>
    \/ part = "quota" /\ QuotaNext /\ UNCHANGED <<part, vars, backfillVars, flightVars>>
    \/ part = "backfill" /\ BackfillNext /\ UNCHANGED <<part, vars, quotaVars, flightVars>>
    \/ part = "flight" /\ FlightNext /\ UNCHANGED <<part, vars, quotaVars, backfillVars>>

all == <<part, vars, quotaVars, backfillVars, flightVars>>

\* The fairness of EmbeddingClients, Embeddings and QueryFlight, for the part that runs.
TheFairness ==
    /\ \A t \in Threads : /\ WF_vars(part = "clients" /\ Return(t))
                          /\ WF_vars(part = "clients" /\ (Publish(t) \/ Discard(t)))
    /\ \A a \in Actors : WF_vars(part = "clients" /\ CloseStep(a))
    /\ WF_backfillVars(part = "backfill" /\ PublishFile)
    /\ WF_backfillVars(part = "backfill" /\ \E p \in Pages : PublishRows(p))
    /\ WF_backfillVars(part = "backfill" /\ BackfillStep("sweep"))
    /\ WF_backfillVars(part = "backfill" /\ run["operator"].at # "idle"
                                /\ BackfillStep("operator"))
    /\ \A c \in Callers : WF_flightVars(part = "flight" /\ Ends(c))

TheSpec == TheInit /\ [][TheNext]_all /\ TheFairness

\* After the last edit and fault every page of the index has a vector of its
\* text now (VectorsArrive), and a request that waits for the vector of its
\* query returns (CallersReturn).
VectorsSettle == VectorsArrive /\ CallersReturn
=============================================================================
