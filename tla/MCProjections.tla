---------------------------- MODULE MCProjections ----------------------------
(* Instance for TLC of what is made from the canonical pages: the mirror of  *)
(* the search table, the publication of the index and the n-gram index of    *)
(* the memories.  The three models share no state: a behaviour is one of the *)
(* part that is chosen in the initial state; the others stay as they are     *)
(* there.  The n-gram index runs with one rebuilder, which must get done, and *)
(* with all of them, which may hinder each other for ever.                   *)
EXTENDS ProjectionParts

CONSTANTS OneRebuilder \* the one that rebuilds in the part "gram"

VARIABLES part
-----------------------------------------------------------------------------
TheInit ==
    /\ part \in {"mirror", "index", "gram", "grams"}
    /\ Init /\ fts[1].row <= fts[2].row \* the two keys are alike
    /\ part # "mirror" => fts = [k \in Keys |-> NoRow]
    /\ IndexInit /\ (canon = NoNodes \/ canon[CHOOSE n \in Pages : TRUE] # Absent)
    /\ part # "index" => canon = NoNodes
    /\ GramInit /\ (part \notin {"gram", "grams"} => docs = [d \in Docs |-> Missing])
    /\ part = "grams" => Cardinality(Live) = 1

\* What bounds the parts of the n-gram index beyond the constants.
Few ==
    /\ part = "gram" => \A r \in Rebuilders \ {OneRebuilder} : rebuild[r] = NoRebuild
    /\ part = "grams" => /\ counts.writes <= 1 /\ counts.crashes = 0
                         /\ search.at # "idle" => search.term = Max(Grams)

TheNext ==
    /\ UNCHANGED part
    /\ \/ part = "mirror" /\ Next /\ UNCHANGED <<indexVars, gramVars>>
       \/ part = "index" /\ IndexNext /\ UNCHANGED <<vars, gramVars>>
       \/ /\ part \in {"gram", "grams"} /\ GramNext /\ Few'
          /\ UNCHANGED <<vars, indexVars>>

\* The fairness of each model, for the part that runs.
TheFairness ==
    /\ WF_vars(part = "mirror" /\ \E w \in Workers : OpenStep(w))
    /\ \A w \in Workers : WF_vars(part = "mirror" /\ ReplayStep(w))
    /\ WF_vars(part = "mirror" /\ RetryDelayEnds)
    /\ WF_indexVars(part = "index" /\ StartUpdate(owed))
    /\ WF_indexVars(part = "index" /\ StartHeal)
    /\ WF_indexVars(part = "index" /\ StartTopology)
    /\ \A x \in Procs : WF_indexVars(part = "index" /\ Work(x))
    /\ WF_gramVars(part = "gram" /\ Due(OneRebuilder))
    /\ WF_gramVars(part = "gram" /\ RebuildStep(OneRebuilder))

TheSpec == TheInit /\ [][TheNext]_<<part, vars, indexVars, gramVars>> /\ TheFairness
-----------------------------------------------------------------------------
\* After the last write and fault each projection is served and stays so, or
\* the mirror is reported as blocked; the n-gram index if one process rebuilds.
ProjectionsSettle ==
    <>[]/\ part = "mirror" => MirrorSettled
        /\ IndexSettled
        /\ part # "grams" => GramSettled
==============================================================================
