---------------------------- MODULE PagePublisher ----------------------------
(***************************************************************************)
(* What the mutation path promises of a page, whatever locks, leases and   *)
(* retries it needs (docs/ARCHITECTURE.md: canonical transaction, outbox,  *)
(* projection): a batch changes the canonical pages at once, and the       *)
(* Markdown file and the index entry of a page only ever move to the       *)
(* canonical text of that moment, never to an older intent.                *)
(***************************************************************************)
CONSTANTS Pages, Payloads

VARIABLES
    canon,   \* canonical text of each page (SQLite entities)
    file,    \* Markdown projection, wiki/*.md
    index    \* entry of the page in index.json

pubVars == <<canon, file, index>>

PubInit ==
    /\ canon \in [Pages -> Payloads]
    /\ file = canon
    /\ index = canon

\* A committed batch rewrites or deletes some pages.
CommitBatch ==
    /\ canon' \in [Pages -> Payloads]
    /\ UNCHANGED <<file, index>>

ShowFile(p) ==
    /\ file' = [file EXCEPT ![p] = canon[p]]
    /\ UNCHANGED <<canon, index>>

\* One index publication covers a set of pages.
ShowIndex(S) ==
    /\ index' = [p \in Pages |-> IF p \in S THEN canon[p] ELSE index[p]]
    /\ UNCHANGED <<canon, file>>

PubNext == \/ CommitBatch
           \/ \E p \in Pages : ShowFile(p)
           \/ \E S \in SUBSET Pages : ShowIndex(S)

PubSpec == PubInit /\ [][PubNext]_pubVars
=============================================================================
