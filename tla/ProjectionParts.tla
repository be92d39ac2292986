---------------------------- MODULE ProjectionParts ----------------------------
(***************************************************************************)
(* What is made from the canonical pages and memories: the mirror of the   *)
(* search table, the publication of the index and the n-gram index.  The   *)
(* models share no state; here is what two of them promise together.       *)
(***************************************************************************)
EXTENDS TantivyMirror, IndexPublication, GramIndex

\* Readers of the index and searches of the memories get what was completed:
\* the stores follow the canonical pages but for named races, and the usable
\* n-gram index has exactly the grams of the documents.
ProjectionsAreSound == StoresFollowCanon /\ GramIsExact
=============================================================================
