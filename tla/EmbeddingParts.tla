---------------------------- MODULE EmbeddingParts ----------------------------
(***************************************************************************)
(* The parts of embedding: the pool of clients, the quota that processes   *)
(* share, the backfills, and the calls that requests for the same query    *)
(* share.  The models share no state; here is what three of them promise   *)
(* together.                                                               *)
(***************************************************************************)
EXTENDS EmbeddingClients, EmbeddingQuota, Embeddings, QueryFlight

\* What the tables of embedding say is true: no window is overdrawn, the digest
\* on record is that of the stored vector's input, and a registered flight is
\* the one call for its query, in the hands of one caller.
TablesAreTrue == WindowHolds /\ StampIsTheInput /\ FlightsAreSound
=============================================================================
