---------------------------- MODULE MCIngestJobs ----------------------------
(* Instances of IngestJobs for TLC. *)
EXTENDS IngestJobs, TLC

JobSymmetry == Permutations(Runners) \cup Permutations(Hashes)
=============================================================================
