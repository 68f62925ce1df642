----------------------------- MODULE MCReplication -----------------------------
(* Replication on small clusters, for TLC.                                 *)
EXTENDS Replication

\* Requests that are treated alike may be exchanged.
RecordSymmetry == Permutations(Records)

=============================================================================
