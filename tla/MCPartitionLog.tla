---------------------------- MODULE MCPartitionLog ----------------------------
(* PartitionLog with one idempotent producer, for TLC.                     *)
EXTENDS PartitionLog

CONSTANTS p1, none

\* Two records of a producer, in sequence, and a record without identity.
SomeRequests ==
    {[val |-> 1, who |-> p1, seq |-> 0],
     [val |-> 2, who |-> p1, seq |-> 1],
     [val |-> 1, who |-> none, seq |-> 0]}

\* A value is as long as it is big.
Length(v) == v

=============================================================================
