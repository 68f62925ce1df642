------------------------------ MODULE MCBroker ------------------------------
(* Broker with two producers, a poller and a creator, for TLC.             *)
EXTENDS Broker

CONSTANTS p1, p2, c1, k1

\* The identity of p1 belongs to partition 1 of a topic with two partitions.
SomeHash == [p \in {p1, p2} |-> 1]

\* A topic of two partitions, one record in the second.
SomeRecords == <<<<>>, <<0>>>>

=============================================================================
