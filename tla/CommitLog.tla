------------------------------ MODULE CommitLog ------------------------------
(***************************************************************************)
(* What a partition promises its clients while its leader does not change: *)
(* one sequence of committed records that only grows, in which no request  *)
(* appears twice; a durable request is acknowledged once its record is in  *)
(* it; a fetch returns nothing but records of it, at their offsets.        *)
(***************************************************************************)
EXTENDS Integers, SequencesExt

CONSTANTS Records, Durable

VARIABLES
    committed,      \* the records below the high watermark
    acknowledged,   \* durable requests answered with success
    delivered       \* [off, rec] pairs returned by fetches

Entries == {[off |-> i - 1, rec |-> committed[i]] : i \in DOMAIN committed}

Init == committed = << >> /\ acknowledged = {} /\ delivered = {}

\* Replicator::commit: the watermark may pass several records at once.
Commit ==
    /\ committed' # committed
    /\ IsPrefix(committed, committed')
    /\ IsInjective(committed')
    /\ ToSet(committed') \subseteq Records
    /\ UNCHANGED <<acknowledged, delivered>>

Acknowledge(p) ==
    /\ p \in ToSet(committed)
    /\ acknowledged' = acknowledged \cup {p}
    /\ UNCHANGED <<committed, delivered>>

Deliver ==
    /\ delivered \subseteq delivered'
    /\ delivered' \subseteq delivered \cup Entries
    /\ UNCHANGED <<committed, acknowledged>>

Next == Commit \/ Deliver \/ \E p \in Durable : Acknowledge(p)

Spec == Init /\ [][Next]_<<committed, acknowledged, delivered>>

=============================================================================
