------------------------------ MODULE RecordLog ------------------------------
(***************************************************************************)
(* What a partition log promises the broker: records at consecutive        *)
(* offsets from low on, which only an append, a truncation of the tail or  *)
(* the retention of the head changes.  A crash and a restart change        *)
(* nothing, and an identified record is there once.                        *)
(***************************************************************************)
EXTENDS Integers, SequencesExt

CONSTANTS NoProducer

VARIABLES
    low,    \* the first offset that is kept
    recs    \* the records from there on

Init == low = 0 /\ recs = << >>

Identified(r) == r.who # NoProducer

AppendRecord ==
    /\ Len(recs') = Len(recs) + 1
    /\ IsPrefix(recs, recs')
    /\ Identified(Last(recs')) =>
         \A r \in ToSet(recs) : <<r.who, r.seq>> # <<Last(recs').who, Last(recs').seq>>
    /\ UNCHANGED low

TruncateTail == IsStrictPrefix(recs', recs) /\ UNCHANGED low

RetainTail ==
    /\ IsStrictSuffix(recs', recs)
    /\ low' + Len(recs') = low + Len(recs)

Next == AppendRecord \/ TruncateTail \/ RetainTail

Spec == Init /\ [][Next]_<<low, recs>>

=============================================================================
