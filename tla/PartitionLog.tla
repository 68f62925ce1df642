----------------------------- MODULE PartitionLog -----------------------------
(***************************************************************************)
(* The log of one partition on disk (crates/storage/src/lib.rs) and the    *)
(* commands of the storage thread that change it (crates/broker/src/       *)
(* lib.rs): append, batch, replicate, truncate, retention, and the crash   *)
(* of the process and its recovery at the next start.                      *)
(*                                                                         *)
(* The storage thread runs one command at a time, so commands do not       *)
(* interleave; a crash comes between any two changes of the file system,   *)
(* or inside a write.  What the process has written survives it (it is not *)
(* a crash of the machine), so fsync changes nothing here.  Index files    *)
(* are rewritten at every start and read by nobody: only the index in      *)
(* memory is modelled.  Positions and lengths count abstract bytes.        *)
(***************************************************************************)
EXTENDS Integers, FiniteSets, SequencesExt

CONSTANTS
    Requests,           \* the records producers send, again when they retry
    Producers,          \* producer ids
    NoProducer,         \* a record without a producer's identity
    ValueSize(_),       \* encoded size of a record without its identity
    IdentitySize,       \* what a producer id adds to it
    MaxSegmentBytes,
    IndexInterval,
    Pitfalls,           \* known to go wrong, allowed in this instance
    MaxOffset,          \* bound on the next offset
    MaxCrashes          \* bound on crashes

Pitfall == {"restart after retention", "truncate after retention",
            "crash in truncation"}

\* Config::validate: neither limit is zero.  A producer that sends a sequence
\* again sends the same record again.
ASSUME LogAssumption ==
    /\ NoProducer \notin Producers
    /\ \A r \in Requests :
         /\ r.who \in Producers \cup {NoProducer}
         /\ r.seq \in Nat
         /\ ValueSize(r.val) \in Nat \ {0}
         /\ \A s \in Requests :
              r.who = s.who /\ r.seq = s.seq /\ r.who # NoProducer => r = s
    /\ IdentitySize \in Nat \ {0}
    /\ MaxSegmentBytes \in Nat \ {0}
    /\ IndexInterval \in Nat \ {0}
    /\ Pitfalls \subseteq Pitfall
    /\ MaxOffset \in Nat
    /\ MaxCrashes \in Nat

VARIABLES
    files,      \* files[b]: the segment file with base offset b
    open,       \* is the process running with the log open?
    segments,   \* in memory: base, length and sparse index of each segment
    next,       \* in memory: next_offset
    known,      \* in memory: producer_state, the last append of each producer
    op,         \* the command in progress
    crashes,
    acked       \* history: [off, rec] promised to producers and still due

vars == <<files, open, segments, next, known, op, crashes, acked>>

-----------------------------------------------------------------------------
(* Records and segments.                                                   *)

Identified(r) == r.who # NoProducer

\* A batch and a replicate request carry no producer identity.
Anonymous(r) == [val |-> r.val, who |-> NoProducer, seq |-> 0]

Size(r) == ValueSize(r.val) + (IF Identified(r) THEN IdentitySize ELSE 0)

Entry(o, r) == [off |-> o, rec |-> r]

NewSegment(b) == [base |-> b, len |-> 0, index |-> << >>]

NewFile == [recs |-> << >>, torn |-> FALSE]

\* One more record in a segment: an index entry when the last one is at
\* least an interval away (append and recover_segment alike).
Grown(seg, e) ==
    [base |-> seg.base,
     len |-> seg.len + Size(e.rec),
     index |-> IF seg.index = << >> \/ seg.len - Last(seg.index).pos >= IndexInterval
               THEN Append(seg.index, [off |-> e.off, pos |-> seg.len])
               ELSE seg.index]

\* Nothing was appended by a producer that is not known.
Unknown == [seq |-> -1, off |-> 0]

NobodyKnown == [p \in Producers |-> Unknown]

Remember(state, e) ==
    IF Identified(e.rec)
    THEN [state EXCEPT ![e.rec.who] = [seq |-> e.rec.seq, off |-> e.off]]
    ELSE state

\* The last record of each producer, to which recover_segment comes when it
\* remembers one record after the other.
RecordsOf(p, contents) == {i \in DOMAIN contents : contents[i].rec.who = p}

Recalled(contents) ==
    [p \in Producers |->
        LET mine == RecordsOf(p, contents)
            last == contents[Max(mine)]
        IN  IF mine = {} THEN Unknown ELSE [seq |-> last.rec.seq, off |-> last.off]]

\* The numbers of a set in their order, and the elements of a sequence at
\* some positions.
Sorted(S) ==
    [i \in 1 .. Cardinality(S) |->
        CHOOSE n \in S : Cardinality({m \in S : m < n}) = i - 1]

Pick(s, at) ==
    LET order == Sorted(at) IN [i \in DOMAIN order |-> s[order[i]]]

\* The segment files in the order of their base offsets, and their records.
Bases == Sorted(DOMAIN files)

Contents ==
    LET bases == Bases
    IN  FlattenSeq([i \in DOMAIN bases |-> files[bases[i]].recs])

-----------------------------------------------------------------------------
(* PartitionLog::read, without its limit on the answer's bytes.            *)

\* The bytes of the first n records, which is the position of the next one.
Bytes(recs, n) ==
    LET bytes[k \in 0 .. Len(recs)] ==
          IF k = 0 THEN 0 ELSE bytes[k - 1] + Size(recs[k].rec)
    IN  bytes[n]

\* Mutant of SeekPosition: the entry after the offset is taken.
SeekPositionAfter(seg, offset) ==
    LET later == {i \in DOMAIN seg.index : seg.index[i].off >= offset}
    IN  IF later = {} THEN 0 ELSE seg.index[Min(later)].pos

\* Where to start in a segment: the last indexed record not after the offset.
SeekPosition(seg, offset) ==
    LET before == {i \in DOMAIN seg.index : seg.index[i].off <= offset}
    IN  IF before = {} THEN 0 ELSE seg.index[Max(before)].pos

\* From there on the records before the offset are passed over.
ReadSegment(seg, offset) ==
    LET recs == files[seg.base].recs
    IN  Pick(recs, {i \in DOMAIN recs :
                      /\ Bytes(recs, i - 1) >= SeekPosition(seg, offset)
                      /\ recs[i].off >= offset})

\* A segment is skipped when the next one starts at or below the offset.
Skipped(i, offset) == i < Len(segments) /\ offset >= segments[i + 1].base

Read(offset) ==
    FlattenSeq([i \in DOMAIN segments |->
        IF Skipped(i, offset) THEN << >> ELSE ReadSegment(segments[i], offset)])

-----------------------------------------------------------------------------
(* Starting a command.                                                     *)

Idle == [pc |-> "idle", kind |-> "none", todo |-> << >>, done |-> {},
         kept |-> << >>]

Command(kind, recs) ==
    [pc |-> "append", kind |-> kind, todo |-> recs, done |-> {}, kept |-> << >>]

Init ==
    /\ files = [b \in {0} |-> NewFile]
    /\ open = TRUE
    /\ segments = <<NewSegment(0)>>
    /\ next = 0
    /\ known = NobodyKnown
    /\ op = Idle
    /\ crashes = 0
    /\ acked = {}

Start(command) ==
    /\ open
    /\ op.pc = "idle"
    /\ next + Len(command.todo) <= MaxOffset
    /\ op' = command
    /\ UNCHANGED <<files, open, segments, next, known, crashes, acked>>

Produce(r) == Start(Command("produce", <<r>>))

ProduceBatch(r, s) == Start(Command("produce", <<Anonymous(r), Anonymous(s)>>))

\* append_replica at the next offset; at a lower one it only compares.
Replicate(r) == Start(Command("produce", <<Anonymous(r)>>))

(* PartitionLog::append, one record of the command at a time.              *)

Due == Head(op.todo)

Active == Last(segments)

Appending == op.pc = "append"

\* Mutant of Duplicate: a retry is not recognized.
DuplicateUnseen == FALSE

Duplicate == Identified(Due) /\ Due.seq = known[Due.who].seq

\* Mutant of OutOfSequence: any newer sequence is taken.
OutOfSequenceBelow == Identified(Due) /\ Due.seq < known[Due.who].seq

OutOfSequence ==
    Identified(Due) /\ Due.seq \notin {known[Due.who].seq, known[Due.who].seq + 1}

Full == Active.len > 0 /\ Active.len + Size(Due) > MaxSegmentBytes

\* Mutant of Stored: the command goes on after its last record.
StoredEndless(o) ==
    /\ op' = [op EXCEPT !.todo = Tail(@), !.done = @ \cup {Entry(o, Due)}]
    /\ UNCHANGED acked

\* The record is at offset o; after the last one the command is answered.
Stored(o) ==
    LET done == op.done \cup {Entry(o, Due)} IN
    IF Len(op.todo) > 1
    THEN /\ op' = [op EXCEPT !.todo = Tail(@), !.done = done]
         /\ UNCHANGED acked
    ELSE /\ op' = Idle
         /\ acked' = IF op.kind = "produce" THEN acked \cup done ELSE acked

\* Mutant of AnswerDuplicate: the retry is given the next offset.
AnswerDuplicateNext ==
    /\ Appending
    /\ Duplicate
    /\ Stored(next)
    /\ UNCHANGED <<files, open, segments, next, known, crashes>>

\* The producer repeated its last append: it gets the offset of that one.
AnswerDuplicate ==
    /\ Appending
    /\ Duplicate
    /\ Stored(known[Due.who].off)
    /\ UNCHANGED <<files, open, segments, next, known, crashes>>

\* UnexpectedProducerSequence ends the command.
RejectSequence ==
    /\ Appending
    /\ OutOfSequence
    /\ op' = Idle
    /\ UNCHANGED <<files, open, segments, next, known, crashes, acked>>

Rotate ==
    /\ Appending
    /\ ~Duplicate /\ ~OutOfSequence /\ Full
    /\ files' = [b \in DOMAIN files \cup {next} |->
                   IF b = next THEN NewFile ELSE files[b]]
    /\ segments' = Append(segments, NewSegment(next))
    /\ UNCHANGED <<open, next, known, op, crashes, acked>>

Write ==
    LET e == Entry(next, Due)
        last == Len(segments) IN
    /\ Appending
    /\ ~Duplicate /\ ~OutOfSequence /\ ~Full
    /\ files' = [files EXCEPT ![Active.base].recs = Append(@, e)]
    /\ segments' = [segments EXCEPT ![last] = Grown(@, e)]
    /\ next' = next + 1
    /\ known' = Remember(known, e)
    /\ Stored(next)
    /\ UNCHANGED <<open, crashes>>

-----------------------------------------------------------------------------
(* PartitionLog::truncate_to: all files are removed, and what is kept is   *)
(* appended again to a new first segment.                                  *)

Kept(offset) ==
    LET all == Read(0)
        before == Pick(all, {i \in DOMAIN all : all[i].off < offset})
    IN  [i \in DOMAIN before |-> before[i].rec]

Truncate(offset) ==
    /\ open
    /\ op.pc = "idle"
    /\ offset < next
    /\ segments[1].base > 0 => "truncate after retention" \in Pitfalls
    /\ op' = [pc |-> "remove", kind |-> "truncate", todo |-> Kept(offset),
              done |-> {}, kept |-> Kept(offset)]
    /\ acked' = {a \in acked : a.off < offset}
    /\ UNCHANGED <<files, open, segments, next, known, crashes>>

RemoveSegment ==
    /\ op.pc = "remove"
    /\ DOMAIN files # {}
    /\ files' = [b \in DOMAIN files \ {Bases[1]} |-> files[b]]
    /\ UNCHANGED <<open, segments, next, known, op, crashes, acked>>

\* Mutant of StartOver: producer_state is not cleared.
StartOverKnowing ==
    /\ op.pc = "remove"
    /\ DOMAIN files = {}
    /\ files' = [b \in {0} |-> NewFile]
    /\ segments' = <<NewSegment(0)>>
    /\ next' = 0
    /\ op' = IF op.todo = << >> THEN Idle ELSE [op EXCEPT !.pc = "append"]
    /\ UNCHANGED <<open, known, crashes, acked>>

StartOver ==
    /\ op.pc = "remove"
    /\ DOMAIN files = {}
    /\ files' = [b \in {0} |-> NewFile]
    /\ segments' = <<NewSegment(0)>>
    /\ next' = 0
    /\ known' = NobodyKnown
    /\ op' = IF op.todo = << >> THEN Idle ELSE [op EXCEPT !.pc = "append"]
    /\ UNCHANGED <<open, crashes, acked>>

\* apply_retention: the oldest closed segment is too old, or the log too
\* large.
ApplyRetention ==
    /\ open
    /\ op.pc = "idle"
    /\ Len(segments) > 1
    /\ files' = [b \in DOMAIN files \ {segments[1].base} |-> files[b]]
    /\ segments' = Tail(segments)
    /\ UNCHANGED <<open, next, known, op, crashes, acked>>

-----------------------------------------------------------------------------
(* Crash of the process and PartitionLog::open at the next start.          *)

\* A write that was due may have been begun.
Crash(torn) ==
    /\ open
    /\ crashes < MaxCrashes
    /\ op.kind = "truncate" => "crash in truncation" \in Pitfalls
    /\ segments[1].base > 0 => "restart after retention" \in Pitfalls
    /\ torn => Appending /\ ~Duplicate /\ ~OutOfSequence /\ ~Full
    /\ files' = IF torn THEN [files EXCEPT ![Active.base].torn = TRUE] ELSE files
    /\ open' = FALSE
    /\ segments' = << >>
    /\ next' = 0
    /\ known' = NobodyKnown
    /\ op' = Idle
    /\ crashes' = crashes + 1
    /\ UNCHANGED acked

\* Every segment starts where the one before it ends.
Contiguous(bases) ==
    /\ bases # << >> => bases[1] = 0
    /\ \A i \in 1 .. Len(bases) - 1 :
         bases[i + 1] = bases[i] + Len(files[bases[i]].recs)

OffsetsInOrder(contents) == \A i \in DOMAIN contents : contents[i].off = i - 1

\* The sequences of each producer count from zero.
SequencesInOrder(contents) ==
    \A i \in DOMAIN contents :
        LET r == contents[i].rec IN
        Identified(r) =>
            r.seq = Cardinality({j \in 1 .. i - 1 : contents[j].rec.who = r.who})

\* open returns no error: UnexpectedSegmentBase, UnexpectedOffset,
\* IncompleteClosedSegment, UnexpectedProducerSequence.
Recoverable ==
    /\ Contiguous(Bases)
    /\ OffsetsInOrder(Contents)
    /\ SequencesInOrder(Contents)
    /\ \A b \in DOMAIN files : files[b].torn => b = Last(Bases)

\* recover_segment
Recovered(b) ==
    LET recs == files[b].recs
        seg[k \in 0 .. Len(recs)] ==
          IF k = 0 THEN NewSegment(b) ELSE Grown(seg[k - 1], recs[k])
    IN  seg[Len(recs)]

Open ==
    /\ ~open
    /\ Recoverable
    /\ open' = TRUE
    /\ files' = IF DOMAIN files = {} THEN [b \in {0} |-> NewFile]
                ELSE [b \in DOMAIN files |-> [files[b] EXCEPT !.torn = FALSE]]
    /\ segments' = IF DOMAIN files = {} THEN <<NewSegment(0)>>
                   ELSE [i \in DOMAIN Bases |-> Recovered(Bases[i])]
    /\ next' = Len(Contents)
    /\ known' = Recalled(Contents)
    /\ UNCHANGED <<op, crashes, acked>>

Next ==
    \/ \E r \in Requests : Produce(r) \/ Replicate(r)
    \/ \E r, s \in Requests : ProduceBatch(r, s)
    \/ AnswerDuplicate \/ RejectSequence \/ Rotate \/ Write
    \/ \E o \in 0 .. next - 1 : Truncate(o)
    \/ RemoveSegment \/ StartOver
    \/ ApplyRetention
    \/ \E torn \in BOOLEAN : Crash(torn)
    \/ Open

Spec == Init /\ [][Next]_vars

-----------------------------------------------------------------------------
AllRecords == Requests \cup {Anonymous(r) : r \in Requests}
Entries == [off : Nat, rec : AllRecords]
Segment == [base : Nat, len : Nat, index : Seq([off : Nat, pos : Nat])]

\* Every variable keeps the shape its Rust type gives it, and a command that
\* is not answered has a record to append.
TypeOK ==
    /\ DOMAIN files \subseteq Nat
    /\ files \in [DOMAIN files -> [recs : Seq(Entries), torn : BOOLEAN]]
    /\ open \in BOOLEAN
    /\ segments \in Seq(Segment)
    /\ next \in Nat
    /\ known \in [Producers -> [seq : Int, off : Nat]]
    /\ op.pc = "append" => op.todo # << >>
    /\ op \in [pc : {"idle", "append", "remove"}, kind : {"none", "produce", "truncate"},
              todo : Seq(AllRecords), done : SUBSET Entries, kept : Seq(AllRecords)]
    /\ crashes \in Nat
    /\ acked \subseteq Entries

\* Whatever a producer was told is stored stays at the offset it was told,
\* through rotations, retries, crashes in an append or a rotation and restarts,
\* until a truncation or the retention takes it away.  A crash in truncate_to
\* may lose it, which is one of the Pitfalls.
AckedKept ==
    op.kind # "truncate" =>
        \A a \in acked :
            (\E b \in DOMAIN files : b <= a.off) => a \in ToSet(Contents)

\* A read through the segments and their sparse indexes, built by appends or
\* rebuilt by a recovery, returns exactly the records from its offset on.
ReadExact ==
    open /\ op.pc # "remove" =>
        LET contents == Contents IN
        \A o \in 0 .. next :
            Read(o) = Pick(contents, {i \in DOMAIN contents : contents[i].off >= o})

\* What decides whether a produce request is a retry agrees with the log:
\* after appends, truncations and restarts the last record of every producer
\* is the one remembered.  (Retention keeps the memory of what it removes.)
DedupExact ==
    open /\ op.pc # "remove" /\ segments[1].base = 0 =>
        known = Recalled(Contents)

\* README: "Sparse indexes, segment rotation, retention, and startup
\* recovery": the next start can open what is on disk.  The files satisfy
\* open() after a crash, and at every moment of a running process at which a
\* crash might come: between the writes of a batch, after a rotation and while
\* a truncation writes again what it keeps.  Two moments are left out, while
\* truncate_to removes the files and once retention has taken the first one; a
\* crash at either is one of the Pitfalls, and open() may then refuse.
Reopens ==
    ~open \/ (op.pc # "remove" /\ segments[1].base = 0) => Recoverable

\* The log its users see: a truncation is done once it has begun.
Low == IF op.kind = "truncate" THEN 0 ELSE Bases[1]

Records ==
    IF op.kind = "truncate" THEN op.kept
    ELSE [i \in DOMAIN Contents |-> Contents[i].rec]

Promise == INSTANCE RecordLog WITH low <- Low, recs <- Records

\* Segments, rotation, a truncation that rewrites every file, torn writes and
\* recovery together behave as one sequence of records that changes at its
\* ends only and holds every identified record once.
KeepsRecords == Promise!Spec

=============================================================================
