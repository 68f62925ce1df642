------------------------------ MODULE LogProofs ------------------------------
(***************************************************************************)
(* Proofs about PartitionLog, for every set of requests and producers and  *)
(* every limit, when none of the known pitfalls is stepped into.           *)
(*                                                                         *)
(* Between two commands, and in an append, the files are laid out: every   *)
(* segment starts where the one before it ends.  The inductive invariant   *)
(* says it of the bases s and the contents c, and what the memory and the  *)
(* command in progress have to do with them.  While truncate_to removes    *)
(* the files nothing is laid out: what it keeps is in the command then.    *)
(***************************************************************************)
EXTENDS LogLemmas

\* n segments with the bases s hold c; the memory agrees with them when the
\* log is open, and only the last of them may be torn when it is not.
Sound(n, s, c) ==
    /\ Laid(files, n, s, c)
    /\ open => /\ Mirrors(segments, files, n, s) /\ next = s[1] + Len(c)
               /\ \A b \in DOMAIN files : files[b].torn = FALSE
    /\ ~open => /\ op = Idle /\ s[1] = 0
                /\ \A b \in DOMAIN files : files[b].torn => b = s[n]

\* Unless retention took records away, producers count without a gap and
\* the last record of each of them is known.
Numbered(s, c) ==
    s[1] = 0 => SequencesInOrder(c) /\ (open => known = Recalled(c))

Held(a, s, c) == a.off < s[1] \/ \E k \in 1 .. Len(c) : a = c[k]

\* What is known of a producer is its latest record.
Remembered(s, c) ==
    open =>
        /\ \A k \in 1 .. Len(c) : Identified(c[k].rec) =>
             c[k].rec.seq <= known[c[k].rec.who].seq
        /\ \A r \in Requests : Identified(r) /\ r.seq = known[r.who].seq =>
             Held(Entry(known[r.who].off, r), s, c)

\* What was promised, or will be when the command ends, is there.
Promised(s, c) == op.kind # "truncate" => \A a \in acked \cup op.done : Held(a, s, c)

\* A truncation has written the first of the records it keeps.
Rewriting(s, c) ==
    op.kind = "truncate" =>
        /\ s[1] = 0 /\ Len(c) < Len(op.kept)
        /\ op.todo = SubSeq(op.kept, Len(c) + 1, Len(op.kept))
        /\ \A k \in 1 .. Len(c) : c[k].rec = op.kept[k]

\* A truncation keeps records in order, with all that is still promised.
Cut ==
    op.kind = "truncate" =>
        /\ open /\ KeptInOrder(op.kept)
        /\ \A a \in acked : a.off + 1 \in 1 .. Len(op.kept) /\ a.rec = op.kept[a.off + 1]

Commands ==
    /\ op.pc = "idle" => op = Idle
    /\ op.pc = "append" => op.kind # "none" /\ open
    /\ op.pc = "remove" => open /\ op.kind = "truncate" /\ op.todo = op.kept

Whole(n, s, c) ==
    /\ Sound(n, s, c) /\ Numbered(s, c) /\ Remembered(s, c)
    /\ Promised(s, c) /\ Rewriting(s, c)

LogInv ==
    /\ TypeOK /\ Commands /\ Cut
    /\ op.pc # "remove" => Len(Bases) \in Nat \ {0} /\ Whole(Len(Bases), Bases, Contents)

-----------------------------------------------------------------------------

LEMMA BasesAre ==
  ASSUME NEW n \in Nat \ {0}, NEW s, NEW c
  PROVE  /\ Laid(files, n, s, c) => Bases = s /\ Len(Bases) = n /\ Contents = c
         /\ Laid(files, n, s, c)' => Bases' = s /\ Len(Bases') = n /\ Contents' = c
<1>1. Bases = BasesOf(files) /\ Contents = ContentsOf(files)
  BY DEF Bases, Contents, BasesOf, ContentsOf
<1>2. Bases' = BasesOf(files') /\ Contents' = ContentsOf(files')
  BY DEF Bases, Contents, BasesOf, ContentsOf
<1>3. Laid(files, n, s, c)' <=> Laid(files', n, s, c)
  BY DEF Laid, Recs
<1>4. ASSUME Laid(files, n, s, c) PROVE Bases = s /\ Len(Bases) = n /\ Contents = c
  BY <1>1, <1>4, LaidIs
<1>5. ASSUME Laid(files', n, s, c) PROVE Bases' = s /\ Len(Bases') = n /\ Contents' = c
  BY <1>2, <1>5, LaidIs
<1> QED  BY <1>3, <1>4, <1>5

\* It is enough to name the bases and the contents after a step.
LEMMA Establish ==
  ASSUME NEW n \in Nat \ {0}, NEW s, NEW c, TypeOK', Commands', Cut', Whole(n, s, c)'
  PROVE  LogInv' /\ Bases' = s /\ Contents' = c
<1>1. Laid(files, n, s, c)'
  BY DEF Whole, Sound
<1>2. Bases' = s /\ Len(Bases') = n /\ Contents' = c
  BY <1>1, BasesAre
<1>3. Whole(Len(Bases), Bases, Contents)'
  BY <1>2
<1> QED  BY <1>2, <1>3 DEF LogInv

LEMMA Given ==
  ASSUME LogInv, op.pc # "remove"
  PROVE  \E n \in Nat \ {0} : \E s, c :
           Whole(n, s, c) /\ n = Len(Bases) /\ s = Bases /\ c = Contents
BY DEF LogInv

-----------------------------------------------------------------------------
(* Starting a command, and ending it without a change.                     *)

LEMMA InitInv == Init => LogInv
<1> SUFFICES ASSUME Init PROVE LogInv
  OBVIOUS
<1> USE DEF Init
<1>1. DOMAIN files = {0} /\ files[0] = NewFile /\ Recs(files, 0) = << >>
  BY DEF NewFile, Recs
<1>2. Laid(files, 1, <<0>>, << >>)
  BY <1>1, LaidNew
<1>3. Bases = <<0>> /\ Len(Bases) = 1 /\ Contents = << >>
  BY <1>2, BasesAre
<1>4. NewSegment(0) \in Segment /\ NewSegment(0).base = 0 /\ Indexed(NewSegment(0), << >>)
  BY IndexedNew DEF Indexed
<1>5. Mirrors(segments, files, 1, <<0>>)
  <2>1. segments \in Seq(Segment) /\ Len(segments) = 1 /\ segments[1] = NewSegment(0)
    BY <1>4
  <2>2. \A i \in 1 .. 1 : i = 1
    OBVIOUS
  <2>3. <<0>>[1] = 0
    OBVIOUS
  <2> QED  BY <1>1, <1>4, <2>1, <2>2, <2>3 DEF Mirrors
<1>6. TypeOK
  <2>1. files \in [{0} -> [recs : Seq(Entries), torn : BOOLEAN]]
    BY DEF NewFile
  <2>2. known \in [Producers -> [seq : Int, off : Nat]]
    BY DEF NobodyKnown, Unknown
  <2>3. segments \in Seq(Segment)
    BY <1>5 DEF Mirrors
  <2>4. op \in [pc : {"idle", "append", "remove"}, kind : {"none", "produce", "truncate"},
                todo : Seq(AllRecords), done : SUBSET Entries, kept : Seq(AllRecords)]
        /\ op.pc = "idle"
    BY DEF Idle
  <2> QED  BY <1>1, <2>1, <2>2, <2>3, <2>4 DEF TypeOK
<1>7. op.kind = "none" /\ op.pc = "idle" /\ op.done = {} /\ op = Idle
  BY DEF Idle
<1>8. SequencesInOrder(<< >>)
  BY DEF SequencesInOrder
<1>9. Whole(1, <<0>>, << >>)
  <2>1. <<0>>[1] = 0 /\ Len(<< >>) = 0 /\ next = 0
    OBVIOUS
  <2>2. files[0].torn = FALSE
    BY <1>1 DEF NewFile
  <2>3. Sound(1, <<0>>, << >>)
    BY <1>1, <1>2, <1>5, <2>1, <2>2 DEF Sound
  <2>4. Numbered(<<0>>, << >>)
    BY <1>8, RecalledNothing DEF Numbered
  <2>5. Remembered(<<0>>, << >>)
    <3>1. ASSUME NEW r \in Requests, Identified(r) PROVE r.seq # known[r.who].seq
      <4>1. r \in AllRecords
        BY DEF AllRecords
      <4>2. r.seq \in Nat /\ r.who \in Producers
        BY <3>1, <4>1, RecordFacts
      <4>3. known[r.who].seq = -1
        BY <4>2 DEF NobodyKnown, Unknown
      <4> QED  BY <4>2, <4>3
    <3> QED  BY <2>1, <3>1 DEF Remembered
  <2>6. Promised(<<0>>, << >>)
    BY <1>7 DEF Promised
  <2>7. Rewriting(<<0>>, << >>)
    BY <1>7 DEF Rewriting
  <2> QED  BY <2>3, <2>4, <2>5, <2>6, <2>7 DEF Whole
<1>10. Commands /\ Cut
  BY <1>7 DEF Commands, Cut
<1>11. Len(Bases) \in Nat \ {0} /\ Whole(Len(Bases), Bases, Contents)
  BY <1>3, <1>9
<1> QED  BY <1>6, <1>10, <1>11 DEF LogInv

\* A command that may begin.
LEMMA StartInv ==
  ASSUME LogInv, NEW command, Start(command), command.pc = "append",
         command.kind = "produce", command.done = {}, command.todo # << >>,
         command \in [pc : {"idle", "append", "remove"},
                      kind : {"none", "produce", "truncate"},
                      todo : Seq(AllRecords), done : SUBSET Entries, kept : Seq(AllRecords)]
  PROVE  LogInv'
<1> USE DEF Start
<1>1. op.pc = "idle" /\ op = Idle /\ op.kind = "none" /\ open
  BY DEF LogInv, Commands, Idle
<1>2. PICK n \in Nat \ {0} : \E s, c : Whole(n, s, c)
  BY <1>1, Given
<1>3. PICK s, c : Whole(n, s, c)
  BY <1>2
<1>4. TypeOK'
  BY DEF LogInv, TypeOK
<1>5. Commands' /\ Cut'
  BY <1>1 DEF Commands, Cut
<1>6. Sound(n, s, c)'
  BY <1>1, <1>3 DEF Whole, Sound
<1>7. Numbered(s, c)' /\ Remembered(s, c)'
  BY <1>1, <1>3 DEF Whole, Numbered, Remembered
<1>8. Promised(s, c)' /\ Rewriting(s, c)'
  BY <1>1, <1>3 DEF Whole, Promised, Rewriting
<1>9. Whole(n, s, c)'
  BY <1>6, <1>7, <1>8 DEF Whole
<1> QED  BY <1>4, <1>5, <1>9, Establish

LEMMA CommandType ==
  ASSUME NEW recs \in Seq(AllRecords)
  PROVE  LET command == Command("produce", recs) IN
         /\ command.pc = "append" /\ command.kind = "produce" /\ command.done = {}
         /\ command.todo = recs
         /\ command \in [pc : {"idle", "append", "remove"},
                      kind : {"none", "produce", "truncate"},
                      todo : Seq(AllRecords), done : SUBSET Entries, kept : Seq(AllRecords)]
BY DEF Command

LEMMA ProduceInv ==
  ASSUME LogInv, NEW r \in Requests, NEW q \in Requests,
         Produce(r) \/ Replicate(r) \/ ProduceBatch(r, q)
  PROVE  LogInv'
<1>1. r \in AllRecords /\ Anonymous(r) \in AllRecords /\ Anonymous(q) \in AllRecords
  BY DEF AllRecords
<1>2. ASSUME NEW recs \in Seq(AllRecords), recs # << >>, Start(Command("produce", recs))
      PROVE  LogInv'
  BY <1>2, StartInv, CommandType
<1>3. CASE Produce(r)
  <2>1. <<r>> \in Seq(AllRecords) /\ <<r>> # << >>
    BY <1>1
  <2> QED  BY <1>2, <1>3, <2>1 DEF Produce
<1>4. CASE Replicate(r)
  <2>1. <<Anonymous(r)>> \in Seq(AllRecords) /\ <<Anonymous(r)>> # << >>
    BY <1>1
  <2> QED  BY <1>2, <1>4, <2>1 DEF Replicate
<1>5. CASE ProduceBatch(r, q)
  <2>1. /\ <<Anonymous(r), Anonymous(q)>> \in Seq(AllRecords)
        /\ <<Anonymous(r), Anonymous(q)>> # << >>
    BY <1>1
  <2> QED  BY <1>2, <1>5, <2>1 DEF ProduceBatch
<1> QED  BY <1>3, <1>4, <1>5

-----------------------------------------------------------------------------
(* One record of a command.                                                *)

OpType == [pc : {"idle", "append", "remove"}, kind : {"none", "produce", "truncate"},
           todo : Seq(AllRecords), done : SUBSET Entries, kept : Seq(AllRecords)]

LEMMA AppendingFacts ==
  ASSUME LogInv, Appending
  PROVE  /\ op \in OpType /\ op.pc = "append" /\ op.todo # << >> /\ open
         /\ op.kind = "produce" \/ op.kind = "truncate"
         /\ Due \in AllRecords /\ Tail(op.todo) \in Seq(AllRecords)
         /\ Len(op.todo) \in Nat /\ Len(Tail(op.todo)) = Len(op.todo) - 1
         /\ \E n \in Nat \ {0} : \E s, c :
              Whole(n, s, c) /\ n = Len(Bases) /\ s = Bases /\ c = Contents
<1>1. op.pc = "append"
  BY DEF Appending
<1>2. op \in OpType /\ op.todo # << >>
  BY <1>1 DEF LogInv, TypeOK, OpType
<1>3. open /\ op.kind # "none"
  BY <1>1 DEF LogInv, Commands
<1>4. op.kind \in {"none", "produce", "truncate"} /\ op.todo \in Seq(AllRecords)
  BY <1>2 DEF OpType
<1>5. Due \in AllRecords /\ Tail(op.todo) \in Seq(AllRecords)
      /\ Len(op.todo) \in Nat /\ Len(Tail(op.todo)) = Len(op.todo) - 1
  BY <1>2, <1>4, HeadTailProperties, LenProperties DEF Due
<1>6. \E n \in Nat \ {0} : \E s, c :
        Whole(n, s, c) /\ n = Len(Bases) /\ s = Bases /\ c = Contents
  BY <1>1, Given
<1> QED  BY <1>1, <1>2, <1>3, <1>4, <1>5, <1>6

\* A truncation appends the next record it keeps, which is never refused.
LEMMA RewriteGoesOn ==
  ASSUME LogInv, Appending, op.kind = "truncate",
         NEW n \in Nat \ {0}, NEW s, NEW c, Whole(n, s, c)
  PROVE  Due = op.kept[Len(c) + 1] /\ ~Duplicate /\ ~OutOfSequence
<1>1. op \in OpType /\ open
  BY AppendingFacts
<1>2. /\ s[1] = 0 /\ Len(c) < Len(op.kept)
      /\ op.todo = SubSeq(op.kept, Len(c) + 1, Len(op.kept))
      /\ \A k \in 1 .. Len(c) : c[k].rec = op.kept[k]
  BY DEF Whole, Rewriting
<1>3. c \in Seq(Entries) /\ op.kept \in Seq(AllRecords)
  BY <1>1 DEF Whole, Sound, Laid, OpType
<1>4. Due = op.kept[Len(c) + 1]
  <2>1. Len(c) \in Nat /\ Len(op.kept) \in Nat
    BY <1>3
  <2>2. Len(c) + 1 \in 1 .. Len(op.kept) /\ Len(op.kept) \in Len(c) + 1 .. Len(op.kept)
    BY <1>2, <2>1
  <2> QED  BY <1>2, <1>3, <2>2, HeadTailOfSubSeq DEF Due
<1>5. CASE ~Identified(Due)
  BY <1>4, <1>5 DEF Duplicate, OutOfSequence
<1>6. CASE Identified(Due)
  <2>1. KeptInOrder(op.kept)
    BY DEF LogInv, Cut
  <2>2. Due.seq = Cardinality(RecordsOf(Due.who, c))
    BY <1>2, <1>3, <1>4, <1>6, <2>1, KeptNext
  <2>3. SequencesInOrder(c) /\ known = Recalled(c)
    BY <1>1, <1>2 DEF Whole, Numbered
  <2>4. Due.who \in Producers
    BY <1>6, AppendingFacts, RecordFacts
  <2>5. known[Due.who].seq = Cardinality(RecordsOf(Due.who, c)) - 1
    BY <1>3, <2>3, <2>4, RecalledSeq
  <2>6. Cardinality(RecordsOf(Due.who, c)) \in Nat
    BY <1>3, RecordsFinite
  <2>7. Due.seq # known[Due.who].seq /\ Due.seq = known[Due.who].seq + 1
    BY <2>2, <2>5, <2>6
  <2> QED  BY <1>4, <2>7 DEF Duplicate, OutOfSequence
<1> QED  BY <1>5, <1>6

\* A sequence is empty when its length is zero.
LEMMA NotEmpty ==
  ASSUME NEW S, NEW q \in Seq(S)
  PROVE  Len(q) \in Nat /\ (q # << >> => Len(q) > 0) /\ (Len(q) > 0 => q # << >>)
<1>1. Len(q) \in Nat
  BY LenProperties
<1>2. Len(q) = 0 <=> q = << >>
  BY EmptySeq
<1> QED  BY <1>1, <1>2

\* What the answer changes.
LEMMA StoredFacts ==
  ASSUME LogInv, Appending, NEW o \in Nat, Stored(o)
  PROVE  /\ op' \in OpType /\ acked' \in SUBSET Entries
         /\ op'.pc # "remove" /\ (op'.pc = "idle" => op' = Idle)
         /\ op'.pc = "append" => op'.todo # << >> /\ op'.kind = op.kind
         /\ op.kind = "produce" => /\ op'.kind # "truncate"
                                   /\ acked' \cup op'.done \subseteq
                                        acked \cup op.done \cup {Entry(o, Due)}
         /\ op.kind = "truncate" =>
              /\ acked' = acked
              /\ \/ /\ Len(op.todo) > 1 /\ op'.kind = "truncate" /\ op'.kept = op.kept
                    /\ op'.todo = Tail(op.todo)
                 \/ Len(op.todo) = 1 /\ op' = Idle
<1> DEFINE done == op.done \cup {Entry(o, Due)}
<1>1. /\ op \in OpType /\ op.pc = "append" /\ op.todo # << >>
      /\ op.kind = "produce" \/ op.kind = "truncate"
      /\ Due \in AllRecords /\ Tail(op.todo) \in Seq(AllRecords)
      /\ Len(op.todo) \in Nat /\ Len(Tail(op.todo)) = Len(op.todo) - 1
  BY AppendingFacts
<1>2. Entry(o, Due) \in Entries /\ op.done \in SUBSET Entries /\ acked \in SUBSET Entries
  BY <1>1 DEF Entry, Entries, OpType, LogInv, TypeOK
<1>3. done \in SUBSET Entries
  BY <1>2
<1>4. CASE Len(op.todo) > 1
  <2>1. op' = [op EXCEPT !.todo = Tail(op.todo), !.done = done] /\ acked' = acked
    BY <1>4 DEF Stored
  <2> HIDE DEF done
  <2>2. /\ op' \in OpType /\ op'.pc = "append" /\ op'.todo = Tail(op.todo)
        /\ op'.kind = op.kind /\ op'.kept = op.kept /\ op'.done = done
    BY <1>1, <1>3, <2>1 DEF OpType
  <2>3. op'.todo # << >>
    <3>1. Len(Tail(op.todo)) > 0
      BY <1>1, <1>4
    <3> QED  BY <1>1, <2>2, <3>1, NotEmpty
  <2>4. acked' \cup op'.done \subseteq acked \cup op.done \cup {Entry(o, Due)}
    BY <2>1, <2>2 DEF done
  <2> QED  BY <1>1, <1>2, <1>4, <2>1, <2>2, <2>3, <2>4
<1>5. CASE ~(Len(op.todo) > 1)
  <2>1. op' = Idle /\ acked' = IF op.kind = "produce" THEN acked \cup done ELSE acked
    BY <1>5 DEF Stored
  <2>2. Idle \in OpType /\ Idle.pc = "idle" /\ Idle.kind = "none" /\ Idle.done = {}
    BY DEF Idle, OpType
  <2>3. Len(op.todo) = 1
    <3>1. op.todo \in Seq(AllRecords)
      BY <1>1 DEF OpType
    <3>2. Len(op.todo) > 0
      BY <1>1, <3>1, NotEmpty
    <3>3. \A l \in Nat : l > 0 /\ ~(l > 1) => l = 1
      OBVIOUS
    <3> QED  BY <1>1, <1>5, <3>2, <3>3
  <2>4. acked' \in SUBSET Entries
    BY <1>2, <1>3, <2>1
  <2>5. op.kind = "produce" =>
          acked' \cup op'.done \subseteq acked \cup op.done \cup {Entry(o, Due)}
    BY <2>1, <2>2
  <2> QED  BY <1>1, <2>1, <2>2, <2>3, <2>4, <2>5
<1> QED  BY <1>4, <1>5

LEMMA AnswerDuplicateInv ==
  ASSUME LogInv, AnswerDuplicate
  PROVE  LogInv'
<1> DEFINE o == known[Due.who].off
<1>1. Appending /\ Duplicate /\ Stored(o)
      /\ UNCHANGED <<files, open, segments, next, known, crashes>>
  BY DEF AnswerDuplicate
<1>2. open /\ Due \in AllRecords /\ (op.kind = "produce" \/ op.kind = "truncate")
  BY <1>1, AppendingFacts
<1>3. PICK n \in Nat \ {0} : \E s, c : Whole(n, s, c)
  BY <1>1, AppendingFacts
<1>4. PICK s, c : Whole(n, s, c)
  BY <1>3
<1>5. op.kind = "produce"
  BY <1>1, <1>2, <1>4, RewriteGoesOn
<1>6. Identified(Due) /\ Due.seq = known[Due.who].seq
  BY <1>1 DEF Duplicate
<1>7. Due \in Requests /\ Due.who \in Producers
  BY <1>2, <1>6, RecordFacts
<1>8. o \in Nat
  BY <1>7 DEF LogInv, TypeOK
<1>9. Held(Entry(o, Due), s, c)
  BY <1>2, <1>4, <1>6, <1>7 DEF Whole, Remembered
<1> HIDE DEF o
<1>10. /\ op' \in OpType /\ acked' \in SUBSET Entries
       /\ op'.pc # "remove" /\ (op'.pc = "idle" => op' = Idle)
       /\ op'.pc = "append" => op'.todo # << >> /\ op'.kind = op.kind
       /\ op'.kind # "truncate"
       /\ acked' \cup op'.done \subseteq acked \cup op.done \cup {Entry(o, Due)}
  BY <1>1, <1>5, <1>8, StoredFacts
<1>11. TypeOK'
  BY <1>1, <1>10 DEF LogInv, TypeOK, OpType
<1>12. Commands' /\ Cut'
  BY <1>1, <1>2, <1>5, <1>10 DEF Commands, Cut
<1>13. Sound(n, s, c)'
  BY <1>1, <1>2, <1>4 DEF Whole, Sound
<1>14. Numbered(s, c)' /\ Remembered(s, c)'
  BY <1>1, <1>4 DEF Whole, Numbered, Remembered
<1>15. Promised(s, c)'
  <2>1. \A a \in acked \cup op.done : Held(a, s, c)
    BY <1>4, <1>5 DEF Whole, Promised
  <2>2. \A a \in acked' \cup op'.done : Held(a, s, c)
    BY <1>9, <1>10, <2>1
  <2> QED  BY <2>2 DEF Promised, Held
<1>16. Rewriting(s, c)'
  BY <1>10 DEF Rewriting
<1>17. Whole(n, s, c)'
  BY <1>13, <1>14, <1>15, <1>16 DEF Whole
<1> QED  BY <1>11, <1>12, <1>17, Establish

LEMMA RejectSequenceInv ==
  ASSUME LogInv, RejectSequence
  PROVE  LogInv'
<1>1. Appending /\ OutOfSequence /\ op' = Idle
      /\ UNCHANGED <<files, open, segments, next, known, crashes, acked>>
  BY DEF RejectSequence
<1>2. open /\ (op.kind = "produce" \/ op.kind = "truncate")
  BY <1>1, AppendingFacts
<1>3. PICK n \in Nat \ {0} : \E s, c : Whole(n, s, c)
  BY <1>1, AppendingFacts
<1>4. PICK s, c : Whole(n, s, c)
  BY <1>3
<1>5. op.kind = "produce"
  BY <1>1, <1>2, <1>4, RewriteGoesOn
<1>6. op' \in OpType /\ op'.pc = "idle" /\ op'.kind = "none" /\ op'.done = {}
  BY <1>1 DEF Idle, OpType
<1>7. TypeOK'
  BY <1>1, <1>6 DEF LogInv, TypeOK, OpType
<1>8. Commands' /\ Cut'
  BY <1>1, <1>6 DEF Commands, Cut
<1>9. Sound(n, s, c)'
  BY <1>1, <1>2, <1>4 DEF Whole, Sound
<1>10. Numbered(s, c)' /\ Remembered(s, c)'
  BY <1>1, <1>4 DEF Whole, Numbered, Remembered
<1>11. Promised(s, c)' /\ Rewriting(s, c)'
  <2>1. \A a \in acked : Held(a, s, c)
    BY <1>4, <1>5 DEF Whole, Promised
  <2> QED  BY <1>1, <1>6, <2>1 DEF Promised, Rewriting, Held
<1>12. Whole(n, s, c)'
  BY <1>9, <1>10, <1>11 DEF Whole
<1> QED  BY <1>7, <1>8, <1>12, Establish

-----------------------------------------------------------------------------
(* A record is written.                                                    *)

\* The active segment is the last one.
LEMMA ActiveIs ==
  ASSUME LogInv, open, NEW n \in Nat \ {0}, NEW s, NEW c, Whole(n, s, c)
  PROVE  /\ Laid(files, n, s, c) /\ Mirrors(segments, files, n, s)
         /\ n \in 1 .. n /\ Len(segments) = n /\ Active = segments[n] /\ Active \in Segment
         /\ Active.base = s[n] /\ s[n] \in Nat /\ s[n] \in DOMAIN files
         /\ Recs(files, s[n]) \in Seq(Entries) /\ Indexed(Active, Recs(files, s[n]))
         /\ s[1] \in Nat /\ c \in Seq(Entries) /\ Len(c) \in Nat /\ next = s[1] + Len(c)
         /\ \A b \in DOMAIN files : files[b].torn = FALSE
<1>1. /\ Laid(files, n, s, c) /\ Mirrors(segments, files, n, s) /\ next = s[1] + Len(c)
      /\ \A b \in DOMAIN files : files[b].torn = FALSE
  BY DEF Whole, Sound
<1>2. n \in 1 .. n /\ n \in Nat
  OBVIOUS
<1>3. Len(segments) = n /\ segments[n].base = s[n] /\ Indexed(segments[n], Recs(files, s[n]))
  BY <1>1, <1>2 DEF Mirrors
<1>4. Active = segments[n]
  BY <1>3 DEF Active, Last
<1>5. /\ s[n] \in Nat /\ s[1] \in Nat /\ s[n] \in DOMAIN files
      /\ Recs(files, s[n]) \in Seq(Entries) /\ Len(c) \in Nat
  BY <1>1, <1>2, LaidAt
<1>6. c \in Seq(Entries)
  BY <1>1 DEF Laid
<1>7. Active \in Segment
  BY <1>3, <1>4 DEF Indexed
<1> QED  BY <1>1, <1>2, <1>3, <1>4, <1>5, <1>6, <1>7

LEMMA HeldAppend ==
  ASSUME NEW c \in Seq(Entries), NEW e \in Entries, NEW s
  PROVE  /\ \A a : Held(a, s, c) => Held(a, s, Append(c, e))
         /\ Held(e, s, Append(c, e))
<1>1. /\ Append(c, e) \in Seq(Entries) /\ Len(Append(c, e)) = Len(c) + 1
      /\ \A k \in 1 .. Len(c) : Append(c, e)[k] = c[k]
      /\ Append(c, e)[Len(c) + 1] = e
  BY AppendProperties
<1>2. Len(c) \in Nat
  OBVIOUS
<1>3. Len(c) + 1 \in 1 .. Len(Append(c, e)) /\ \A k \in 1 .. Len(c) : k \in 1 .. Len(Append(c, e))
  BY <1>1, <1>2
<1>4. Held(e, s, Append(c, e))
  BY <1>1, <1>3 DEF Held
<1>5. ASSUME NEW a, Held(a, s, c) PROVE Held(a, s, Append(c, e))
  <2>1. CASE a.off < s[1]
    BY <2>1 DEF Held
  <2>2. CASE \E k \in 1 .. Len(c) : a = c[k]
    <3>1. PICK k \in 1 .. Len(c) : a = c[k]
      BY <2>2
    <3>2. k \in 1 .. Len(Append(c, e)) /\ a = Append(c, e)[k]
      BY <1>1, <1>3, <3>1
    <3> QED  BY <3>2 DEF Held
  <2> QED  BY <1>5, <2>1, <2>2 DEF Held
<1> QED  BY <1>4, <1>5

Written(n, s, c, e) ==
    /\ e \in Entries /\ e.off = next /\ e.rec = Due /\ c \in Seq(Entries)
    /\ Laid(files', n, s, Append(c, e)) /\ Mirrors(segments', files', n, s)
    /\ next \in Nat /\ next = s[1] + Len(c) /\ s[1] \in Nat
    /\ next' \in Nat /\ next' = s[1] + Len(Append(c, e))
    /\ DOMAIN files' \subseteq Nat
    /\ files' \in [DOMAIN files' -> [recs : Seq(Entries), torn : BOOLEAN]]
    /\ \A b \in DOMAIN files' : files'[b].torn = FALSE

\* What a write does to the files and the segments.
LEMMA WriteLaid ==
  ASSUME LogInv, Write, NEW n \in Nat \ {0}, NEW s, NEW c, Whole(n, s, c),
         NEW e, e = Entry(next, Due)
  PROVE  Written(n, s, c, e)
<1>1. /\ Appending /\ next' = next + 1
      /\ files' = [files EXCEPT ![Active.base].recs = Append(@, e)]
      /\ segments' = [segments EXCEPT ![Len(segments)] = Grown(@, e)]
  BY DEF Write
<1>2. open /\ Due \in AllRecords
  BY <1>1, AppendingFacts
<1>3. /\ Laid(files, n, s, c) /\ Mirrors(segments, files, n, s)
      /\ n \in 1 .. n /\ Len(segments) = n /\ Active = segments[n] /\ Active \in Segment
      /\ Active.base = s[n] /\ s[n] \in Nat /\ s[n] \in DOMAIN files
      /\ Recs(files, s[n]) \in Seq(Entries) /\ Indexed(Active, Recs(files, s[n]))
      /\ s[1] \in Nat /\ c \in Seq(Entries) /\ Len(c) \in Nat /\ next = s[1] + Len(c)
      /\ \A b \in DOMAIN files : files[b].torn = FALSE
  BY <1>2, ActiveIs
<1>4. next \in Nat
  BY DEF LogInv, TypeOK
<1>5. e \in Entries /\ e.off = next /\ e.rec = Due
  BY <1>2, <1>4 DEF Entry, Entries
<1>6. /\ DOMAIN files \subseteq Nat
      /\ files \in [DOMAIN files -> [recs : Seq(Entries), torn : BOOLEAN]]
  BY DEF LogInv, TypeOK
<1>7. files' = [files EXCEPT ![s[n]].recs = Append(files[s[n]].recs, e)]
  BY <1>1, <1>3
<1>8. Append(files[s[n]].recs, e) \in Seq(Entries)
  BY <1>3, <1>5, AppendProperties DEF Recs
<1>9. /\ DOMAIN files' = DOMAIN files
      /\ files' \in [DOMAIN files -> [recs : Seq(Entries), torn : BOOLEAN]]
      /\ \A b \in DOMAIN files : files'[b].torn = files[b].torn
      /\ Recs(files', s[n]) = Append(Recs(files, s[n]), e)
      /\ \A b \in DOMAIN files : b # s[n] => Recs(files', b) = Recs(files, b)
  <2>1. PICK x, t : x = s[n] /\ t = Append(files[s[n]].recs, e)
    OBVIOUS
  <2>2. files' = [files EXCEPT ![x].recs = t] /\ t \in Seq(Entries) /\ x \in DOMAIN files
    BY <1>3, <1>7, <1>8, <2>1
  <2>3. /\ DOMAIN files' = DOMAIN files
        /\ \A b \in DOMAIN files : b # x => files'[b] = files[b]
        /\ files'[x] = [files[x] EXCEPT !.recs = t]
    BY ONLY <1>6, <2>2
  <2>4. files[x] \in [recs : Seq(Entries), torn : BOOLEAN]
    BY ONLY <1>6, <2>2
  <2>5. /\ files'[x] \in [recs : Seq(Entries), torn : BOOLEAN]
        /\ files'[x].recs = t /\ files'[x].torn = files[x].torn
    BY ONLY <2>2, <2>3, <2>4
  <2>6. files' \in [DOMAIN files -> [recs : Seq(Entries), torn : BOOLEAN]]
    BY ONLY <1>6, <2>2, <2>3, <2>5
  <2>7. \A b \in DOMAIN files : files'[b].torn = files[b].torn
    BY ONLY <2>3, <2>5
  <2> QED  BY <2>1, <2>3, <2>5, <2>6, <2>7 DEF Recs
<1>10. \A i \in 1 .. n : i # n => i \in 1 .. n - 1 /\ s[i] # s[n] /\ s[i] \in DOMAIN files
  <2> SUFFICES ASSUME NEW i \in 1 .. n, i # n
               PROVE  i \in 1 .. n - 1 /\ s[i] # s[n] /\ s[i] \in DOMAIN files
    OBVIOUS
  <2>1. i < n
    OBVIOUS
  <2>2. s[i] < s[n] /\ s[i] \in Nat
    BY <1>3, <2>1 DEF Laid, Increasing
  <2>3. s[i] \in DOMAIN files
    BY <1>3 DEF Laid, First
  <2>4. s[i] # s[n]
    BY <1>3, <2>2
  <2> QED  BY <2>1, <2>3, <2>4
<1>11. Laid(files', n, s, Append(c, e))
  <2>1. \A i \in 1 .. n - 1 : Recs(files', s[i]) = Recs(files, s[i])
    <3>1. \A i \in 1 .. n - 1 : i \in 1 .. n /\ i # n
      OBVIOUS
    <3> QED  BY <1>9, <1>10, <3>1
  <2> QED  BY <1>3, <1>5, <1>9, <2>1, LaidAppend
<1>12. Indexed(Grown(Active, e), Append(Recs(files, s[n]), e)) /\ Grown(Active, e).base = s[n]
  BY <1>3, <1>5, IndexedGrown
<1>13. segments \in Seq(Segment) /\ Grown(Active, e) \in Segment
  BY <1>3, <1>12 DEF Mirrors, Indexed
<1>14. segments' = [segments EXCEPT ![n] = Grown(Active, e)]
  BY <1>1, <1>3
<1>15. /\ segments' \in Seq(Segment) /\ Len(segments') = n /\ segments'[n] = Grown(Active, e)
       /\ \A i \in 1 .. n : i # n => segments'[i] = segments[i]
  BY <1>3, <1>13, <1>14, ExceptSeq
<1>16. Mirrors(segments', files', n, s)
  <2>1. ASSUME NEW i \in 1 .. n, i # n
        PROVE  segments'[i].base = s[i] /\ Indexed(segments'[i], Recs(files', s[i]))
    <3>1. Recs(files', s[i]) = Recs(files, s[i])
      BY <1>9, <1>10, <2>1
    <3>2. segments[i].base = s[i] /\ Indexed(segments[i], Recs(files, s[i]))
      BY <1>3 DEF Mirrors
    <3> QED  BY <1>15, <2>1, <3>1, <3>2
  <2>2. segments'[n].base = s[n] /\ Indexed(segments'[n], Recs(files', s[n]))
    BY <1>9, <1>12, <1>15
  <2> QED  BY <1>15, <2>1, <2>2 DEF Mirrors
<1>17. next' \in Nat /\ next' = s[1] + Len(Append(c, e))
  <2>1. Len(Append(c, e)) = Len(c) + 1
    BY <1>3, <1>5, AppendProperties
  <2> QED  BY <1>1, <1>3, <1>4, <2>1
<1> QED  BY <1>3, <1>4, <1>5, <1>6, <1>9, <1>11, <1>16, <1>17 DEF Written

LEMMA RememberFacts ==
  ASSUME NEW k \in [Producers -> [seq : Int, off : Nat]], NEW e \in Entries
  PROVE  /\ Remember(k, e) \in [Producers -> [seq : Int, off : Nat]]
         /\ Identified(e.rec) => Remember(k, e)[e.rec.who] = [seq |-> e.rec.seq, off |-> e.off]
         /\ \A p \in Producers :
              ~(Identified(e.rec) /\ p = e.rec.who) => Remember(k, e)[p] = k[p]
<1>1. e.off \in Nat /\ e.rec \in AllRecords
  BY EntryFacts
<1>2. e.rec.seq \in Nat /\ (Identified(e.rec) => e.rec.who \in Producers)
  BY <1>1, RecordFacts
<1>3. [seq |-> e.rec.seq, off |-> e.off] \in [seq : Int, off : Nat]
  BY <1>1, <1>2
<1>4. CASE Identified(e.rec)
  BY <1>2, <1>3, <1>4 DEF Remember
<1>5. CASE ~Identified(e.rec)
  BY <1>5 DEF Remember
<1> QED  BY <1>4, <1>5

\* What is known after a write agrees with what is stored after it.
LEMMA WriteMemory ==
  ASSUME LogInv, Write, NEW n \in Nat \ {0}, NEW s, NEW c, Whole(n, s, c),
         NEW e, e = Entry(next, Due), NEW d, d = Append(c, e)
  PROVE  /\ known' \in [Producers -> [seq : Int, off : Nat]]
         /\ Numbered(s, d)' /\ Remembered(s, d)'
<1>1. /\ Appending /\ ~Duplicate /\ ~OutOfSequence
      /\ known' = Remember(known, e) /\ open' = open
  BY DEF Write
<1>2. open /\ Due \in AllRecords
  BY <1>1, AppendingFacts
<1>3. e \in Entries /\ e.off = next /\ e.rec = Due /\ c \in Seq(Entries)
  BY WriteLaid DEF Written
<1>4. known \in [Producers -> [seq : Int, off : Nat]]
  BY DEF LogInv, TypeOK
<1>5. /\ known' \in [Producers -> [seq : Int, off : Nat]]
      /\ Identified(Due) => known'[Due.who] = [seq |-> Due.seq, off |-> next]
      /\ \A p \in Producers : ~(Identified(Due) /\ p = Due.who) => known'[p] = known[p]
  <2>1. /\ Remember(known, e) \in [Producers -> [seq : Int, off : Nat]]
        /\ Identified(e.rec) =>
             Remember(known, e)[e.rec.who] = [seq |-> e.rec.seq, off |-> e.off]
        /\ \A p \in Producers :
             ~(Identified(e.rec) /\ p = e.rec.who) => Remember(known, e)[p] = known[p]
    BY ONLY <1>3, <1>4, RememberFacts
  <2> QED  BY ONLY <1>1, <1>3, <2>1
<1>6. Identified(Due) => /\ Due \in Requests /\ Due.who \in Producers /\ Due.seq \in Nat
                         /\ Due.seq = known[Due.who].seq + 1
  BY <1>1, <1>2, RecordFacts DEF Duplicate, OutOfSequence
<1>7. Numbered(s, d)'
  <2> SUFFICES ASSUME s[1] = 0 PROVE SequencesInOrder(d) /\ known' = Recalled(d)
    BY DEF Numbered
  <2>1. SequencesInOrder(c) /\ known = Recalled(c)
    BY <1>2 DEF Whole, Numbered
  <2>2. ASSUME Identified(Due) PROVE Due.seq = Cardinality(RecordsOf(Due.who, c))
    <3>1. known[Due.who].seq = Cardinality(RecordsOf(Due.who, c)) - 1
      BY <1>3, <1>6, <2>1, <2>2, RecalledSeq
    <3>2. Cardinality(RecordsOf(Due.who, c)) \in Nat
      BY <1>3, RecordsFinite
    <3> QED  BY <1>6, <2>2, <3>1, <3>2
  <2>3. SequencesInOrder(d)
    BY <1>3, <2>1, <2>2, InOrderAppend
  <2> QED  BY <1>1, <1>3, <2>1, <2>3, RecalledAppend
<1>8. /\ d \in Seq(Entries) /\ Len(d) = Len(c) + 1 /\ Len(c) \in Nat
      /\ \A k \in 1 .. Len(c) : d[k] = c[k]
      /\ d[Len(c) + 1] = e
  BY <1>3, AppendProperties
<1>9. ASSUME NEW k \in 1 .. Len(d), Identified(d[k].rec)
      PROVE  d[k].rec.seq <= known'[d[k].rec.who].seq
  <2>1. CASE k = Len(c) + 1
    <3>1. d[k].rec = Due
      BY <1>3, <1>8, <2>1
    <3>2. known'[Due.who].seq = Due.seq /\ Due.seq \in Nat
      BY <1>5, <1>6, <1>9, <3>1
    <3> QED  BY <3>1, <3>2
  <2>2. CASE k \in 1 .. Len(c)
    <3> DEFINE r == c[k].rec
    <3>1. d[k].rec = r /\ c[k] \in Entries
      BY <1>3, <1>8, <2>2
    <3>2. r \in AllRecords
      BY <3>1, EntryFacts
    <3>3. r.seq <= known[r.who].seq /\ Identified(r)
      BY <1>2, <1>9, <2>2, <3>1 DEF Whole, Remembered
    <3> HIDE DEF r
    <3>4. r.seq \in Nat /\ r.who \in Producers
      BY <3>2, <3>3, RecordFacts
    <3>5. known[r.who].seq \in Int
      BY <1>4, <3>4
    <3>6. known'[r.who].seq = known[r.who].seq \/ known'[r.who].seq = known[r.who].seq + 1
      <4>1. CASE Identified(Due) /\ r.who = Due.who
        BY <1>5, <1>6, <4>1
      <4>2. CASE ~(Identified(Due) /\ r.who = Due.who)
        BY <1>5, <3>4, <4>2
      <4> QED  BY <4>1, <4>2
    <3> QED  BY <3>1, <3>3, <3>4, <3>5, <3>6
  <2>3. k = Len(c) + 1 \/ k \in 1 .. Len(c)
    BY <1>8
  <2> QED  BY <2>1, <2>2, <2>3
<1>10. ASSUME NEW r \in Requests, Identified(r), r.seq = known'[r.who].seq
       PROVE  Held(Entry(known'[r.who].off, r), s, d)
  <2>1. r \in AllRecords
    BY DEF AllRecords
  <2>2. r.who \in Producers /\ r.who # NoProducer
    BY <1>10, <2>1, RecordFacts DEF Identified
  <2>3. CASE Identified(Due) /\ r.who = Due.who
    <3>1. known'[r.who].seq = Due.seq /\ known'[r.who].off = next
      BY <1>5, <2>3
    <3>2. r = Due
      BY <1>6, <1>10, <2>2, <2>3, <3>1, LogAssumption
    <3> QED  BY <1>3, <3>1, <3>2, HeldAppend
  <2>4. CASE ~(Identified(Due) /\ r.who = Due.who)
    <3>1. known'[r.who] = known[r.who]
      BY <1>5, <2>2, <2>4
    <3>2. Held(Entry(known[r.who].off, r), s, c)
      BY <1>2, <1>10, <3>1 DEF Whole, Remembered
    <3> QED  BY <1>3, <3>1, <3>2, HeldAppend
  <2> QED  BY <2>3, <2>4
<1>11. Remembered(s, d)'
  BY <1>9, <1>10 DEF Remembered
<1> QED  BY <1>5, <1>7, <1>11

\* A truncation that has written all it keeps holds what is still promised.
Rewrites(c, d) ==
    /\ Len(d) = Len(c) + 1 /\ Len(d) <= Len(op.kept)
    /\ Len(op.todo) = Len(op.kept) - Len(c)
    /\ \A k \in 1 .. Len(d) : d[k].rec = op.kept[k]
    /\ Len(op.todo) > 1 => Tail(op.todo) = SubSeq(op.kept, Len(d) + 1, Len(op.kept))

LEMMA Rewritten ==
  ASSUME LogInv, Appending, op.kind = "truncate",
         NEW n \in Nat \ {0}, NEW s, NEW c, Whole(n, s, c),
         NEW e \in Entries, e.rec = Due, NEW d, d = Append(c, e)
  PROVE  s[1] = 0 /\ Rewrites(c, d)
<1>1. op \in OpType /\ op.kept \in Seq(AllRecords)
  BY AppendingFacts DEF OpType
<1>2. /\ s[1] = 0 /\ Len(c) < Len(op.kept)
      /\ op.todo = SubSeq(op.kept, Len(c) + 1, Len(op.kept))
      /\ \A k \in 1 .. Len(c) : c[k].rec = op.kept[k]
  BY DEF Whole, Rewriting
<1>3. c \in Seq(Entries)
  BY DEF Whole, Sound, Laid
<1>4. /\ Len(d) = Len(c) + 1 /\ Len(c) \in Nat
      /\ \A k \in 1 .. Len(c) : d[k] = c[k]
      /\ d[Len(c) + 1] = e
  BY <1>3, AppendProperties
<1>5. Due = op.kept[Len(c) + 1]
  BY RewriteGoesOn
<1>6. Len(op.kept) \in Nat
  BY <1>1
<1>7. \A k \in 1 .. Len(d) : k \in 1 .. Len(c) \/ k = Len(c) + 1
  BY <1>4
<1>8. \A k \in 1 .. Len(d) : d[k].rec = op.kept[k]
  BY <1>2, <1>4, <1>5, <1>7
<1>9. Len(c) + 1 \in 1 .. Len(op.kept) /\ Len(op.kept) \in Len(c) + 1 .. Len(op.kept)
  BY <1>2, <1>4, <1>6
<1>10. Len(SubSeq(op.kept, Len(c) + 1, Len(op.kept))) = Len(op.kept) - (Len(c) + 1) + 1
  BY <1>1, <1>2, <1>4, <1>6, SubSeqProperties, ElementOfSeq
<1>11. Len(op.todo) = Len(op.kept) - Len(c)
  BY <1>2, <1>4, <1>6, <1>10
<1>12. Tail(op.todo) = SubSeq(op.kept, Len(c) + 1 + 1, Len(op.kept))
  BY <1>1, <1>2, <1>9, HeadTailOfSubSeq
<1> QED  BY <1>2, <1>4, <1>6, <1>8, <1>11, <1>12 DEF Rewrites

LEMMA WriteInv ==
  ASSUME LogInv, Write
  PROVE  LogInv' /\ Bases' = Bases /\ Contents' = Append(Contents, Entry(next, Due))
<1>0. PICK e : e = Entry(next, Due)
  OBVIOUS
<1>1. Appending /\ Stored(next) /\ UNCHANGED <<open, crashes>>
  BY DEF Write
<1>2. open /\ (op.kind = "produce" \/ op.kind = "truncate") /\ op \in OpType
  BY <1>1, AppendingFacts
<1>3. PICK n \in Nat \ {0} : \E s, c : Whole(n, s, c)
  BY <1>1, AppendingFacts
<1>4. PICK s, c : Whole(n, s, c)
  BY <1>3
<1>21. PICK d : d = Append(c, e)
  OBVIOUS
<1>5. /\ e \in Entries /\ e.rec = Due /\ c \in Seq(Entries)
      /\ Laid(files', n, s, d) /\ Mirrors(segments', files', n, s)
      /\ next \in Nat /\ next' \in Nat /\ next' = s[1] + Len(d)
      /\ DOMAIN files' \subseteq Nat
      /\ files' \in [DOMAIN files' -> [recs : Seq(Entries), torn : BOOLEAN]]
      /\ \A b \in DOMAIN files' : files'[b].torn = FALSE
  <2>1. Written(n, s, c, e)
    BY <1>0, <1>4, WriteLaid
  <2> QED  BY ONLY <1>21, <2>1 DEF Written
<1>6. /\ known' \in [Producers -> [seq : Int, off : Nat]]
      /\ Numbered(s, d)' /\ Remembered(s, d)'
  BY <1>0, <1>4, <1>21, WriteMemory
<1>7. /\ op' \in OpType /\ acked' \in SUBSET Entries
      /\ op'.pc # "remove" /\ (op'.pc = "idle" => op' = Idle)
      /\ op'.pc = "append" => op'.todo # << >> /\ op'.kind = op.kind
      /\ op.kind = "produce" => /\ op'.kind # "truncate"
                                /\ acked' \cup op'.done \subseteq
                                     acked \cup op.done \cup {e}
      /\ op.kind = "truncate" =>
           /\ acked' = acked
           /\ \/ /\ Len(op.todo) > 1 /\ op'.kind = "truncate" /\ op'.kept = op.kept
                 /\ op'.todo = Tail(op.todo)
              \/ Len(op.todo) = 1 /\ op' = Idle
  BY <1>0, <1>1, <1>5, StoredFacts
<1>8. op.kind = "truncate" =>
        /\ s[1] = 0 /\ Len(d) = Len(c) + 1 /\ Len(d) <= Len(op.kept)
        /\ Len(op.todo) = Len(op.kept) - Len(c)
        /\ \A k \in 1 .. Len(d) : d[k].rec = op.kept[k]
        /\ Len(op.todo) > 1 => Tail(op.todo) = SubSeq(op.kept, Len(d) + 1, Len(op.kept))
  <2>1. op.kind = "truncate" => s[1] = 0 /\ Rewrites(c, d)
    BY <1>1, <1>4, <1>5, <1>21, Rewritten
  <2> QED  BY ONLY <2>1 DEF Rewrites
<1>9. \A a : Held(a, s, c) => Held(a, s, d)
  BY <1>5, <1>21, HeldAppend
<1>10. Held(e, s, d)
  BY <1>5, <1>21, HeldAppend
<1>11. Len(c) \in Nat /\ Len(op.kept) \in Nat
  BY <1>2, <1>5 DEF OpType
<1>12. Idle.kind = "none" /\ Idle.done = {} /\ Idle.pc = "idle"
  BY DEF Idle
<1>13. TypeOK'
  <2>1. segments' \in Seq(Segment)
    BY <1>5 DEF Mirrors
  <2> QED  BY <1>1, <1>5, <1>6, <1>7, <2>1 DEF LogInv, TypeOK, OpType
<1>14. op'.kind = "truncate" => op.kind = "truncate" /\ Len(op.todo) > 1 /\ op'.kept = op.kept
                                /\ op'.todo = Tail(op.todo) /\ acked' = acked
  BY <1>2, <1>7, <1>12
<1>15. Commands'
  <2>1. op'.pc = "append" => op'.kind # "none"
    BY <1>2, <1>7
  <2> QED  BY <1>1, <1>2, <1>7, <2>1 DEF Commands
<1>16. Cut'
  BY <1>1, <1>14 DEF LogInv, Cut
<1>17. Sound(n, s, d)'
  BY <1>1, <1>2, <1>5 DEF Sound
<1>18. Promised(s, d)'
  <2>1. CASE op.kind = "produce"
    <3>1. \A a \in acked \cup op.done : Held(a, s, c)
      BY <1>4, <2>1 DEF Whole, Promised
    <3>2. \A a \in acked' \cup op'.done : Held(a, s, d)
      BY <1>7, <1>9, <1>10, <2>1, <3>1
    <3> QED  BY <3>2 DEF Promised, Held
  <2>2. CASE op.kind = "truncate" /\ Len(op.todo) = 1 /\ op' = Idle
    <3>1. Len(d) = Len(op.kept) /\ acked' \cup op'.done = acked /\ s[1] = 0
      BY <1>7, <1>8, <1>11, <1>12, <2>2
    <3>2. ASSUME NEW a \in acked PROVE Held(a, s, d)
      <4>1. a.off + 1 \in 1 .. Len(op.kept) /\ a.rec = op.kept[a.off + 1]
        BY <2>2 DEF LogInv, Cut
      <4>2. a.off \in Nat /\ a = Entry(a.off, a.rec)
        BY EntryFacts DEF LogInv, TypeOK
      <4>3. PICK k \in 1 .. Len(d) : k = a.off + 1
        BY <3>1, <4>1
      <4>4. d[k].rec = a.rec /\ k = a.off + 1
        BY <1>8, <2>2, <4>1, <4>3
      <4>5. d[k].off = s[1] + k - 1 /\ d[k] \in Entries
        BY <1>5, <4>3 DEF Laid
      <4>6. d[k].off = a.off
        BY <3>1, <4>2, <4>4, <4>5
      <4>7. d[k] = Entry(d[k].off, d[k].rec)
        BY <4>5, EntryFacts
      <4>8. a = d[k]
        BY <4>2, <4>4, <4>6, <4>7
      <4> QED  BY <4>3, <4>8 DEF Held
    <3> QED  BY <3>1, <3>2 DEF Promised, Held
  <2>3. CASE op'.kind = "truncate"
    BY <2>3 DEF Promised
  <2> QED  BY <1>2, <1>7, <2>1, <2>2, <2>3
<1>19. Rewriting(s, d)'
  <2> SUFFICES ASSUME op'.kind = "truncate"
               PROVE  /\ s[1] = 0 /\ Len(d) < Len(op'.kept)
                      /\ op'.todo = SubSeq(op'.kept, Len(d) + 1, Len(op'.kept))
                      /\ \A k \in 1 .. Len(d) : d[k].rec = op'.kept[k]
    BY DEF Rewriting
  <2>1. Len(d) < Len(op.kept)
    BY <1>8, <1>11, <1>14
  <2> QED  BY <1>8, <1>14, <2>1
<1>20. Whole(n, s, d)'
  BY <1>6, <1>17, <1>18, <1>19 DEF Whole
<1>22. Bases = s /\ Contents = c
  BY <1>4, BasesAre DEF Whole, Sound
<1> QED  BY <1>0, <1>13, <1>15, <1>16, <1>20, <1>21, <1>22, Establish

-----------------------------------------------------------------------------
(* A new segment, and a truncation up to its first write.                  *)

LEMMA RotateInv ==
  ASSUME LogInv, Rotate
  PROVE  LogInv' /\ Bases'[1] = Bases[1] /\ Contents' = Contents
<1>1. /\ Appending /\ Full
      /\ files' = [b \in DOMAIN files \cup {next} |-> IF b = next THEN NewFile ELSE files[b]]
      /\ segments' = Append(segments, NewSegment(next))
      /\ UNCHANGED <<open, next, known, op, crashes, acked>>
  BY DEF Rotate
<1>2. open
  BY <1>1, AppendingFacts
<1>3. PICK n \in Nat \ {0} : \E s, c : Whole(n, s, c)
  BY <1>1, AppendingFacts
<1>4. PICK s, c : Whole(n, s, c)
  BY <1>3
<1>5. /\ Laid(files, n, s, c) /\ Mirrors(segments, files, n, s)
      /\ n \in 1 .. n /\ s[n] \in Nat /\ s[n] \in DOMAIN files
      /\ Recs(files, s[n]) \in Seq(Entries) /\ Indexed(Active, Recs(files, s[n]))
      /\ s[1] \in Nat /\ c \in Seq(Entries) /\ Len(c) \in Nat /\ next = s[1] + Len(c)
      /\ \A b \in DOMAIN files : files[b].torn = FALSE
  BY <1>2, <1>4, ActiveIs
<1>6. PICK t : t = next
  OBVIOUS
<1>7. t \in Nat
  BY <1>6 DEF LogInv, TypeOK
<1>8. Recs(files, s[n]) # << >>
  <2> SUFFICES ASSUME Recs(files, s[n]) = << >> PROVE FALSE
    OBVIOUS
  <2>1. Active.len = Bytes(<< >>, 0)
    BY <1>5 DEF Indexed
  <2>2. << >> \in Seq(Entries)
    BY EmptySeq
  <2>3. Bytes(<< >>, 0) = 0
    BY <2>2, BytesFacts
  <2> QED  BY <1>1, <2>1, <2>3 DEF Full
<1>9. /\ DOMAIN files' = DOMAIN files \cup {t}
      /\ files'[t] = NewFile
      /\ \A b \in DOMAIN files : b # t => files'[b] = files[b]
  BY <1>1, <1>6
<1>10. /\ Recs(files', t) = << >>
       /\ \A b \in DOMAIN files : b # t => Recs(files', b) = Recs(files, b)
  BY <1>9 DEF Recs, NewFile
<1>11. PICK u : u = Append(s, t)
  OBVIOUS
<1>12. Laid(files', n + 1, u, c)
  BY <1>5, <1>6, <1>8, <1>9, <1>10, <1>11, LaidRotate
<1>13. s \in Seq(Nat) /\ Len(s) = n
  BY <1>5, LaidIs
<1>14. \A i \in 1 .. n : u[i] = s[i]
  BY <1>7, <1>11, <1>13, AppendProperties
<1>15. u[n + 1] = t /\ u[1] = s[1]
  <2>1. 1 \in 1 .. n
    OBVIOUS
  <2> QED  BY <1>7, <1>11, <1>13, <1>14, <2>1, AppendProperties
<1>16. \A i \in 1 .. n : s[i] # t /\ s[i] \in DOMAIN files
  <2> SUFFICES ASSUME NEW i \in 1 .. n PROVE s[i] # t /\ s[i] \in DOMAIN files
    OBVIOUS
  <2>1. s[i] \in Nat /\ s[i] <= s[n] /\ s[i] \in DOMAIN files
    BY <1>5, LaidAt
  <2>2. s[1] + Len(c) = s[n] + Len(Recs(files, s[n]))
    BY <1>5 DEF Laid
  <2>3. Len(Recs(files, s[n])) \in Nat /\ Len(Recs(files, s[n])) > 0
    BY <1>5, <1>8, NotEmpty
  <2> QED  BY <1>5, <1>6, <2>1, <2>2, <2>3
<1>17. Mirrors(segments', files', n + 1, u)
  <2>1. segments \in Seq(Segment) /\ Len(segments) = n
    BY <1>5 DEF Mirrors
  <2>2. NewSegment(t).base = t /\ Indexed(NewSegment(t), << >>) /\ NewSegment(t) \in Segment
    BY <1>7, IndexedNew DEF Indexed
  <2>3. /\ segments' \in Seq(Segment) /\ Len(segments') = n + 1
        /\ \A i \in 1 .. n : segments'[i] = segments[i]
        /\ segments'[n + 1] = NewSegment(t)
    BY <1>1, <1>6, <2>1, <2>2, AppendProperties
  <2>4. ASSUME NEW i \in 1 .. n
        PROVE  segments'[i].base = u[i] /\ Indexed(segments'[i], Recs(files', u[i]))
    <3>1. segments[i].base = s[i] /\ Indexed(segments[i], Recs(files, s[i]))
      BY <1>5 DEF Mirrors
    <3> QED  BY <1>10, <1>14, <1>16, <2>3, <3>1
  <2>5. segments'[n + 1].base = u[n + 1] /\ Indexed(segments'[n + 1], Recs(files', u[n + 1]))
    BY <1>10, <1>15, <2>2, <2>3
  <2>6. \A i \in 1 .. n + 1 : i \in 1 .. n \/ i = n + 1
    OBVIOUS
  <2> QED  BY <2>3, <2>4, <2>5, <2>6 DEF Mirrors
<1>18. \A b \in DOMAIN files' : files'[b].torn = FALSE
  BY <1>5, <1>9 DEF NewFile
<1>19. TypeOK'
  <2>1. /\ DOMAIN files \subseteq Nat
        /\ files \in [DOMAIN files -> [recs : Seq(Entries), torn : BOOLEAN]]
    BY DEF LogInv, TypeOK
  <2>2. NewFile \in [recs : Seq(Entries), torn : BOOLEAN]
    BY DEF NewFile
  <2>3. /\ DOMAIN files' \subseteq Nat
        /\ files' \in [DOMAIN files' -> [recs : Seq(Entries), torn : BOOLEAN]]
    BY <1>1, <1>6, <1>7, <2>1, <2>2
  <2>4. segments' \in Seq(Segment)
    BY <1>17 DEF Mirrors
  <2> QED  BY <1>1, <2>3, <2>4 DEF LogInv, TypeOK
<1>20. Commands' /\ Cut'
  BY <1>1 DEF LogInv, Commands, Cut
<1>21. Sound(n + 1, u, c)'
  BY <1>1, <1>2, <1>5, <1>12, <1>15, <1>17, <1>18 DEF Sound
<1>22. Numbered(u, c)'
  BY <1>1, <1>4, <1>15 DEF Whole, Numbered
<1>23. Remembered(u, c)'
  BY <1>1, <1>4, <1>15 DEF Whole, Remembered, Held
<1>24. Promised(u, c)' /\ Rewriting(u, c)'
  BY <1>1, <1>4, <1>15 DEF Whole, Promised, Rewriting, Held
<1>25. Whole(n + 1, u, c)' /\ n + 1 \in Nat \ {0}
  BY <1>21, <1>22, <1>23, <1>24 DEF Whole
<1>26. Bases = s /\ Contents = c
  BY <1>5, BasesAre
<1> QED  BY <1>15, <1>19, <1>20, <1>25, <1>26, Establish

LEMMA TruncateInv ==
  ASSUME LogInv, Pitfalls = {}, NEW o \in 0 .. next - 1, Truncate(o)
  PROVE  LogInv'
<1>1. /\ open /\ op.pc = "idle" /\ ~(segments[1].base > 0)
      /\ op' = [pc |-> "remove", kind |-> "truncate", todo |-> Kept(o),
                done |-> {}, kept |-> Kept(o)]
      /\ acked' = {a \in acked : a.off < o}
      /\ UNCHANGED <<files, open, segments, next, known, crashes>>
  BY DEF Truncate
<1>2. PICK n \in Nat \ {0} : \E s, c : Whole(n, s, c)
  BY <1>1, Given
<1>3. PICK s, c : Whole(n, s, c)
  BY <1>2
<1>4. /\ Laid(files, n, s, c) /\ Mirrors(segments, files, n, s)
      /\ s[1] \in Nat /\ c \in Seq(Entries) /\ Len(c) \in Nat /\ next = s[1] + Len(c)
  BY <1>1, <1>3, ActiveIs
<1>5. s[1] = 0
  <2>1. 1 \in 1 .. n
    OBVIOUS
  <2>2. segments[1].base = s[1]
    BY <1>4, <2>1 DEF Mirrors
  <2> QED  BY <1>1, <1>4, <2>2
<1>6. o \in Nat /\ o < Len(c) /\ o <= Len(c)
  BY <1>4, <1>5
<1>7. /\ Kept(o) \in Seq(AllRecords) /\ Len(Kept(o)) = o
      /\ \A i \in 1 .. o : Kept(o)[i] = c[i].rec
  BY <1>4, <1>5, <1>6, KeptIs
<1>8. PICK kept : kept = Kept(o)
  OBVIOUS
<1>9. KeptInOrder(kept)
  <2>1. SequencesInOrder(c)
    BY <1>3, <1>5 DEF Whole, Numbered
  <2> QED  BY <1>4, <1>6, <1>7, <1>8, <2>1, KeptOrder
<1>10. /\ op'.pc = "remove" /\ op'.kind = "truncate" /\ op'.todo = kept /\ op'.kept = kept
       /\ op' \in OpType
  BY <1>1, <1>7, <1>8 DEF OpType
<1>11. TypeOK'
  BY <1>1, <1>10 DEF LogInv, TypeOK, OpType
<1>12. Commands'
  BY <1>1, <1>10 DEF Commands
<1>13. ASSUME NEW a \in acked, a.off < o
       PROVE  a.off + 1 \in 1 .. Len(kept) /\ a.rec = kept[a.off + 1]
  <2>1. op.kind = "none"
    BY <1>1 DEF LogInv, Commands, Idle
  <2>2. Held(a, s, c)
    BY <1>3, <2>1 DEF Whole, Promised
  <2>3. a.off \in Nat
    BY EntryFacts DEF LogInv, TypeOK
  <2>4. PICK k \in 1 .. Len(c) : a = c[k]
    BY <1>5, <2>2, <2>3 DEF Held
  <2>5. a.off = s[1] + k - 1
    BY <1>4, <2>4 DEF Laid
  <2>6. k = a.off + 1
    BY <1>4, <1>5, <2>3, <2>5
  <2>7. k \in 1 .. o
    BY <1>6, <1>13, <2>3, <2>6
  <2> QED  BY <1>7, <1>8, <2>4, <2>6, <2>7
<1>14. Cut'
  BY <1>1, <1>9, <1>10, <1>13 DEF Cut
<1> QED  BY <1>10, <1>11, <1>12, <1>14 DEF LogInv

LEMMA RemoveSegmentInv ==
  ASSUME LogInv, RemoveSegment
  PROVE  LogInv'
<1>1. /\ op.pc = "remove"
      /\ files' = [b \in DOMAIN files \ {Bases[1]} |-> files[b]]
      /\ UNCHANGED <<open, segments, next, known, op, crashes, acked>>
  BY DEF RemoveSegment
<1>2. /\ DOMAIN files' \subseteq Nat
      /\ files' \in [DOMAIN files' -> [recs : Seq(Entries), torn : BOOLEAN]]
  BY <1>1 DEF LogInv, TypeOK
<1>3. TypeOK'
  BY <1>1, <1>2 DEF LogInv, TypeOK
<1>4. Commands' /\ Cut'
  BY <1>1 DEF LogInv, Commands, Cut
<1> QED  BY <1>1, <1>3, <1>4 DEF LogInv

LEMMA StartOverInv ==
  ASSUME LogInv, StartOver
  PROVE  LogInv' /\ Bases' = <<0>> /\ Contents' = << >>
<1>1. /\ op.pc = "remove"
      /\ files' = [b \in {0} |-> NewFile] /\ segments' = <<NewSegment(0)>>
      /\ next' = 0 /\ known' = NobodyKnown
      /\ op' = IF op.todo = << >> THEN Idle ELSE [op EXCEPT !.pc = "append"]
      /\ UNCHANGED <<open, crashes, acked>>
  BY DEF StartOver
<1>2. open /\ op.kind = "truncate" /\ op.todo = op.kept /\ op \in OpType
  BY <1>1 DEF LogInv, Commands, TypeOK, OpType
<1>3. DOMAIN files' = {0} /\ files'[0] = NewFile /\ Recs(files', 0) = << >>
  BY <1>1 DEF NewFile, Recs
<1>4. Laid(files', 1, <<0>>, << >>)
  BY <1>3, LaidNew
<1>5. NewSegment(0) \in Segment /\ NewSegment(0).base = 0 /\ Indexed(NewSegment(0), << >>)
  BY IndexedNew DEF Indexed
<1>6. Mirrors(segments', files', 1, <<0>>)
  <2>1. segments' \in Seq(Segment) /\ Len(segments') = 1 /\ segments'[1] = NewSegment(0)
    BY <1>1, <1>5
  <2>2. \A i \in 1 .. 1 : i = 1
    OBVIOUS
  <2>3. <<0>>[1] = 0
    OBVIOUS
  <2> QED  BY <1>3, <1>5, <2>1, <2>2, <2>3 DEF Mirrors
<1>7. /\ Idle \in OpType /\ Idle.pc = "idle" /\ Idle.kind = "none" /\ Idle.done = {}
  BY DEF Idle, OpType
<1>8. /\ op' \in OpType
      /\ op.todo = << >> => op' = Idle
      /\ op.todo # << >> => /\ op'.pc = "append" /\ op'.kind = "truncate"
                            /\ op'.todo = op.todo /\ op'.kept = op.kept
  BY <1>1, <1>2, <1>7 DEF OpType
<1>9. TypeOK'
  <2>1. files' \in [{0} -> [recs : Seq(Entries), torn : BOOLEAN]]
    BY <1>1 DEF NewFile
  <2>2. known' \in [Producers -> [seq : Int, off : Nat]]
    BY <1>1 DEF NobodyKnown, Unknown
  <2>3. segments' \in Seq(Segment)
    BY <1>6 DEF Mirrors
  <2>4. op'.pc = "append" => op'.todo # << >>
    BY <1>7, <1>8
  <2>5. open \in BOOLEAN /\ crashes \in Nat /\ acked \subseteq Entries
    BY DEF LogInv, TypeOK
  <2>6. DOMAIN files' \subseteq Nat /\ next' \in Nat
    BY <1>1, <1>3
  <2>7. op' \in [pc : {"idle", "append", "remove"}, kind : {"none", "produce", "truncate"},
                 todo : Seq(AllRecords), done : SUBSET Entries, kept : Seq(AllRecords)]
    BY <1>8 DEF OpType
  <2> QED  BY <1>1, <1>3, <2>1, <2>2, <2>3, <2>4, <2>5, <2>6, <2>7 DEF TypeOK
<1>10. Commands'
  BY <1>1, <1>2, <1>7, <1>8 DEF Commands
<1>11. Cut'
  BY <1>1, <1>2, <1>7, <1>8 DEF LogInv, Cut
<1>12. <<0>>[1] = 0 /\ Len(<< >>) = 0 /\ 1 \in Nat \ {0}
  OBVIOUS
<1>13. Sound(1, <<0>>, << >>)'
  <2>1. files'[0].torn = FALSE
    BY <1>3 DEF NewFile
  <2> QED  BY <1>1, <1>2, <1>3, <1>4, <1>6, <1>12, <2>1 DEF Sound
<1>14. Numbered(<<0>>, << >>)'
  <2>1. SequencesInOrder(<< >>)
    BY DEF SequencesInOrder
  <2> QED  BY <1>1, <2>1, RecalledNothing DEF Numbered
<1>15. Remembered(<<0>>, << >>)'
  <2>1. ASSUME NEW r \in Requests, Identified(r) PROVE r.seq # known'[r.who].seq
    <3>1. r \in AllRecords
      BY DEF AllRecords
    <3>2. r.seq \in Nat /\ r.who \in Producers
      BY <2>1, <3>1, RecordFacts
    <3>3. known'[r.who].seq = -1
      BY <1>1, <3>2 DEF NobodyKnown, Unknown
    <3> QED  BY <3>2, <3>3
  <2> QED  BY <1>12, <2>1 DEF Remembered
<1>16. Promised(<<0>>, << >>)'
  <2>1. CASE op.todo = << >>
    <3>1. Len(op.kept) = 0
      BY <1>2, <2>1
    <3>2. \A a \in acked : a.off + 1 \in 1 .. Len(op.kept)
      BY <1>2 DEF LogInv, Cut
    <3>3. acked = {}
      BY <3>1, <3>2
    <3>4. acked' \cup op'.done = {}
      BY <1>1, <1>7, <1>8, <2>1, <3>3
    <3> QED  BY <3>4 DEF Promised
  <2>2. CASE op.todo # << >>
    BY <1>8, <2>2 DEF Promised
  <2> QED  BY <2>1, <2>2
<1>17. Rewriting(<<0>>, << >>)'
  <2>1. CASE op.todo = << >>
    BY <1>7, <1>8, <2>1 DEF Rewriting
  <2>2. CASE op.todo # << >>
    <3>1. op.kept \in Seq(AllRecords) /\ op.kept # << >>
      BY <1>2, <2>2 DEF OpType
    <3>2. Len(op.kept) > 0 /\ SubSeq(op.kept, 1, Len(op.kept)) = op.kept
      BY <3>1, NotEmpty, SubSeqFull
    <3>3. op'.todo = SubSeq(op'.kept, 0 + 1, Len(op'.kept)) /\ 0 < Len(op'.kept)
      BY <1>2, <1>8, <2>2, <3>2
    <3> QED  BY <1>12, <3>3 DEF Rewriting
  <2> QED  BY <2>1, <2>2
<1>18. Whole(1, <<0>>, << >>)'
  BY <1>13, <1>14, <1>15, <1>16, <1>17 DEF Whole
<1> QED  BY <1>9, <1>10, <1>11, <1>12, <1>18, Establish

-----------------------------------------------------------------------------
(* Retention removes the oldest segment.                                   *)

LEMMA ApplyRetentionInv ==
  ASSUME LogInv, ApplyRetention
  PROVE  LogInv' /\ \E q \in Nat : /\ q > 0 /\ Bases'[1] = Bases[1] + q
                                  /\ Len(Contents') = Len(Contents) - q
                                  /\ \A i \in 1 .. Len(Contents') :
                                       Contents'[i] = Contents[q + i]
<1>1. /\ open /\ op.pc = "idle" /\ Len(segments) > 1
      /\ files' = [b \in DOMAIN files \ {segments[1].base} |-> files[b]]
      /\ segments' = Tail(segments)
      /\ UNCHANGED <<open, next, known, op, crashes, acked>>
  BY DEF ApplyRetention
<1>2. PICK n \in Nat \ {0} : \E s, c : Whole(n, s, c)
  BY <1>1, Given
<1>3. PICK s, c : Whole(n, s, c)
  BY <1>2
<1>4. /\ Laid(files, n, s, c) /\ Mirrors(segments, files, n, s) /\ Len(segments) = n
      /\ s[1] \in Nat /\ c \in Seq(Entries) /\ Len(c) \in Nat /\ next = s[1] + Len(c)
      /\ \A b \in DOMAIN files : files[b].torn = FALSE
  BY <1>1, <1>3, ActiveIs
<1>5. n > 1 /\ n - 1 \in Nat \ {0} /\ 1 \in 1 .. n
  BY <1>1, <1>4
<1>6. PICK q : q = Len(Recs(files, s[1]))
  OBVIOUS
<1>7. PICK u : u = [i \in 1 .. n - 1 |-> s[i + 1]]
  OBVIOUS
<1>8. PICK d : d = SubSeq(c, q + 1, Len(c))
  OBVIOUS
<1>9. \A i \in 1 .. n - 1 : /\ i + 1 \in 1 .. n /\ s[i + 1] \in Nat /\ s[1] < s[i + 1]
                            /\ s[i + 1] \in DOMAIN files
  <2> SUFFICES ASSUME NEW i \in 1 .. n - 1
               PROVE  i + 1 \in 1 .. n /\ s[i + 1] \in Nat /\ s[1] < s[i + 1]
                      /\ s[i + 1] \in DOMAIN files
    OBVIOUS
  <2>1. i + 1 \in 1 .. n /\ 1 < i + 1
    OBVIOUS
  <2>2. s[i + 1] \in Nat /\ s[i + 1] \in DOMAIN files
    BY <1>4, <2>1, LaidAt
  <2>3. s[1] < s[i + 1]
    BY <1>4, <1>5, <2>1 DEF Laid, Increasing
  <2> QED  BY <2>1, <2>2, <2>3
<1>10. u \in [1 .. n - 1 -> Nat] /\ \A i \in 1 .. n - 1 : u[i] = s[i + 1]
  BY <1>7, <1>9
<1>11. /\ q \in Nat /\ q <= Len(c) /\ s[1] + q = u[1] /\ u[1] \in Nat /\ q > 0
  <2>1. 1 \in 1 .. n - 1
    BY <1>5
  <2>2. u[1] = s[1 + 1] /\ s[1] < s[1 + 1]
    BY <1>9, <1>10, <2>1
  <2>3. q \in Nat /\ s[1] + q <= s[1] + Len(c)
    BY <1>4, <1>5, <1>6, LaidAt
  <2>4. s[1 + 1] = s[1] + q
    BY <1>4, <1>6, <2>1 DEF Laid
  <2>5. u[1] \in Nat
    BY <1>10, <2>1
  <2> QED  BY <1>4, <2>2, <2>3, <2>4, <2>5
<1>12. /\ d \in Seq(Entries) /\ Len(d) = Len(c) - q
       /\ \A i \in 1 .. Len(d) : d[i] = c[q + i]
  <2>1. \A i \in q + 1 .. Len(c) : c[i] \in Entries
    BY <1>4, <1>11
  <2>2. q + 1 \in Int /\ Len(c) \in Int
    BY <1>4, <1>11
  <2>3. /\ d \in Seq(Entries) /\ Len(d) = IF q + 1 <= Len(c) THEN Len(c) - (q + 1) + 1 ELSE 0
        /\ \A i \in 1 .. Len(c) - (q + 1) + 1 : d[i] = c[(q + 1) + i - 1]
    BY <1>8, <2>1, <2>2, SubSeqProperties
  <2>4. Len(d) = Len(c) - q /\ Len(c) - (q + 1) + 1 = Len(c) - q
    BY <1>4, <1>11, <2>3
  <2>5. \A i \in 1 .. Len(d) : (q + 1) + i - 1 = q + i
    BY <1>11
  <2> QED  BY <2>3, <2>4, <2>5
<1>13. Slice(d, c, q + 1, Len(c))
  <2>1. Len(c) - (q + 1) + 1 = Len(c) - q
    BY <1>4, <1>11
  <2>2. \A i \in 1 .. Len(c) - (q + 1) + 1 : (q + 1) + i - 1 = q + i
    BY <1>11
  <2> QED  BY <1>12, <2>1, <2>2 DEF Slice
<1>14. segments[1].base = s[1]
  BY <1>4, <1>5 DEF Mirrors
<1>15. /\ DOMAIN files' = DOMAIN files \ {s[1]}
       /\ \A b \in DOMAIN files' : files'[b] = files[b]
  BY <1>1, <1>14
<1>16. \A b \in DOMAIN files' : Recs(files', b) = Recs(files, b)
  BY <1>15 DEF Recs
<1>17. Laid(files', n - 1, u, d)
  BY <1>4, <1>5, <1>6, <1>10, <1>13, <1>15, <1>16, LaidRetain
<1>18. Mirrors(segments', files', n - 1, u)
  <2>1. segments \in Seq(Segment) /\ segments # << >>
    BY <1>4, <1>5, NotEmpty DEF Mirrors
  <2>2. /\ segments' \in Seq(Segment) /\ Len(segments') = n - 1
        /\ \A i \in 1 .. n - 1 : segments'[i] = segments[i + 1]
    BY <1>1, <1>4, <2>1, HeadTailProperties
  <2>3. ASSUME NEW i \in 1 .. n - 1
        PROVE  segments'[i].base = u[i] /\ Indexed(segments'[i], Recs(files', u[i]))
    <3>1. i + 1 \in 1 .. n /\ s[i + 1] \in DOMAIN files'
      <4>1. i + 1 \in 1 .. n /\ s[i + 1] \in DOMAIN files /\ s[i + 1] # s[1]
        BY <1>4, <1>9
      <4> QED  BY <1>15, <4>1
    <3>2. segments[i + 1].base = s[i + 1] /\ Indexed(segments[i + 1], Recs(files, s[i + 1]))
      BY <1>4, <3>1 DEF Mirrors
    <3> QED  BY <1>10, <1>16, <2>2, <3>1, <3>2
  <2> QED  BY <2>2, <2>3 DEF Mirrors
<1>19. TypeOK'
  <2>1. /\ DOMAIN files' \subseteq Nat
        /\ files' \in [DOMAIN files' -> [recs : Seq(Entries), torn : BOOLEAN]]
    BY <1>1 DEF LogInv, TypeOK
  <2>2. segments' \in Seq(Segment)
    BY <1>18 DEF Mirrors
  <2> QED  BY <1>1, <2>1, <2>2 DEF LogInv, TypeOK
<1>20. Commands' /\ Cut'
  BY <1>1 DEF LogInv, Commands, Cut
<1>21. op = Idle /\ op.kind = "none" /\ op.done = {}
  BY <1>1 DEF LogInv, Commands, Idle
<1>22. Sound(n - 1, u, d)'
  <2>1. next = u[1] + Len(d)
    BY <1>4, <1>11, <1>12
  <2>2. \A b \in DOMAIN files' : files'[b].torn = FALSE
    BY <1>4, <1>15
  <2> QED  BY <1>1, <1>17, <1>18, <2>1, <2>2 DEF Sound
<1>23. ASSUME NEW a, a.off \in Nat, Held(a, s, c) PROVE Held(a, u, d)
  <2>1. CASE a.off < s[1]
    <3>1. a.off < u[1]
      BY <1>4, <1>11, <1>23, <2>1
    <3> QED  BY <3>1 DEF Held
  <2>2. CASE \E k \in 1 .. Len(c) : a = c[k]
    <3>1. PICK k \in 1 .. Len(c) : a = c[k]
      BY <2>2
    <3>2. a.off = s[1] + k - 1
      BY <1>4, <3>1 DEF Laid
    <3>3. CASE k <= q
      <4>1. a.off < u[1]
        BY <1>4, <1>11, <3>2, <3>3
      <4> QED  BY <4>1 DEF Held
    <3>4. CASE k > q
      <4>1. PICK j \in 1 .. Len(d) : k = q + j
        <5>1. k - q \in 1 .. Len(d) /\ k = q + (k - q)
          BY <1>4, <1>11, <1>12, <3>4
        <5> QED  BY <5>1
      <4>2. d[j] = a
        BY <1>12, <3>1, <4>1
      <4> QED  BY <4>2 DEF Held
    <3> QED  BY <1>11, <3>3, <3>4
  <2> QED  BY <1>23, <2>1, <2>2 DEF Held
<1>24. Numbered(u, d)'
  <2>1. u[1] # 0
    BY <1>4, <1>11
  <2> QED  BY <2>1 DEF Numbered
<1>25. Remembered(u, d)'
  <2>1. ASSUME NEW k \in 1 .. Len(d), Identified(d[k].rec)
        PROVE  d[k].rec.seq <= known[d[k].rec.who].seq
    <3>1. PICK j \in 1 .. Len(c) : j = q + k
      BY <1>4, <1>11, <1>12
    <3>2. d[k] = c[j]
      BY <1>12, <3>1
    <3> QED  BY <1>1, <1>3, <2>1, <3>2 DEF Whole, Remembered
  <2>2. ASSUME NEW r \in Requests, Identified(r), r.seq = known[r.who].seq
        PROVE  Held(Entry(known[r.who].off, r), u, d)
    <3>1. Held(Entry(known[r.who].off, r), s, c)
      BY <1>1, <1>3, <2>2 DEF Whole, Remembered
    <3>2. r \in AllRecords
      BY DEF AllRecords
    <3>3. r.who \in Producers
      BY <2>2, <3>2, RecordFacts
    <3>4. Entry(known[r.who].off, r).off \in Nat
      BY <3>3 DEF Entry, LogInv, TypeOK
    <3> QED  BY <1>23, <3>1, <3>4
  <2> QED  BY <1>1, <2>1, <2>2 DEF Remembered, Held
<1>26. Promised(u, d)' /\ Rewriting(u, d)'
  <2>1. \A a \in acked : Held(a, s, c) /\ a.off \in Nat
    BY <1>3, <1>21, EntryFacts DEF Whole, Promised, LogInv, TypeOK
  <2>2. \A a \in acked : Held(a, u, d)
    BY <1>23, <2>1
  <2> QED  BY <1>1, <1>21, <2>2 DEF Promised, Rewriting, Held
<1>27. Whole(n - 1, u, d)'
  BY <1>22, <1>24, <1>25, <1>26 DEF Whole
<1>28. Bases = s /\ Contents = c
  BY <1>4, BasesAre
<1>29. LogInv' /\ Bases' = u /\ Contents' = d
  BY <1>5, <1>19, <1>20, <1>27, Establish
<1> QED  BY <1>11, <1>12, <1>28, <1>29

-----------------------------------------------------------------------------
(* The process stops, and starts again.                                    *)

LEMMA CrashInv ==
  ASSUME LogInv, Pitfalls = {}, NEW torn \in BOOLEAN, Crash(torn)
  PROVE  LogInv' /\ Bases' = Bases /\ Contents' = Contents
<1>1. /\ open /\ op.kind # "truncate" /\ ~(segments[1].base > 0)
      /\ files' = IF torn THEN [files EXCEPT ![Active.base].torn = TRUE] ELSE files
      /\ open' = FALSE /\ segments' = << >> /\ next' = 0 /\ known' = NobodyKnown
      /\ op' = Idle /\ crashes' = crashes + 1 /\ acked' = acked
  BY DEF Crash
<1>2. op.pc # "remove"
  BY <1>1 DEF LogInv, Commands
<1>3. PICK n \in Nat \ {0} : \E s, c : Whole(n, s, c)
  BY <1>2, Given
<1>4. PICK s, c : Whole(n, s, c)
  BY <1>3
<1>5. /\ Laid(files, n, s, c) /\ Mirrors(segments, files, n, s)
      /\ Active.base = s[n] /\ s[n] \in DOMAIN files /\ s[1] \in Nat
      /\ \A b \in DOMAIN files : files[b].torn = FALSE
  BY <1>1, <1>4, ActiveIs
<1>6. s[1] = 0
  <2>1. 1 \in 1 .. n
    OBVIOUS
  <2>2. segments[1].base = s[1]
    BY <1>5, <2>1 DEF Mirrors
  <2> QED  BY <1>1, <1>5, <2>2
<1>7. /\ DOMAIN files \subseteq Nat /\ crashes \in Nat /\ acked \subseteq Entries
      /\ files \in [DOMAIN files -> [recs : Seq(Entries), torn : BOOLEAN]]
  BY DEF LogInv, TypeOK
<1>8. /\ DOMAIN files' = DOMAIN files
      /\ files' \in [DOMAIN files -> [recs : Seq(Entries), torn : BOOLEAN]]
      /\ \A b \in DOMAIN files : Recs(files', b) = Recs(files, b)
      /\ \A b \in DOMAIN files : files'[b].torn => b = s[n]
  <2>1. CASE torn
    <3>1. files' = [files EXCEPT ![s[n]].torn = TRUE]
      BY <1>1, <1>5, <2>1
    <3> QED  BY <1>5, <1>7, <3>1 DEF Recs
  <2>2. CASE ~torn
    <3>1. files' = files
      BY <1>1, <2>2
    <3> QED  BY <1>5, <1>7, <3>1
  <2> QED  BY <2>1, <2>2
<1>9. Laid(files', n, s, c)
  BY <1>5, <1>8, LaidSame
<1>10. op' \in OpType /\ op'.pc = "idle" /\ op'.kind = "none" /\ op'.done = {}
  BY <1>1 DEF Idle, OpType
<1>11. TypeOK'
  <2>1. known' \in [Producers -> [seq : Int, off : Nat]]
    BY <1>1 DEF NobodyKnown, Unknown
  <2>2. segments' \in Seq(Segment) /\ next' \in Nat /\ crashes' \in Nat
    BY <1>1, <1>7
  <2>3. op' \in [pc : {"idle", "append", "remove"}, kind : {"none", "produce", "truncate"},
                 todo : Seq(AllRecords), done : SUBSET Entries, kept : Seq(AllRecords)]
    BY <1>10 DEF OpType
  <2> QED  BY <1>1, <1>7, <1>8, <1>10, <2>1, <2>2, <2>3 DEF TypeOK
<1>12. Commands' /\ Cut'
  BY <1>1, <1>10 DEF Commands, Cut
<1>13. Sound(n, s, c)'
  BY <1>1, <1>6, <1>8, <1>9 DEF Sound
<1>14. Numbered(s, c)' /\ Remembered(s, c)'
  BY <1>1, <1>4 DEF Whole, Numbered, Remembered
<1>15. Promised(s, c)' /\ Rewriting(s, c)'
  BY <1>1, <1>4, <1>10 DEF Whole, Promised, Rewriting, Held
<1>16. Whole(n, s, c)'
  BY <1>13, <1>14, <1>15 DEF Whole
<1>17. Bases = s /\ Contents = c
  BY <1>5, BasesAre
<1> QED  BY <1>11, <1>12, <1>16, <1>17, Establish

\* A record that a producer sent is told by its producer and its sequence.
LEMMA Unique ==
  ASSUME NEW r \in AllRecords, NEW q \in AllRecords, Identified(r),
         r.who = q.who, r.seq = q.seq
  PROVE  r = q
<1>1. Identified(q)
  BY DEF Identified
<1>2. r \in Requests /\ q \in Requests /\ r.who # NoProducer
  BY <1>1, RecordFacts DEF Identified
<1> QED  BY <1>2, LogAssumption

LEMMA OpenInv ==
  ASSUME LogInv, Open
  PROVE  LogInv' /\ Bases' = Bases /\ Contents' = Contents
<1>1. /\ ~open /\ open' = TRUE
      /\ DOMAIN files # {} =>
           /\ files' = [b \in DOMAIN files |-> [files[b] EXCEPT !.torn = FALSE]]
           /\ segments' = [i \in DOMAIN Bases |-> Recovered(Bases[i])]
      /\ next' = Len(Contents) /\ known' = Recalled(Contents)
      /\ UNCHANGED <<op, crashes, acked>>
  BY DEF Open
<1>2. op.pc # "remove"
  BY <1>1 DEF LogInv, Commands
<1>3. PICK n \in Nat \ {0} : \E s, c : Whole(n, s, c) /\ s = Bases /\ c = Contents
  BY <1>2, Given
<1>4. PICK s, c : Whole(n, s, c) /\ s = Bases /\ c = Contents
  BY <1>3
<1>5. Laid(files, n, s, c) /\ op = Idle /\ s[1] = 0 /\ c \in Seq(Entries) /\ Len(c) \in Nat
  BY <1>1, <1>4 DEF Whole, Sound, Laid
<1>6. n \in 1 .. n /\ DOMAIN s = 1 .. n
  <2>1. s \in Seq(Nat) /\ Len(s) = n /\ DOMAIN s = 1 .. n
    BY <1>5, LaidIs
  <2> QED  BY <2>1
<1>7. \A i \in 1 .. n : /\ s[i] \in Nat /\ s[i] \in DOMAIN files
                        /\ Recs(files, s[i]) \in Seq(Entries)
  BY <1>5, LaidAt
<1>8. DOMAIN files # {}
  BY <1>6, <1>7
<1>9. /\ DOMAIN files \subseteq Nat
      /\ files \in [DOMAIN files -> [recs : Seq(Entries), torn : BOOLEAN]]
  BY DEF LogInv, TypeOK
<1>10. /\ DOMAIN files' = DOMAIN files
       /\ files' \in [DOMAIN files -> [recs : Seq(Entries), torn : BOOLEAN]]
       /\ \A b \in DOMAIN files : Recs(files', b) = Recs(files, b)
       /\ \A b \in DOMAIN files : files'[b].torn = FALSE
  <2>1. files' = [b \in DOMAIN files |-> [files[b] EXCEPT !.torn = FALSE]]
    BY <1>1, <1>8
  <2>2. ASSUME NEW b \in DOMAIN files
        PROVE  /\ files'[b] \in [recs : Seq(Entries), torn : BOOLEAN]
               /\ files'[b].recs = files[b].recs /\ files'[b].torn = FALSE
    <3>1. files[b] \in [recs : Seq(Entries), torn : BOOLEAN]
      BY <1>9
    <3>2. files'[b] = [files[b] EXCEPT !.torn = FALSE]
      BY <2>1
    <3> QED  BY <3>1, <3>2
  <2>3. DOMAIN files' = DOMAIN files
    BY <2>1
  <2>4. files' \in [DOMAIN files -> [recs : Seq(Entries), torn : BOOLEAN]]
    BY <2>1, <2>2
  <2> QED  BY <2>2, <2>3, <2>4 DEF Recs
<1>11. Laid(files', n, s, c)
  BY <1>5, <1>10, LaidSame
<1>12. segments' = [i \in 1 .. n |-> Recovered(s[i])]
  BY <1>1, <1>4, <1>6, <1>8
<1>13. \A i \in 1 .. n : Recovered(s[i]).base = s[i] /\ Indexed(Recovered(s[i]), Recs(files, s[i]))
  BY <1>7, IndexedRecovered
<1>14. Mirrors(segments', files', n, s)
  <2>1. \A i \in 1 .. n : Recovered(s[i]) \in Segment
    BY <1>13 DEF Indexed
  <2>2. segments' \in [1 .. n -> Segment]
    BY <1>12, <2>1
  <2>3. segments' \in Seq(Segment) /\ Len(segments') = n
    BY <2>2
  <2>4. ASSUME NEW i \in 1 .. n
        PROVE  segments'[i].base = s[i] /\ Indexed(segments'[i], Recs(files', s[i]))
    BY <1>7, <1>10, <1>12, <1>13
  <2> QED  BY <2>3, <2>4 DEF Mirrors
<1>15. known' = Recalled(c) /\ next' = Len(c)
  BY <1>1, <1>4
<1>16. TypeOK'
  <2>1. known' \in [Producers -> [seq : Int, off : Nat]]
    BY <1>5, <1>15, RecalledType
  <2>2. segments' \in Seq(Segment)
    BY <1>14 DEF Mirrors
  <2> QED  BY <1>1, <1>5, <1>9, <1>10, <1>15, <2>1, <2>2 DEF LogInv, TypeOK
<1>17. op.kind = "none" /\ op.pc = "idle" /\ op.done = {}
  BY <1>5 DEF Idle
<1>18. Commands' /\ Cut'
  BY <1>1, <1>5, <1>17 DEF Commands, Cut
<1>19. Sound(n, s, c)'
  BY <1>1, <1>5, <1>10, <1>11, <1>14, <1>15 DEF Sound
<1>20. SequencesInOrder(c)
  BY <1>4, <1>5 DEF Whole, Numbered
<1>21. Numbered(s, c)'
  BY <1>15, <1>20 DEF Numbered
<1>22. Remembered(s, c)'
  <2>1. ASSUME NEW k \in 1 .. Len(c), Identified(c[k].rec)
        PROVE  c[k].rec.seq <= known'[c[k].rec.who].seq
    BY <1>5, <1>15, <1>20, <2>1, RecalledHighest
  <2>2. ASSUME NEW r \in Requests, Identified(r), r.seq = known'[r.who].seq
        PROVE  Held(Entry(known'[r.who].off, r), s, c)
    <3>1. r \in AllRecords
      BY DEF AllRecords
    <3>2. r.who \in Producers /\ r.seq \in Nat
      BY <2>2, <3>1, RecordFacts
    <3>3. RecordsOf(r.who, c) # {}
      <4> SUFFICES ASSUME RecordsOf(r.who, c) = {} PROVE FALSE
        OBVIOUS
      <4>1. known'[r.who] = Unknown
        BY <1>5, <1>15, <3>2, RecalledIs
      <4>2. r.seq = -1
        BY <2>2, <4>1 DEF Unknown
      <4> QED  BY <3>2, <4>2
    <3>4. PICK k \in 1 .. Len(c) :
            /\ c[k].rec.who = r.who
            /\ Recalled(c)[r.who] = [seq |-> c[k].rec.seq, off |-> c[k].off]
      <4>1. \E k \in 1 .. Len(c) :
              /\ k \in RecordsOf(r.who, c) /\ \A i \in RecordsOf(r.who, c) : i <= k
              /\ c[k].rec.who = r.who
              /\ Recalled(c)[r.who] = [seq |-> c[k].rec.seq, off |-> c[k].off]
        BY ONLY <1>5, <3>2, <3>3, RecalledIs
      <4> QED  BY ONLY <4>1
    <3>5. c[k] \in Entries
      BY <1>5
    <3>6. c[k].rec \in AllRecords /\ c[k] = Entry(c[k].off, c[k].rec)
      BY <3>5, EntryFacts
    <3>7. r.seq = c[k].rec.seq /\ known'[r.who].off = c[k].off
      BY <1>15, <2>2, <3>4
    <3>8. c[k].rec = r
      BY <2>2, <3>1, <3>4, <3>6, <3>7, Unique
    <3>9. Entry(known'[r.who].off, r) = c[k]
      BY <3>6, <3>7, <3>8
    <3> QED  BY <3>9 DEF Held
  <2> QED  BY <2>1, <2>2 DEF Remembered
<1>23. Promised(s, c)' /\ Rewriting(s, c)'
  BY <1>1, <1>4, <1>17 DEF Whole, Promised, Rewriting, Held
<1>24. Whole(n, s, c)'
  BY <1>19, <1>21, <1>22, <1>23 DEF Whole
<1> QED  BY <1>4, <1>16, <1>18, <1>24, Establish

-----------------------------------------------------------------------------
(* The invariant of the log, and what it says.                             *)

LEMMA StutterInv ==
  ASSUME LogInv, UNCHANGED vars
  PROVE  LogInv'
<1>1. UNCHANGED <<files, open, segments, next, known, op, crashes, acked>>
  BY DEF vars
<1>2. TypeOK' /\ Commands' /\ Cut'
  BY <1>1 DEF LogInv, TypeOK, Commands, Cut
<1>3. CASE op.pc = "remove"
  BY <1>1, <1>2, <1>3 DEF LogInv
<1>4. CASE op.pc # "remove"
  <2>1. PICK n \in Nat \ {0} : \E s, c : Whole(n, s, c)
    BY <1>4, Given
  <2>2. PICK s, c : Whole(n, s, c)
    BY <2>1
  <2>3. Sound(n, s, c)'
    BY <1>1, <2>2 DEF Whole, Sound
  <2>4. Numbered(s, c)' /\ Remembered(s, c)'
    BY <1>1, <2>2 DEF Whole, Numbered, Remembered
  <2>5. Promised(s, c)' /\ Rewriting(s, c)'
    BY <1>1, <2>2 DEF Whole, Promised, Rewriting
  <2>6. Whole(n, s, c)'
    BY <2>3, <2>4, <2>5 DEF Whole
  <2> QED  BY <1>2, <2>6, Establish
<1> QED  BY <1>3, <1>4

LEMMA NextInv ==
  ASSUME Pitfalls = {}
  PROVE  LogInv /\ [Next]_vars => LogInv'
<1> SUFFICES ASSUME LogInv, [Next]_vars PROVE LogInv'
  OBVIOUS
<1>1. CASE \E r \in Requests : Produce(r) \/ Replicate(r)
  BY <1>1, ProduceInv
<1>2. CASE \E r, q \in Requests : ProduceBatch(r, q)
  BY <1>2, ProduceInv
<1>3. CASE AnswerDuplicate
  BY <1>3, AnswerDuplicateInv
<1>4. CASE RejectSequence
  BY <1>4, RejectSequenceInv
<1>5. CASE Rotate
  BY <1>5, RotateInv
<1>6. CASE Write
  BY <1>6, WriteInv
<1>7. CASE \E o \in 0 .. next - 1 : Truncate(o)
  BY <1>7, TruncateInv
<1>8. CASE RemoveSegment
  BY <1>8, RemoveSegmentInv
<1>9. CASE StartOver
  BY <1>9, StartOverInv
<1>10. CASE ApplyRetention
  BY <1>10, ApplyRetentionInv
<1>11. CASE \E torn \in BOOLEAN : Crash(torn)
  BY <1>11, CrashInv
<1>12. CASE Open
  BY <1>12, OpenInv
<1>13. CASE UNCHANGED vars
  BY <1>13, StutterInv
<1> QED
  BY <1>1, <1>2, <1>3, <1>4, <1>5, <1>6, <1>7, <1>8, <1>9, <1>10, <1>11, <1>12, <1>13 DEF Next

\* Through every command, crash in an append or a rotation, and restart the
\* files are laid out, the memory agrees with them and what was promised is in
\* them.  Pitfalls = {}, here and below: no crash in truncate_to, and neither
\* crash nor truncation once retention has taken the first segment.
THEOREM LogInvariant ==
  ASSUME Pitfalls = {}
  PROVE  Spec => []LogInv
<1>1. LogInv /\ [Next]_vars => LogInv'
  BY NextInv
<1> QED
  BY <1>1, InitInv, PTL DEF Spec

\* Every variable of the log keeps the shape its Rust type gives it, and a
\* command of the storage thread that is not answered has a record to append.
THEOREM LogTypeCorrect ==
  ASSUME Pitfalls = {}
  PROVE  Spec => []TypeOK
<1>1. LogInv => TypeOK
  BY DEF LogInv
<1> QED
  BY <1>1, LogInvariant, PTL

LEMMA InvAckedKept ==
  ASSUME LogInv
  PROVE  AckedKept
<1> SUFFICES ASSUME op.kind # "truncate", NEW a \in acked,
                    NEW b \in DOMAIN files, b <= a.off
             PROVE  a \in ToSet(Contents)
  BY DEF AckedKept
<1>1. op.pc # "remove"
  BY DEF LogInv, Commands
<1>2. PICK n \in Nat \ {0} : \E s, c : Whole(n, s, c) /\ c = Contents
  BY <1>1, Given
<1>3. PICK s, c : Whole(n, s, c) /\ c = Contents
  BY <1>2
<1>4. Laid(files, n, s, c) /\ Held(a, s, c) /\ c \in Seq(Entries)
  BY <1>3 DEF Whole, Sound, Promised, Laid
<1>5. a.off \in Nat
  BY EntryFacts DEF LogInv, TypeOK
<1>6. PICK i \in 1 .. n : b = s[i]
  BY <1>4 DEF Laid, First
<1>7. s[i] \in Nat /\ s[1] \in Nat /\ s[1] <= s[i]
  BY <1>4, LaidAt
<1>8. ~(a.off < s[1])
  BY <1>5, <1>6, <1>7
<1>9. \E k \in 1 .. Len(c) : a = c[k]
  BY <1>4, <1>8 DEF Held
<1>10. DOMAIN c = 1 .. Len(c)
  BY <1>4
<1> QED  BY <1>3, <1>9, <1>10 DEF ToSet

\* A producer that was answered finds its record at the offset in the answer,
\* through rotations, retries, crashes in an append or a rotation and restarts,
\* until a truncation or the retention takes it away.
THEOREM PromisesKept ==
  ASSUME Pitfalls = {}
  PROVE  Spec => []AckedKept
<1>1. LogInv => AckedKept
  BY InvAckedKept
<1> QED
  BY <1>1, LogInvariant, PTL

LEMMA InvReadExact ==
  ASSUME LogInv
  PROVE  ReadExact
<1> SUFFICES ASSUME open, op.pc # "remove", NEW o \in 0 .. next
             PROVE  Read(o) = Pick(Contents, Positions(Contents, o))
  BY DEF ReadExact, Positions
<1>1. PICK n \in Nat \ {0} : \E s, c : Whole(n, s, c) /\ c = Contents
  BY Given
<1>2. PICK s, c : Whole(n, s, c) /\ c = Contents
  BY <1>1
<1>3. /\ Laid(files, n, s, c) /\ Mirrors(segments, files, n, s)
      /\ s[1] \in Nat /\ Len(c) \in Nat /\ next = s[1] + Len(c)
  BY <1>2, ActiveIs
<1>4. o \in Nat /\ o <= s[1] + Len(c)
  BY <1>3
<1>5. Read(o) = Pick(c, Positions(c, o))
  BY <1>3, <1>4, ReadExactly
<1> QED  BY <1>2, <1>5

\* PartitionLog::read goes through the segments, skips those below the offset
\* and seeks with the sparse index: it returns every record from the offset
\* on and no other, whether appends or a recovery built the index.
THEOREM ReadsExact ==
  ASSUME Pitfalls = {}
  PROVE  Spec => []ReadExact
<1>1. LogInv => ReadExact
  BY InvReadExact
<1> QED
  BY <1>1, LogInvariant, PTL

LEMMA InvDedupExact ==
  ASSUME LogInv
  PROVE  DedupExact
<1> SUFFICES ASSUME open, op.pc # "remove", segments[1].base = 0
             PROVE  known = Recalled(Contents)
  BY DEF DedupExact
<1>1. PICK n \in Nat \ {0} : \E s, c : Whole(n, s, c) /\ c = Contents
  BY Given
<1>2. PICK s, c : Whole(n, s, c) /\ c = Contents
  BY <1>1
<1>3. Mirrors(segments, files, n, s)
  BY <1>2, ActiveIs
<1>4. 1 \in 1 .. n
  OBVIOUS
<1>5. s[1] = 0
  BY <1>3, <1>4 DEF Mirrors
<1> QED  BY <1>2, <1>5 DEF Whole, Numbered

\* The state that tells a retry from a new record is what the log holds: the
\* last record of each producer, after appends, truncations and restarts.
THEOREM MemoryExact ==
  ASSUME Pitfalls = {}
  PROVE  Spec => []DedupExact
<1>1. LogInv => DedupExact
  BY InvDedupExact
<1> QED
  BY <1>1, LogInvariant, PTL

LEMMA InvReopens ==
  ASSUME LogInv
  PROVE  Reopens
<1> SUFFICES ASSUME ~open \/ (op.pc # "remove" /\ segments[1].base = 0)
             PROVE  Recoverable
  BY DEF Reopens
<1>1. op.pc # "remove"
  BY DEF LogInv, Commands
<1>2. PICK n \in Nat \ {0} : \E s, c :
        Whole(n, s, c) /\ n = Len(Bases) /\ s = Bases /\ c = Contents
  BY <1>1, Given
<1>3. PICK s, c : Whole(n, s, c) /\ n = Len(Bases) /\ s = Bases /\ c = Contents
  BY <1>2
<1>4. /\ Laid(files, n, s, c) /\ s[1] = 0 /\ c \in Seq(Entries)
      /\ \A b \in DOMAIN files : files[b].torn => b = s[n]
  <2>1. Laid(files, n, s, c) /\ c \in Seq(Entries)
    BY <1>3 DEF Whole, Sound, Laid
  <2>2. CASE ~open
    BY <1>3, <2>1, <2>2 DEF Whole, Sound
  <2>3. CASE open
    <3>1. Mirrors(segments, files, n, s) /\ \A b \in DOMAIN files : files[b].torn = FALSE
      BY <1>3, <2>3 DEF Whole, Sound
    <3>2. s[1] = 0
      BY <2>3, <3>1 DEF Mirrors
    <3> QED  BY <2>1, <3>1, <3>2
  <2> QED  BY <2>2, <2>3
<1>5. Contiguous(Bases)
  <2>1. \A i \in 1 .. n - 1 : s[i + 1] = s[i] + Len(files[s[i]].recs)
    BY <1>4 DEF Laid, Recs
  <2> QED  BY <1>3, <1>4, <2>1 DEF Contiguous
<1>6. OffsetsInOrder(Contents)
  <2>1. \A k \in 1 .. Len(c) : c[k].off = s[1] + k - 1
    BY <1>4 DEF Laid
  <2>2. DOMAIN c = 1 .. Len(c)
    BY <1>4
  <2>3. \A k \in 1 .. Len(c) : s[1] + k - 1 = k - 1
    BY <1>4
  <2> QED  BY <1>3, <2>1, <2>2, <2>3 DEF OffsetsInOrder
<1>7. SequencesInOrder(Contents)
  BY <1>3, <1>4 DEF Whole, Numbered
<1>8. \A b \in DOMAIN files : files[b].torn => b = Last(Bases)
  BY <1>3, <1>4 DEF Last
<1> QED  BY <1>5, <1>6, <1>7, <1>8 DEF Recoverable

\* None of the checks of PartitionLog::open refuses the files, neither after a
\* crash in an append or a rotation, a torn write included, nor at a moment of a
\* running process outside the two that Reopens names.  Pitfalls = {} leaves
\* the crashes at those two out: in truncate_to, and after retention took the
\* first segment, where open() does refuse (run retention_restart).
THEOREM ReopensOutsidePitfalls ==
  ASSUME Pitfalls = {}
  PROVE  Spec => []Reopens
<1>1. LogInv => Reopens
  BY InvReopens
<1> QED
  BY <1>1, LogInvariant, PTL

-----------------------------------------------------------------------------
(* The log implements RecordLog.                                           *)

RecordsIn(c) == [i \in 1 .. Len(c) |-> c[i].rec]

LEMMA RecordsInFacts ==
  ASSUME NEW c \in Seq(Entries)
  PROVE  /\ RecordsIn(c) \in Seq(AllRecords) /\ Len(RecordsIn(c)) = Len(c)
         /\ \A i \in 1 .. Len(c) : RecordsIn(c)[i] = c[i].rec
<1>1. Len(c) \in Nat /\ \A i \in 1 .. Len(c) : c[i] \in Entries
  OBVIOUS
<1>2. \A i \in 1 .. Len(c) : c[i].rec \in AllRecords
  BY <1>1, EntryFacts
<1>3. RecordsIn(c) \in [1 .. Len(c) -> AllRecords]
  BY <1>2 DEF RecordsIn
<1> QED  BY <1>1, <1>3 DEF RecordsIn

\* What the users of the log see, when no truncation is in progress.
LEMMA Seen ==
  ASSUME NEW n \in Nat \ {0}, NEW s, NEW c
  PROVE  /\ Laid(files, n, s, c) /\ op.kind # "truncate" =>
              Low = s[1] /\ Records = RecordsIn(c)
         /\ Bases' = s /\ Contents' = c /\ c \in Seq(Entries) /\ op'.kind # "truncate" =>
              Low' = s[1] /\ Records' = RecordsIn(c)
<1>1. c \in Seq(Entries) => DOMAIN c = 1 .. Len(c)
  OBVIOUS
<1>2. ASSUME Laid(files, n, s, c), op.kind # "truncate"
      PROVE  Low = s[1] /\ Records = RecordsIn(c)
  <2>1. Bases = s /\ Contents = c /\ c \in Seq(Entries)
    BY <1>2, BasesAre DEF Laid
  <2> QED  BY <1>1, <1>2, <2>1 DEF Low, Records, RecordsIn
<1>3. ASSUME Bases' = s, Contents' = c, c \in Seq(Entries), op'.kind # "truncate"
      PROVE  Low' = s[1] /\ Records' = RecordsIn(c)
  BY <1>1, <1>3 DEF Low, Records, RecordsIn
<1> QED  BY <1>2, <1>3

\* A sequence that agrees with another one on all its positions.
LEMMA PrefixIs ==
  ASSUME NEW S, NEW t \in Seq(S), NEW u \in Seq(S), Len(t) <= Len(u),
         \A i \in 1 .. Len(t) : t[i] = u[i]
  PROVE  Promise!IsPrefix(t, u)
<1>1. Len(t) \in Nat /\ Len(u) \in Nat
  OBVIOUS
<1>2. \A i \in 1 .. Len(t) : t[i] \in S /\ u[i] \in S
  BY <1>1
<1>3. /\ SubSeq(t, 1, Len(t)) \in Seq(S) /\ SubSeq(u, 1, Len(t)) \in Seq(S)
      /\ Len(SubSeq(t, 1, Len(t))) = Len(t) /\ Len(SubSeq(u, 1, Len(t))) = Len(t)
      /\ \A i \in 1 .. Len(t) : SubSeq(t, 1, Len(t))[i] = t[i] /\ SubSeq(u, 1, Len(t))[i] = u[i]
  <2>1. \A l \in Nat : l - 1 + 1 = l /\ (1 <= l \/ l = 0) /\ l \in Int
    OBVIOUS
  <2>2. \A i \in 1 .. Len(t) : 1 + i - 1 = i
    OBVIOUS
  <2> QED  BY <1>1, <1>2, <2>1, <2>2, SubSeqProperties
<1>4. SubSeq(t, 1, Len(t)) = SubSeq(u, 1, Len(t))
  BY <1>3, SeqEqual
<1> QED  BY <1>4 DEF Promise!IsPrefix

LEMMA SuffixIs ==
  ASSUME NEW S, NEW t \in Seq(S), NEW u \in Seq(S), NEW q \in Nat, q > 0,
         Len(t) = Len(u) - q, \A i \in 1 .. Len(t) : t[i] = u[q + i]
  PROVE  Promise!IsStrictSuffix(t, u)
<1>1. Len(t) \in Nat /\ Len(u) \in Nat
  OBVIOUS
<1> DEFINE m == Len(t)  l == Len(u)
           rt == [i \in 1 .. m |-> t[(m - i) + 1]]
           ru == [i \in 1 .. l |-> u[(l - i) + 1]]
<1>2. /\ m \in Nat /\ l \in Nat /\ l = m + q /\ m <= l
      /\ \A i \in 1 .. m : (m - i) + 1 \in 1 .. m /\ (l - i) + 1 = q + ((m - i) + 1) /\ i \in 1 .. l
      /\ \A i \in 1 .. l : (l - i) + 1 \in 1 .. l
  BY <1>1
<1>3. \A i \in 1 .. m : t[i] \in S /\ t[i] = u[q + i]
  OBVIOUS
<1>4. \A i \in 1 .. l : u[i] \in S
  OBVIOUS
<1>5. Promise!Reverse(t) = rt /\ Promise!Reverse(u) = ru
  BY DEF Promise!Reverse
<1>6. t # u
  BY <1>2
<1> HIDE DEF m, l
<1>7. rt \in [1 .. m -> S] /\ ru \in [1 .. l -> S]
  BY <1>2, <1>3, <1>4
<1>8. \A i \in 1 .. m : rt[i] = ru[i]
  BY <1>2, <1>3
<1> HIDE DEF rt, ru
<1>9. rt \in Seq(S) /\ ru \in Seq(S) /\ Len(rt) = m /\ Len(ru) = l
  <2>1. \A k \in Nat : \A f \in [1 .. k -> S] : f \in Seq(S) /\ Len(f) = k
    OBVIOUS
  <2> QED  BY <1>2, <1>7, <2>1
<1>10. Promise!IsPrefix(rt, ru)
  BY <1>2, <1>8, <1>9, PrefixIs
<1> QED  BY <1>5, <1>6, <1>10 DEF Promise!IsStrictSuffix, Promise!IsSuffix

LEMMA PromiseInit == Init => Promise!Init
<1> SUFFICES ASSUME Init PROVE Promise!Init
  OBVIOUS
<1>1. DOMAIN files = {0} /\ Recs(files, 0) = << >> /\ op.kind = "none"
  BY DEF Init, NewFile, Recs, Idle
<1>2. Laid(files, 1, <<0>>, << >>)
  BY <1>1, LaidNew
<1>3. Low = <<0>>[1] /\ Records = RecordsIn(<< >>)
  BY <1>1, <1>2, Seen
<1>4. RecordsIn(<< >>) = << >>
  <2>1. << >> \in Seq(Entries) /\ Len(<< >>) = 0
    BY EmptySeq
  <2>2. RecordsIn(<< >>) \in Seq(AllRecords) /\ Len(RecordsIn(<< >>)) = 0
    BY <2>1, RecordsInFacts
  <2> QED  BY <2>2, EmptySeq
<1>5. <<0>>[1] = 0
  OBVIOUS
<1> QED  BY <1>3, <1>4, <1>5 DEF Promise!Init

LEMMA Quiet ==
  ASSUME Bases'[1] = Bases[1], Contents' = Contents, op.kind # "truncate", op'.kind # "truncate"
  PROVE  UNCHANGED <<Low, Records>>
BY DEF Low, Records

LEMMA QuietTruncation ==
  ASSUME op.kind = "truncate", op'.kind = "truncate", op'.kept = op.kept
  PROVE  UNCHANGED <<Low, Records>>
BY DEF Low, Records

LEMMA SameFiles ==
  ASSUME files' = files
  PROVE  Bases' = Bases /\ Contents' = Contents
BY DEF Bases, Contents

\* A write appends a record that is not there, or rewrites one that a
\* truncation keeps.
LEMMA WriteStep ==
  ASSUME LogInv, Write
  PROVE  Promise!Next \/ UNCHANGED <<Low, Records>>
<1>0. PICK e : e = Entry(next, Due)
  OBVIOUS
<1>1. Appending /\ Stored(next) /\ ~Duplicate /\ ~OutOfSequence
  BY DEF Write
<1>2. /\ open /\ (op.kind = "produce" \/ op.kind = "truncate") /\ op \in OpType
      /\ Due \in AllRecords
  BY <1>1, AppendingFacts
<1>3. PICK n \in Nat \ {0} : \E s, c : Whole(n, s, c) /\ s = Bases /\ c = Contents
  BY <1>1, AppendingFacts
<1>4. PICK s, c : Whole(n, s, c) /\ s = Bases /\ c = Contents
  BY <1>3
<1>5. PICK d : d = Append(c, e)
  OBVIOUS
<1>6. Bases' = s /\ Contents' = d
  BY <1>0, <1>4, <1>5, WriteInv
<1>7. e \in Entries /\ e.rec = Due /\ c \in Seq(Entries) /\ next \in Nat
  BY <1>0, <1>4, WriteLaid DEF Written
<1>8. Laid(files, n, s, c)
  BY <1>4 DEF Whole, Sound
<1>9. /\ d \in Seq(Entries) /\ Len(d) = Len(c) + 1 /\ Len(c) \in Nat
      /\ \A k \in 1 .. Len(c) : d[k] = c[k]
      /\ d[Len(c) + 1] = e
  BY <1>5, <1>7, AppendProperties
<1>10. /\ RecordsIn(c) \in Seq(AllRecords) /\ Len(RecordsIn(c)) = Len(c)
       /\ \A i \in 1 .. Len(c) : RecordsIn(c)[i] = c[i].rec
  BY <1>7, RecordsInFacts
<1>11. /\ RecordsIn(d) \in Seq(AllRecords) /\ Len(RecordsIn(d)) = Len(d)
       /\ \A i \in 1 .. Len(d) : RecordsIn(d)[i] = d[i].rec
  BY <1>9, RecordsInFacts
<1>12. /\ op.kind = "produce" => op'.kind # "truncate"
       /\ op.kind = "truncate" =>
            \/ op'.kind = "truncate" /\ op'.kept = op.kept
            \/ Len(op.todo) = 1 /\ op' = Idle
  BY <1>1, <1>7, StoredFacts
<1>13. CASE op.kind = "produce"
  <2>1. Low = s[1] /\ Records = RecordsIn(c)
    BY <1>8, <1>13, Seen
  <2>2. Low' = s[1] /\ Records' = RecordsIn(d)
    BY <1>6, <1>9, <1>12, <1>13, Seen
  <2>3. \A i \in 1 .. Len(c) : RecordsIn(c)[i] = RecordsIn(d)[i]
    <3>1. \A i \in 1 .. Len(c) : i \in 1 .. Len(d)
      BY <1>9
    <3> QED  BY <1>9, <1>10, <1>11, <3>1
  <2>4. Promise!IsPrefix(RecordsIn(c), RecordsIn(d))
    <3>1. Len(RecordsIn(c)) <= Len(RecordsIn(d))
      BY <1>9, <1>10, <1>11
    <3> QED  BY <1>10, <1>11, <2>3, <3>1, PrefixIs
  <2>5. RecordsIn(d)[Len(RecordsIn(d))] = Due
    <3>1. Len(c) + 1 \in 1 .. Len(d)
      BY <1>9
    <3> QED  BY <1>7, <1>9, <1>11, <3>1
  <2>6. ASSUME Identified(Due), NEW r \in {RecordsIn(c)[i] : i \in DOMAIN RecordsIn(c)}
        PROVE  <<r.who, r.seq>> # <<Due.who, Due.seq>>
    <3> SUFFICES ASSUME r.who = Due.who, r.seq = Due.seq PROVE FALSE
      OBVIOUS
    <3>1. DOMAIN RecordsIn(c) = 1 .. Len(c)
      BY <1>10
    <3>2. PICK k \in 1 .. Len(c) : r = c[k].rec
      BY <1>10, <2>6, <3>1
    <3>3. Identified(r)
      BY <2>6 DEF Identified
    <3>4. r.seq <= known[r.who].seq
      BY <1>2, <1>4, <3>2, <3>3 DEF Whole, Remembered
    <3>5. Due.who \in Producers /\ Due.seq \in Nat
      BY <1>2, <2>6, RecordFacts
    <3>6. known[Due.who].seq \in Int
      BY <3>5 DEF LogInv, TypeOK
    <3>7. Due.seq = known[Due.who].seq + 1
      BY <1>1, <2>6 DEF Duplicate, OutOfSequence
    <3> QED  BY <3>4, <3>5, <3>6, <3>7
  <2>7. Promise!AppendRecord
    <3>1. Len(Records') = Len(Records) + 1
      BY <1>9, <1>10, <1>11, <2>1, <2>2
    <3>2. Promise!Last(Records') = Due
      BY <2>2, <2>5 DEF Promise!Last
    <3>3. Promise!IsPrefix(Records, Records') /\ Low' = Low
      BY <2>1, <2>2, <2>4
    <3>4. Promise!Identified(Due) =>
            \A r \in Promise!ToSet(Records) : <<r.who, r.seq>> # <<Due.who, Due.seq>>
      BY <2>1, <2>6 DEF Promise!Identified, Promise!ToSet, Identified
    <3> QED  BY <3>1, <3>2, <3>3, <3>4 DEF Promise!AppendRecord
  <2> QED  BY <2>7 DEF Promise!Next
<1>14. CASE op.kind = "truncate" /\ op'.kind = "truncate" /\ op'.kept = op.kept
  BY <1>14, QuietTruncation
<1>15. CASE op.kind = "truncate" /\ Len(op.todo) = 1 /\ op' = Idle
  <2>1. op'.kind # "truncate"
    BY <1>15 DEF Idle
  <2>2. Low' = s[1] /\ Records' = RecordsIn(d)
    BY <1>6, <1>9, <2>1, Seen
  <2>3. Low = 0 /\ Records = op.kept
    BY <1>15 DEF Low, Records
  <2>4. s[1] = 0 /\ Rewrites(c, d)
    BY <1>1, <1>4, <1>5, <1>7, <1>15, Rewritten
  <2>5. op.kept \in Seq(AllRecords)
    BY <1>2 DEF OpType
  <2>6. Len(d) = Len(op.kept)
    <3>1. Len(op.kept) \in Nat
      BY <2>5
    <3>2. Len(op.todo) = Len(op.kept) - Len(c)
      BY <2>4 DEF Rewrites
    <3>3. Len(op.kept) = Len(c) + 1
      <4>1. \A l, k \in Nat : 1 = l - k => l = k + 1
        OBVIOUS
      <4>2. 1 = Len(op.kept) - Len(c) /\ Len(c) \in Nat
        BY ONLY <1>9, <1>15, <3>2
      <4> QED  BY ONLY <3>1, <4>1, <4>2
    <3> QED  BY <1>9, <3>3
  <2>7. \A i \in 1 .. Len(d) : RecordsIn(d)[i] = op.kept[i]
    BY <1>11, <2>4 DEF Rewrites
  <2>8. RecordsIn(d) = op.kept
    BY <1>11, <2>5, <2>6, <2>7, SeqEqual
  <2> QED  BY <2>2, <2>3, <2>4, <2>8
<1> QED  BY <1>2, <1>12, <1>13, <1>14, <1>15

LEMMA TruncateStep ==
  ASSUME LogInv, Pitfalls = {}, NEW o \in 0 .. next - 1, Truncate(o)
  PROVE  Promise!Next
<1>1. /\ open /\ op.pc = "idle" /\ ~(segments[1].base > 0)
      /\ op' = [pc |-> "remove", kind |-> "truncate", todo |-> Kept(o),
                done |-> {}, kept |-> Kept(o)]
  BY DEF Truncate
<1>2. op.kind # "truncate" /\ op'.kind = "truncate" /\ op'.kept = Kept(o)
  BY <1>1 DEF LogInv, Commands, Idle
<1>3. PICK n \in Nat \ {0} : \E s, c : Whole(n, s, c)
  BY <1>1, Given
<1>4. PICK s, c : Whole(n, s, c)
  BY <1>3
<1>5. /\ Laid(files, n, s, c) /\ Mirrors(segments, files, n, s)
      /\ s[1] \in Nat /\ c \in Seq(Entries) /\ Len(c) \in Nat /\ next = s[1] + Len(c)
  BY <1>1, <1>4, ActiveIs
<1>6. s[1] = 0
  <2>1. 1 \in 1 .. n
    OBVIOUS
  <2>2. segments[1].base = s[1]
    BY <1>5, <2>1 DEF Mirrors
  <2> QED  BY <1>1, <1>5, <2>2
<1>7. o \in Nat /\ o < Len(c) /\ o <= Len(c)
  BY <1>5, <1>6
<1>8. PICK kept : kept = Kept(o)
  OBVIOUS
<1>9. /\ kept \in Seq(AllRecords) /\ Len(kept) = o
      /\ \A i \in 1 .. o : kept[i] = c[i].rec
  BY <1>5, <1>6, <1>7, <1>8, KeptIs
<1>10. /\ RecordsIn(c) \in Seq(AllRecords) /\ Len(RecordsIn(c)) = Len(c)
       /\ \A i \in 1 .. Len(c) : RecordsIn(c)[i] = c[i].rec
  BY <1>5, RecordsInFacts
<1>11. Low = 0 /\ Records = RecordsIn(c)
  BY <1>2, <1>5, <1>6, Seen
<1>12. Low' = 0 /\ Records' = kept
  BY <1>2, <1>8 DEF Low, Records
<1>13. Promise!IsPrefix(kept, RecordsIn(c))
  <2>1. \A i \in 1 .. o : i \in 1 .. Len(c)
    BY <1>5, <1>7
  <2>2. \A i \in 1 .. Len(kept) : kept[i] = RecordsIn(c)[i]
    BY <1>9, <1>10, <2>1
  <2>3. Len(kept) <= Len(RecordsIn(c))
    BY <1>7, <1>9, <1>10
  <2> QED  BY <1>9, <1>10, <2>2, <2>3, PrefixIs
<1>14. kept # RecordsIn(c)
  BY <1>5, <1>7, <1>9, <1>10
<1> QED  BY <1>11, <1>12, <1>13, <1>14
         DEF Promise!Next, Promise!TruncateTail, Promise!IsStrictPrefix

LEMMA RetentionStep ==
  ASSUME LogInv, ApplyRetention
  PROVE  Promise!Next
<1>1. open /\ op.pc = "idle" /\ op' = op
  BY DEF ApplyRetention
<1>2. op.kind # "truncate" /\ op'.kind # "truncate" /\ op'.pc # "remove"
  BY <1>1 DEF LogInv, Commands, Idle
<1>3. PICK n \in Nat \ {0} : \E s, c : Whole(n, s, c) /\ s = Bases /\ c = Contents
  BY <1>1, Given
<1>4. PICK s, c : Whole(n, s, c) /\ s = Bases /\ c = Contents
  BY <1>3
<1>5. Laid(files, n, s, c) /\ s[1] \in Nat /\ c \in Seq(Entries) /\ Len(c) \in Nat
  BY <1>1, <1>4, ActiveIs
<1>6. PICK u, d : u = Bases' /\ d = Contents'
  OBVIOUS
<1>7. d \in Seq(Entries)
  <2>1. LogInv'
    BY ApplyRetentionInv
  <2>2. Whole(Len(Bases), Bases, Contents)'
    BY <1>2, <2>1 DEF LogInv
  <2> QED  BY <1>6, <2>2 DEF Whole, Sound, Laid
<1>8. PICK q \in Nat : /\ q > 0 /\ u[1] = s[1] + q /\ Len(d) = Len(c) - q
                       /\ \A i \in 1 .. Len(d) : d[i] = c[q + i]
  BY <1>4, <1>6, ApplyRetentionInv
<1>9. Low = s[1] /\ Records = RecordsIn(c)
  BY <1>2, <1>5, Seen
<1>10. Low' = u[1] /\ Records' = RecordsIn(d)
  BY <1>2, <1>6, <1>7, Seen
<1>11. /\ RecordsIn(c) \in Seq(AllRecords) /\ Len(RecordsIn(c)) = Len(c)
       /\ \A i \in 1 .. Len(c) : RecordsIn(c)[i] = c[i].rec
  BY <1>5, RecordsInFacts
<1>12. /\ RecordsIn(d) \in Seq(AllRecords) /\ Len(RecordsIn(d)) = Len(d)
       /\ \A i \in 1 .. Len(d) : RecordsIn(d)[i] = d[i].rec
  BY <1>7, RecordsInFacts
<1>13. Promise!IsStrictSuffix(RecordsIn(d), RecordsIn(c))
  <2>1. Len(d) \in Nat
    BY <1>7
  <2>2. \A i \in 1 .. Len(d) : q + i \in 1 .. Len(c)
    BY <1>5, <1>8, <2>1
  <2>3. \A i \in 1 .. Len(RecordsIn(d)) : RecordsIn(d)[i] = RecordsIn(c)[q + i]
    BY <1>8, <1>11, <1>12, <2>2
  <2>4. Len(RecordsIn(d)) = Len(RecordsIn(c)) - q
    BY <1>8, <1>11, <1>12
  <2> QED  BY <1>8, <1>11, <1>12, <2>3, <2>4, SuffixIs
<1>14. Low' + Len(Records') = Low + Len(Records)
  <2>1. Low' = s[1] + q /\ Len(Records') = Len(c) - q /\ Low = s[1] /\ Len(Records) = Len(c)
    BY <1>8, <1>9, <1>10, <1>11, <1>12
  <2>2. \A x, y \in Nat : (x + q) + (y - q) = x + y
    BY <1>8
  <2> QED  BY <1>5, <2>1, <2>2
<1> QED  BY <1>9, <1>10, <1>13, <1>14 DEF Promise!Next, Promise!RetainTail

\* When the last file is removed and nothing is kept, the log is empty.
LEMMA StartOverStep ==
  ASSUME LogInv, StartOver
  PROVE  UNCHANGED <<Low, Records>>
<1>1. /\ op.pc = "remove"
      /\ op' = IF op.todo = << >> THEN Idle ELSE [op EXCEPT !.pc = "append"]
  BY DEF StartOver
<1>2. op.kind = "truncate" /\ op.todo = op.kept /\ op \in OpType
  BY <1>1 DEF LogInv, Commands, TypeOK, OpType
<1>3. CASE op.todo = << >>
  <2>1. op'.kind # "truncate"
    BY <1>1, <1>3 DEF Idle
  <2>2. Bases' = <<0>> /\ Contents' = << >>
    BY StartOverInv
  <2>3. << >> \in Seq(Entries) /\ Len(<< >>) = 0
    BY EmptySeq
  <2>4. Low' = <<0>>[1] /\ Records' = RecordsIn(<< >>)
    <3>1. DOMAIN << >> = 1 .. Len(<< >>)
      BY <2>3
    <3> QED  BY <2>1, <2>2, <3>1 DEF Low, Records, RecordsIn
  <2>5. RecordsIn(<< >>) \in Seq(AllRecords) /\ Len(RecordsIn(<< >>)) = 0
    BY <2>3, RecordsInFacts
  <2>6. RecordsIn(<< >>) = << >>
    BY <2>5, EmptySeq
  <2>7. Low = 0 /\ Records = << >> /\ <<0>>[1] = 0
    BY <1>2, <1>3 DEF Low, Records
  <2> QED  BY <2>4, <2>6, <2>7
<1>4. CASE op.todo # << >>
  <2>1. op'.kind = "truncate" /\ op'.kept = op.kept
    BY <1>1, <1>2, <1>4 DEF OpType
  <2> QED  BY <1>2, <2>1, QuietTruncation
<1> QED  BY <1>3, <1>4

\* The steps that change nothing a user of the log sees.
LEMMA QuietStep ==
  ASSUME LogInv, Pitfalls = {},
         \/ \E r, q \in Requests : Produce(r) \/ Replicate(r) \/ ProduceBatch(r, q)
         \/ AnswerDuplicate \/ RejectSequence \/ Rotate
         \/ RemoveSegment \/ Open \/ \E torn \in BOOLEAN : Crash(torn)
  PROVE  UNCHANGED <<Low, Records>>
<1>1. ASSUME NEW r \in Requests, NEW q \in Requests,
             Produce(r) \/ Replicate(r) \/ ProduceBatch(r, q)
      PROVE  UNCHANGED <<Low, Records>>
  <2>1. op.pc = "idle" /\ op'.kind = "produce" /\ files' = files
    BY <1>1 DEF Produce, Replicate, ProduceBatch, Start, Command
  <2>2. op.kind # "truncate"
    BY <2>1 DEF LogInv, Commands, Idle
  <2> QED  BY <2>1, <2>2, SameFiles, Quiet
<1>2. CASE AnswerDuplicate \/ RejectSequence
  <2>1. Appending /\ (Duplicate \/ OutOfSequence) /\ files' = files
    BY <1>2 DEF AnswerDuplicate, RejectSequence
  <2>2. PICK n \in Nat \ {0} : \E s, c : Whole(n, s, c)
    BY <2>1, AppendingFacts
  <2>3. op.kind # "truncate"
    BY <2>1, <2>2, RewriteGoesOn
  <2>4. op'.kind # "truncate"
    <3>1. CASE RejectSequence
      BY <3>1 DEF RejectSequence, Idle
    <3>2. CASE AnswerDuplicate
      <4>1. op \in OpType /\ Stored(known[Due.who].off)
        BY <2>1, <3>2, AppendingFacts DEF AnswerDuplicate
      <4>2. op'.kind = op.kind \/ op' = Idle
        BY <4>1 DEF Stored, OpType
      <4> QED  BY <2>3, <4>2 DEF Idle
    <3> QED  BY <1>2, <3>1, <3>2
  <2> QED  BY <2>1, <2>3, <2>4, SameFiles, Quiet
<1>3. CASE Rotate
  <2>1. op' = op /\ Bases'[1] = Bases[1] /\ Contents' = Contents
    BY <1>3, RotateInv DEF Rotate
  <2> QED  BY <2>1, Quiet, QuietTruncation
<1>4. CASE RemoveSegment
  <2>1. op' = op /\ op.pc = "remove"
    BY <1>4 DEF RemoveSegment
  <2>2. op.kind = "truncate"
    BY <2>1 DEF LogInv, Commands
  <2> QED  BY <2>1, <2>2, QuietTruncation
<1>5. CASE Open
  <2>1. op' = op /\ Bases' = Bases /\ Contents' = Contents
    BY <1>5, OpenInv DEF Open
  <2> QED  BY <2>1, Quiet, QuietTruncation
<1>6. ASSUME NEW torn \in BOOLEAN, Crash(torn) PROVE UNCHANGED <<Low, Records>>
  <2>1. Bases' = Bases /\ Contents' = Contents
    BY <1>6, CrashInv
  <2>2. op.kind # "truncate" /\ op'.kind # "truncate"
    BY <1>6 DEF Crash, Idle
  <2> QED  BY <2>1, <2>2, Quiet
<1> QED  BY <1>1, <1>2, <1>3, <1>4, <1>5, <1>6

LEMMA PromiseStep ==
  ASSUME Pitfalls = {}
  PROVE  LogInv /\ [Next]_vars => [Promise!Next]_<<Low, Records>>
<1> SUFFICES ASSUME LogInv, [Next]_vars PROVE Promise!Next \/ UNCHANGED <<Low, Records>>
  OBVIOUS
<1>1. CASE \/ \E r, q \in Requests : Produce(r) \/ Replicate(r) \/ ProduceBatch(r, q)
           \/ AnswerDuplicate \/ RejectSequence \/ Rotate
           \/ RemoveSegment \/ Open \/ \E torn \in BOOLEAN : Crash(torn)
  BY <1>1, QuietStep
<1>2. CASE Write
  BY <1>2, WriteStep
<1>3. CASE \E o \in 0 .. next - 1 : Truncate(o)
  BY <1>3, TruncateStep
<1>4. CASE StartOver
  BY <1>4, StartOverStep
<1>5. CASE ApplyRetention
  BY <1>5, RetentionStep
<1>6. CASE UNCHANGED vars
  <2>1. op' = op /\ files' = files
    BY <1>6 DEF vars
  <2> QED  BY <2>1, SameFiles, Quiet, QuietTruncation
<1> QED  BY <1>1, <1>2, <1>3, <1>4, <1>5, <1>6 DEF Next

\* Rotations, the rewrite that a truncation is, torn writes, crashes and
\* recoveries are invisible: the log is one sequence of records to which a
\* record is appended, whose tail is truncated or whose head is retired, and
\* an identified record is never appended again.  (A truncation in which the
\* process dies, or after retention, is a pitfall and not among them.)
THEOREM RecordsKept ==
  ASSUME Pitfalls = {}
  PROVE  Spec => KeepsRecords
<1>1. LogInv /\ [Next]_vars => [Promise!Next]_<<Low, Records>>
  BY PromiseStep
<1> QED
  BY <1>1, PromiseInit, LogInvariant, PTL DEF Spec, KeepsRecords, Promise!Spec
=============================================================================
