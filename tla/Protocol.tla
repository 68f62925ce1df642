------------------------------- MODULE Protocol -------------------------------
(***************************************************************************)
(* The codec of crates/protocol/src/lib.rs: how requests, responses and    *)
(* replicated records become frames, and how frames are taken out of a     *)
(* buffer and read again.  Encoders and decoders are written down apart,   *)
(* each after its own function.                                            *)
(*                                                                         *)
(* A byte is a number below Base.  Integers have their width in bytes and  *)
(* are big-endian, so widths and frame lengths are those of the code.      *)
(* Opcodes are numbered anew, those of requests and of responses apart;    *)
(* text and payloads are short sequences of bytes.  An Option is <<>> or   *)
(* <<x>>.                                                                  *)
(***************************************************************************)
EXTENDS Integers, Sequences, SequencesExt

CONSTANTS
    MaxTopicName,       \* MAX_TOPIC_NAME, also of identifiers
    MaxKeySize,
    MaxMessageSize,
    MaxFrameSize,
    MaxBatchMessages,
    MaxBatchSize,       \* MAX_UNCOMPRESSED_BATCH_SIZE
    MaxFetchBytes,
    MaxFetchWait,
    MaxClusterNodes

Base == 16

HeaderSize == 4

\* '_', which a topic does not begin with twice.
Underscore == 5

\* ASCII letters, digits and some more.
IdentifierBytes == {1, 2, 3, 4, Underscore}

-----------------------------------------------------------------------------
(* Bytes.                                                                  *)

\* put_u8 to put_u64.
Put(width, n) == [i \in 1 .. width |-> (n \div Base ^ (width - i)) % Base]
U8(n) == Put(1, n)
U16(n) == Put(2, n)
U32(n) == Put(4, n)
U64(n) == Put(8, n)

\* put_i32: two's complement.
I32(n) == U32(IF n < 0 THEN Base ^ 4 + n ELSE n)

Number(bytes) == FoldLeft(LAMBDA n, b : n * Base + b, 0, bytes)

\* encode_string, and a length with as many bytes.
Str(s) == U16(Len(s)) \o s
Blob(s) == U32(Len(s)) \o s

Flag(option) == U8(Len(option))
OrZero(option) == IF option = <<>> THEN 0 ELSE option[1]

\* One item after the other.
All(Item(_), items) == FlattenSeq([i \in DOMAIN items |-> Item(items[i])])

-----------------------------------------------------------------------------
(* What is valid.                                                          *)

ValidTopic(t) ==
    /\ t # <<>> /\ Len(t) <= MaxTopicName
    /\ ~IsPrefix(<<Underscore, Underscore>>, t)

ValidIdentifier(s) ==
    s # <<>> /\ Len(s) <= MaxTopicName /\ ToSet(s) \subseteq IdentifierBytes

ValidRecord(r) == Len(r.key) <= MaxKeySize /\ Len(r.payload) <= MaxMessageSize

BatchBody(records) ==
    U32(Len(records)) \o All(LAMBDA r : Str(r.key) \o Blob(r.payload), records)

ValidProduce(m) ==
    /\ ValidTopic(m.topic) /\ ValidRecord(m)
    /\ m.producer # <<>> => ValidIdentifier(m.producer[1].id)

ValidBatch(m) ==
    /\ ValidTopic(m.topic)
    /\ Len(m.records) \in 1 .. MaxBatchMessages
    /\ \A i \in DOMAIN m.records : ValidRecord(m.records[i])
    /\ Len(BatchBody(m.records)) <= MaxBatchSize

ValidFetch(m) ==
    /\ ValidTopic(m.topic)
    /\ m.max_bytes \in 1 .. MaxFetchBytes
    /\ m.max_wait <= MaxFetchWait

-----------------------------------------------------------------------------
(* Encoders.                                                               *)

\* A frame whose length is known before, and one whose length is set last.
Frame(length, body) == U32(length) \o body
FrameOf(body) == Frame(Len(body), body)

EncodeProduce(m) ==
    LET id == IF m.producer = <<>> THEN <<>> ELSE m.producer[1].id
        seq == IF m.producer = <<>> THEN 0 ELSE m.producer[1].seq IN
    Frame(1 + 2 + Len(m.topic) + 2 + Len(m.key) + 4 + Len(m.payload) + 1 + 2
            + Len(id) + 8 + 5,
          U8(1) \o Str(m.topic) \o Str(m.key) \o Blob(m.payload) \o U8(m.ack)
            \o Str(id) \o U64(seq) \o Flag(m.partition)
            \o U32(OrZero(m.partition)))

\* zstd: some bytes of another length from which the batch can be had again.
Compress(bytes) == [i \in DOMAIN bytes |-> Base - 1 - bytes[i]] \o <<0>>
Decompress(bytes) == [i \in 1 .. Len(bytes) - 1 |-> Base - 1 - bytes[i]]

EncodeProduceBatch(m) ==
    LET body == BatchBody(m.records)
        encoded == IF m.compression = 1 THEN Compress(body) ELSE body IN
    FrameOf(U8(3) \o Str(m.topic) \o U8(m.ack) \o U8(m.compression)
              \o U32(Len(body)) \o Blob(encoded) \o Flag(m.partition)
              \o U32(OrZero(m.partition)))

EncodeFetch(m) ==
    Frame(1 + 2 + Len(m.topic) + 4 + 8 + 4 + 4,
          U8(4) \o Str(m.topic) \o U32(m.partition) \o U64(m.offset)
            \o U32(m.max_bytes) \o U32(m.max_wait))

\* The group requests begin with the names.
Names(m) == Str(m.group) \o Str(m.topic) \o Str(m.member)

EncodeGroup(m) ==
    FrameOf(
        CASE m.op = "join" -> U8(5) \o Names(m)
          [] m.op = "heartbeat" -> U8(6) \o Names(m) \o U64(m.generation)
          [] m.op = "leave" -> U8(7) \o Names(m) \o U64(m.generation)
          [] m.op = "commit" ->
               U8(8) \o Names(m) \o U64(m.generation) \o U32(m.partition)
                 \o U64(m.offset)
          [] m.op = "committed" ->
               U8(9) \o Str(m.group) \o Str(m.topic) \o U32(m.partition)
          [] m.op = "group_fetch" ->
               U8(10) \o Names(m) \o U64(m.generation) \o U32(m.partition)
                 \o U64(m.offset) \o U32(m.max_bytes) \o U32(m.max_wait))

EncodeTopicRequest(m) ==
    CASE m.op = "create" -> FrameOf(U8(11) \o Str(m.topic) \o U32(m.partitions))
      [] m.op = "list" -> Frame(1, U8(12))
      [] m.op = "describe" -> FrameOf(U8(13) \o Str(m.topic))
      [] m.op = "cluster" -> Frame(1, U8(14))
      [] m.op = "status" -> FrameOf(U8(15) \o Str(m.topic) \o U32(m.partition))

EncodeLeadershipRequest(m) ==
    FrameOf(
        U8(IF m.op = "promote" THEN 2 ELSE 0) \o Str(m.topic) \o U32(m.partition)
          \o U32(m.leader)
          \o (IF m.op = "apply" THEN U64(m.epoch) \o U64(m.hw) ELSE <<>>))

EncodeRequest(m) ==
    CASE m.op = "produce" -> EncodeProduce(m)
      [] m.op = "batch" -> EncodeProduceBatch(m)
      [] m.op = "fetch" -> EncodeFetch(m)
      [] m.op \in {"join", "heartbeat", "leave", "commit", "committed",
                   "group_fetch"} -> EncodeGroup(m)
      [] m.op \in {"create", "list", "describe", "cluster", "status"} ->
           EncodeTopicRequest(m)
      [] m.op \in {"promote", "apply"} -> EncodeLeadershipRequest(m)

\* The requests the constructors and encoders let through.
Encodable(m) ==
    CASE m.op = "produce" -> ValidProduce(m)
      [] m.op = "batch" -> ValidBatch(m)
      [] m.op \in {"fetch", "group_fetch"} -> ValidFetch(m)
      [] m.op = "create" -> ValidTopic(m.topic) /\ m.partitions > 0
      [] m.op \in {"describe", "status", "promote", "apply"} ->
           ValidTopic(m.topic)
      [] OTHER -> TRUE

Ack(a) == U32(a.partition) \o U64(a.offset)

\* An absent key has length -1.
FetchedRecord(r) ==
    U64(r.offset) \o U64(r.time)
      \o I32(IF r.key = <<>> THEN -1 ELSE Len(r.key[1])) \o U32(Len(r.value))
      \o (IF r.key = <<>> THEN <<>> ELSE r.key[1]) \o r.value

TopicMetadata(t) ==
    Str(t.topic) \o U32(t.partitions) \o U32(Len(t.leaders))
      \o All(U32, t.leaders) \o All(U64, t.epochs) \o All(U64, t.hws)

ClusterNode(n) ==
    U32(n.id) \o Str(n.host) \o U16(n.port) \o U16(n.admin) \o U16(n.replication)

JoinResponse(m) ==
    Frame(1 + 8 + 4 + Len(m.partitions) * 4,
          U8(5) \o U64(m.generation) \o U32(Len(m.partitions))
            \o All(U32, m.partitions))

EncodeResponse(m) ==
    CASE m.op = "ack" -> Frame(1 + 4 + 8, U8(1) \o Ack(m.ack))
      [] m.op = "batch_ack" ->
           FrameOf(U8(3) \o U32(Len(m.acks)) \o All(Ack, m.acks))
      [] m.op = "records" ->
           FrameOf(U8(4) \o U32(Len(m.records)) \o All(FetchedRecord, m.records))
      [] m.op = "joined" -> JoinResponse(m)
      [] m.op = "group_ack" -> Frame(1, U8(6))
      [] m.op = "offset" ->
           Frame(1 + 1 + 8, U8(7) \o Flag(m.offset) \o U64(OrZero(m.offset)))
      [] m.op = "topics" ->
           FrameOf(U8(8) \o U32(Len(m.topics)) \o All(TopicMetadata, m.topics))
      [] m.op = "nodes" ->
           FrameOf(U8(9) \o U32(m.responding) \o U32(Len(m.nodes))
                     \o All(ClusterNode, m.nodes))
      [] m.op = "leadership" ->
           Frame(1 + 4 + 4 + 8 + 8,
                 U8(10) \o U32(m.partition) \o U32(m.leader) \o U64(m.epoch)
                   \o U64(m.hw))
      [] m.op = "next" -> Frame(1 + 8, U8(11) \o U64(m.offset))
      [] m.op = "error" -> FrameOf(U8(15) \o Str(m.message))

\* The responses the encoders let through.  Only a fetch is held to the limit
\* on frames: topics and a join are written whatever their length.
Answerable(m) ==
    CASE m.op = "topics" ->
           \A t \in ToSet(m.topics) :
             /\ t.partitions > 0 /\ Len(t.leaders) \in {0, t.partitions}
             /\ Len(t.epochs) = Len(t.leaders) /\ Len(t.hws) = Len(t.leaders)
      [] m.op = "nodes" -> Len(m.nodes) \in 1 .. MaxClusterNodes
      [] m.op = "records" -> Len(EncodeResponse(m)) - HeaderSize <= MaxFrameSize
      [] OTHER -> TRUE

EncodeReplicate(m) ==
    FrameOf(U8(12) \o Str(m.topic) \o U32(m.partition) \o U64(m.offset)
              \o U64(m.time) \o U8(IF m.durable THEN 1 ELSE 0) \o U32(m.leader)
              \o U64(m.epoch) \o Str(IF m.key = <<>> THEN <<>> ELSE m.key[1])
              \o Blob(m.value))

EncodeReplicateAck(m) == FrameOf(U8(13) \o U32(m.partition) \o U64(m.next))

-----------------------------------------------------------------------------
(* Decoders.  A reader is what is left of the frame and what was read so   *)
(* far; it fails where ensure_remaining fails.  A decoder's result is <<>> *)
(* for an error and <<message>> otherwise.                                 *)

Reader(frame) == [ok |-> TRUE, rest |-> frame, out |-> <<>>]
Failed == [ok |-> FALSE, rest |-> <<>>, out |-> <<>>]

\* read_bytes.
Take(st, n) ==
    IF st.ok /\ n <= Len(st.rest)
    THEN [st EXCEPT !.rest = SubSeq(@, n + 1, Len(@)),
                    !.out = Append(@, SubSeq(st.rest, 1, n))]
    ELSE Failed

Width == [u8 |-> 1, u16 |-> 2, u32 |-> 4, i32 |-> 4, u64 |-> 8]

\* What was read last is replaced by f of it.
Converted(st, f(_)) == IF st.ok THEN [st EXCEPT !.out[Len(st.out)] = f(@)] ELSE st

Signed(n) == IF n < Base ^ 4 \div 2 THEN n ELSE n - Base ^ 4

\* get_u8 to get_u64.
GetNumber(st, t) ==
    Converted(Take(st, Width[t]),
              LAMBDA b : IF t = "i32" THEN Signed(Number(b)) ELSE Number(b))

\* Take as many as the number that was read last.
GetSized(st) == IF st.ok THEN Take([st EXCEPT !.out = Front(@)], Last(st.out)) ELSE st

\* decode_string, a value after its length, or a number.
Get(st, t) ==
    CASE t = "str" -> GetSized(GetNumber(st, "u16"))
      [] t = "blob" -> GetSized(GetNumber(st, "u32"))
      [] OTHER -> GetNumber(st, t)

\* The element of a singleton.
Only(S) == CHOOSE x \in S : TRUE

\* n steps of a reader.
Steps(st, n, Step(_, _)) ==
    LET after[i \in 0 .. n] ==
          IF i = 0 THEN st ELSE Only({Step(q, i) : q \in {after[i - 1]}}) IN
    after[n]

Fields(st, types) == Steps(st, Len(types), LAMBDA q, i : Get(q, types[i]))

\* One item, as one field: Item reads it with a reader of its own.
One(st, Item(_)) ==
    Only({IF st.ok /\ r.ok THEN [r EXCEPT !.out = Append(st.out, r.out)] ELSE Failed :
            r \in {Item([st EXCEPT !.out = <<>>])}})

\* n items, as one field; an item has at least a byte.
Items(st, n, Item(_)) ==
    IF st.ok /\ n <= Len(st.rest)
    THEN One(st, LAMBDA r : Steps(r, n, LAMBDA q, i : One(q, Item)))
    ELSE Failed

\* A count and as many items.
Counted(st, Item(_)) ==
    Only({IF r.ok THEN Items([r EXCEPT !.out = Front(@)], Last(r.out), Item) ELSE r :
            r \in {GetNumber(st, "u32")}})

\* ensure_empty, and what is required of the message.
Decoded(st, Build(_), Valid(_)) ==
    Only({IF r.ok /\ r.rest = <<>> /\ Valid(r.out) THEN <<Build(r.out)>> ELSE <<>> :
            r \in {st}})

Always(x) == TRUE

\* Mutant of TakeFrame: the last byte of the buffer is never enough.
TakeFrameGreedy(buffer) ==
    LET length == Number(SubSeq(buffer, 1, HeaderSize)) IN
    IF Len(buffer) < HeaderSize THEN [kind |-> "none"]
    ELSE IF length = 0 \/ length > MaxFrameSize THEN [kind |-> "error"]
    ELSE IF Len(buffer) <= HeaderSize + length THEN [kind |-> "none"]
    ELSE [kind |-> "frame",
          frame |-> SubSeq(buffer, HeaderSize + 1, HeaderSize + length),
          rest |-> SubSeq(buffer, HeaderSize + length + 1, Len(buffer))]

\* Mutant of TakeFrame: a frame of the greatest length is refused.
TakeFrameBelow(buffer) ==
    LET length == Number(SubSeq(buffer, 1, HeaderSize)) IN
    IF Len(buffer) < HeaderSize THEN [kind |-> "none"]
    ELSE IF length = 0 \/ length >= MaxFrameSize THEN [kind |-> "error"]
    ELSE IF Len(buffer) < HeaderSize + length THEN [kind |-> "none"]
    ELSE [kind |-> "frame",
          frame |-> SubSeq(buffer, HeaderSize + 1, HeaderSize + length),
          rest |-> SubSeq(buffer, HeaderSize + length + 1, Len(buffer))]

\* take_frame: "none" asks for more bytes.
TakeFrame(buffer) ==
    LET length == Number(SubSeq(buffer, 1, HeaderSize)) IN
    IF Len(buffer) < HeaderSize THEN [kind |-> "none"]
    ELSE IF length = 0 \/ length > MaxFrameSize THEN [kind |-> "error"]
    ELSE IF Len(buffer) < HeaderSize + length THEN [kind |-> "none"]
    ELSE [kind |-> "frame",
          frame |-> SubSeq(buffer, HeaderSize + 1, HeaderSize + length),
          rest |-> SubSeq(buffer, HeaderSize + length + 1, Len(buffer))]

-----------------------------------------------------------------------------
(* Requests.                                                               *)

\* AckMode::from_code, Compression::from_code and the flags.
ValidCodes(ack, flag) == ack \in {1, 2} /\ flag \in {0, 1}

Optional(flag, value) == IF flag = 1 THEN <<value>> ELSE <<>>

\* Mutant of DecodeProduce: whether there is a partition is not looked at.
DecodeProducePlaced(body) ==
    LET Build(f) ==
          [op |-> "produce", topic |-> f[1], key |-> f[2], payload |-> f[3],
           ack |-> f[4],
           producer |-> IF f[5] = <<>> THEN <<>>
                        ELSE <<[id |-> f[5], seq |-> f[6]]>>,
           partition |-> <<f[8]>>] IN
    Decoded(Fields(Reader(body),
                   <<"str", "str", "blob", "u8", "str", "u64", "u8", "u32">>),
            Build,
            LAMBDA f : ValidCodes(f[4], f[7]) /\ ValidProduce(Build(f)))

DecodeProduce(body) ==
    LET Build(f) ==
          [op |-> "produce", topic |-> f[1], key |-> f[2], payload |-> f[3],
           ack |-> f[4],
           producer |-> IF f[5] = <<>> THEN <<>>
                        ELSE <<[id |-> f[5], seq |-> f[6]]>>,
           partition |-> Optional(f[7], f[8])] IN
    Decoded(Fields(Reader(body),
                   <<"str", "str", "blob", "u8", "str", "u64", "u8", "u32">>),
            Build,
            LAMBDA f : ValidCodes(f[4], f[7]) /\ ValidProduce(Build(f)))

\* decode_batch_records.
BatchRecords(bytes) ==
    Decoded(Counted(Reader(bytes), LAMBDA r : Fields(r, <<"str", "blob">>)),
            LAMBDA f : [i \in DOMAIN f[1] |->
                          [key |-> f[1][i][1], payload |-> f[1][i][2]]],
            LAMBDA f : Len(f[1]) \in 1 .. MaxBatchMessages)

DecodeProduceBatch(body) ==
    LET Plain(f) == IF f[3] = 1 THEN Decompress(f[5]) ELSE f[5]
        Build(f) ==
          [op |-> "batch", topic |-> f[1], ack |-> f[2], compression |-> f[3],
           records |-> BatchRecords(Plain(f))[1],
           partition |-> Optional(f[6], f[7])] IN
    Decoded(Fields(Reader(body), <<"str", "u8", "u8", "u32", "blob", "u8", "u32">>),
            Build,
            LAMBDA f : /\ ValidCodes(f[2], f[6]) /\ f[3] \in {0, 1}
                       /\ f[4] <= MaxBatchSize /\ Len(Plain(f)) = f[4]
                       /\ BatchRecords(Plain(f)) # <<>>
                       /\ ValidBatch(Build(f)))

DecodeFetch(body) ==
    LET Build(f) ==
          [op |-> "fetch", topic |-> f[1], partition |-> f[2], offset |-> f[3],
           max_bytes |-> f[4], max_wait |-> f[5]] IN
    Decoded(Fields(Reader(body), <<"str", "u32", "u64", "u32", "u32">>), Build,
            LAMBDA f : ValidFetch(Build(f)))

DecodeJoin(body) ==
    Decoded(Fields(Reader(body), <<"str", "str", "str">>),
            LAMBDA f : [op |-> "join", group |-> f[1], topic |-> f[2],
                        member |-> f[3]],
            Always)

\* decode_group_generation.
DecodeGeneration(op, body) ==
    Decoded(Fields(Reader(body), <<"str", "str", "str", "u64">>),
            LAMBDA f : [op |-> op, group |-> f[1], topic |-> f[2],
                        member |-> f[3], generation |-> f[4]],
            Always)

DecodeCommitOffset(body) ==
    Decoded(Fields(Reader(body), <<"str", "str", "str", "u64", "u32", "u64">>),
            LAMBDA f : [op |-> "commit", group |-> f[1], topic |-> f[2],
                        member |-> f[3], generation |-> f[4],
                        partition |-> f[5], offset |-> f[6]],
            Always)

DecodeFetchCommitted(body) ==
    Decoded(Fields(Reader(body), <<"str", "str", "u32">>),
            LAMBDA f : [op |-> "committed", group |-> f[1], topic |-> f[2],
                        partition |-> f[3]],
            Always)

DecodeGroupFetch(body) ==
    LET Build(f) ==
          [op |-> "group_fetch", group |-> f[1], topic |-> f[2],
           member |-> f[3], generation |-> f[4], partition |-> f[5],
           offset |-> f[6], max_bytes |-> f[7], max_wait |-> f[8]] IN
    Decoded(Fields(Reader(body), <<"str", "str", "str", "u64", "u32", "u64",
                                   "u32", "u32">>),
            Build, LAMBDA f : ValidFetch(Build(f)))

DecodeCreateTopic(body) ==
    Decoded(Fields(Reader(body), <<"str", "u32">>),
            LAMBDA f : [op |-> "create", topic |-> f[1], partitions |-> f[2]],
            LAMBDA f : ValidTopic(f[1]) /\ f[2] # 0)

\* The requests that decode_request reads itself.
DecodeDescribe(body) ==
    Decoded(Fields(Reader(body), <<"str">>),
            LAMBDA f : [op |-> "describe", topic |-> f[1]],
            LAMBDA f : ValidTopic(f[1]))

DecodeStatus(body) ==
    Decoded(Fields(Reader(body), <<"str", "u32">>),
            LAMBDA f : [op |-> "status", topic |-> f[1], partition |-> f[2]],
            Always)

Bare(op, body) == IF body = <<>> THEN <<[op |-> op]>> ELSE <<>>

DecodePromoteLeader(body) ==
    Decoded(Fields(Reader(body), <<"str", "u32", "u32">>),
            LAMBDA f : [op |-> "promote", topic |-> f[1], partition |-> f[2],
                        leader |-> f[3]],
            Always)

DecodeApplyLeadership(body) ==
    Decoded(Fields(Reader(body), <<"str", "u32", "u32", "u64", "u64">>),
            LAMBDA f : [op |-> "apply", topic |-> f[1], partition |-> f[2],
                        leader |-> f[3], epoch |-> f[4], hw |-> f[5]],
            Always)

\* decode_request, of a frame.  An UnknownOpcode is an error; the bytes of the
\* model are all opcodes of requests.
DecodeRequest(frame) ==
    LET opcode == Head(frame)
        body == Tail(frame) IN
    CASE opcode = 0 -> DecodeApplyLeadership(body)
      [] opcode = 1 -> DecodeProduce(body)
      [] opcode = 2 -> DecodePromoteLeader(body)
      [] opcode = 3 -> DecodeProduceBatch(body)
      [] opcode = 4 -> DecodeFetch(body)
      [] opcode = 5 -> DecodeJoin(body)
      [] opcode = 6 -> DecodeGeneration("heartbeat", body)
      [] opcode = 7 -> DecodeGeneration("leave", body)
      [] opcode = 8 -> DecodeCommitOffset(body)
      [] opcode = 9 -> DecodeFetchCommitted(body)
      [] opcode = 10 -> DecodeGroupFetch(body)
      [] opcode = 11 -> DecodeCreateTopic(body)
      [] opcode = 12 -> Bare("list", body)
      [] opcode = 13 -> DecodeDescribe(body)
      [] opcode = 14 -> Bare("cluster", body)
      [] opcode = 15 -> DecodeStatus(body)
      [] OTHER -> <<>>

-----------------------------------------------------------------------------
(* Responses.                                                              *)

AckFields(f) == [partition |-> f[1], offset |-> f[2]]

\* decode_fetch_response: a key of length -1 is absent, a shorter one is not
\* a key.
GetFetched(st) ==
    LET r == Fields(st, <<"u64", "u64", "i32", "u32">>) IN
    IF ~r.ok \/ r.out[3] < -1 THEN Failed
    ELSE Take(Take(r, IF r.out[3] = -1 THEN 0 ELSE r.out[3]), r.out[4])

Fetched(f) ==
    [offset |-> f[1], time |-> f[2],
     key |-> IF f[3] = -1 THEN <<>> ELSE <<f[5]>>, value |-> f[6]]

\* decode_topics_response: as many leaders as partitions, or none.
GetTopic(st) ==
    LET r == Fields(st, <<"str", "u32", "u32">>)
        Numbers(t, width) == Items(t, r.out[3], LAMBDA q : GetNumber(q, width)) IN
    IF ~r.ok \/ r.out[2] = 0 \/ r.out[3] \notin {0, r.out[2]} THEN Failed
    ELSE Numbers(Numbers(Numbers(r, "u32"), "u64"), "u64")

Singles(s) == [i \in DOMAIN s |-> s[i][1]]

TopicFields(f) ==
    [topic |-> f[1], partitions |-> f[2], leaders |-> Singles(f[4]),
     epochs |-> Singles(f[5]), hws |-> Singles(f[6])]

NodeFields(f) ==
    [id |-> f[1], host |-> f[2], port |-> f[3], admin |-> f[4],
     replication |-> f[5]]

Each(Build(_), items) == [i \in DOMAIN items |-> Build(items[i])]

\* Mutant of DecodeCommitted: whether there is an offset is not looked at.
DecodeCommittedAlways(body) ==
    Decoded(Fields(Reader(body), <<"u8", "u64">>),
            LAMBDA f : [op |-> "offset", offset |-> <<f[2]>>],
            LAMBDA f : f[1] <= 1)

DecodeCommitted(body) ==
    Decoded(Fields(Reader(body), <<"u8", "u64">>),
            LAMBDA f : [op |-> "offset", offset |-> Optional(f[1], f[2])],
            LAMBDA f : f[1] <= 1)

\* decode_response_frame.
DecodeResponse(frame) ==
    LET opcode == Head(frame)
        reader == Reader(Tail(frame)) IN
    CASE opcode = 1 ->
           Decoded(Fields(reader, <<"u32", "u64">>),
                   LAMBDA f : [op |-> "ack", ack |-> AckFields(f)], Always)
      [] opcode = 3 ->
           Decoded(Counted(reader, LAMBDA r : Fields(r, <<"u32", "u64">>)),
                   LAMBDA f : [op |-> "batch_ack", acks |-> Each(AckFields, f[1])],
                   LAMBDA f : Len(f[1]) \in 1 .. MaxBatchMessages)
      [] opcode = 4 ->
           Decoded(Counted(reader, GetFetched),
                   LAMBDA f : [op |-> "records", records |-> Each(Fetched, f[1])],
                   Always)
      [] opcode = 5 ->
           Decoded(Counted(GetNumber(reader, "u64"), LAMBDA r : GetNumber(r, "u32")),
                   LAMBDA f : [op |-> "joined", generation |-> f[1],
                               partitions |-> Singles(f[2])],
                   Always)
      [] opcode = 6 -> Bare("group_ack", Tail(frame))
      [] opcode = 7 -> DecodeCommitted(Tail(frame))
      [] opcode = 8 ->
           Decoded(Counted(reader, GetTopic),
                   LAMBDA f : [op |-> "topics", topics |-> Each(TopicFields, f[1])],
                   Always)
      [] opcode = 9 ->
           Decoded(Counted(GetNumber(reader, "u32"),
                           LAMBDA r : Fields(r, <<"u32", "str", "u16", "u16", "u16">>)),
                   LAMBDA f : [op |-> "nodes", responding |-> f[1],
                               nodes |-> Each(NodeFields, f[2])],
                   LAMBDA f : Len(f[2]) \in 1 .. MaxClusterNodes)
      [] opcode = 10 ->
           Decoded(Fields(reader, <<"u32", "u32", "u64", "u64">>),
                   LAMBDA f : [op |-> "leadership", partition |-> f[1],
                               leader |-> f[2], epoch |-> f[3], hw |-> f[4]],
                   Always)
      [] opcode = 11 ->
           Decoded(GetNumber(reader, "u64"),
                   LAMBDA f : [op |-> "next", offset |-> f[1]], Always)
      [] opcode = 15 ->
           Decoded(Get(reader, "str"),
                   LAMBDA f : [op |-> "error", message |-> f[1]], Always)
      [] OTHER -> <<>>

-----------------------------------------------------------------------------
(* Replication.  A key of no bytes is no key.                              *)

DecodeReplicate(frame) ==
    IF Head(frame) # 12 THEN <<>>
    ELSE Decoded(
           Fields(Reader(Tail(frame)),
                  <<"str", "u32", "u64", "u64", "u8", "u32", "u64", "str", "blob">>),
           LAMBDA f : [op |-> "replicate", topic |-> f[1], partition |-> f[2],
                       offset |-> f[3], time |-> f[4], durable |-> f[5] = 1,
                       leader |-> f[6], epoch |-> f[7],
                       key |-> IF f[8] = <<>> THEN <<>> ELSE <<f[8]>>,
                       value |-> f[9]],
           LAMBDA f : f[5] <= 1 /\ Len(f[9]) <= MaxMessageSize)

DecodeReplicateAck(frame) ==
    IF Head(frame) # 13 THEN <<>>
    ELSE Decoded(Fields(Reader(Tail(frame)), <<"u32", "u64">>),
                 LAMBDA f : [op |-> "replicated", partition |-> f[1], next |-> f[2]],
                 Always)

=============================================================================
