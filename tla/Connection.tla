------------------------------ MODULE Connection ------------------------------
(***************************************************************************)
(* A client and the brokers it talks to, down to the bytes: the calls of   *)
(* crates/client/src/lib.rs, each a few requests on the client's own       *)
(* connection or on one that is opened for a single request, the loops of  *)
(* the broker that read, decode and answer, and the requests of a leader   *)
(* to a follower's replication port.                                       *)
(*                                                                         *)
(* TCP keeps the order of the bytes and delivers them in pieces of any     *)
(* size.  Whoever closes a connection or dies may lose what is on the way. *)
(***************************************************************************)
EXTENDS Protocol, FiniteSets

CONSTANTS
    Calls,              \* what the program asks of the client: the request
                        \* that a call is about
    Replicated,         \* records a leader sends to a follower
    Answers,            \* Answers[op]: responses a broker may give to op
    Clusters,           \* memberships: sequences of nodes
    Home,               \* the id of the broker the client is connected to
    KeyHash             \* KeyHash[key]: crc32 of a key or identity

VARIABLES
    nodes,              \* the cluster's membership
    call,               \* the call the client is in
    got,                \* <<response>> that was decoded, not yet looked at
    conn                \* conn["own"], conn["other"]: the connections

vars == <<nodes, call, got, conn>>

Fresh ==
    [up |-> <<>>,       \* bytes to the broker
     sbuf |-> <<>>,     \* read_buffer of the broker
     serving |-> <<>>,  \* <<request>> in process_request
     down |-> <<>>,     \* bytes to the client
     cbuf |-> <<>>,     \* read_buffer of the client
     sent |-> <<>>,     \* requests written, not answered yet
     given |-> <<>>,    \* responses written, not decoded yet
     server |-> "open",
     port |-> "client"]

\* stage: which of its requests the call waits for; at: on which connection;
\* topic: <<metadata>> once it is known; result: how the last call ended.
Idle(result) ==
    [stage |-> "idle", m |-> [op |-> "none"], at |-> "own", topic |-> <<>>,
     abandoned |-> FALSE, result |-> result]

Init ==
    /\ nodes \in Clusters
    /\ call = Idle("none")
    /\ got = <<>>
    /\ conn = [own |-> Fresh, other |-> Fresh]

-----------------------------------------------------------------------------
(* The client.                                                             *)

\* Requests that are sent at once, that go to the controller, and that go to
\* the leader of a partition.
Direct == {"join", "heartbeat", "leave", "commit", "committed", "group_fetch",
           "apply", "status", "cluster"}
Controlled == {"create", "list", "describe", "promote"}
Routed == {"produce", "batch", "fetch"}

\* request_at: the client's connection, or a new one.
ConnectionTo(id) == IF id = Home THEN "own" ELSE "other"

\* controller_address.
Controller == ConnectionTo(nodes[1].id)

\* produce and produce_batch: the partition by the key, or by the identity of
\* a record without key.
RoutingKeys(m) ==
    CASE m.op = "produce" ->
           IF m.key # <<>> THEN {m.key}
           ELSE IF m.producer # <<>> THEN {m.producer[1].id} ELSE {}
      [] m.op = "batch" -> {r.key : r \in ToSet(m.records)} \ {<<>>}

PartitionOf(m, n) ==
    CASE m.op = "fetch" -> m.partition
      [] m.op = "produce" ->
           IF RoutingKeys(m) = {} THEN 0
           ELSE KeyHash[CHOOSE k \in RoutingKeys(m) : TRUE] % n
      [] m.op = "batch" ->
           IF m.records[1].key = <<>> THEN 0 ELSE KeyHash[m.records[1].key] % n

\* BatchSpansPartitions.
Spans(m, n) ==
    m.op = "batch" /\ \E k \in RoutingKeys(m) : KeyHash[k] % n # PartitionOf(m, n)

\* with_partition.
Addressed(m, n) ==
    IF m.op = "fetch" THEN m ELSE [m EXCEPT !.partition = <<PartitionOf(m, n)>>]

\* topic_leader_address fails: InvalidPartition or UnknownLeader.
NoLeader(m, topic) ==
    LET p == PartitionOf(m, topic.partitions) IN
    \/ p >= Len(topic.leaders)
    \/ \A i \in DOMAIN nodes : nodes[i].id # topic.leaders[p + 1]

\* A request is written, on a connection that is opened for it or on the
\* client's own.
Write(c, m) ==
    LET old == IF c.at = "own" THEN conn.own ELSE Fresh IN
    /\ call' = c
    /\ conn' = [conn EXCEPT ![c.at] =
                  [old EXCEPT
                     !.up = @ \o (IF m.op = "replicate" THEN EncodeReplicate(m)
                                  ELSE EncodeRequest(m)),
                     !.sent = Append(@, m),
                     !.port = IF m.op = "replicate" THEN "replication"
                              ELSE "client"]]

\* A call begins.
Start(m) ==
    /\ call.stage = "idle"
    /\ Encodable(m)
    /\ LET c == [Idle("none") EXCEPT !.m = m] IN
       IF m.op \in Direct THEN Write([c EXCEPT !.stage = "last"], m)
       ELSE Write([c EXCEPT !.stage = "cluster"], [op |-> "cluster"])
    /\ UNCHANGED <<nodes, got>>

\* send_replica, of a broker to another.
SendReplica(m) ==
    /\ call.stage = "idle"
    /\ Write([Idle("none") EXCEPT !.m = m, !.stage = "last", !.at = "other"], m)
    /\ UNCHANGED <<nodes, got>>

\* Read when there is no whole frame.
ClientRead ==
    LET c == conn[call.at] IN
    /\ call.stage \notin {"idle", "gone"} /\ got = <<>>
    /\ TakeFrame(c.cbuf).kind = "none"
    /\ \E n \in 1 .. Len(c.down) :
         conn' = [conn EXCEPT ![call.at] =
                    [c EXCEPT !.cbuf = @ \o SubSeq(c.down, 1, n),
                              !.down = SubSeq(@, n + 1, Len(@))]]
    /\ UNCHANGED <<nodes, call, got>>

\* The client is not used again after an error that is not an answer.
Ended(result) == [Idle(result) EXCEPT !.stage = "gone"]

\* decode_response, or decode_replicate_ack of a leader.
Response(port, t) ==
    CASE t.kind = "error" -> <<>>
      [] t.kind = "frame" /\ port = "replication" -> DecodeReplicateAck(t.frame)
      [] t.kind = "frame" /\ port = "client" -> DecodeResponse(t.frame)

ClientDecode ==
    LET c == conn[call.at] IN
    /\ call.stage \notin {"idle", "gone"} /\ got = <<>>
    /\ \E t \in {TakeFrame(c.cbuf)} :
         /\ t.kind # "none"
         /\ \E r \in {Response(c.port, t)} :
              IF r = <<>>
              THEN /\ call' = Ended("refused")
                   /\ UNCHANGED <<got, conn>>
              ELSE /\ got' = r
                   /\ conn' = [conn EXCEPT ![call.at].cbuf = t.rest]
                   /\ UNCHANGED call
    /\ UNCHANGED nodes

\* The answer the caller of request expects.
Expected(op) ==
    CASE op = "produce" -> "ack"
      [] op = "batch" -> "batch_ack"
      [] op \in {"fetch", "group_fetch"} -> "records"
      [] op = "join" -> "joined"
      [] op \in {"heartbeat", "leave", "commit"} -> "group_ack"
      [] op = "committed" -> "offset"
      [] op \in {"create", "list", "describe"} -> "topics"
      [] op = "cluster" -> "nodes"
      [] op \in {"promote", "apply"} -> "leadership"
      [] op = "status" -> "next"
      [] op = "replicate" -> "replicated"

Fits(m, r) ==
    /\ r.op = Expected(m.op)
    /\ m.op \in {"create", "describe"} => Len(r.topics) = 1
    /\ m.op = "replicate" => r.partition = m.partition

\* The request and the response are done with; a connection that was opened
\* for the request is closed.
Settled ==
    IF call.at = "own"
    THEN [conn EXCEPT !.own = [@ EXCEPT !.sent = Tail(@), !.given = Tail(@)]]
    ELSE [conn EXCEPT !.other = Fresh]

\* The request that this stage of the call has sent.
Asked ==
    CASE call.stage \in {"cluster", "cluster again"} -> [op |-> "cluster"]
      [] call.stage = "describe" -> [op |-> "describe", topic |-> call.m.topic]
      [] call.stage = "last" -> call.m

\* The call ends: with its answer, an error of the broker, or an answer to
\* something else.  After the leave of a dropped fetch the program ends.
Finish ==
    /\ got # <<>>
    /\ \/ call.stage = "last"
       \/ got[1].op = "error"
       \/ ~Fits(Asked, got[1])
    /\ LET result == CASE got[1].op = "error" -> "error"
                        [] got[1].op # "error" /\ Fits(Asked, got[1]) -> "ok"
                        [] OTHER -> "unexpected" IN
       call' = IF result = "unexpected" \/ call.abandoned
               THEN [Ended(result) EXCEPT !.abandoned = call.abandoned]
               ELSE Idle(result)
    /\ got' = <<>>
    /\ conn' = Settled
    /\ UNCHANGED nodes

\* The next request of the call.  With one node every request goes to it.
Continue ==
    LET m == call.m
        Alone == Len(nodes) = 1
        Then(stage, at, req) ==
            LET old == IF at = "own" THEN Settled.own ELSE Fresh IN
            /\ call' = [call EXCEPT !.stage = stage, !.at = at, !.m =
                          IF stage = "last" THEN req ELSE m]
            /\ conn' = [Settled EXCEPT ![at] =
                          [old EXCEPT !.up = @ \o EncodeRequest(req),
                                      !.sent = Append(@, req)]] IN
    /\ got # <<>> /\ got[1].op # "error" /\ Fits(Asked, got[1])
    /\ CASE call.stage = "cluster" /\ m.op \in Controlled ->
              Then("last", Controller, m)
         [] call.stage = "cluster" /\ m.op \in Routed /\ Alone ->
              Then("last", "own", m)
         [] call.stage = "cluster" /\ m.op \in Routed /\ ~Alone ->
              Then("cluster again", "own", [op |-> "cluster"])
         [] call.stage = "cluster again" ->
              Then("describe", Controller, [op |-> "describe", topic |-> m.topic])
         [] call.stage = "describe" ->
              LET topic == got[1].topics[1]
                  n == topic.partitions IN
              IF Spans(m, n) \/ NoLeader(m, topic)
              THEN call' = Idle("error") /\ conn' = Settled
              ELSE Then("last",
                        ConnectionTo(topic.leaders[PartitionOf(m, n) + 1]),
                        Addressed(m, n))
         [] OTHER -> FALSE
    /\ got' = <<>>
    /\ UNCHANGED nodes

\* read_buf returns 0: ConnectionClosed, or ReplicationClosed.
ClientEof ==
    LET c == conn[call.at] IN
    /\ call.stage \notin {"idle", "gone"} /\ got = <<>>
    /\ TakeFrame(c.cbuf).kind = "none"
    /\ c.down = <<>> /\ c.server # "open"
    /\ IF call.at = "own" THEN call' = Ended("closed") /\ UNCHANGED conn
       ELSE call' = Idle("closed") /\ conn' = [conn EXCEPT !.other = Fresh]
    /\ UNCHANGED <<nodes, got>>

\* The deadline of a replication passes, the connection is dropped.
GiveUp ==
    /\ call.stage = "last" /\ call.m.op = "replicate"
    /\ call' = Idle("closed")
    /\ got' = <<>>
    /\ conn' = [conn EXCEPT !.other = Fresh]
    /\ UNCHANGED nodes

\* Ctrl-C while consume waits for records: the fetch is dropped, and the
\* member leaves on the same connection.
Abandon ==
    /\ call.stage = "last" /\ call.m.op = "group_fetch" /\ got = <<>>
    /\ LET leave == [op |-> "leave", group |-> call.m.group,
                     topic |-> call.m.topic, member |-> call.m.member,
                     generation |-> call.m.generation] IN
       Write([call EXCEPT !.m = leave, !.abandoned = TRUE], leave)
    /\ UNCHANGED <<nodes, got>>

\* The client's process ends, at any moment.
ClientDies ==
    /\ call.stage # "gone"
    /\ call' = Ended("killed")
    /\ got' = <<>>
    /\ \E up \in {conn.own.up, <<>>} : conn' = [conn EXCEPT !.own.up = up]
    /\ UNCHANGED nodes

-----------------------------------------------------------------------------
(* The broker: handle_connection, and handle_replication_connection.       *)

Waiting(x) ==
    /\ conn[x].server = "open" /\ conn[x].serving = <<>>
    /\ TakeFrame(conn[x].sbuf).kind = "none"

ServerRead(x) ==
    LET c == conn[x] IN
    /\ Waiting(x)
    /\ \E n \in 1 .. Len(c.up) :
         conn' = [conn EXCEPT ![x] =
                    [c EXCEPT !.sbuf = @ \o SubSeq(c.up, 1, n),
                              !.up = SubSeq(@, n + 1, Len(@))]]
    /\ UNCHANGED <<nodes, call, got>>

\* The client has closed: a frame that is not whole is an error.
ServerEof(x) ==
    /\ Waiting(x)
    /\ call.stage = "gone" /\ conn[x].up = <<>>
    /\ conn' = [conn EXCEPT ![x].server =
                  IF conn[x].sbuf = <<>> THEN "closed" ELSE "truncated"]
    /\ UNCHANGED <<nodes, call, got>>

\* decode_request, or decode_replicate_record on the replication port.
Received(port, t) ==
    CASE t.kind = "error" -> <<>>
      [] t.kind = "frame" /\ port = "replication" -> DecodeReplicate(t.frame)
      [] t.kind = "frame" /\ port = "client" -> DecodeRequest(t.frame)

\* An error ends the connection.
ServerDecode(x) ==
    LET c == conn[x] IN
    /\ c.server = "open" /\ c.serving = <<>>
    /\ \E t \in {TakeFrame(c.sbuf)} :
         /\ t.kind # "none"
         /\ \E m \in {Received(c.port, t)} :
              conn' = [conn EXCEPT ![x] =
                         IF m = <<>> THEN [c EXCEPT !.server = "refused"]
                         ELSE [c EXCEPT !.serving = m, !.sbuf = t.rest]]
    /\ UNCHANGED <<nodes, call, got>>

\* What process_request may answer; the cluster's metadata is what it is.
Possible(m, x) ==
    CASE m.op = "cluster" ->
           {[op |-> "nodes", nodes |-> nodes,
             responding |-> IF x = "own" THEN Home ELSE nodes[1].id]}
      [] m.op = "replicate" ->
           {[op |-> "replicated", partition |-> m.partition, next |-> n] :
              n \in {m.offset, m.offset + 1}}
      [] OTHER -> Answers[m.op] \cup Answers["any"]

Respond(x) ==
    /\ conn[x].server = "open" /\ conn[x].serving # <<>>
    /\ call.stage # "gone"
    /\ \E r \in Possible(conn[x].serving[1], x) :
         /\ Answerable(r)
         /\ conn' = [conn EXCEPT ![x] =
                      [@ EXCEPT !.serving = <<>>,
                                !.down = @ \o (IF r.op = "replicated"
                                               THEN EncodeReplicateAck(r)
                                               ELSE EncodeResponse(r)),
                                !.given = Append(@, r)]]
    /\ UNCHANGED <<nodes, call, got>>

\* An error that is not answered, one of encode_response included, or the
\* broker ends: what is on the way may be lost.
ServerDies(x) ==
    /\ conn[x].server = "open"
    /\ x = "other" => call.at = "other"
    /\ \E down \in {conn[x].down, <<>>} :
         conn' = [conn EXCEPT ![x] = [@ EXCEPT !.server = "closed",
                                               !.serving = <<>>,
                                               !.up = <<>>, !.down = down]]
    /\ UNCHANGED <<nodes, call, got>>

-----------------------------------------------------------------------------
Serve(x) == ServerRead(x) \/ ServerEof(x) \/ ServerDecode(x) \/ Respond(x)
Advance == ClientRead \/ ClientDecode \/ Finish \/ Continue \/ ClientEof

Next ==
    \/ \E m \in Calls : Start(m)
    \/ \E m \in Replicated : SendReplica(m)
    \/ Advance \/ GiveUp \/ Abandon \/ ClientDies
    \/ \E x \in {"own", "other"} : Serve(x) \/ ServerDies(x)

\* Sockets deliver, tasks run, and every request a broker has read is answered
\* (which the module Broker shows) or its connection ends.
Spec ==
    /\ Init /\ [][Next]_vars
    /\ WF_vars(Advance)
    /\ \A x \in {"own", "other"} : WF_vars(Serve(x))

-----------------------------------------------------------------------------
\* The request a broker works on is the one the client has sent first of those
\* that are not answered, field by field, however the bytes came in pieces:
\* none is skipped, merged with the next or changed by the codec.
ReceivedAsSent ==
    \A x \in {"own", "other"} :
        LET c == conn[x] IN
        c.serving # <<>> =>
            /\ Len(c.given) < Len(c.sent)
            /\ c.serving[1] = c.sent[Len(c.given) + 1]

\* What the client decodes is the first response the broker wrote and the
\* client has not seen, also after a call was dropped half-way and another
\* followed on its connection.
AnswersInOrder ==
    LET c == conn[call.at] IN
    got # <<>> => c.given # <<>> /\ got[1] = c.given[1]

\* No frame that one side encodes is refused by the other, the longest that
\* take_frame lets through included, no frame is left half read while both
\* sides live, and no call is answered with what belongs to another call,
\* unless one was dropped before.
NeverRefused ==
    /\ call.result # "refused"
    /\ call.result = "unexpected" => call.abandoned
    /\ \A x \in {"own", "other"} :
         /\ conn[x].server # "refused"
         /\ conn[x].server = "truncated" => call.stage = "gone"

\* Every call ends: neither side waits for bytes the other will not send.
CallsEnd == []<>(call.stage \in {"idle", "gone"})

=============================================================================
