----------------------------- MODULE MCConnection -----------------------------
(* Requests, responses and clusters of Connection, for TLC: every kind of   *)
(* message, with its optional parts there and not there.                    *)
EXTENDS Connection

T == <<1>>
Bad == <<Underscore, Underscore>>
ASSUME ~ValidTopic(Bad)

Produce(t, key, producer, ack) ==
    [op |-> "produce", topic |-> t, key |-> key, payload |-> <<3, 4>>,
     ack |-> ack, producer |-> producer, partition |-> <<>>]
Batched(records, compression) ==
    [op |-> "batch", topic |-> T, ack |-> 2, compression |-> compression,
     records |-> records, partition |-> <<>>]
Member(op) == [op |-> op, group |-> <<2>>, topic |-> T, member |-> <<4>>]
Generation(op) ==
    [op |-> op, group |-> <<2>>, topic |-> T, member |-> <<4>>, generation |-> 20]
Fetch(partition) ==
    [op |-> "fetch", topic |-> T, partition |-> partition, offset |-> 18,
     max_bytes |-> 40, max_wait |-> 9]

SomeCalls ==
    {Produce(T, <<>>, <<>>, 1), Produce(T, <<3>>, <<>>, 2),
     Produce(T, <<>>, <<[id |-> <<2>>, seq |-> 33]>>, 2),
     Produce(Bad, <<>>, <<>>, 1),
     Batched(<<[key |-> <<3>>, payload |-> <<>>],
               [key |-> <<>>, payload |-> <<7>>]>>, 1),
     Batched(<<[key |-> <<2>>, payload |-> <<7>>]>>, 0),
     Batched(<<[key |-> <<2>>, payload |-> <<>>],
               [key |-> <<3>>, payload |-> <<>>]>>, 0),
     Fetch(1), Fetch(2),
     Member("join"), Generation("heartbeat"), Generation("leave"),
     [op |-> "commit", group |-> <<2>>, topic |-> T, member |-> <<4>>,
      generation |-> 20, partition |-> 1, offset |-> 300],
     [op |-> "committed", group |-> <<2>>, topic |-> T, partition |-> 1],
     [op |-> "group_fetch", group |-> <<2>>, topic |-> T, member |-> <<4>>,
      generation |-> 20, partition |-> 1, offset |-> 18, max_bytes |-> 40,
      max_wait |-> 9],
     [op |-> "create", topic |-> T, partitions |-> 2], [op |-> "list"],
     [op |-> "describe", topic |-> T],
     [op |-> "status", topic |-> T, partition |-> 1],
     [op |-> "promote", topic |-> T, partition |-> 1, leader |-> 2],
     [op |-> "apply", topic |-> T, partition |-> 1, leader |-> 2, epoch |-> 3,
      hw |-> 17]}

Replica(key, durable) ==
    [op |-> "replicate", topic |-> T, partition |-> 1, offset |-> 18,
     time |-> 5, durable |-> durable, leader |-> 1, epoch |-> 3, key |-> key,
     value |-> <<3, 4>>]
SomeReplicated == {Replica(<<>>, FALSE), Replica(<<<<3>>>>, TRUE)}

Topic(n) ==
    [topic |-> T, partitions |-> n, leaders |-> [i \in 1 .. n |-> i],
     epochs |-> [i \in 1 .. n |-> 3], hws |-> [i \in 1 .. n |-> 17 * i]]
Acked(n) == [partition |-> n, offset |-> 17 + n]
Records ==
    {[op |-> "records", records |-> s] :
       s \in {<<>>,
              <<[offset |-> 18, time |-> 5, key |-> <<>>, value |-> <<3>>],
                [offset |-> 19, time |-> 5, key |-> <<<<2>>>>, value |-> <<>>]>>}}

SomeAnswers ==
    [produce |-> {[op |-> "ack", ack |-> Acked(1)]},
     batch |-> {[op |-> "batch_ack", acks |-> <<Acked(1), Acked(0)>>]},
     fetch |-> Records,
     group_fetch |-> {[op |-> "records", records |-> <<>>]},
     join |-> {[op |-> "joined", generation |-> 20, partitions |-> s] :
                 s \in {<<>>, <<0, 1>>}},
     heartbeat |-> {[op |-> "group_ack"]}, leave |-> {[op |-> "group_ack"]},
     commit |-> {[op |-> "group_ack"]},
     committed |-> {[op |-> "offset", offset |-> o] : o \in {<<>>, <<18>>}},
     create |-> {[op |-> "topics", topics |-> <<Topic(2)>>]},
     describe |-> {[op |-> "topics", topics |-> <<Topic(n)>>] : n \in {2, 3}},
     list |-> {[op |-> "topics", topics |-> s] :
                 s \in {<<>>, <<Topic(1), Topic(2)>>}},
     promote |-> {[op |-> "leadership", partition |-> 1, leader |-> 2,
                   epoch |-> 3, hw |-> 17]},
     apply |-> {[op |-> "leadership", partition |-> 1, leader |-> 2,
                 epoch |-> 3, hw |-> 17]},
     status |-> {[op |-> "next", offset |-> 19]},
     any |-> {[op |-> "error", message |-> <<6, 6>>]}]

Node(i) ==
    [id |-> i, host |-> <<7, i>>, port |-> 90 + i, admin |-> 80, replication |-> 95]
SomeClusters == {<<Node(1)>>, <<Node(1), Node(2)>>, <<Node(2), Node(1)>>}

SomeHash == [k \in {<<2>>, <<3>>} |-> k[1]]

=============================================================================
