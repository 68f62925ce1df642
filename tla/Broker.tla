-------------------------------- MODULE Broker --------------------------------
(***************************************************************************)
(* A broker on its own, from the request to the disk: the request handlers *)
(* of crates/broker/src/lib.rs, the bounded queue to the storage thread,   *)
(* the long poll, the creation of a topic, and the three places that know  *)
(* of a topic: the storage thread, the leadership registry with its file   *)
(* (leadership.rs) and the group coordinator.                              *)
(*                                                                         *)
(* There is one topic.  A producer stands for its request and the records  *)
(* in it, a poller is a consumer that fetches the partition Polled.  What  *)
(* the storage thread does to a log is in PartitionLog; here a log is the  *)
(* sequence of its records.  Handlers run in parallel: a step is what one  *)
(* does between two waits, or one call under a lock.                       *)
(***************************************************************************)
EXTENDS Integers, Sequences, FiniteSets, SequencesExt

CONSTANTS
    Producers,          \* produce requests
    Identified,         \* those with a producer identity, which are sent again
    Durable,            \* those with ack_mode durable
    Batches,            \* those that are batches, of two records
    Hash,               \* Hash[p]: the checksum of p's key or identity
    Pollers,
    Polled,             \* the partition the pollers fetch
    Creators,           \* create_topic requests
    Default,            \* default_partition_count
    AutoCreate,         \* auto_create_topics
    Asked,              \* the partitions the creators ask for
    QueueCapacity,      \* storage_queue_capacity
    OldRecords,         \* records stored by a version without watermarks
    Pitfalls,           \* known to go wrong, allowed in this instance
    MaxFaults           \* bound on crashes, shutdowns, timeouts of the queue,
                        \* and failed writes

Pitfall == {"restart after a failed write", "restart after a failed creation"}

ASSUME BrokerAssumption ==
    /\ Producers \cap Nat = {}
    /\ Producers \cap Pollers = {} /\ Producers \cap Creators = {}
    /\ Pollers \cap Creators = {}
    /\ "monitor" \notin Producers \cup Pollers \cup Creators
    /\ Identified \subseteq Producers /\ Durable \subseteq Producers
    /\ Batches \subseteq Producers \ Identified
    /\ Hash \in [Producers -> Nat]
    /\ Polled \in Nat
    /\ AutoCreate \in BOOLEAN /\ Default \in Nat \ {0} /\ Asked \in Nat \ {0}
    /\ QueueCapacity \in Nat \ {0}
    /\ OldRecords \in Seq(Seq(Nat))
    /\ Pitfalls \subseteq Pitfall
    /\ MaxFaults \in Nat
    /\ OldRecords # <<>> => MaxFaults > 0

VARIABLES
    phase,      \* "down", "up" or "stopping"
    logs,       \* disk: logs[q + 1] is the log of partition q
    file,       \* disk: leadership.meta, the watermark of each partition
    topics,     \* the storage thread's partition count of the topic, 0: none
    robin,      \* the storage thread's round_robin
    entries,    \* the registry in memory
    dealt,      \* the coordinator's topic_partition_counts, 0: none
    queue,      \* commands sent: the first is in the storage thread's hands,
                \* QueueCapacity more in the channel, others wait for a place
    prod,       \* prod[p]: the handler of request p
    poll,       \* poll[c]: the handler of c's fetch, and c's position
    crt,        \* crt[k]: the handler of creation k
    mon,        \* the monitor
    spawned,    \* commits that go on after a leader-mode answer
    faults

disk == <<logs, file>>
storage == <<topics, robin>>
handlers == <<prod, poll, crt, mon>>
vars == <<phase, disk, storage, entries, dealt, queue, handlers,
          spawned, faults>>

\* A line of the registry's file without a watermark, read as u64::MAX.
Legacy == -1

Fault == faults < MaxFaults /\ faults' = faults + 1

IdleProduce(reply) ==
    [pc |-> "idle", acks |-> <<>>, i |-> 1, low |-> FALSE, reply |-> reply]
IdlePoll(pos) ==
    [pc |-> "idle", found |-> 0, wait |-> FALSE, hw |-> 0, woken |-> FALSE,
     pos |-> pos]
IdleCreate(reply) == [pc |-> "idle", reply |-> reply]
IdleMonitor == [pc |-> "idle", count |-> 0]

\* The broker is started for the first time, or on the data of an older
\* version, which is counted as a fault.
Init ==
    /\ phase = "down"
    /\ logs \in {<<>>, OldRecords}
    /\ file = [i \in DOMAIN logs |-> Legacy]
    /\ topics = 0 /\ robin = 0 /\ entries = <<>> /\ dealt = 0
    /\ queue = <<>>
    /\ prod = [p \in Producers |-> IdleProduce("none")]
    /\ poll = [c \in Pollers |-> IdlePoll(0)]
    /\ crt = [k \in Creators |-> IdleCreate("none")]
    /\ mon = IdleMonitor
    /\ spawned = {}
    /\ faults = IF logs = <<>> THEN 0 ELSE 1

-----------------------------------------------------------------------------
(* The leadership registry.                                                *)

\* ensure_topic: partitions that are missing begin with watermark 0.
Ensured(n) ==
    [i \in 1 .. (IF n > Len(entries) THEN n ELSE Len(entries)) |->
        IF i > Len(entries) THEN 0 ELSE entries[i]]

\* The entries are changed first and written to the file then.
Persist(e) ==
    /\ entries' = e
    /\ \/ e = entries /\ UNCHANGED <<file, faults>>
       \/ e # entries /\ file' = e /\ UNCHANGED faults

\* The same when the write fails: an error, and the entries are changed.
PersistFails(e) ==
    /\ phase = "up"
    /\ e # entries
    /\ entries' = e
    /\ Fault
    /\ UNCHANGED file

Registered(q) == q < Len(entries)

\* Mutant of Raised: a watermark may fall.
RaisedAnyhow(ack) == [entries EXCEPT ![ack[1] + 1] = ack[2] + 1]

\* commit: the watermark is moved past the record unless it is there already.
Raised(ack) ==
    [entries EXCEPT ![ack[1] + 1] = IF ack[2] + 1 > @ THEN ack[2] + 1 ELSE @]

\* The record is not below the watermark, or will not be when there is one.
Low(ack) == ~Registered(ack[1]) \/ entries[ack[1] + 1] < ack[2] + 1

\* apply refuses a lower watermark.
StaleEpoch(ack) == Registered(ack[1]) /\ entries[ack[1] + 1] > ack[2] + 1

-----------------------------------------------------------------------------
(* The queue.  tokio gives places in the order in which they were asked    *)
(* for.                                                                    *)

Send(kind, h) == queue' = Append(queue, [kind |-> kind, of |-> h])

\* The commands that were received or have a place; the others wait.
InChannel == IF Len(queue) <= QueueCapacity THEN Len(queue) ELSE QueueCapacity + 1

\* enqueue_timeout passed while the command waited for a place.
TimesOut(h) ==
    \E i \in DOMAIN queue :
        /\ i > InChannel
        /\ queue[i].of = h
        /\ queue' = RemoveAt(queue, i)
        /\ Fault

-----------------------------------------------------------------------------
(* Produce: append, read back, commit.                                     *)

ProduceStart(p) ==
    /\ phase = "up"
    /\ prod[p].pc = "idle"
    /\ IF p \in Identified THEN prod[p].reply # "ok" ELSE prod[p].reply = "none"
    /\ prod' = [prod EXCEPT ![p] = [IdleProduce("none") EXCEPT !.pc = "append"]]
    /\ Send("append", p)
    /\ UNCHANGED <<phase, disk, storage, entries, dealt, poll, crt,
                   mon, spawned, faults>>

ProduceBusy(p) ==
    /\ prod[p].pc \in {"append", "read"}
    /\ TimesOut(p)
    /\ prod' = [prod EXCEPT ![p] = IdleProduce("error")]
    /\ UNCHANGED <<phase, disk, storage, entries, dealt, poll, crt,
                   mon, spawned>>

\* notify_waiters: whoever has enabled its Notified by now is woken.
Notified ==
    [c \in Pollers |-> [poll[c] EXCEPT !.woken = poll[c].pc # "idle"]]

\* The append was answered: waiters are notified, the record is read.
ReadBack(p) ==
    /\ prod[p].pc = "appended"
    /\ prod' = [prod EXCEPT ![p].pc = "read"]
    /\ poll' = Notified
    /\ Send("readback", p)
    /\ UNCHANGED <<phase, disk, storage, entries, dealt, crt, mon,
                   spawned, faults>>

\* The task that commits these records.
Later(acks) ==
    IF acks = <<>> THEN {} ELSE {[acks |-> acks, low |-> Low(Head(acks))]}

\* The next record of a batch is read, or all are there: dispatch_replication
\* answers in leader mode and commits in a task of its own.
Dispatch(p) ==
    LET t == prod[p] IN
    /\ t.pc = "found"
    /\ IF t.i < Len(t.acks)
       THEN /\ prod' = [prod EXCEPT ![p].i = t.i + 1, ![p].pc = "read"]
            /\ Send("readback", p)
            /\ UNCHANGED spawned
       ELSE /\ UNCHANGED queue
            /\ IF p \in Durable
               THEN /\ prod' = [prod EXCEPT ![p].i = 1, ![p].pc = "commit",
                                              ![p].low = Low(t.acks[1])]
                    /\ UNCHANGED spawned
               ELSE /\ prod' = [prod EXCEPT ![p] = [t EXCEPT !.pc = "idle",
                                                             !.reply = "ok"]]
                    /\ spawned' = spawned \cup Later(t.acks)
    /\ UNCHANGED <<phase, disk, storage, entries, dealt, poll, crt,
                   mon, faults>>

\* replicate and commit, without followers, one record after the other.  The
\* entry is read, and changed if the record is not below the watermark.  The
\* reading shows in nothing but a StaleEpoch: it was done while the record was
\* not below, which it can only have been if it was not when the commit began
\* (t.low), and another commit has done more since.
Overtaken(t, ack) == t.low /\ StaleEpoch(ack)

Committed(t) ==
    IF t.i < Len(t.acks) THEN [t EXCEPT !.i = @ + 1, !.low = Low(t.acks[t.i + 1])]
    ELSE [t EXCEPT !.pc = "idle", !.low = FALSE, !.reply = "ok"]

Commit(p) ==
    LET t == prod[p]
        ack == t.acks[t.i] IN
    /\ t.pc = "commit"
    /\ Registered(ack[1])
    /\ Persist(Raised(ack))
    /\ prod' = [prod EXCEPT ![p] = Committed(t)]
    /\ UNCHANGED <<phase, logs, storage, dealt, queue, poll, crt,
                   mon, spawned>>

\* The partition has no entry, another commit was faster, or the entries
\* cannot be written.
CommitFails(p) ==
    LET ack == prod[p].acks[prod[p].i] IN
    /\ prod[p].pc = "commit"
    /\ \/ /\ ~Registered(ack[1]) \/ Overtaken(prod[p], ack)
          /\ UNCHANGED <<entries, file, faults>>
       \/ Registered(ack[1]) /\ PersistFails(Raised(ack))
    /\ prod' = [prod EXCEPT ![p] = IdleProduce("error")]
    /\ UNCHANGED <<phase, logs, storage, dealt, queue, poll, crt,
                   mon, spawned>>

\* The same in the task of a leader-mode request; an error ends it.
CommitLater(s) ==
    LET ack == Head(s.acks) IN
    /\ \/ /\ Registered(ack[1])
          /\ Persist(Raised(ack))
          /\ spawned' = (spawned \ {s}) \cup Later(Tail(s.acks))
       \/ /\ \/ /\ ~Registered(ack[1]) \/ Overtaken(s, ack)
                /\ UNCHANGED <<entries, file, faults>>
             \/ Registered(ack[1]) /\ PersistFails(Raised(ack))
          /\ spawned' = spawned \ {s}
    /\ UNCHANGED <<phase, logs, storage, dealt, queue, handlers>>

-----------------------------------------------------------------------------
(* Fetch and the long poll.                                                *)

Ask(c, t) ==
    /\ poll' = [poll EXCEPT ![c] = t]
    /\ Send("fetch", c)

\* A fetch looks at the watermark after it has read, a group's fetch before:
\* without an entry it is an error at once.
PollStart(c) ==
    /\ phase = "up"
    /\ poll[c].pc = "idle"
    /\ \E grouped, wait \in BOOLEAN :
         /\ grouped => Registered(Polled)
         /\ Ask(c, [poll[c] EXCEPT
                      !.pc = "read", !.wait = wait, !.woken = FALSE,
                      !.hw = IF grouped THEN entries[Polled + 1] ELSE -1])
    /\ UNCHANGED <<phase, disk, storage, entries, dealt, prod, crt,
                   mon, spawned, faults>>

PollBusy(c) ==
    /\ poll[c].pc = "read"
    /\ TimesOut(c)
    /\ poll' = [poll EXCEPT ![c] = IdlePoll(poll[c].pos)]
    /\ UNCHANGED <<phase, disk, storage, entries, dealt, prod, crt,
                   mon, spawned>>

\* Mutant of PollSleep: the Notified is enabled after the read.
PollSleepLate(c) ==
    /\ poll[c].pc = "found" /\ poll[c].found = 0 /\ poll[c].wait
    /\ poll' = [poll EXCEPT ![c].pc = "asleep", ![c].woken = FALSE]
    /\ UNCHANGED <<phase, disk, storage, entries, dealt, queue, prod, crt, mon,
                   spawned, faults>>

\* Nothing was found: wait to be notified, which may have happened already.
PollSleep(c) ==
    /\ poll[c].pc = "found" /\ poll[c].found = 0 /\ poll[c].wait
    /\ poll' = [poll EXCEPT ![c].pc = "asleep"]
    /\ UNCHANGED <<phase, disk, storage, entries, dealt, queue, prod, crt, mon,
                   spawned, faults>>

\* Notified: the loop begins again, with a new Notified that is enabled
\* before the read.
PollAgain(c) ==
    /\ poll[c].pc = "asleep"
    /\ poll[c].woken
    /\ Ask(c, [poll[c] EXCEPT !.pc = "read", !.woken = FALSE])
    /\ UNCHANGED <<phase, disk, storage, entries, dealt, prod, crt,
                   mon, spawned, faults>>

\* Mutant of PollReply: the wait for a notification has no deadline.
PollReplyUntimed(c) ==
    LET t == poll[c]
        hw == IF t.hw >= 0 THEN t.hw ELSE entries[Polled + 1]
        shown == {o \in t.pos .. t.pos + t.found - 1 : o < hw} IN
    /\ t.pc = "found" /\ (t.found > 0 \/ ~t.wait)
    /\ poll' = [poll EXCEPT ![c] =
                  IdlePoll(IF t.hw >= 0 \/ Registered(Polled)
                           THEN t.pos + Cardinality(shown) ELSE t.pos)]
    /\ UNCHANGED <<phase, disk, storage, entries, dealt, queue, prod, crt, mon,
                   spawned, faults>>

\* The answer: what is below the watermark.  The consumer goes on after it.
PollReply(c) ==
    LET t == poll[c]
        hw == IF t.hw >= 0 THEN t.hw ELSE entries[Polled + 1]
        shown == {o \in t.pos .. t.pos + t.found - 1 : o < hw} IN
    /\ \/ t.pc = "found" /\ (t.found > 0 \/ ~t.wait)
       \/ t.pc = "asleep"
    /\ poll' = [poll EXCEPT ![c] =
                  IdlePoll(IF t.hw >= 0 \/ Registered(Polled)
                           THEN t.pos + Cardinality(shown) ELSE t.pos)]
    /\ UNCHANGED <<phase, disk, storage, entries, dealt, queue, prod,
                   crt, mon, spawned, faults>>

-----------------------------------------------------------------------------
(* Topics.                                                                 *)

CreateStart(k) ==
    /\ phase = "up"
    /\ crt[k] = IdleCreate("none")
    /\ crt' = [crt EXCEPT ![k].pc = "create"]
    /\ Send("create", k)
    /\ UNCHANGED <<phase, disk, storage, entries, dealt, prod, poll,
                   mon, spawned, faults>>

CreateBusy(k) ==
    /\ crt[k].pc = "create"
    /\ TimesOut(k)
    /\ crt' = [crt EXCEPT ![k] = IdleCreate("error")]
    /\ UNCHANGED <<phase, disk, storage, entries, dealt, prod, poll,
                   mon, spawned>>

\* Mutant of Created: the registry is left to the monitor.
CreatedOnly(k) ==
    /\ crt[k].pc = "created"
    /\ dealt' = Asked
    /\ crt' = [crt EXCEPT ![k] = IdleCreate("ok")]
    /\ UNCHANGED <<phase, disk, storage, entries, queue, prod, poll,
                   mon, spawned, faults>>

\* The topic is stored: tell the coordinator and the registry.
Created(k) ==
    /\ crt[k].pc = "created"
    /\ dealt' = Asked
    /\ \/ Persist(Ensured(Asked)) /\ crt' = [crt EXCEPT ![k] = IdleCreate("ok")]
       \/ PersistFails(Ensured(Asked))
          /\ crt' = [crt EXCEPT ![k] = IdleCreate("error")]
    /\ UNCHANGED <<phase, logs, storage, queue, prod, poll, mon,
                   spawned>>

\* The monitor's cycle, once a second; ListTopics and DescribeTopic take the
\* same steps.
MonitorStart ==
    /\ phase = "up"
    /\ mon.pc = "idle"
    /\ mon' = [mon EXCEPT !.pc = "list"]
    /\ Send("list", "monitor")
    /\ UNCHANGED <<phase, disk, storage, entries, dealt, prod, poll,
                   crt, spawned, faults>>

MonitorBusy ==
    /\ mon.pc = "list"
    /\ TimesOut("monitor")
    /\ mon' = IdleMonitor
    /\ UNCHANGED <<phase, disk, storage, entries, dealt, prod, poll,
                   crt, spawned>>

\* Mutant of MonitorRegister: what was listed is not registered.
MonitorLook ==
    /\ mon.pc = "listed"
    /\ mon' = IdleMonitor
    /\ UNCHANGED <<phase, disk, storage, entries, dealt, queue, prod, poll, crt,
                   spawned, faults>>

\* with_leaders: the partitions are registered.
MonitorRegister ==
    /\ mon.pc = "listed"
    /\ Persist(Ensured(mon.count)) \/ PersistFails(Ensured(mon.count))
    /\ mon' = IdleMonitor
    /\ UNCHANGED <<phase, logs, storage, dealt, queue, prod, poll,
                   crt, spawned>>

-----------------------------------------------------------------------------
(* The storage thread.                                                     *)

\* The command it works on.
hand == IF queue = <<>> THEN [kind |-> "none", of |-> "nobody"] ELSE Head(queue)

\* The partitions the topic gets if this command finds that there is none.
Wanted(kind) ==
    CASE kind = "create" -> Asked
      [] kind \in {"append", "readback", "fetch"} /\ AutoCreate -> Default
      [] OTHER -> 0

\* create_topic opens the logs one after the other.
OpenPartition ==
    /\ topics = 0
    /\ Len(logs) < Wanted(hand.kind)
    /\ logs' = Append(logs, <<>>)
    /\ UNCHANGED <<phase, file, storage, entries, dealt, queue,
                   handlers, spawned, faults>>

\* Every log is open; topics is changed last.
Ready == queue # <<>> /\ (topics # 0 \/ Len(logs) >= Wanted(hand.kind))

\* The topic's partitions when the command is carried out, 0: UnknownTopic.
Count == IF topics # 0 THEN topics ELSE Wanted(hand.kind)

Done == queue' = Tail(queue)

\* The answer is dropped when its handler is gone.
Answered(old, new) == IF phase = "up" THEN new ELSE old

\* select_partition: by the key or the identity, or in turn.
Destination(p, i) ==
    IF p \in Identified THEN Hash[p] % Count ELSE (robin + i - 1) % Count

\* The records of p's request that go to partition q.
Batch(p) == IF p \in Batches THEN 1 .. 2 ELSE 1 .. 1
Going(p, q) == {i \in Batch(p) : Destination(p, i) = q}

\* Mutant of Duplicate: the identity is not looked up.
DuplicateUnknown(p) == FALSE

\* The log of an identified record has it already.
Duplicate(p) ==
    p \in Identified /\ p \in ToSet(logs[Destination(p, 1) + 1])

Ack(p, i) ==
    LET q == Destination(p, i) IN
    <<q, IF Duplicate(p) THEN SelectInSeq(logs[q + 1], LAMBDA r : r = p) - 1
         ELSE Len(logs[q + 1]) + Cardinality({j \in Going(p, q) : j < i})>>

\* append_record and append_batch_records.
ExecuteAppend ==
    LET p == hand.of IN
    /\ hand.kind = "append"
    /\ Ready
    /\ Count # 0
    /\ topics' = Count
    /\ robin' = IF p \in Identified THEN robin
                ELSE (robin + Cardinality(Batch(p))) % Count
    /\ logs' = IF Duplicate(p) THEN logs
               ELSE [l \in DOMAIN logs |->
                       logs[l] \o [j \in 1 .. Cardinality(Going(p, l - 1)) |-> p]]
    /\ prod' = Answered(prod,
                 [prod EXCEPT ![p].pc = "appended",
                              ![p].acks = [i \in Batch(p) |-> Ack(p, i)]])
    /\ Done
    /\ UNCHANGED <<phase, file, entries, dealt, poll, crt, mon,
                   spawned, faults>>

\* read_records for record_at.
ExecuteReadBack ==
    /\ hand.kind = "readback"
    /\ Ready
    /\ prod' = Answered(prod, [prod EXCEPT ![hand.of].pc = "found"])
    /\ Done
    /\ UNCHANGED <<phase, disk, storage, entries, dealt, poll, crt,
                   mon, spawned, faults>>

\* What the storage thread answers to a fetch at pos: some of what is there,
\* limited by max_bytes.
Found(pos) ==
    LET there == Len(logs[Polled + 1]) - pos IN
    IF there > 0 THEN 1 .. there ELSE {0}

\* read_records.
ExecuteFetch ==
    LET c == hand.of IN
    /\ hand.kind = "fetch"
    /\ Ready
    /\ Count # 0 /\ Polled < Len(logs)
    /\ topics' = Count
    /\ \E n \in Found(poll[c].pos) :
         poll' = Answered(poll, [poll EXCEPT ![c].pc = "found", ![c].found = n])
    /\ Done
    /\ UNCHANGED <<phase, disk, robin, entries, dealt, prod, crt, mon, spawned,
                   faults>>

\* UnknownTopic or UnknownPartition.
ExecuteUnknown ==
    /\ hand.kind \in {"append", "fetch"}
    /\ Ready
    /\ Count = 0 \/ (hand.kind = "fetch" /\ Polled >= Len(logs))
    /\ topics' = Count
    /\ IF hand.kind = "append"
       THEN /\ prod' = Answered(prod, [prod EXCEPT ![hand.of] = IdleProduce("error")])
            /\ UNCHANGED poll
       ELSE /\ poll' = Answered(poll, [poll EXCEPT ![hand.of] = IdlePoll(@.pos)])
            /\ UNCHANGED prod
    /\ Done
    /\ UNCHANGED <<phase, disk, robin, entries, dealt, crt, mon,
                   spawned, faults>>

\* create_topic, or TopicAlreadyExists.
ExecuteCreate ==
    /\ hand.kind = "create"
    /\ Ready
    /\ topics' = Count
    /\ crt' = Answered(crt,
                [crt EXCEPT ![hand.of] =
                   IF topics = 0 THEN [@ EXCEPT !.pc = "created"]
                   ELSE IdleCreate("error")])
    /\ Done
    /\ UNCHANGED <<phase, disk, robin, entries, dealt, prod, poll,
                   mon, spawned, faults>>

\* A log cannot be opened, or topic.meta not be written: the logs that are
\* open stay open, the topic is not there.
CreationFails ==
    /\ phase = "up"
    /\ topics = 0
    /\ hand.kind \in {"create", "append", "fetch"}
    /\ Wanted(hand.kind) # 0
    /\ Fault
    /\ prod' = IF hand.kind = "append"
               THEN [prod EXCEPT ![hand.of] = IdleProduce("error")] ELSE prod
    /\ poll' = IF hand.kind = "fetch"
               THEN [poll EXCEPT ![hand.of] = IdlePoll(@.pos)] ELSE poll
    /\ crt' = IF hand.kind = "create"
              THEN [crt EXCEPT ![hand.of] = IdleCreate("error")] ELSE crt
    /\ Done
    /\ UNCHANGED <<phase, disk, storage, entries, dealt, mon,
                   spawned>>

\* ListTopics.
ExecuteList ==
    /\ hand.kind = "list"
    /\ mon' = Answered(mon, [pc |-> "listed", count |-> topics])
    /\ Done
    /\ UNCHANGED <<phase, disk, storage, entries, dealt, prod, poll,
                   crt, spawned, faults>>

-----------------------------------------------------------------------------
(* Start, shutdown and crash.                                              *)

\* What every client sees when its connection is closed.
Disconnected ==
    /\ prod' = [p \in Producers |->
                  IF prod[p].pc = "idle" THEN prod[p] ELSE IdleProduce("error")]
    /\ poll' = [c \in Pollers |-> IdlePoll(poll[c].pos)]
    /\ crt' = [k \in Creators |->
                 IF crt[k].pc = "idle" THEN crt[k] ELSE IdleCreate("error")]
    /\ mon' = IdleMonitor

\* The next start will find another state than this process has, which is
\* one of the pitfalls.
Awry ==
    \/ entries # file /\ "restart after a failed write" \notin Pitfalls
    \/ /\ topics \notin {0, Len(logs)}
       /\ "restart after a failed creation" \notin Pitfalls

\* Mutant of Recovered: lines without a watermark are taken as they are.
RecoveredUnmigrated ==
    [i \in 1 .. (IF Len(logs) > Len(file) THEN Len(logs) ELSE Len(file)) |->
        IF i > Len(file) THEN 0 ELSE file[i]]

\* The registry after open, ensure_topic and migrate_high_watermark: what an
\* older version wrote gets the end of its log as watermark.
Recovered ==
    [i \in 1 .. (IF Len(logs) > Len(file) THEN Len(logs) ELSE Len(file)) |->
        CASE i > Len(file) -> 0
          [] i <= Len(file) /\ file[i] = Legacy -> Len(logs[i])
          [] OTHER -> file[i]]

\* run: recover_storage counts the directories, the registry is completed,
\* the coordinator is told.
Start ==
    /\ phase = "down"
    /\ phase' = "up"
    /\ topics' = Len(logs)
    /\ dealt' = Len(logs)
    /\ entries' = Recovered
    /\ file' = Recovered
    /\ UNCHANGED <<logs, robin, queue, handlers, spawned, faults>>

\* The first of these commands to want a topic, where there is none, makes it
\* over logs that a failed creation has left: with fewer partitions than the
\* next start will count.
FirstToWant(q, i) ==
    Wanted(q[i].kind) # 0 /\ \A j \in 1 .. i - 1 : Wanted(q[j].kind) = 0

Leftover(q) ==
    /\ topics = 0
    /\ \E i \in DOMAIN q : FirstToWant(q, i) /\ Wanted(q[i].kind) < Len(logs)

\* The connections are aborted, what is in the channel is still carried out,
\* a creation that was begun included.
Shutdown ==
    LET left == SubSeq(queue, 1, InChannel) IN
    /\ phase = "up"
    /\ ~Awry
    /\ Leftover(left) => "restart after a failed creation" \in Pitfalls
    /\ Fault
    /\ phase' = "stopping"
    /\ queue' = left
    /\ Disconnected
    /\ UNCHANGED <<disk, storage, entries, dealt, spawned>>

Off ==
    /\ phase' = "down"
    /\ topics' = 0 /\ robin' = 0 /\ entries' = <<>> /\ dealt' = 0
    /\ queue' = <<>> /\ spawned' = {}

\* The storage thread ends when nobody is left who could send to it.
Stopped ==
    /\ phase = "stopping"
    /\ queue = <<>> /\ spawned = {}
    /\ Off
    /\ UNCHANGED <<disk, handlers, faults>>

Crash ==
    /\ phase # "down"
    /\ ~Awry
    /\ Fault
    /\ Off
    /\ Disconnected
    /\ UNCHANGED <<disk>>

-----------------------------------------------------------------------------
ProduceStep(p) == 
    ReadBack(p) \/ Dispatch(p) \/ Commit(p) \/ CommitFails(p)
PollStep(c) == PollSleep(c) \/ PollAgain(c) \/ PollReply(c)

StorageStep ==
    \/ OpenPartition
    \/ ExecuteAppend \/ ExecuteReadBack \/ ExecuteFetch \/ ExecuteUnknown
    \/ ExecuteCreate \/ ExecuteList

Next ==
    \/ \E p \in Producers : ProduceStart(p) \/ ProduceBusy(p) \/ ProduceStep(p)
    \/ \E s \in spawned : CommitLater(s)
    \/ \E c \in Pollers : PollStart(c) \/ PollBusy(c) \/ PollStep(c)
    \/ \E k \in Creators : CreateStart(k) \/ CreateBusy(k) \/ Created(k)
    \/ MonitorStart \/ MonitorBusy \/ MonitorRegister
    \/ StorageStep \/ CreationFails
    \/ Start \/ Shutdown \/ Stopped \/ Crash

Spec == Init /\ [][Next]_vars

\* The storage thread and tokio's tasks run, the monitor's interval fires.
\* Clients are the ones the liveness properties speak of: an identified
\* producer sends until it is answered well, a consumer polls forever.
FairSpec ==
    /\ Spec
    /\ WF_vars(StorageStep)
    /\ WF_vars(MonitorStart) /\ WF_vars(MonitorRegister)
    /\ WF_vars(\E s \in spawned : CommitLater(s))
    /\ WF_vars(Stopped)
    /\ \A p \in Producers : WF_vars(ProduceStep(p))
    /\ \A p \in Identified : WF_vars(ProduceStart(p))
    /\ \A c \in Pollers : WF_vars(PollStart(c)) /\ WF_vars(PollStep(c))
    /\ \A k \in Creators : WF_vars(Created(k))

-----------------------------------------------------------------------------
ProduceType ==
    [pc : {"idle", "append", "appended", "read", "found", "commit"},
     acks : Seq(Nat \X Nat), i : Nat, low : BOOLEAN, reply : {"none", "ok", "error"}]
PollType ==
    [pc : {"idle", "read", "found", "asleep"}, found : Nat, wait : BOOLEAN,
     hw : Nat \cup {-1}, woken : BOOLEAN, pos : Nat]

\* Every variable keeps the shape its Rust type gives it.
TypeOK ==
    /\ phase \in {"down", "up", "stopping"}
    /\ logs \in Seq(Seq(Producers \cup Nat))
    /\ file \in Seq(Nat \cup {Legacy})
    /\ topics \in Nat /\ robin \in Nat /\ dealt \in Nat
    /\ entries \in Seq(Nat)
    /\ prod \in [Producers -> ProduceType]
    /\ poll \in [Pollers -> PollType]
    /\ crt \in [Creators -> [pc : {"idle", "create", "created"},
                            reply : {"none", "ok", "error"}]]
    /\ mon \in [pc : {"idle", "list", "listed"}, count : Nat]
    /\ spawned \subseteq [acks : Seq(Nat \X Nat), low : BOOLEAN]
    /\ faults \in 0 .. MaxFaults

\* README: "Long-poll fetches".  A fetch that sleeps although there is a
\* record for it has been notified, or the append that stored the record is
\* about to notify: no record that arrives between the read and the sleep is
\* missed.
NoLostWakeup ==
    \A c \in Pollers :
        poll[c].pc = "asleep" /\ Len(logs[Polled + 1]) > poll[c].pos =>
            \/ poll[c].woken
            \/ \E p \in Producers : prod[p].pc = "appended"

\* README: "Idempotent producers using producer IDs and sequence numbers": a
\* record with an identity is stored once in the whole topic, although it is
\* sent again after "broker busy", an error of the registry, an aborted
\* connection or a crash: what routes it does not change.
StoredOnce ==
    \A p \in Identified, l, m \in DOMAIN logs :
        \A i \in DOMAIN logs[l], j \in DOMAIN logs[m] :
            logs[l][i] = p /\ logs[m][j] = p => l = m /\ i = j

\* What was acknowledged is where the answer says, and what was acknowledged
\* as durable is below the watermark: the log, the registry and its file agree
\* on it after concurrent commits, retries and restarts.
AckedVisible ==
    \A p \in Producers : prod[p].reply = "ok" =>
        \A i \in DOMAIN prod[p].acks :
            LET q == prod[p].acks[i][1]
                o == prod[p].acks[i][2] IN
            /\ logs[q + 1][o + 1] = p
            /\ p \in Durable /\ phase = "up" => entries[q + 1] > o

\* A topic whose creation was acknowledged keeps the partitions that were
\* asked for, on disk, in the storage thread, in the registry and at the
\* coordinator, beside requests that create the topic with another number of
\* partitions, failed creations and restarts.
CreationKept ==
    (\E k \in Creators : crt[k].reply = "ok") =>
        /\ Len(logs) = Asked
        /\ phase = "up" => topics = Asked /\ dealt = Asked /\ Len(entries) = Asked

\* Every request is answered or its connection closed, and a shutdown ends:
\* handlers wait for the storage thread and for each other's places in the
\* queue, the storage thread for nobody.
AllAnswered ==
    /\ \A p \in Producers : []<>(prod[p].pc = "idle")
    /\ \A c \in Pollers : []<>(poll[c].pc = "idle")
    /\ \A k \in Creators : []<>(crt[k].pc = "idle")
    /\ []<>(phase # "stopping")

\* A durable record of a producer that sends until it is answered well is
\* acknowledged and reaches every consumer of its partition, once the broker
\* stays up: also when the first attempt created the topic and failed for want
\* of a registry entry, and when watermarks are read before or after a long
\* poll.
Delivered ==
    <>[](phase = "up") /\ AutoCreate =>
        \A p \in Identified \cap Durable, c \in Pollers :
            <>(/\ prod[p].reply = "ok"
               /\ \A i \in DOMAIN prod[p].acks :
                    prod[p].acks[i][1] = Polled =>
                        poll[c].pos > prod[p].acks[i][2])

=============================================================================
