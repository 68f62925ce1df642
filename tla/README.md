# SevlaMQ in TLA+

A verification project for SevlaMQ, a small distributed message broker in Rust.
It models the parts of the broker in which several tasks, brokers or processes
meet: replication of a partition with its commit and failover, the partition log
on disk with its crash recovery, consumer groups with the consumer that uses them,
a single broker from its request handlers over the storage queue to the disk, and
the client's connections with the wire protocol. TLC checks the models on small
instances; TLAPS proves the safety of replication, of the log on disk, of consumer groups
and of a single broker for every size of the cluster and any number of requests.

Paths below are relative to the repository: `broker` is `crates/broker/src/lib.rs`,
`storage` is `crates/storage/src/lib.rs`, `groups` is `crates/broker/src/groups.rs`,
`client` is `crates/client/src/lib.rs`, `protocol` is `crates/protocol/src/lib.rs`, `consume` and `retry` are files of
`bin/sevlamq-cli/src/commands/`.

## The system

| Part | State | Operations | Talks to |
|---|---|---|---|
| Connection handlers (`broker` 305-735) | none of their own | produce, batch, fetch, group fetch, topic and leadership requests | storage thread, registry, replicator, coordinator |
| Replicator (`broker` 749-942) | none; a task per produce | push to each follower in ring order, catch-up, commit, broadcast | followers over TCP, registry |
| Replication listener (`broker` 1285-1360) | none; a task per connection | check the epoch, truncate, adopt the leadership, write | storage thread, registry |
| Leadership registry (`leadership.rs`) | leader, epoch and high watermark per partition, in memory and in a file | ensure_topic, apply | everyone, under one lock |
| Promotion and monitor (`broker` 544-642, 998-1149) | failed probes per partition | manual promotion, probes, choice of a candidate | brokers over TCP, registry |
| Follower recovery and sync (`broker` 944-996, 1151-1283) | none; a task that runs every second | metadata from the controller, fetch from the leader, write | client, storage thread, registry |
| Storage queue (`broker` 1974-2203, 2289-2337) | a bounded channel, the waiters of `new_records` | enqueue with a timeout, long poll, notification | handlers, storage thread |
| Storage thread (`broker` 2339-2805) | open partition logs, topics, `topic.meta` files, round robin | one command at a time: append, batch, read, create, list, replicate, truncate, retention | partition logs |
| Partition log (`storage`) | segment files; in memory: segments, sparse index, next offset, last sequence of each producer | open, append, append_replica, read, truncate_to, apply_retention | the file system |
| Group coordinator (`groups`) | generation, members, assignments; a file per committed offset | join, heartbeat, leave, commit, authorize_fetch, expiry | one lock; a sweeper every second |
| Consumer (`consume`, `retry`) | generation, assigned partitions, offsets | join, heartbeat task, fetch, handle, retry topics, commit | one broker over TCP |
| Client (`client`) | a connection with a read and a write buffer | the calls, each one to four requests; routing by the controller's metadata | brokers over TCP |
| Wire protocol (`protocol`, `broker` 230-303) | none; a read buffer per connection | encode, take a frame, decode | client, handlers, replication listener |
| Observability, configuration, daemon | see "Not modelled" | | |

What is hard in it:

* every request is a task of its own, and each `await` lets another one in: two
  durable commits, a commit and a promotion, a push and a recovery fetch interleave;
* the epoch and the watermark are read, kept over network calls that take up to
  two seconds, and used afterwards;
* a push is abandoned after a timeout while its handler may still run;
* broadcasts are sent once and may be lost; brokers learn the same facts on
  several ways in any order;
* brokers, consumers and the process that writes a log crash at any step;
* logs are truncated and offsets are used again after a change of leader;
* consumers that were thought dead go on working;
* a produce waits for the storage queue twice, and each time it may be told that the
  broker is busy although its record is stored;
* a long poll must not sleep through the append that happens between its read and
  its sleep;
* a topic is known in four places that are changed one after the other, and any of
  the changes may fail or be the last before a crash;
* bytes arrive in pieces, and a call may be dropped while its answer is on the way.

What makes each part correct is stated as the properties in "Runs" below.

## Modules

| Module | What it is |
|---|---|
| `Replication` | one partition in a cluster: produce, push, commit, broadcast, promotion, monitor, recovery, fetch, crashes |
| `CommitLog` | what a partition promises its clients while its leader does not change: one growing sequence of committed records |
| `MCReplication` | `Replication` for TLC |
| `ReplicationProofs`, `ElectionProofs`, `SteadyProofs` | theorems about `Replication`: types and offsets, leaderships, and what holds while the leader stays |
| `PartitionLog` | the segment files of one partition, the commands that change them, crash and recovery |
| `RecordLog` | what a partition log promises: a sequence of records that changes at its ends only |
| `MCPartitionLog` | `PartitionLog` for TLC |
| `LogLemmas`, `LogProofs` | theorems about `PartitionLog`: what its operators compute, the invariant of the log, the refinement of `RecordLog` |
| `ConsumerGroup` | the coordinator and the consumers of one group on one topic |
| `GroupProofs` | theorems about `ConsumerGroup`: types and owners, delivery |
| `Broker` | one broker and one topic: the handlers of produce, fetch and create, the storage queue and thread, the registry and its file, start, shutdown and crash |
| `MCBroker` | `Broker` for TLC |
| `BrokerProofs`, `StoredProofs` | theorems about `Broker`: types and wakeups, what stays stored |
| `Protocol` | the codec: every encoder and every decoder, and how frames are taken from a buffer |
| `Connection` | the client's calls, its connections and the brokers' loops, on top of `Protocol` |
| `MCConnection` | `Connection` for TLC: requests and responses of every kind |

`PROJECT.json` maps every definition to the lines it models.

### Replication

A step is what happens between two points at which another task may run: one
storage command (the storage thread runs them one at a time), one call on the
registry (under its lock), or one message sent. `task[p]` is the handler of produce
request `p` with its locals, `rpcs` the replicate requests followers are working on,
`cast[c]` a broadcast, `promo[q]` a call of `promote_leader` (the monitor is one
more caller), `fetch[f]` a consumer's fetch or a follower's recovery worker. The
actions are named after the function they belong to: `ProduceCheck`, `ProduceAppend`,
`ProduceReadBack`; `SendReplica`, `CatchUp`, `FollowerFails`; on the follower
`ReplicaReceive`, `ReplicaReject`, `ReplicaTruncate`, `ReplicaApply`, `ReplicaWrite`,
`ReplicaDiverged`; `CommitRead`, `CommitApply`, `AlreadyCommitted`, `CommitStale`;
`CastSend`, `CastSkip` and `ApplyReceive`, `ApplyTruncate`, `ApplyInstall` at the
receiver; `PromoteStart` to `PromoteReply`; `ProbeAnswered`, `ProbeMissed`,
`AutoSelect`, `AutoNone`; `FetchStart`, `GroupFetchStart`, `FetchRead`, `FetchReply`,
`GroupFetchReply`; `SyncRead`, `SyncApply`, `RecoverStart`, `RecoverFetch`,
`RecoverReceive`, `RecoverWrite`; `Crash` and `Restart`.

Abstractions: one partition (partitions share no state but the queue); a record and
the request that appends it are one value; a batch is a number of requests; a timeout
may strike at any time while its peer is slow (`FollowerFails` and late `ReplicaStep`s);
the limit on a fetch's bytes is left out; the verification of a promotion reads the
replicas' offsets in one step; retention does not run; a crash is a crash of the
process, so logs and registry files survive it.

### PartitionLog

`files` is the disk (a segment file may end in a torn record), `segments`, `next` and
`known` are the fields of `PartitionLog`, `op` is the command in progress and `acked`
remembers what producers were told. A command is a number of changes of the file
system and a crash may come between any two of them, or inside a write. `Open` is
`PartitionLog::open` with all of its refusals (`Recoverable`). Bytes are abstract
lengths, so that rotation and sparse indexing happen at their real conditions.
The index files are rewritten at every start and read by nobody; only the index in
memory is modelled. What loops of the code compute is said of the result: `Recalled`
is the last record of each producer (`recover_segment` remembers one record after the
other), `Sorted` the bases in their order, `Pick` the records that `read` pushes;
`Bytes` and `Recovered` are recursive functions. `Low` and `Records` are the mapping
to `RecordLog`.

`Pitfalls` names three things that are known to go wrong: a restart after retention,
a truncation after retention, a crash in a truncation. An instance lists those it
lets happen; the passing run lists none, and thereby shows that nothing else goes
wrong with what is modelled.

### ConsumerGroup

`group`, `overdue` and `committed` are the coordinator's state (`overdue` stands for
the clocks: a session may lapse at any time), `consumer[m]` is the process that
consumes as `m`: its program counter follows `execute`, `consume_generation` and
`process_record`. A request and its answer are one step, for a consumer waits for
each answer; only a commit may be handled after its sender is gone. `mode` is the
delivery mode, chosen once. `Pitfalls` names two things that are known to go wrong:
partitions added to a group that has members, and a commit handled after its sender
was started again under the same name.

### Broker

Where `Replication` looks at one partition in many brokers, `Broker` looks at one
broker: what a handler waits for, and who learns of a topic when. `queue` holds the
commands that were sent; the first is in the storage thread's hands, `QueueCapacity`
more have a place in the channel, and the others wait for one until `enqueue_timeout`
passes (`TimesOut`). `prod[p]`, `poll[c]`, `crt[k]` and `mon` are the handlers with
their locals; `spawned` the tasks that commit after a leader-mode answer. `logs` and
`file` are on disk; `topics`, `entries` and `dealt` are what the storage thread, the
registry and the coordinator know of the topic. A topic is created by `CreateStart`
to `Created`, or by the first append or fetch (`Wanted`); its logs are opened one by
one (`OpenPartition`). `Persist` and `PersistFails` change the entries and then the
file, as `ensure_topic` and `apply` do. The broker has no followers here: a commit
is the reading and the change of the entry.

`Pitfalls` names two things that are known to go wrong. "restart after a failed
write": the entry was changed in memory and not in the file, the commit that is tried
again finds nothing to change and answers well, and the restart forgets it. "restart
after a failed creation": the next start counts the directories that were made, so
the topic has another number of partitions than before the crash, and an identity
another partition. A shutdown is the same when the storage thread, which still carries
out what is in the channel, would create the topic over those logs (`Leftover`);
any other shutdown may come at any moment, in a half-done creation too.

### Protocol and Connection

Frames are sequences of bytes of a smaller base, so that widths, lengths and the
order of the fields are those of the code while the frames stay short. Encoders and
decoders are separate definitions, each after its own function; a decoder reads
fields one by one and fails where the code does. `Encodable` and `Answerable` are the
checks of the request and the response encoders; an answer that fails them ends the
connection like any error that is not answered (`ServerDies`). `Connection` puts them to work:
`conn["own"]` is the client's connection, `conn["other"]` one that is opened for one
request (`request_at`, `send_replica`). `call.stage` says which request of the call
is waited for: a routed call asks for the cluster's metadata, again in `describe_topic`,
for the topic's, and then sends its own request to the leader. `ClientRead` and
`ServerRead` move any number of bytes.

## Runs

Passing:

| Run | Instance | What it shows |
|---|---|---|
| `steady` | 3 brokers, quorum 2, two durable producers, a consumer, one crash | `LogMatching`, `HwBacked`, `DurableAck`, `ExposedCommitted`, and `KeepsPromise`: the cluster implements `CommitLog` while the leader stays |
| `failover` | 2 brokers, quorum 1, the leader at first not the controller, a durable producer, a manual promotion and the monitor, the leader's sync and recovery worker, lossy connections, one crash and restart | `TypeOK`, `ElectionSafety`, `ControllerAhead`, `LeadershipSpreads` |
| `failover_live` | 3 brokers, quorum 2, one producer, a recovery worker, one broker dies for good | `DurableSurvives`, `LeaderReplaced` |
| `recovery` | 2 brokers, quorum 1, a durable and a leader-mode producer, the follower's recovery worker, one crash | `LogMatching`, `OffsetKept`, `RecoveryCatchesUp` |
| `log` | 5 offsets, segments of two or three records, one idempotent producer and records without identity, two crashes in appends or rotations | `TypeOK`, `AckedKept`, `ReadExact`, `DedupExact`, `Reopens`, and `KeepsRecords`: the files implement `RecordLog` |
| `groups` | 2 members, 2 partitions of 2 records, created before the first join or never, one fault | `TypeOK`, `AtLeastOnce`, `AtMostOnce`, `OwnersDisjoint`, `Drained` |
| `broker` | an idempotent durable producer that retries, a batch in leader mode, a polling consumer, a creation with two partitions beside automatic creation with one, a queue of one place, started empty or on an older version's data, one fault | `TypeOK`, `NoLostWakeup`, `StoredOnce`, `AckedVisible`, `CreationKept`, `AllAnswered`, `Delivered` |
| `wire` | 21 calls and two replicated records, clusters of one and two brokers, two connections, `MaxFrameSize` the length of the longest answer | `ReceivedAsSent`, `AnswersInOrder`, `NeverRefused`, `CallsEnd` |

The bounds are the smallest in which the case a property is about occurs: two
producers to interleave commits, three brokers so that a quorum excludes one, one
crash because the replication policies of the instances tolerate one, two records in
a segment so that an index skips one, three segments so that retention and rotation
meet, two crashes so that a recovered log crashes again, two members so that
partitions change hands, a queue of one place so that three handlers compete for it,
two partitions so that the number of partitions decides where a record goes, messages
of every kind with their optional parts present and absent, one of them as long as a
frame may be. `failover` has two brokers, because with lossy connections and a
promotion three are beyond TLC; what it says of epochs is proved for every cluster.
The runs do not check for deadlock: clients stop asking and
the counters end, so every model may rest.

Where the code does what the repository's documentation says it does not (one
finding each in `PROJECT.json`):

| Run | Property | What happens |
|---|---|---|
| `durable_lost` | `DurableSurvives` | Two durable requests: the second finds the watermark already past its record and answers, the first has not broadcast it yet, the leader dies; the promotion goes by the controller's older watermark and cuts the acknowledged record off. |
| `divergent_tail` | `EpochsRespected` | A broker truncates its log, a produce it had admitted before appends once more, and then it adopts the new epoch over that tail. Both halves of the property fail alone as well: a controller that promotes another broker, or a broker that syncs, adopts the epoch without truncation (`TailTruncated`); a follower checks the epoch, adopts a newer one in another task, and then writes what the deposed leader sent (`StaleRejected`). |
| `exposed_early` | `NeverBeforeQuorum` | A deposed leader's commit reads the new leadership and raises its watermark over another record that is not on a quorum. |
| `retention_restart` | `Reopens` | Retention removes the first segment; the next start expects one at offset 0 and the broker does not start. |

Consequences of these that have no run of their own: after `exposed_early` the
watermark may be one that no surviving log reaches, and the monitor then never finds
a candidate for a dead leader; after `durable_lost` a consumer may have been given a
record that is gone. A crash in `truncate_to` may fail `Reopens` (while it removes the files) and
`AckedKept`, a
truncation after retention renumbers records and fails `KeepsRecords`, a late commit
fails `AtMostOnce`, and added partitions fail `Drained`: each can be seen by naming
the pitfall in `log.cfg` or `groups.cfg`. A partition that another broker leads
(`Led` in `groups.cfg` a proper subset) fails `Drained` too: its fetch is refused, the
consumer takes this for a new generation and rejoins forever. The pitfalls of
`broker.cfg` need two faults (`MaxFaults = 2`): the first fails `AckedVisible`, the
second `StoredOnce`. An answer to a topic list or a join that is longer than
`MAX_FRAME_SIZE` is written all the same, for only the encoder of a fetch checks its
length, and the client refuses it: `NeverRefused` fails as soon as `MaxFrameSize` in
`wire.cfg` is one less.

Each property of a passing run has a mutant in `PROJECT.json`, a plausible slip in
the code that violates it; the mutated definitions stand before the real ones and
are used by nothing.

## Fairness

Safety is checked without fairness. For liveness only what the runtime does by
itself is assumed: tokio runs every task it was given, every network wait has a
timer, the monitor, recovery worker and sweeper are intervals that fire forever, and
the session of a process that is gone lapses. `LeadershipSpreads` assumes no fairness at
all: its premise is that the worker's request for the metadata gets through again and
again (`SyncRead` happens infinitely often), which lossy connections do not promise;
what follows it inside the worker is part of the same round. `FairRecoverySpec` has weak fairness of
the recovery workers; `FairFailoverSpec` of the monitor, promotions, broadcasts and
produce handlers; `ConsumerGroup!FairSpec` of the consumers' steps, their heartbeats,
the handling of commits, the sweeper and the lapse of dead sessions.
`Broker!FairSpec` has weak fairness of the storage thread, of every handler once it runs, of the monitor's
interval and of the commit tasks; two clients are assumed to go on, because
`Delivered` is about them: an idempotent producer sends until it is answered well, a
consumer polls again. `Connection!Spec` has weak fairness of both ends of a connection:
sockets deliver, and a request that was read is answered, which is what `AllAnswered`
shows of the handlers. Otherwise nothing is assumed of clients, operators, handlers'
results, crashes or restarts: the liveness properties say "while the controller runs", "once brokers stay up", "while some
consumer runs" instead.

## Proofs

### Replication

For every number of brokers, every replication policy `Config::cluster_nodes`
accepts (`ClusterAssumption`) and any sets of requests (`InstanceAssumption`), TLAPS
proves of `Replication!Spec`, with promotions, crashes and restarts:

* `TypeCorrect` : `[]TypeOK`. The inductive invariant `TypeInv` adds that a recovery
  worker that is about to write has something to write.
* `OneLeaderPerEpoch` and `NobodyAheadOfController` : `[]ElectionSafety` and
  `[]ControllerAhead`. Neither is inductive: a leadership is copied into a handler, a
  request, a broadcast or a promotion and installed many steps later. `EpochInv` says
  of every leadership that is held anywhere (`Held`) that its epoch has one leader and
  is not above the controller's. The lemmas `Known...` show, task by task, that a step
  only holds what was held before, up to a watermark that a quorum has just earned
  (`Gained`), with the exception of `PromoteApply`, which makes a leadership of a new
  epoch.
* `RecordsKeepTheirOffset` : `[]OffsetKept`. `OffsetInv` says of every copy of a record
  on its way to a log (a record read back, a request, an answer to a fetch) what the
  property says of logs; `Given` says that an offset, once given, stays.

And of `Replication!SteadySpec`, in which nobody is promoted but brokers crash and
restart, connections fail and requests are handled late:

* `FollowersMatch`, `WatermarksBacked`, `DurableOnQuorum`, `ExposedOnQuorum` :
  `[]LogMatching`, `[]HwBacked`, `[]DurableAck`, `[]ExposedCommitted`. The invariant
  `SteadyInv` has four parts. `LeaderInv`: every leadership held anywhere names the
  deterministic leader and epoch 0, so nothing is ever truncated. `CopyInv`: every copy
  of a record, in a log or on its way to one, is of a record in the leader's log; that
  it is at the right place there follows from `OffsetInv`, which is why log matching
  needs no more than this. `QuorumInv`: a replica that acknowledged a record has it,
  and every watermark held anywhere is backed by a quorum; it uses `Gained` of the
  election proofs and that logs only grow. `AnswerInv`: what was answered or delivered
  is below the leader's watermark, which no step lowers (lemma `ForwardStep`).
* `Implements` : `SteadySpec => KeepsPromise`, the refinement of `CommitLog`. The
  committed sequence is the leader's log up to its watermark; a change of the log or of
  the watermark extends it, the two actions that answer a durable producer acknowledge,
  a reader's step delivers, every other step stutters.

### PartitionLog

For any sets of requests and producers, any sizes of records, any segment size and index
interval, any number of crashes (`LogAssumption`), if none of the three pitfalls is
stepped into. `Pitfalls = {}` means that the process dies in an append or a rotation, or
between commands, but not in `truncate_to` and not once retention has taken the first
segment, and that nothing is truncated after that; what these break is said in "Runs".
All seven theorems rest on it:

* `LogInvariant` : `[]LogInv`. The properties speak of what the files hold; none of them
  is inductive, for an append goes by what the memory says, and a truncation by what it
  has read before. `LogInv` names the bases `s` and the contents `c` of the files.
  `Sound`: the segments are laid out one after the other (`Laid`), each in memory has
  the base, the length and an index of the records in its file (`Mirrors`), and only the
  last file may be torn, when the process is down. `Numbered`: unless retention took
  records away, producers count without a gap and what is known of them is what a
  recovery would recall. `Remembered`: a sequence that is known belongs to a record that
  is there, or was until retention, and none is higher. `Promised`: so are the records
  promised, and those the command in progress will promise. `Rewriting` and `Cut`: a
  truncation has written the first of the records it keeps, no check of `append`
  refuses the next one, and what is still promised is among them; while it removes the
  files, this is all there is.
* `LogTypeCorrect`, `PromisesKept`, `MemoryExact`, `ReopensOutsidePitfalls` : `[]TypeOK`,
  `[]AckedKept`, `[]DedupExact`, `[]Reopens`, each from `LogInv`. `Reopens` speaks of the
  files after a crash, and of those of a running process at every moment except while
  `truncate_to` removes them and after retention took the first one; so it covers the
  rewriting part of a truncation as well, where a crash loses records but leaves files
  that open. `DedupExact` and
  `Reopens` need each other: the next start checks that sequences have no gap, which
  holds because the memory that admitted them was exact.
* `ReadsExact` : `[]ReadExact`. `SeekBefore`: no record from the offset on lies before
  the position that the index gives; `ReadSegmentIs`: so a segment yields a slice of its
  records; `ReadIs`: the slices of the segments that are not skipped make one slice of
  the contents.
* `RecordsKept` : `KeepsRecords`, the refinement of `RecordLog`. A write of a producer's
  record appends, `Truncate` truncates at once (what it keeps is in the command then),
  `ApplyRetention` removes the head; rotations, the removal and rewriting of files,
  crashes and recoveries stutter.

`LogLemmas` has the operators' lemmas. The induction it needs (what a flattened
sequence of sequences, a running sum of bytes or a recovered index is) goes over sets of
numbers: a set that has 0, and n + 1 when it has n, has all of them (`Induction`), and
recursive functions exist (`Recursion`).

### ConsumerGroup

For any finite set of members, any number of partitions, whether a topic is created with
more or fewer than the default, any number of records and of faults (`GroupAssumption`):

* `TypeCorrect`, `DisjointOwners` : `[]TypeOK`, `[]OwnersDisjoint`. `OwnerInv` says of
  every consumer that works in the coordinator's current generation that it has exactly
  the partitions the coordinator gave it.
* `DeliveredAtLeastOnce` : `[]AtLeastOnce`. Settled must be what is behind every offset
  that is held anywhere: the committed ones, those of consumers, those of commits on
  their way (`LeastInv`).
* `DeliveredAtMostOnce` : `[]AtMostOnce`, if `"late commit"` is not among `Pitfalls`;
  with it the property is false (see "Runs"). `MostInv` says that of the consumers and
  the commits of the current generation one owns each partition, and is one step ahead
  of the committed offset.

### Broker

For any sets of producers, pollers and creators, any queue, any partition counts and any
number of faults (`BrokerAssumption`):

* `TypeCorrect` : `[]TypeOK`. A handler has at most one command in the queue and waits
  for it, which is why an answer never meets a handler that does not expect it.
* `NeverMissed` : `[]NoLostWakeup`. `WakeInv` says of a fetch that has found nothing and
  is not asleep yet what the property says of one that sleeps.
* `AckedStayVisible` : `[]AckedVisible`, without the pitfall "restart after a failed
  write"; `StoredInv` places every record that was given an offset, `CoveredInv` says
  that the registry covers every record whose commit is done, in the file too when the
  broker is down.
* `IdempotentProduce` : `[]StoredOnce`, without the pitfall "restart after a failed
  creation"; `RoutedInv` says that a record with an identity is only in the log it is
  routed to, `CountInv` that a topic is there while its records are read back and that
  the commands a shutdown leaves in the channel make none with fewer partitions than
  there are logs (`Leftover`).
* `AcknowledgedCreation` : `[]CreationKept`, if automatic creation is off or makes at
  most the number of partitions that a creation asks for (`CreatesEnough`). Otherwise
  the property is false: an automatic creation that fails half-way leaves logs behind,
  and a creation that asks for fewer partitions is acknowledged over them.

A pitfall a theorem excludes is one that the code really has; the other behaviours,
crashes and failures included, are all in.

### Only model-checked

Liveness (`LeaderReplaced`, `LeadershipSpreads`, `RecoveryCatchesUp`, `Drained`, `AllAnswered`, `Delivered`,
`CallsEnd`), which is outside the prover's reach. `DurableSurvives`: the code does not
guarantee it in general (`durable_lost`), it holds in the instance of `failover_live`.
The invariants of `Connection`, which are about what recursive decoders return for every
frame: `Protocol` declares them RECURSIVE, which the prover does not take. Of
`PartitionLog` with a pitfall nothing is proved; the run `retention_restart` shows what
one of them breaks.

## Not modelled

* The broadcast of a new topic to the other brokers, and topics that a broker learns
  of by a sync: `Replication` begins with the topic in every registry.
* The text of the registry's file and of the other metadata files.
* Failing writes of a running process, and crashes of the machine (fsync).
* The chain of retry topics: a retry topic is one more topic with its own group.
* Frames that no encoder of the repository writes, beyond what the decoders' checks
  say of them; zstd is some reversible function.
* Metrics and logging, argument and configuration parsing, the one-shot commands of
  the command line: no state that a decision depends on.

## Plan

1. `DurableSurvives` for one producer at a time, where the code keeps it.
2. Producer identities in `Replication`: a retry after a failover.
3. The broadcast of a topic and its creation by a sync, between two `Broker`s.
