---------------------------- MODULE ConsumerGroup ----------------------------
(***************************************************************************)
(* One consumer group on one topic: the coordinator of the broker          *)
(* (crates/broker/src/groups.rs) and the consumers that run `sevlamq       *)
(* consume` (bin/sevlamq-cli/src/commands/consume.rs and retry.rs).        *)
(*                                                                         *)
(* The coordinator runs one request at a time under its lock.  A consumer  *)
(* waits for the answer to each of its requests, so request and answer are *)
(* one step, except for a commit: it may be handled after its sender died. *)
(* Clocks are abstracted: a session may lapse at any time, more often than *)
(* MaxFaults only when its consumer is not running.  The records of the    *)
(* topic are there from the start; each is <<partition, offset>>.          *)
(***************************************************************************)
EXTENDS Integers, FiniteSets, FiniteSetsExt

CONSTANTS
    Members,            \* member ids: naturals, in the order of the names
    Default,            \* default_partition_count
    Created,            \* the partitions the topic is created with
    Led,                \* the partitions this broker leads
    NumRecords,         \* records of each partition
    Pitfalls,           \* known to go wrong, allowed in this instance
    MaxFaults           \* bound on crashes, exits and lapses of consumers
                        \* and on restarts of the broker

Pitfall == {"partitions added", "late commit"}

\* A group may be dealt the default number of partitions before its topic is
\* created with another one, smaller or larger.
Partitions == (0 .. Default - 1) \cup (0 .. Created - 1)
Records == Partitions \X (0 .. NumRecords - 1)

ASSUME GroupAssumption ==
    /\ Members \subseteq Nat /\ IsFiniteSet(Members)
    /\ Default \in Nat \ {0} /\ Created \in Nat \ {0}
    /\ Led \subseteq Partitions
    /\ NumRecords \in Nat
    /\ Pitfalls \subseteq Pitfall
    /\ MaxFaults \in Nat

VARIABLES
    mode,       \* the delivery mode the group's consumers were started with
    count,      \* the topic's partition count, as the coordinator knows it
    group,      \* generation, members and assignments
    overdue,    \* members whose last heartbeat is too long ago
    committed,  \* committed[p]: the offset file of partition p
    consumer,   \* consumer[m]: the process that consumes as m
    inflight,   \* commits sent and not handled
    runs,       \* history: how often the handler ran on a record
    settled,    \* history: records handled, or stored in a retry topic
    faults      \* crashes, exits, lapses and restarts so far

coordinator == <<count, group, overdue, committed>>
history == <<runs, settled>>
vars == <<mode, coordinator, consumer, inflight, history, faults>>

\* One more thing goes wrong.
Fault == faults < MaxFaults /\ faults' = faults + 1

-----------------------------------------------------------------------------
(* GroupCoordinator.                                                       *)

Rank(m, ms) == Cardinality({n \in ms : n < m})

\* Mutant of Rebalanced: the generation stays.
RebalancedQuietly(ms) ==
    [group EXCEPT
        !.members = ms,
        !.assigned = [m \in Members |->
            IF m \in ms
            THEN {p \in 0 .. count - 1 : p % Cardinality(ms) = Rank(m, ms)}
            ELSE {}]]

\* rebalance: partitions are dealt to the members in the order of their names.
Rebalanced(ms) ==
    [generation |-> group.generation + 1,
     members |-> ms,
     assigned |-> [m \in Members |->
        IF m \in ms
        THEN {p \in 0 .. count - 1 : p % Cardinality(ms) = Rank(m, ms)}
        ELSE {}]]

\* active_group: expired members are gone before a request is looked at.
Active ==
    IF overdue = {} THEN group ELSE Rebalanced(group.members \ overdue)

\* join, for a member that may be new, known or just expired.
Joined(m) ==
    LET ms == (group.members \ overdue) \cup {m} IN
    IF ms # group.members \/ overdue # {} \/ group.generation = 0
    THEN Rebalanced(ms) ELSE group

\* Mutant of Valid: the generation is not compared.
ValidMember(g, m, generation) == m \in g.members

\* validate_member
Valid(g, m, generation) == generation = g.generation /\ m \in g.members

NoGroup == [generation |-> 0, members |-> {}, assigned |-> [m \in Members |-> {}]]

\* Mutant of Apply: the sessions that lapsed are not removed.
ApplyKeeping(g) == group' = g /\ UNCHANGED overdue

\* Nothing is left of those that were overdue.
Apply(g) == group' = g /\ overdue' = {}

-----------------------------------------------------------------------------
(* A consumer.                                                             *)

Down == [pc |-> "down", gen |-> 0, parts |-> {}, offs |-> [p \in Partitions |-> 0],
         todo |-> {}, upto |-> 0, conn |-> FALSE, beats |-> FALSE]

\* About to connect and to join: nothing is kept of an earlier generation.
Joining == [Down EXCEPT !.pc = "join"]

Init ==
    /\ mode \in {"at-least-once", "at-most-once"}
    /\ count = Default
    /\ group = NoGroup
    /\ overdue = {}
    /\ committed = [p \in Partitions |-> 0]
    /\ consumer = [m \in Members |-> Down]
    /\ inflight = {}
    /\ runs = [r \in Records |-> 0]
    /\ settled = {}
    /\ faults = 0

Running(m) == consumer[m].pc # "down"

Current(m) == Min(consumer[m].todo)

Become(m, c) == consumer' = [consumer EXCEPT ![m] = c]

\* A process is started, under a name that is new or was used before; join
\* gives it the generation of its predecessor if that one is still a member.
StartConsumer(m) ==
    /\ ~Running(m)
    /\ \/ \A r \in inflight : r.member = m => ~Valid(group, m, r.gen)
       \/ "late commit" \in Pitfalls
    /\ Become(m, Joining)
    /\ UNCHANGED <<mode, coordinator, inflight, history, faults>>

\* execute: connect, join, start the heartbeats.
Join(m) ==
    LET g == Joined(m) IN
    /\ consumer[m].pc = "join"
    /\ Apply(g)
    /\ Become(m, [Down EXCEPT
                    !.pc = IF g.assigned[m] = {} THEN "idle" ELSE "load",
                    !.gen = g.generation, !.parts = g.assigned[m],
                    !.todo = g.assigned[m], !.conn = TRUE, !.beats = TRUE])
    /\ UNCHANGED <<mode, count, committed, inflight, history, faults>>

\* The loop of consume_generation begins again: it looks at the heartbeats
\* first.
Round(c) ==
    IF c.beats THEN [c EXCEPT !.pc = "fetch", !.todo = c.parts]
    ELSE Joining

\* load_offsets: the committed offset is read from its file, by anyone.
LoadOffset(m) ==
    LET p == Current(m)
        c == [consumer[m] EXCEPT !.offs[p] = committed[p], !.todo = @ \ {p}] IN
    /\ consumer[m].pc = "load"
    /\ c.conn
    /\ Become(m, IF c.todo = {} THEN Round(c) ELSE c)
    /\ UNCHANGED <<mode, coordinator, inflight, history, faults>>

\* Without a partition the consumer sleeps until its heartbeats fail.
WakeUp(m) ==
    /\ consumer[m].pc = "idle"
    /\ ~consumer[m].beats
    /\ Become(m, Joining)
    /\ UNCHANGED <<mode, coordinator, inflight, history, faults>>

\* The current partition has no more records to offer.
NextPartition(c, p) ==
    LET d == [c EXCEPT !.todo = @ \ {p}, !.upto = 0] IN
    IF d.todo = {} THEN Round(d) ELSE [d EXCEPT !.pc = "fetch"]

\* The commit of the current record is sent; on a dead connection the
\* consumer exits.
Committing(c) == IF c.conn THEN [c EXCEPT !.pc = "wait"] ELSE Down

\* process_record: what is done first depends on the delivery mode.
Begin(c) ==
    IF mode = "at-most-once" THEN Committing(c) ELSE [c EXCEPT !.pc = "handle"]

\* After a record: the next one of the answer, or the next partition.
Advanced(c, p) ==
    LET d == [c EXCEPT !.offs[p] = @ + 1] IN
    IF d.offs[p] = d.upto THEN NextPartition(d, p) ELSE Begin(d)

CommitRequest(m, c) ==
    [member |-> m, gen |-> c.gen, part |-> Min(c.todo),
     off |-> c.offs[Min(c.todo)] + 1, live |-> TRUE]

\* Consumer m goes on as c, with these other commits on their way.
GoOn(m, c, others) ==
    /\ Become(m, c)
    /\ inflight' = IF c.pc = "wait" THEN others \cup {CommitRequest(m, c)}
                   ELSE others

\* authorize_fetch and the read; the answer holds some of the records that
\* are there, limited by max_bytes.
Fetch(m) ==
    LET c == consumer[m]
        p == Current(m) IN
    /\ c.pc = "fetch"
    /\ c.conn
    /\ p \in Led
    /\ Valid(Active, m, c.gen)
    /\ p \in Active.assigned[m]
    /\ Apply(Active)
    /\ IF c.offs[p] >= NumRecords
       THEN GoOn(m, NextPartition(c, p), inflight)
       ELSE \E n \in c.offs[p] + 1 .. NumRecords :
              GoOn(m, Begin([c EXCEPT !.upto = n]), inflight)
    /\ UNCHANGED <<mode, count, committed, history, faults>>

\* An error of the server: StaleGeneration, UnknownMember,
\* PartitionNotAssigned, or NotLeader before the group is looked at.
FetchRefused(m) ==
    LET c == consumer[m]
        p == Current(m) IN
    /\ c.pc = "fetch"
    /\ c.conn
    /\ IF p \in Led
       THEN /\ ~(Valid(Active, m, c.gen) /\ p \in Active.assigned[m])
            /\ Apply(Active)
       ELSE UNCHANGED <<group, overdue>>
    /\ Become(m, Joining)
    /\ UNCHANGED <<mode, count, committed, inflight, history, faults>>

\* run_handler succeeds, or it fails and publish_failure stores the record in
\* a retry topic; a producer identity made of the record's offset makes the
\* second publication of it a retry of the first.
Handle(m) ==
    LET c == consumer[m]
        p == Current(m)
        r == <<p, c.offs[p]>> IN
    /\ c.pc = "handle"
    /\ runs' = [runs EXCEPT ![r] = Min({@ + 1, 2})]
    /\ settled' = settled \cup {r}
    /\ GoOn(m, IF mode = "at-most-once" THEN Advanced(c, p) ELSE Committing(c),
            inflight)
    /\ UNCHANGED <<mode, coordinator, faults>>

\* Mutant of HandleFails: the failed publication is ignored.
HandleFailsUnnoticed(m) ==
    LET c == consumer[m]
        p == Current(m) IN
    /\ c.pc = "handle"
    /\ Fault
    /\ runs' = [runs EXCEPT ![<<p, c.offs[p]>>] = Min({@ + 1, 2})]
    /\ GoOn(m, IF mode = "at-most-once" THEN Advanced(c, p) ELSE Committing(c),
            inflight)
    /\ UNCHANGED <<mode, coordinator, settled>>

\* The handler fails and so does the publication: the consumer exits.
HandleFails(m) ==
    LET r == <<Current(m), consumer[m].offs[Current(m)]>> IN
    /\ consumer[m].pc = "handle"
    /\ Fault
    /\ runs' = [runs EXCEPT ![r] = Min({@ + 1, 2})]
    /\ Become(m, Down)
    /\ UNCHANGED <<mode, coordinator, inflight, settled>>

\* commit: validate, persist, answer; an error makes the consumer rejoin.
Commit(r) ==
    LET c == consumer[r.member]
        valid == /\ Valid(Active, r.member, r.gen)
                 /\ r.part \in Active.assigned[r.member] IN
    /\ Apply(Active)
    /\ committed' = IF valid THEN [committed EXCEPT ![r.part] = r.off]
                    ELSE committed
    /\ IF r.live
       THEN GoOn(r.member,
                 CASE ~valid -> Joining
                   [] valid /\ mode = "at-most-once" -> [c EXCEPT !.pc = "handle"]
                   [] valid /\ mode = "at-least-once" -> Advanced(c, r.part),
                 inflight \ {r})
       ELSE inflight' = inflight \ {r} /\ UNCHANGED consumer
    /\ UNCHANGED <<mode, count, history, faults>>

\* An I/O error ends the process.
ConnectionLost(m) ==
    /\ consumer[m].pc \in {"load", "fetch", "wait"}
    /\ ~consumer[m].conn
    /\ Become(m, Down)
    /\ UNCHANGED <<mode, coordinator, inflight, history, faults>>

\* The task beside it: any error ends the heartbeats.
Heartbeat(m) ==
    LET c == consumer[m] IN
    /\ c.beats
    /\ IF c.conn
       THEN /\ Apply(Active)
            /\ Become(m, [c EXCEPT !.beats = Valid(Active, m, c.gen)])
       ELSE /\ Become(m, [c EXCEPT !.beats = FALSE])
            /\ UNCHANGED <<group, overdue>>
    /\ UNCHANGED <<mode, count, committed, inflight, history, faults>>

\* Ctrl-C is looked at while a fetch waits; leave is answered or not.
Shutdown(m) ==
    LET g == Active IN
    /\ consumer[m].pc = "fetch"
    /\ Fault
    /\ Become(m, Down)
    /\ group' = IF Valid(g, m, consumer[m].gen)
                THEN [Rebalanced(g.members \ {m}) EXCEPT
                        !.generation = g.generation + 1]
                ELSE g
    /\ overdue' = {}
    /\ UNCHANGED <<mode, count, committed, inflight, history>>

Crash(m) ==
    /\ Running(m)
    /\ Fault
    /\ Become(m, Down)
    /\ inflight' = {[r EXCEPT !.live = @ /\ r.member # m] : r \in inflight}
    /\ UNCHANGED <<mode, coordinator, history>>

-----------------------------------------------------------------------------
(* Time, the sweeper, topics and the broker.                               *)

\* Too long since the last heartbeat.
Lapse(m) ==
    /\ m \in group.members \ overdue
    /\ overdue' = overdue \cup {m}
    /\ IF Running(m) THEN Fault ELSE UNCHANGED faults
    /\ UNCHANGED <<mode, count, group, committed, consumer, inflight, history>>

\* Mutant of Sweep: the partitions of expired members are not dealt again.
SweepOnly ==
    /\ overdue # {}
    /\ Apply([group EXCEPT !.members = @ \ overdue])
    /\ UNCHANGED <<mode, count, committed, consumer, inflight, history, faults>>

\* expire_sessions, once a second.
Sweep ==
    /\ overdue # {}
    /\ Apply(Active)
    /\ UNCHANGED <<mode, count, committed, consumer, inflight, history, faults>>

\* set_topic_partitions: the topic is created after the group was.  Nothing
\* is dealt anew.
SetTopicPartitions ==
    /\ count # Created
    /\ group.members # {} => "partitions added" \in Pitfalls
    /\ count' = Created
    /\ UNCHANGED <<mode, group, overdue, committed, consumer, inflight, history,
                   faults>>

\* Only the offset files and the topics are there after a restart.
BrokerRestart ==
    /\ Fault
    /\ group' = NoGroup
    /\ overdue' = {}
    /\ inflight' = {}
    /\ consumer' = [m \in Members |-> [consumer[m] EXCEPT !.conn = FALSE]]
    /\ UNCHANGED <<mode, count, committed, history>>

-----------------------------------------------------------------------------
ConsumerStep(m) ==
    \/ Join(m) \/ LoadOffset(m) \/ WakeUp(m) \/ Fetch(m) \/ FetchRefused(m)
    \/ Handle(m) \/ ConnectionLost(m)

Next ==
    \/ \E m \in Members :
         \/ StartConsumer(m) \/ ConsumerStep(m) \/ HandleFails(m)
         \/ Heartbeat(m) \/ Shutdown(m) \/ Crash(m) \/ Lapse(m)
    \/ \E r \in inflight : Commit(r)
    \/ Sweep
    \/ SetTopicPartitions
    \/ BrokerRestart

Spec == Init /\ [][Next]_vars

\* tokio runs the consumer's tasks, the broker's handlers and the sweeper, and
\* the session of a consumer that is gone lapses in the end.  Nothing is
\* assumed of operators, crashes or the handler's result.
FairSpec ==
    /\ Spec
    /\ WF_vars(Sweep)
    /\ WF_vars(\E r \in inflight : Commit(r))
    /\ \A m \in Members :
         /\ WF_vars(ConsumerStep(m))
         /\ WF_vars(Heartbeat(m))
         /\ WF_vars(~Running(m) /\ Lapse(m))

-----------------------------------------------------------------------------
\* Every variable keeps the shape its Rust type gives it.
TypeOK ==
    /\ mode \in {"at-least-once", "at-most-once"}
    /\ count \in {Default, Created}
    /\ group.generation \in Nat /\ group.members \subseteq Members
    /\ group.assigned \in [Members -> SUBSET Partitions]
    /\ overdue \subseteq group.members
    /\ committed \in [Partitions -> 0 .. NumRecords]
    /\ consumer \in
         [Members ->
            [pc : {"down", "join", "load", "idle", "fetch", "wait", "handle"},
             gen : Nat, parts : SUBSET Partitions,
             offs : [Partitions -> 0 .. NumRecords], todo : SUBSET Partitions,
             upto : 0 .. NumRecords, conn : BOOLEAN, beats : BOOLEAN]]
    /\ inflight \subseteq
         [member : Members, gen : Nat, part : Partitions, off : 1 .. NumRecords,
          live : BOOLEAN]
    /\ runs \in [Records -> 0 .. 2]
    /\ settled \subseteq Records
    /\ faults \in Nat

\* README: "At-most-once and at-least-once consumption helpers".  With
\* at-least-once delivery nothing is skipped: a record below the committed
\* offset was handled or is in a retry topic, whoever consumed it, however
\* the group was rebalanced and whatever crashed.
AtLeastOnce ==
    mode = "at-least-once" =>
        \A r \in Records : r[2] < committed[r[1]] => r \in settled

\* With at-most-once delivery no handler runs twice on a record, although a
\* consumer that was thought dead may still be at work when its successor
\* begins.
AtMostOnce == mode = "at-most-once" => \A r \in Records : runs[r] <= 1

\* The consumers whose requests the coordinator would accept do not share a
\* partition, although generations are counted from zero again after a
\* restart of the broker.
OwnersDisjoint ==
    \A m, n \in Members :
        /\ m # n
        /\ \A k \in {m, n} :
             consumer[k].conn /\ Valid(Active, k, consumer[k].gen)
        => consumer[m].parts \cap consumer[n].parts = {}

\* README: "The high-level consumer joins a group, maintains heartbeats,
\* fetches its assigned partitions, and commits offsets": while some consumer
\* runs, every record is consumed and committed in the end.
Drained ==
    <>[](\E m \in Members : Running(m)) =>
        <>[](\A p \in 0 .. count - 1 : committed[p] = NumRecords)

=============================================================================
