------------------------------ MODULE Replication ------------------------------
(***************************************************************************)
(* Replication of ONE partition in a static cluster of brokers             *)
(* (crates/broker/src/lib.rs and leadership.rs): produce, synchronous      *)
(* push to the followers in ring order, the commit of the high watermark,  *)
(* its broadcast, manual and automatic promotion, follower recovery, fetch *)
(* and broker crashes.                                                     *)
(*                                                                         *)
(* Every storage command and every call on the leadership registry is      *)
(* atomic in the code (one storage thread, one lock); everything between   *)
(* two of them is an await or another thread's turn, so it is between two  *)
(* steps here.  A lost or late message is one whose handler never runs, or *)
(* runs after its sender gave up.                                          *)
(*                                                                         *)
(* Offsets count from 0 as in the code: offset o is at index o + 1 of a    *)
(* log.  A produce request and the record it appends are one model value.  *)
(* Logs and registries survive a crash: it is a crash of the process, not  *)
(* of the machine.                                                         *)
(***************************************************************************)
EXTENDS Integers, FiniteSets, SequencesExt

CONSTANTS
    NumBrokers,         \* brokers 1..NumBrokers, in the order of their ids
    Partition,          \* the number of the partition
    ReplicationFactor,
    MinInSyncReplicas,
    Records,            \* produce requests, each for one record
    Durable,            \* the requests sent with AckMode::Durable
    Promotions,         \* manual promote-leader requests
    Readers,            \* consumers
    Recovering,         \* brokers whose recovery worker is scheduled
    Lossy,              \* may a connection to a live broker fail?
    MaxCrashes,         \* bound on crashes
    MaxEpoch            \* bound on the controller's epoch

\* Config::cluster_nodes refuses any other replication policy.
ASSUME ClusterAssumption ==
    /\ NumBrokers \in Nat \ {0}
    /\ Partition \in Nat
    /\ ReplicationFactor \in 1 .. NumBrokers
    /\ MinInSyncReplicas \in 1 .. ReplicationFactor

Brokers == 1 .. NumBrokers

\* The leader monitor promotes as one more caller of promote_leader.
Monitor == "monitor"

ASSUME InstanceAssumption ==
    /\ Durable \subseteq Records
    /\ Recovering \subseteq Brokers
    /\ Recovering \cap Readers = {}
    /\ Records \cap (Promotions \cup {Monitor}) = {}
    /\ Monitor \notin Promotions
    /\ Lossy \in BOOLEAN
    /\ MaxCrashes \in Nat
    /\ MaxEpoch \in Nat

VARIABLES
    log,        \* log[n]: the records broker n stores, by offset
    registry,   \* registry[n]: the leadership n has persisted
    up,         \* up[n]: is broker n running?
    crashes,    \* number of crashes so far
    task,       \* task[p]: the handler of produce request p
    rpcs,       \* replicate requests being handled by followers
    cast,       \* cast[c]: caller c's broadcast of a leadership
    promo,      \* promo[q]: a call of promote_leader
    misses,     \* consecutive probes of the leader that failed
    fetch,      \* fetch[f]: a consumer's fetch, or a recovery worker
    exposed     \* history: what fetches returned to consumers

vars == <<log, registry, up, crashes, task, rpcs, cast, promo, misses, fetch,
          exposed>>

-----------------------------------------------------------------------------
(* Placement: the replica set is static, in ring order from the partition. *)

Ring(o) == ((Partition + o) % NumBrokers) + 1

Replicas == {Ring(o) : o \in 0 .. ReplicationFactor - 1}

DeterministicLeader == Ring(0)

Controller == 1

\* The k-th follower of leader n: the ring without n.
Follower(n, k) ==
    LET position == CHOOSE o \in 0 .. ReplicationFactor - 1 : Ring(o) = n
    IN  Ring(IF k <= position THEN k - 1 ELSE k)

\* The broker after k in the order of the cluster's nodes, leaving src out.
NextPeer(src, k) == IF k + 1 = src THEN k + 2 ELSE k + 1

(* Leadership records.                                                     *)

Leadership == [leader : Brokers, epoch : Nat, hw : Nat]

InitialLeadership == [leader |-> DeterministicLeader, epoch |-> 0, hw |-> 0]

\* Mutants of Accepts: the watermark, or the leader, of an equal epoch is not
\* compared.
AcceptsLowerWatermark(cur, new) ==
    /\ new.leader \in Brokers
    /\ \/ new.epoch > cur.epoch
       \/ new.epoch = cur.epoch /\ new.leader = cur.leader

AcceptsOtherLeader(cur, new) ==
    /\ new.leader \in Brokers
    /\ \/ new.epoch > cur.epoch
       \/ new.epoch = cur.epoch /\ new.hw >= cur.hw

\* What LeadershipRegistry::apply accepts over the current entry.
Accepts(cur, new) ==
    /\ new.leader \in Brokers
    /\ \/ new.epoch > cur.epoch
       \/ /\ new.epoch = cur.epoch
          /\ new.leader = cur.leader
          /\ new.hw >= cur.hw

Install(cur, new) == IF Accepts(cur, new) THEN new ELSE cur

\* What a broker keeps after it has asked the controller for its metadata.
Synced(cur, new) ==
    IF \/ new.epoch > cur.epoch
       \/ new.epoch = cur.epoch /\ new.hw > cur.hw
    THEN Install(cur, new)
    ELSE cur

(* Partition logs, as the storage worker sees them.                        *)

NextOffset(n) == Len(log[n])

Truncated(s, offset) == IF offset < Len(s) THEN SubSeq(s, 1, offset) ELSE s

\* PartitionLog::append_replica: either the next offset or a record that is
\* there already; everything else is ReplicaDiverged or UnexpectedOffset.
CanReplicate(s, offset, rec) ==
    \/ offset = Len(s)
    \/ offset < Len(s) /\ s[offset + 1] = rec

\* Mutant of Replicated: a record that is pushed again is stored again.
ReplicatedTwice(s, offset, rec) == Append(s, rec)

Replicated(s, offset, rec) == IF offset = Len(s) THEN Append(s, rec) ELSE s

-----------------------------------------------------------------------------
Casters == Records \cup Promotions \cup {Monitor}
Promoters == Promotions \cup {Monitor}
Fetchers == Readers \cup Recovering

\* Handlers that do not run; the locals of one that ended are gone.
NewTask(p) ==
    [pc |-> "new", at |-> DeterministicLeader, off |-> 0, rec |-> p, k |-> 1,
     acks |-> {}, next |-> 0, lead |-> InitialLeadership, reply |-> "none"]

Promotion(pc) ==
    [pc |-> pc, cand |-> Controller, cur |-> InitialLeadership]

IdleFetch ==
    [pc |-> "idle", at |-> Controller, off |-> 0, recs |-> << >>, hw |-> 0,
     lead |-> InitialLeadership]

IdleCast == [st |-> "none", k |-> 1, src |-> Controller, live |-> FALSE,
             lead |-> InitialLeadership]

Init ==
    /\ log = [n \in Brokers |-> << >>]
    /\ registry = [n \in Brokers |-> InitialLeadership]
    /\ up = [n \in Brokers |-> TRUE]
    /\ crashes = 0
    /\ task = [p \in Records |-> NewTask(p)]
    /\ rpcs = {}
    /\ cast = [c \in Casters |-> IdleCast]
    /\ promo = [q \in Promoters |-> Promotion("idle")]
    /\ misses = 0
    /\ fetch = [f \in Fetchers |-> IdleFetch]
    /\ exposed = {}

-----------------------------------------------------------------------------
(* Produce: process_produce on the leader, up to the local append.         *)

\* A durable request is answered at its end; a leader-mode one was answered
\* "ok" when its record was appended and goes on in the background.
Ended(p, answer) ==
    [NewTask(p) EXCEPT
        !.pc = "end",
        !.off = task[p].off,
        !.reply = IF p \in Durable THEN answer ELSE task[p].reply]

ProduceCheck(p, n) ==
    /\ task[p].pc = "new"
    /\ up[n]
    /\ registry[n].leader = n
    /\ task' = [task EXCEPT ![p].pc = "append", ![p].at = n]
    /\ UNCHANGED <<log, registry, up, crashes, rpcs, cast, promo, misses,
                   fetch, exposed>>

ProduceAppend(p) ==
    LET n == task[p].at IN
    /\ task[p].pc = "append"
    /\ log' = [log EXCEPT ![n] = Append(@, p)]
    /\ task' = [task EXCEPT ![p].pc = "readback", ![p].off = NextOffset(n)]
    /\ UNCHANGED <<registry, up, crashes, rpcs, cast, promo, misses, fetch,
                   exposed>>

\* record_at: the record now at the offset the append returned, whichever
\* it is.  The leader's own copy is the first acknowledgement.
ProduceReadBack(p) ==
    LET n == task[p].at
        o == task[p].off IN
    /\ task[p].pc = "readback"
    /\ o < NextOffset(n)
    /\ task' = [task EXCEPT
                  ![p].pc = "send",
                  ![p].rec = log[n][o + 1],
                  ![p].acks = {n},
                  ![p].reply = IF p \in Durable THEN @ ELSE "ok"]
    /\ UNCHANGED <<log, registry, up, crashes, rpcs, cast, promo, misses,
                   fetch, exposed>>

\* MissingAppendedRecord: a truncation got in between.
ProduceVanished(p) ==
    /\ task[p].pc = "readback"
    /\ task[p].off >= NextOffset(task[p].at)
    /\ task' = [task EXCEPT ![p] = [Ended(p, "error") EXCEPT !.reply = "error"]]
    /\ UNCHANGED <<log, registry, up, crashes, rpcs, cast, promo, misses,
                   fetch, exposed>>

(* Replicator::replicate: one follower after the other.                    *)

CurrentFollower(p) == Follower(task[p].at, task[p].k)

FollowersLeft(p) == task[p].k < ReplicationFactor

ReplicateRecord(p, offset, rec, lead) ==
    [task |-> p, dst |-> CurrentFollower(p), off |-> offset, rec |-> rec,
     lead |-> lead, st |-> "recv", hw |-> 0]

\* replicate_to_follower reads the leadership anew for each follower; it
\* does not check that this broker is still the leader.
SendReplica(p) ==
    LET lead == registry[task[p].at] IN
    /\ task[p].pc = "send"
    /\ FollowersLeft(p)
    /\ up[CurrentFollower(p)]
    /\ rpcs' = rpcs \cup {ReplicateRecord(p, task[p].off, task[p].rec, lead)}
    /\ task' = [task EXCEPT ![p].pc = "wait", ![p].lead = lead]
    /\ UNCHANGED <<log, registry, up, crashes, cast, promo, misses, fetch,
                   exposed>>

\* Mutant of CatchUp: the new record is sent at the offset that is missing.
CatchUpWithNewRecord(p) ==
    /\ task[p].pc = "catchup"
    /\ task[p].next < NextOffset(task[p].at)
    /\ up[CurrentFollower(p)]
    /\ rpcs' = rpcs \cup {ReplicateRecord(p, task[p].next, task[p].rec, task[p].lead)}
    /\ task' = [task EXCEPT ![p].pc = "rewait"]
    /\ UNCHANGED <<log, registry, up, crashes, cast, promo, misses, fetch,
                   exposed>>

\* The follower lacks earlier records: send the one it expects, under the
\* leadership read when the push to this follower began.
CatchUp(p) ==
    LET n == task[p].at
        o == task[p].next IN
    /\ task[p].pc = "catchup"
    /\ o < NextOffset(n)
    /\ up[CurrentFollower(p)]
    /\ rpcs' = rpcs \cup {ReplicateRecord(p, o, log[n][o + 1], task[p].lead)}
    /\ task' = [task EXCEPT ![p].pc = "rewait"]
    /\ UNCHANGED <<log, registry, up, crashes, cast, promo, misses, fetch,
                   exposed>>

\* Refused, closed, or two seconds passed: the follower leaves the ISR and
\* the next one is tried.  What was sent may still be handled.
FollowerFails(p) ==
    /\ task[p].pc \in {"send", "wait", "catchup", "rewait"}
    /\ FollowersLeft(p)
    /\ task' = [task EXCEPT ![p].pc = "send", ![p].k = @ + 1]
    /\ UNCHANGED <<log, registry, up, crashes, rpcs, cast, promo, misses,
                   fetch, exposed>>

\* The leader's side of an acknowledgement.  InvalidReplicationAck is only
\* looked for in the answer to the first request.
Acknowledged(t, dst, next) ==
    CASE t.pc = "wait" /\ next > t.off + 1
           -> [t EXCEPT !.pc = "send", !.k = @ + 1]
      [] next <= t.off
           -> [t EXCEPT !.pc = "catchup", !.next = next]
      [] OTHER
           -> [t EXCEPT !.pc = "send", !.k = @ + 1, !.acks = @ \cup {dst}]

Waiting(p, dst) ==
    /\ task[p].pc \in {"wait", "rewait"}
    /\ FollowersLeft(p)
    /\ CurrentFollower(p) = dst

(* handle_replication_connection on the follower.                          *)

Moved(m, st) == (rpcs \ {m}) \cup {[m EXCEPT !.st = st]}

Stale(cur, lead) ==
    \/ lead.epoch < cur.epoch
    \/ lead.epoch = cur.epoch /\ lead.leader # cur.leader

\* The epoch check; the high watermark read with it is used later.
ReplicaReceive(m) ==
    LET cur == registry[m.dst] IN
    /\ m.st = "recv"
    /\ ~Stale(cur, m.lead)
    /\ rpcs' = (rpcs \ {m}) \cup
                 {[m EXCEPT
                     !.st = IF m.lead.epoch > cur.epoch THEN "truncate"
                                                        ELSE "write",
                     !.hw = IF m.lead.epoch > cur.epoch THEN cur.hw ELSE @]}
    /\ UNCHANGED <<log, registry, up, crashes, task, cast, promo, misses,
                   fetch, exposed>>

\* StaleLeaderEpoch: the connection is closed without an answer.
ReplicaReject(m) ==
    /\ m.st = "recv"
    /\ Stale(registry[m.dst], m.lead)
    /\ rpcs' = rpcs \ {m}
    /\ UNCHANGED <<log, registry, up, crashes, task, cast, promo, misses,
                   fetch, exposed>>

\* A newer epoch: drop what is stored from the record's offset on.
ReplicaTruncate(m) ==
    /\ m.st = "truncate"
    /\ log' = [log EXCEPT ![m.dst] = Truncated(@, m.off)]
    /\ rpcs' = Moved(m, "apply")
    /\ UNCHANGED <<registry, up, crashes, task, cast, promo, misses, fetch,
                   exposed>>

\* Then adopt it; a refusal by the registry closes the connection.
ReplicaApply(m) ==
    LET new == [m.lead EXCEPT !.hw = m.hw] IN
    /\ m.st = "apply"
    /\ registry' = [registry EXCEPT ![m.dst] = Install(@, new)]
    /\ rpcs' = IF Accepts(registry[m.dst], new) THEN Moved(m, "write")
                                                ELSE rpcs \ {m}
    /\ UNCHANGED <<log, up, crashes, task, cast, promo, misses, fetch,
                   exposed>>

\* Append (or find) the record, or report the offset that is missing, and
\* answer.  The epoch is not looked at again.
ReplicaWrite(m) ==
    LET s == log[m.dst]
        t == IF m.off > Len(s) THEN s ELSE Replicated(s, m.off, m.rec) IN
    /\ m.st = "write"
    /\ m.off > Len(s) \/ CanReplicate(s, m.off, m.rec)
    /\ log' = [log EXCEPT ![m.dst] = t]
    /\ rpcs' = rpcs \ {m}
    /\ task' = IF Waiting(m.task, m.dst)
               THEN [task EXCEPT ![m.task] = Acknowledged(@, m.dst, Len(t))]
               ELSE task
    /\ UNCHANGED <<registry, up, crashes, cast, promo, misses, fetch, exposed>>

\* ReplicaDiverged: the connection is closed without an answer.
ReplicaDiverged(m) ==
    LET s == log[m.dst] IN
    /\ m.st = "write"
    /\ m.off < Len(s) /\ s[m.off + 1] # m.rec
    /\ rpcs' = rpcs \ {m}
    /\ UNCHANGED <<log, registry, up, crashes, task, cast, promo, misses,
                   fetch, exposed>>

-----------------------------------------------------------------------------
(* Replicator::commit and the answer to the producer.                      *)

\* Mutant of InSync: the leader's own copy is counted once more.
InSyncCountingSelf(p) == Cardinality(task[p].acks) + 1 >= MinInSyncReplicas

InSync(p) == Cardinality(task[p].acks) >= MinInSyncReplicas

StartCast(src, lead) ==
    [st |-> "send", k |-> NextPeer(src, 0), src |-> src, live |-> TRUE,
     lead |-> lead]

CastDone(c) == cast[c].st = "send" /\ cast[c].k > NumBrokers

\* Mutant of AlreadyCommitted: a watermark at the offset is taken to cover it.
AlreadyCommittedEarly(p) ==
    /\ task[p].pc = "send"
    /\ ~FollowersLeft(p)
    /\ InSync(p)
    /\ registry[task[p].at].hw >= task[p].off
    /\ task' = [task EXCEPT ![p] = Ended(p, "ok")]
    /\ UNCHANGED <<log, registry, up, crashes, rpcs, cast, promo, misses,
                   fetch, exposed>>

\* Nothing to advance: another commit has passed this offset.
AlreadyCommitted(p) ==
    /\ task[p].pc = "send"
    /\ ~FollowersLeft(p)
    /\ InSync(p)
    /\ registry[task[p].at].hw >= task[p].off + 1
    /\ task' = [task EXCEPT ![p] = Ended(p, "ok")]
    /\ UNCHANGED <<log, registry, up, crashes, rpcs, cast, promo, misses,
                   fetch, exposed>>

\* commit reads the leadership anew, whoever leads by now.
CommitRead(p) ==
    LET cur == registry[task[p].at] IN
    /\ task[p].pc = "send"
    /\ ~FollowersLeft(p)
    /\ InSync(p)
    /\ cur.hw < task[p].off + 1
    /\ task' = [task EXCEPT ![p].pc = "commit",
                            ![p].lead = [cur EXCEPT !.hw = task[p].off + 1]]
    /\ UNCHANGED <<log, registry, up, crashes, rpcs, cast, promo, misses,
                   fetch, exposed>>

\* Mutant of CommitApply: the producer is answered before the broadcast.
CommitAnswered(p) ==
    LET n == task[p].at IN
    /\ task[p].pc = "commit"
    /\ Accepts(registry[n], task[p].lead)
    /\ registry' = [registry EXCEPT ![n] = task[p].lead]
    /\ cast' = [cast EXCEPT ![p] = StartCast(n, task[p].lead)]
    /\ task' = [task EXCEPT ![p] = Ended(p, "ok")]
    /\ UNCHANGED <<log, up, crashes, rpcs, promo, misses, fetch, exposed>>

CommitApply(p) ==
    LET n == task[p].at IN
    /\ task[p].pc = "commit"
    /\ Accepts(registry[n], task[p].lead)
    /\ registry' = [registry EXCEPT ![n] = task[p].lead]
    /\ cast' = [cast EXCEPT ![p] = StartCast(n, task[p].lead)]
    /\ task' = [task EXCEPT ![p].pc = "casting"]
    /\ UNCHANGED <<log, up, crashes, rpcs, promo, misses, fetch, exposed>>

\* LeadershipError::StaleEpoch between the two.
CommitStale(p) ==
    /\ task[p].pc = "commit"
    /\ ~Accepts(registry[task[p].at], task[p].lead)
    /\ task' = [task EXCEPT ![p] = Ended(p, "error")]
    /\ UNCHANGED <<log, registry, up, crashes, rpcs, cast, promo, misses,
                   fetch, exposed>>

NotEnoughInSyncReplicas(p) ==
    /\ task[p].pc = "send"
    /\ ~FollowersLeft(p)
    /\ ~InSync(p)
    /\ task' = [task EXCEPT ![p] = Ended(p, "error")]
    /\ UNCHANGED <<log, registry, up, crashes, rpcs, cast, promo, misses,
                   fetch, exposed>>

\* The producer is answered when every broker has been tried.
ProduceReply(p) ==
    /\ task[p].pc = "casting"
    /\ CastDone(p)
    /\ task' = [task EXCEPT ![p] = Ended(p, "ok")]
    /\ cast' = [cast EXCEPT ![p] = IdleCast]
    /\ UNCHANGED <<log, registry, up, crashes, rpcs, promo, misses, fetch,
                   exposed>>

-----------------------------------------------------------------------------
(* Broadcast of a leadership, and the ApplyLeadership handler it reaches:  *)
(* one broker at a time, each answered before the next is tried.           *)

Handling(c) == cast[c].st \in {"recv", "truncate", "install"}

\* The handler is through (or its broker is gone): the caller, if it still
\* runs, goes on to the next broker.
Answered(b) ==
    IF b.live THEN [b EXCEPT !.st = "send", !.k = NextPeer(b.src, b.k)]
              ELSE IdleCast

CastSend(c) ==
    /\ cast[c].st = "send"
    /\ cast[c].k <= NumBrokers
    /\ up[cast[c].k]
    /\ cast' = [cast EXCEPT ![c].st = "recv"]
    /\ UNCHANGED <<log, registry, up, crashes, task, rpcs, promo, misses,
                   fetch, exposed>>

\* No connection: "broadcast deferred".  Nothing sends it again.
CastSkip(c) ==
    /\ cast[c].st = "send"
    /\ cast[c].k <= NumBrokers
    /\ Lossy \/ ~up[cast[c].k]
    /\ cast' = [cast EXCEPT ![c].k = NextPeer(cast[c].src, @)]
    /\ UNCHANGED <<log, registry, up, crashes, task, rpcs, promo, misses,
                   fetch, exposed>>

ApplyReceive(c) ==
    /\ cast[c].st = "recv"
    /\ cast[c].lead.epoch > registry[cast[c].k].epoch
    /\ cast' = [cast EXCEPT ![c].st = "truncate"]
    /\ UNCHANGED <<log, registry, up, crashes, task, rpcs, promo, misses,
                   fetch, exposed>>

\* A newer epoch: drop what is stored beyond its high watermark.
ApplyTruncate(c) ==
    /\ cast[c].st = "truncate"
    /\ log' = [log EXCEPT ![cast[c].k] = Truncated(@, cast[c].lead.hw)]
    /\ cast' = [cast EXCEPT ![c].st = "install"]
    /\ UNCHANGED <<registry, up, crashes, task, rpcs, promo, misses, fetch,
                   exposed>>

ApplyInstall(c) ==
    LET n == cast[c].k IN
    /\ \/ cast[c].st = "install"
       \/ cast[c].st = "recv" /\ cast[c].lead.epoch <= registry[n].epoch
    /\ registry' = [registry EXCEPT ![n] = Install(@, cast[c].lead)]
    /\ cast' = [cast EXCEPT ![c] = Answered(@)]
    /\ UNCHANGED <<log, up, crashes, task, rpcs, promo, misses, fetch, exposed>>

-----------------------------------------------------------------------------
(* promote_leader on the controller.                                       *)

Reachable(set) == {n \in set : up[n]}

\* verify_promotion_candidate, when the brokers in answered gave an offset.
Promotable(q, answered) ==
    /\ promo[q].cand \in answered
    /\ Cardinality(answered) >= MinInSyncReplicas
    /\ NextOffset(promo[q].cand) >= promo[q].cur.hw

\* The monitor goes back to probing, a manual request is over.
Resting(q) == Promotion(IF q = Monitor THEN "idle" ELSE "end")

Promoted(q) ==
    [leader |-> promo[q].cand,
     epoch  |-> promo[q].cur.epoch + 1,
     hw     |-> promo[q].cur.hw]

PromoteStart(q, n) ==
    /\ promo[q].pc = "idle"
    /\ up[Controller]
    /\ n \in Replicas
    /\ registry[Controller].epoch < MaxEpoch
    /\ promo' = [promo EXCEPT ![q] = [pc |-> "verify", cand |-> n,
                                      cur |-> registry[Controller]]]
    /\ UNCHANGED <<log, registry, up, crashes, task, rpcs, cast, misses, fetch,
                   exposed>>

PromoteVerify(q) ==
    /\ promo[q].pc = "verify"
    /\ Promotable(q, Reachable(Replicas))
    /\ promo' = [promo EXCEPT
                   ![q].pc = IF promo[q].cand = Controller THEN "truncate"
                                                           ELSE "apply"]
    /\ UNCHANGED <<log, registry, up, crashes, task, rpcs, cast, misses, fetch,
                   exposed>>

\* PromotionCandidateUnavailable or UnsafePromotion.
PromoteRefuse(q) ==
    /\ promo[q].pc = "verify"
    /\ Lossy \/ ~Promotable(q, Reachable(Replicas))
    /\ promo' = [promo EXCEPT ![q] = Resting(q)]
    /\ UNCHANGED <<log, registry, up, crashes, task, rpcs, cast, misses, fetch,
                   exposed>>

\* A controller that promotes itself truncates before it applies.
PromoteTruncate(q) ==
    /\ promo[q].pc = "truncate"
    /\ log' = [log EXCEPT ![Controller] = Truncated(@, promo[q].cur.hw)]
    /\ promo' = [promo EXCEPT ![q].pc = "apply"]
    /\ UNCHANGED <<registry, up, crashes, task, rpcs, cast, misses, fetch,
                   exposed>>

\* Mutant of PromoteApply: the new epoch is broadcast and not stored.
PromoteUnsaved(q) ==
    /\ promo[q].pc = "apply"
    /\ Accepts(registry[Controller], Promoted(q))
    /\ cast' = [cast EXCEPT ![q] = StartCast(Controller, Promoted(q))]
    /\ promo' = [promo EXCEPT ![q].pc = "casting"]
    /\ UNCHANGED <<log, registry, up, crashes, task, rpcs, misses, fetch, exposed>>

PromoteApply(q) ==
    /\ promo[q].pc = "apply"
    /\ Accepts(registry[Controller], Promoted(q))
    /\ registry' = [registry EXCEPT ![Controller] = Promoted(q)]
    /\ cast' = [cast EXCEPT ![q] = StartCast(Controller, Promoted(q))]
    /\ promo' = [promo EXCEPT ![q].pc = "casting"]
    /\ UNCHANGED <<log, up, crashes, task, rpcs, misses, fetch, exposed>>

\* Another promotion was faster: StaleEpoch.
PromoteStale(q) ==
    /\ promo[q].pc = "apply"
    /\ ~Accepts(registry[Controller], Promoted(q))
    /\ promo' = [promo EXCEPT ![q] = Resting(q)]
    /\ UNCHANGED <<log, registry, up, crashes, task, rpcs, cast, misses, fetch,
                   exposed>>

\* LeadershipChanged; the monitor forgets the failed probes.
PromoteReply(q) ==
    /\ promo[q].pc = "casting"
    /\ CastDone(q)
    /\ promo' = [promo EXCEPT ![q] = Resting(q)]
    /\ cast' = [cast EXCEPT ![q] = IdleCast]
    /\ misses' = IF q = Monitor THEN 0 ELSE misses
    /\ UNCHANGED <<log, registry, up, crashes, task, rpcs, fetch, exposed>>

(* monitor_partition_leaders: one probe a second.                          *)

\* Failed probes in a row after which a candidate is looked for.
MaxMisses == 3

Probing == up[Controller] /\ promo[Monitor].pc = "idle"

ProbeAnswered ==
    /\ Probing
    /\ up[registry[Controller].leader]
    /\ misses' = 0
    /\ UNCHANGED <<log, registry, up, crashes, task, rpcs, cast, promo, fetch,
                   exposed>>

\* Mutant of ProbeMissed: the counter does not saturate.
ProbeMissedUnbounded ==
    LET lead == registry[Controller] IN
    /\ Probing
    /\ lead.leader # Controller
    /\ Lossy \/ ~up[lead.leader]
    /\ misses' = misses + 1
    /\ promo' = IF misses + 1 >= MaxMisses
                THEN [promo EXCEPT ![Monitor].pc = "select", ![Monitor].cur = lead]
                ELSE promo
    /\ UNCHANGED <<log, registry, up, crashes, task, rpcs, cast, fetch, exposed>>

ProbeMissed ==
    LET lead == registry[Controller]
        many == misses + 1 >= MaxMisses IN
    /\ Probing
    /\ lead.leader # Controller
    /\ Lossy \/ ~up[lead.leader]
    /\ misses' = IF many THEN MaxMisses ELSE misses + 1
    /\ promo' = IF many THEN [promo EXCEPT ![Monitor].pc = "select",
                                           ![Monitor].cur = lead]
                        ELSE promo
    /\ UNCHANGED <<log, registry, up, crashes, task, rpcs, cast, fetch, exposed>>

\* Mutant of AutomaticCandidates: the leader that failed is counted on.
CandidatesWithLeader(answered, hw) ==
    {n \in answered :
        /\ Cardinality(answered) > MinInSyncReplicas
        /\ NextOffset(n) >= hw
        /\ \A m \in answered :
             \/ NextOffset(m) < NextOffset(n)
             \/ NextOffset(m) = NextOffset(n) /\ n <= m}

\* choose_automatic_candidate: the longest log, then the lowest id.
AutomaticCandidates(answered, hw) ==
    {n \in answered :
        /\ Cardinality(answered) >= MinInSyncReplicas
        /\ NextOffset(n) >= hw
        /\ \A m \in answered :
             \/ NextOffset(m) < NextOffset(n)
             \/ NextOffset(m) = NextOffset(n) /\ n <= m}

\* Every other replica is asked; a slow one may miss its 500 ms.
Asked == Reachable(Replicas \ {promo[Monitor].cur.leader})

AutoSelect ==
    /\ promo[Monitor].pc = "select"
    /\ registry[Controller].epoch < MaxEpoch
    /\ \E answered \in SUBSET Asked :
         /\ Lossy \/ answered = Asked
         /\ \E n \in AutomaticCandidates(answered, promo[Monitor].cur.hw) :
              promo' = [promo EXCEPT ![Monitor] =
                          [pc |-> "verify", cand |-> n,
                           cur |-> registry[Controller]]]
    /\ UNCHANGED <<log, registry, up, crashes, task, rpcs, cast, misses, fetch,
                   exposed>>

\* No safe candidate: probe again.
AutoNone ==
    /\ promo[Monitor].pc = "select"
    /\ Lossy \/ AutomaticCandidates(Asked, promo[Monitor].cur.hw) = {}
    /\ promo' = [promo EXCEPT ![Monitor] = Resting(Monitor)]
    /\ UNCHANGED <<log, registry, up, crashes, task, rpcs, cast, misses, fetch,
                   exposed>>

-----------------------------------------------------------------------------
(* Fetch, and the recovery worker of a follower, which fetches too.        *)

FetchStart(r, n) ==
    /\ fetch[r].pc = "idle"
    /\ up[n]
    /\ registry[n].leader = n
    /\ fetch' = [fetch EXCEPT ![r].pc = "read", ![r].at = n]
    /\ UNCHANGED <<log, registry, up, crashes, task, rpcs, cast, promo, misses,
                   exposed>>

\* A group's fetch reads the high watermark before it reads the log.
GroupFetchStart(r, n) ==
    /\ fetch[r].pc = "idle"
    /\ up[n]
    /\ registry[n].leader = n
    /\ fetch' = [fetch EXCEPT ![r].pc = "groupread", ![r].at = n,
                              ![r].hw = registry[n].hw]
    /\ UNCHANGED <<log, registry, up, crashes, task, rpcs, cast, promo, misses,
                   exposed>>

FetchRead(f) ==
    LET s == log[fetch[f].at] IN
    /\ fetch[f].pc = "read"
    /\ fetch' = [fetch EXCEPT ![f].pc = "filter",
                              ![f].recs = SubSeq(s, fetch[f].off + 1, Len(s))]
    /\ UNCHANGED <<log, registry, up, crashes, task, rpcs, cast, promo, misses,
                   exposed>>

\* Mutant of Returned: the record at the watermark is returned too.
ReturnedThroughWatermark(recs, off, hw) ==
    {[off |-> off + i - 1, rec |-> recs[i]] :
        i \in {j \in 1 .. Len(recs) : off + j - 1 <= hw}}

\* The records a fetch keeps, with their offsets.
Returned(recs, off, hw) ==
    {[off |-> off + i - 1, rec |-> recs[i]] :
        i \in {j \in 1 .. Len(recs) : off + j - 1 < hw}}

FetchReply(r) ==
    /\ r \in Readers
    /\ fetch[r].pc = "filter"
    /\ exposed' = exposed \cup Returned(fetch[r].recs, 0,
                                        registry[fetch[r].at].hw)
    /\ fetch' = [fetch EXCEPT ![r] = IdleFetch]
    /\ UNCHANGED <<log, registry, up, crashes, task, rpcs, cast, promo, misses>>

GroupFetchReply(r) ==
    /\ fetch[r].pc = "groupread"
    /\ exposed' = exposed \cup Returned(log[fetch[r].at], 0, fetch[r].hw)
    /\ fetch' = [fetch EXCEPT ![r] = IdleFetch]
    /\ UNCHANGED <<log, registry, up, crashes, task, rpcs, cast, promo, misses>>

(* start_follower_recovery: ask the controller, then fetch what is missing.*)

SyncRead(n) ==
    /\ fetch[n].pc = "idle"
    /\ up[n]
    /\ n # Controller
    /\ up[Controller]
    /\ fetch' = [fetch EXCEPT ![n].pc = "sync",
                              ![n].lead = registry[Controller]]
    /\ UNCHANGED <<log, registry, up, crashes, task, rpcs, cast, promo, misses,
                   exposed>>

\* Mutant of SyncApply: a partition this broker leads is left alone.
SyncApplyFollower(n) ==
    /\ fetch[n].pc = "sync"
    /\ registry' = [registry EXCEPT ![n] = IF @.leader = n THEN @
                                           ELSE Synced(@, fetch[n].lead)]
    /\ fetch' = [fetch EXCEPT ![n].pc = "scan"]
    /\ UNCHANGED <<log, up, crashes, task, rpcs, cast, promo, misses, exposed>>

\* The metadata is adopted; the log is not looked at.
SyncApply(n) ==
    /\ fetch[n].pc = "sync"
    /\ registry' = [registry EXCEPT ![n] = Synced(@, fetch[n].lead)]
    /\ fetch' = [fetch EXCEPT ![n].pc = "scan"]
    /\ UNCHANGED <<log, up, crashes, task, rpcs, cast, promo, misses, exposed>>

SyncSkip(n) ==
    /\ fetch[n].pc = "idle"
    /\ up[n]
    /\ n = Controller \/ ~up[Controller] \/ Lossy
    /\ fetch' = [fetch EXCEPT ![n].pc = "scan"]
    /\ UNCHANGED <<log, registry, up, crashes, task, rpcs, cast, promo, misses,
                   exposed>>

Recovers(n) == registry[n].leader # n /\ n \in Replicas

\* Mutant of RecoverStart: the fetch begins at the watermark the follower knows.
RecoverStartAtWatermark(n) ==
    /\ fetch[n].pc = "scan"
    /\ fetch' = [fetch EXCEPT ![n] =
                    IF Recovers(n)
                    THEN [IdleFetch EXCEPT !.pc = "route", !.off = registry[n].hw,
                                           !.lead = registry[n]]
                    ELSE IdleFetch]
    /\ UNCHANGED <<log, registry, up, crashes, task, rpcs, cast, promo, misses,
                   exposed>>

RecoverStart(n) ==
    /\ fetch[n].pc = "scan"
    /\ fetch' = [fetch EXCEPT ![n] =
                    IF Recovers(n)
                    THEN [IdleFetch EXCEPT !.pc = "route", !.off = NextOffset(n),
                                           !.lead = registry[n]]
                    ELSE IdleFetch]
    /\ UNCHANGED <<log, registry, up, crashes, task, rpcs, cast, promo, misses,
                   exposed>>

\* The worker connects to the leader it knows, but Client::fetch asks the
\* controller who leads and sends the fetch there.
Routed(n) ==
    LET l == registry[Controller].leader IN
    up[fetch[n].lead.leader] /\ up[Controller] /\ up[l] /\ registry[l].leader = l

RecoverFetch(n) ==
    /\ fetch[n].pc = "route"
    /\ Routed(n)
    /\ fetch' = [fetch EXCEPT ![n].pc = "read",
                              ![n].at = registry[Controller].leader]
    /\ UNCHANGED <<log, registry, up, crashes, task, rpcs, cast, promo, misses,
                   exposed>>

\* The leader's answer; an empty one ends the round.
RecoverReceive(n) ==
    LET visible == registry[fetch[n].at].hw - fetch[n].off
        kept == SubSeq(fetch[n].recs, 1, Min({visible, Len(fetch[n].recs)})) IN
    /\ n \in Recovering
    /\ fetch[n].pc = "filter"
    /\ fetch' = [fetch EXCEPT ![n] =
                    IF kept = << >> THEN IdleFetch
                    ELSE [@ EXCEPT !.pc = "write", !.recs = kept]]
    /\ UNCHANGED <<log, registry, up, crashes, task, rpcs, cast, promo, misses,
                   exposed>>

\* One record of the answer goes to storage.replicate; no epoch is checked.
\* After the last one the worker fetches from its own next offset.
RecoverWrite(n) ==
    LET f == fetch[n]
        s == Replicated(log[n], f.off, Head(f.recs)) IN
    /\ f.pc = "write"
    /\ CanReplicate(log[n], f.off, Head(f.recs))
    /\ log' = [log EXCEPT ![n] = s]
    /\ fetch' = [fetch EXCEPT
                   ![n].recs = Tail(f.recs),
                   ![n].pc = IF Len(f.recs) = 1 THEN "route" ELSE "write",
                   ![n].off = IF Len(f.recs) = 1 THEN Len(s) ELSE f.off + 1]
    /\ UNCHANGED <<registry, up, crashes, task, rpcs, cast, promo, misses,
                   exposed>>

\* An error ends the round; the next one starts a second later.
RecoverFail(n) ==
    LET f == fetch[n] IN
    /\ \/ f.pc = "route" /\ (Lossy \/ ~Routed(n))
       \/ f.pc = "write" /\ ~CanReplicate(log[n], f.off, Head(f.recs))
       \/ f.pc \in {"read", "filter"} /\ Lossy
    /\ n \in Recovering
    /\ fetch' = [fetch EXCEPT ![n] = IdleFetch]
    /\ UNCHANGED <<log, registry, up, crashes, task, rpcs, cast, promo, misses,
                   exposed>>

-----------------------------------------------------------------------------
(* Crash and restart of a broker process.                                  *)

Crash(n) ==
    /\ up[n]
    /\ crashes < MaxCrashes
    /\ crashes' = crashes + 1
    /\ up' = [up EXCEPT ![n] = FALSE]
    /\ task' = [p \in Records |->
                  IF task[p].at = n /\ task[p].pc # "new"
                  THEN Ended(p, task[p].reply) ELSE task[p]]
    /\ rpcs' = {m \in rpcs : m.dst # n}
    /\ cast' = [c \in Casters |->
                  IF Handling(c) /\ cast[c].k = n THEN Answered(cast[c])
                  ELSE IF cast[c].src # n THEN cast[c]
                  ELSE IF Handling(c) THEN [cast[c] EXCEPT !.live = FALSE]
                  ELSE IdleCast]
    /\ promo' = [q \in Promoters |->
                   IF n = Controller /\ promo[q].pc # "idle"
                   THEN Resting(q) ELSE promo[q]]
    /\ misses' = IF n = Controller THEN 0 ELSE misses
    /\ fetch' = [f \in Fetchers |->
                   IF f = n \/ (fetch[f].at = n
                                /\ fetch[f].pc \in {"read", "groupread", "filter"})
                   THEN IdleFetch
                   ELSE fetch[f]]
    /\ UNCHANGED <<log, registry, exposed>>

\* A broker serves once it has the controller's metadata; the controller
\* starts from its own file.
Restart(n) ==
    /\ ~up[n]
    /\ n = Controller \/ up[Controller]
    /\ up' = [up EXCEPT ![n] = TRUE]
    /\ registry' = [registry EXCEPT ![n] = Synced(@, registry[Controller])]
    /\ UNCHANGED <<log, crashes, task, rpcs, cast, promo, misses, fetch,
                   exposed>>

-----------------------------------------------------------------------------
(* The tasks of the system, each a sequence of the steps above.            *)

ProduceStep(p) ==
    \/ ProduceAppend(p) \/ ProduceReadBack(p) \/ ProduceVanished(p)
    \/ SendReplica(p) \/ CatchUp(p) \/ FollowerFails(p)
    \/ AlreadyCommitted(p) \/ CommitRead(p) \/ CommitApply(p)
    \/ CommitStale(p) \/ NotEnoughInSyncReplicas(p) \/ ProduceReply(p)

ReplicaStep(m) ==
    \/ ReplicaReceive(m) \/ ReplicaReject(m) \/ ReplicaTruncate(m)
    \/ ReplicaApply(m) \/ ReplicaWrite(m) \/ ReplicaDiverged(m)

CastStep(c) ==
    \/ CastSend(c) \/ CastSkip(c)
    \/ ApplyReceive(c) \/ ApplyTruncate(c) \/ ApplyInstall(c)

ReaderStep(r) == FetchRead(r) \/ FetchReply(r) \/ GroupFetchReply(r)

WorkerStep(n) ==
    \/ SyncRead(n) \/ SyncApply(n) \/ SyncSkip(n) \/ RecoverStart(n)
    \/ RecoverFetch(n) \/ FetchRead(n) \/ RecoverReceive(n)
    \/ RecoverWrite(n) \/ RecoverFail(n)

PromoteStep(q) ==
    \/ PromoteVerify(q) \/ PromoteRefuse(q) \/ PromoteTruncate(q)
    \/ PromoteApply(q) \/ PromoteStale(q) \/ PromoteReply(q)

MonitorStep == ProbeAnswered \/ ProbeMissed \/ AutoSelect \/ AutoNone

\* What clients ask for.
Request ==
    \E n \in Brokers :
        \/ \E p \in Records : ProduceCheck(p, n)
        \/ \E r \in Readers : FetchStart(r, n) \/ GroupFetchStart(r, n)

Serve ==
    \/ Request
    \/ \E p \in Records : ProduceStep(p)
    \/ \E m \in rpcs : ReplicaStep(m)
    \/ \E c \in Casters : CastStep(c)
    \/ \E r \in Readers : ReaderStep(r)
    \/ \E n \in Recovering : WorkerStep(n)

Promote ==
    \/ \E q \in Promotions, n \in Brokers : PromoteStart(q, n)
    \/ \E q \in Promoters : PromoteStep(q)
    \/ MonitorStep

Crashes == \E n \in Brokers : Crash(n)

Restarts == \E n \in Brokers : Restart(n)

\* While nobody is promoted.
Steady == Serve \/ Crashes \/ Restarts

\* With promotions, on request and by the monitor; brokers that crash stay down.
FailStop == Serve \/ Promote \/ Crashes

Next == FailStop \/ Restarts

SteadySpec == Init /\ [][Steady]_vars

FailStopSpec == Init /\ [][FailStop]_vars

Spec == Init /\ [][Next]_vars

(* Scheduling: tokio runs every task it was given, and a timer ends every  *)
(* wait.  Nothing is assumed of clients, crashes or restarts.              *)

FairRecoverySpec ==
    SteadySpec /\ \A n \in Recovering : WF_vars(WorkerStep(n))

FairFailoverSpec ==
    /\ FailStopSpec
    /\ WF_vars(MonitorStep)
    /\ \A q \in Promoters : WF_vars(PromoteStep(q))
    /\ \A c \in Casters : WF_vars(CastStep(c))
    /\ \A p \in Records : WF_vars(ProduceStep(p))

-----------------------------------------------------------------------------
(* Types.                                                                  *)

Task ==
    [pc : {"new", "append", "readback", "send", "wait", "catchup", "rewait",
           "commit", "casting", "end"},
     at : Brokers, off : Nat, rec : Records, k : Nat, acks : SUBSET Brokers,
     next : Nat, lead : Leadership, reply : {"none", "ok", "error"}]

Rpc ==
    [task : Records, dst : Brokers, off : Nat, rec : Records,
     lead : Leadership, st : {"recv", "truncate", "apply", "write"}, hw : Nat]

Cast ==
    [st : {"none", "send", "recv", "truncate", "install"}, k : Nat,
     src : Brokers, live : BOOLEAN, lead : Leadership]

PromoteCall ==
    [pc : {"idle", "select", "verify", "truncate", "apply", "casting", "end"},
     cand : Brokers, cur : Leadership]

Fetch ==
    [pc : {"idle", "read", "groupread", "filter", "sync", "scan", "route",
           "write"},
     at : Brokers, off : Nat, recs : Seq(Records), hw : Nat, lead : Leadership]

\* Every variable keeps the shape its Rust type gives it; the counter of
\* failed probes saturates.
TypeOK ==
    /\ log \in [Brokers -> Seq(Records)]
    /\ registry \in [Brokers -> Leadership]
    /\ up \in [Brokers -> BOOLEAN]
    /\ crashes \in Nat
    /\ task \in [Records -> Task]
    /\ rpcs \subseteq Rpc
    /\ cast \in [Casters -> Cast]
    /\ promo \in [Promoters -> PromoteCall]
    /\ misses \in 0 .. MaxMisses
    /\ fetch \in [Fetchers -> Fetch]
    /\ exposed \subseteq [off : Nat, rec : Records]

(* Safety while nobody is promoted.                                        *)

\* The replicas that store rec at an offset.
Holders(offset, rec) ==
    {r \in Replicas : offset < NextOffset(r) /\ log[r][offset + 1] = rec}

OnQuorum(offset, rec) == Cardinality(Holders(offset, rec)) >= MinInSyncReplicas

\* A follower's log is a prefix of its leader's, whatever was pushed,
\* caught up, recovered or handled late, in any order.
LogMatching == \A n \in Brokers : IsPrefix(log[n], log[DeterministicLeader])

\* No broker takes an offset for committed that fewer than the minimum of
\* in-sync replicas store: commit runs only after the quorum, and crashes,
\* late broadcasts and syncs only pass on what it wrote.
HwBacked ==
    \A n \in Brokers :
        Cardinality({r \in Replicas : NextOffset(r) >= registry[n].hw})
            >= MinInSyncReplicas

\* README: "`--acks durable` only succeeds after the configured minimum
\* number of in-sync replicas confirms the append."  An acknowledged record
\* is on a quorum at its offset and is visible to fetches on the leader.
DurableAck ==
    \A p \in Durable :
        task[p].reply = "ok" =>
            /\ OnQuorum(task[p].off, p)
            /\ registry[DeterministicLeader].hw > task[p].off

\* README: "fetch operations never expose records beyond" the committed high
\* watermark: whatever a consumer was given is stored by a quorum.
ExposedCommitted == \A e \in exposed : OnQuorum(e.off, e.rec)

\* What the partition's clients can see of its leader.
Promise ==
    INSTANCE CommitLog WITH
        committed <- SubSeq(log[DeterministicLeader], 1,
                            registry[DeterministicLeader].hw),
        acknowledged <- {p \in Durable : task[p].reply = "ok"},
        delivered <- exposed

\* While nobody is promoted, the cluster keeps the promises of a single
\* growing sequence: the watermark never goes back over a record, concurrent
\* commits of later and earlier offsets lose nothing, and producers and
\* consumers only ever see committed records.
KeepsPromise == Promise!Spec

(* Safety through promotions.                                              *)

\* One epoch, one leader: no two brokers ever know different leaders of the
\* same epoch, although promotions on request and by the monitor overlap and
\* brokers learn epochs from broadcasts, syncs and replicate requests.
ElectionSafety ==
    \A n, m \in Brokers :
        registry[n].epoch = registry[m].epoch =>
            registry[n].leader = registry[m].leader

\* Epochs come from the controller alone: nobody is ahead of it, not even
\* after it crashed during a promotion.
ControllerAhead ==
    \A n \in Brokers : registry[n].epoch <= registry[Controller].epoch

\* A record acknowledged as durable is at its offset on the leader that the
\* controller knows: a failover takes a candidate that has what is committed
\* and cuts logs at the committed watermark only.
DurableSurvives ==
    LET leader == registry[Controller].leader IN
    \A p \in Durable :
        task[p].reply = "ok" =>
            /\ task[p].off < NextOffset(leader)
            /\ log[leader][task[p].off + 1] = p

\* A record is found nowhere but at the offset its append was given: not
\* twice in a log, not elsewhere on a follower, and not elsewhere in what a
\* consumer gets, although pushes are retried and handled late, logs are
\* truncated and offsets used again under another leader.
OffsetKept ==
    /\ \A n \in Brokers : \A o \in 0 .. NextOffset(n) - 1 :
          task[log[n][o + 1]].off = o
    /\ \A e \in exposed : task[e.rec].off = e.off

\* What a deposed leader sent is not stored by a follower that has moved on.
StaleRejected ==
    \A m \in rpcs :
        ReplicaWrite(m) /\ log' # log => m.lead.epoch >= registry[m.dst].epoch

\* What a broker stores when it adopts the epoch of another leader agrees with
\* that leader.
TailTruncated ==
    \A n \in Brokers :
        LET new == registry'[n] IN
        new.epoch > registry[n].epoch /\ new.leader # n =>
            IsPrefix(log'[n], log'[new.leader])

\* README: "Replication from stale leaders is rejected, and an uncommitted
\* divergent tail is truncated when a replica follows a new epoch."
EpochsRespected == [][StaleRejected /\ TailTruncated]_vars

\* README: "The committed high watermark advances after quorum, and fetch
\* operations never expose records beyond it": no consumer gets a record while
\* its producer's request is still short of the quorum.
NeverBeforeQuorum ==
    [][\A e \in exposed' \ exposed :
         \/ OnQuorum(e.off, e.rec)
         \/ InSync(e.rec)
         \/ task[e.rec].pc = "end"]_vars

(* Liveness.                                                               *)

\* A follower whose recovery worker runs gets everything committed, however
\* its pushes failed, once brokers stay up.
RecoveryCatchesUp ==
    <>[](\A n \in Brokers : up[n]) =>
        <>[](\A n \in Recovering \cap Replicas :
                NextOffset(n) >= registry[DeterministicLeader].hw)

\* Nothing sends a lost broadcast again, and a controller that crashes during a
\* promotion forgets whom it has not told: a deposed leader goes on taking
\* requests.  A broker whose recovery worker gets through to the controller
\* again and again ends all the same with the controller's epoch and leader,
\* and a watermark that is not behind the controller's.
LeadershipSpreads ==
    (\A n \in Recovering : []<><<SyncRead(n)>>_vars) =>
        <>[](\A n \in Recovering :
                /\ registry[n].epoch = registry[Controller].epoch
                /\ registry[n].leader = registry[Controller].leader
                /\ registry[n].hw >= registry[Controller].hw)

\* README: the controller "performs safe automatic promotion after three
\* consecutive failed probes": while it runs, a dead leader is replaced.
LeaderReplaced ==
    <>[]up[Controller] => []<>up[registry[Controller].leader]

=============================================================================
