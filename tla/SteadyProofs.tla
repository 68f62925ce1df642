----------------------------- MODULE SteadyProofs -----------------------------
(***************************************************************************)
(* A partition whose leader does not change: followers' logs are prefixes  *)
(* of the leader's, a watermark is backed by a quorum, what is             *)
(* acknowledged or delivered is committed, and the partition is one        *)
(* growing sequence to its clients, for every cluster and replication      *)
(* policy, with crashes, restarts, lost and late requests, and recovery.   *)
(*                                                                         *)
(* The properties are about logs and registries; the inductive invariant   *)
(* is about the copies as well that are on their way between them.  That a *)
(* copy is at the right offset is known from ReplicationProofs, so it is   *)
(* enough that every copied record is one of the leader's log.             *)
(***************************************************************************)
EXTENDS ElectionProofs, FiniteSetTheorems

Main == DeterministicLeader

-----------------------------------------------------------------------------
(* The inductive invariant.                                                *)

\* The records of the leader's log.
Stored == {log[Main][i] : i \in 1 .. Len(log[Main])}

\* A broadcast that goes from broker to broker and truncates nothing.
Harmless(b) ==
    /\ b.st \notin {"truncate", "install"} /\ b.k >= 1
    /\ b.st = "recv" => b.k \in Brokers

\* Nobody leads but the deterministic leader, so nothing is truncated, and
\* clients and recovery workers are served by it.
LeaderInv ==
    /\ \A l \in Held : l.leader = Main /\ l.epoch = 0
    /\ \A p \in Records : task[p].at = Main /\ task[p].k >= 1
    /\ \A m \in rpcs : m.st \in {"recv", "write"}
    /\ \A c \in Casters : Harmless(cast[c])
    /\ \A f \in Fetchers :
          fetch[f].pc \in {"read", "groupread", "filter"} => fetch[f].at = Main

\* The handler of a request whose record is in the leader's log.
Appended == Sending \cup {"readback", "commit", "casting"}

\* Every copy is one of a record in the leader's log.
CopyInv ==
    /\ \A n \in Brokers : \A i \in 1 .. Len(log[n]) : log[n][i] \in Stored
    /\ \A p \in Records :
          /\ task[p].pc \in Sending => task[p].rec \in Stored
          /\ task[p].pc \in Appended \/ task[p].reply = "ok" => p \in Stored
    /\ \A m \in rpcs : m.rec \in Stored
    /\ \A f \in Fetchers : fetch[f].pc \in {"filter", "write"} =>
          \A i \in 1 .. Len(fetch[f].recs) : fetch[f].recs[i] \in Stored
    /\ \A e \in exposed : e.rec \in Stored

\* The replicas whose logs reach a watermark.
Reaching(hw) == {r \in Replicas : NextOffset(r) >= hw}

Backed(hw) == Cardinality(Reaching(hw)) >= MinInSyncReplicas

\* A replica that acknowledged has the record, and what is or may become a
\* watermark is backed.
QuorumInv ==
    /\ \A p \in Records :
          task[p].pc \in Sending => task[p].acks \subseteq Reaching(task[p].off + 1)
    /\ \A l \in Held : Backed(l.hw)

\* A durable request is answered at its end; what was answered is below the
\* leader's watermark, a commit sets that past its record, and a group's fetch
\* answers with one the leader has reached.
AnswerInv ==
    LET hw == registry[Main].hw IN
    /\ \A p \in Records :
          /\ p \in Durable /\ task[p].pc # "end" => task[p].reply = "none"
          /\ task[p].pc = "commit" => task[p].lead.hw = task[p].off + 1
          /\ task[p].pc = "casting" => hw > task[p].off
          /\ p \in Durable /\ task[p].reply = "ok" => hw > task[p].off
    /\ \A f \in Fetchers : fetch[f].pc = "groupread" => fetch[f].hw <= hw
    /\ \A e \in exposed : e.off < hw

SteadyInv == LeaderInv /\ CopyInv /\ QuorumInv /\ AnswerInv

Inv == TypeInv /\ OffsetInv /\ SteadyInv

-----------------------------------------------------------------------------
(* Placement and quorums.                                                  *)

LEMMA SameRemainder ==
  ASSUME NEW x \in Nat, NEW y \in Nat, NEW m \in Nat \ {0},
         x % m = y % m, x - y < m, y - x < m
  PROVE  x = y
<1> DEFINE d == x \div m
           e == y \div m
           r == x % m
<1>1. x = m * d + r /\ y = m * e + r /\ d \in Int /\ e \in Int /\ r \in Int
  OBVIOUS
<1> HIDE DEF d, e, r
<1>2. x - y = m * (d - e)
  BY <1>1
<1>3. CASE d - e >= 1
  <2>1. m * (d - e) >= m
    BY <1>1, <1>3
  <2> QED  BY <1>1, <1>2, <2>1
<1>4. CASE e - d >= 1
  <2>1. m * (e - d) >= m
    BY <1>1, <1>4
  <2>2. y - x = m * (e - d)
    BY <1>1
  <2> QED  BY <1>1, <2>1, <2>2
<1>5. CASE d = e
  BY <1>1, <1>5
<1> QED  BY <1>1, <1>3, <1>4, <1>5

\* The ring gives different offsets different brokers.
LEMMA RingInjective ==
  ASSUME NEW a \in 0 .. ReplicationFactor - 1, NEW b \in 0 .. ReplicationFactor - 1,
         Ring(a) = Ring(b)
  PROVE  a = b
<1> DEFINE x == Partition + a
           y == Partition + b
           m == NumBrokers
<1>1. /\ m \in Nat \ {0} /\ x \in Nat /\ y \in Nat /\ a \in Nat /\ b \in Nat
      /\ a < m /\ b < m /\ Partition \in Nat
  BY ClusterAssumption
<1>2. x - y < m /\ y - x < m
  BY <1>1
<1>3. x % m = y % m
  <2>1. x % m \in Nat /\ y % m \in Nat
    BY <1>1
  <2>2. (x % m) + 1 = (y % m) + 1
    BY DEF Ring
  <2> HIDE DEF x, y, m
  <2> QED  BY <2>1, <2>2
<1>4. x = y
  <2> HIDE DEF x, y, m
  <2> QED  BY <1>1, <1>2, <1>3, SameRemainder
<1> QED  BY <1>1, <1>4

LEMMA ReplicasFinite ==
  /\ IsFiniteSet(Replicas) /\ Cardinality(Replicas) \in Nat
  /\ Cardinality(Replicas) >= MinInSyncReplicas
<1>1. 1 \in Int /\ NumBrokers \in Int /\ 0 \in Int /\ ReplicationFactor - 1 \in Int
      /\ ReplicationFactor \in Nat \ {0}
  BY ClusterAssumption
<1>2. IsFiniteSet(Brokers)
  BY <1>1, FS_Interval, Zenon DEF Brokers
<1>3. IsFiniteSet(Replicas)
  BY <1>2, ConstantTypes, FS_Subset
<1>4. Cardinality(Replicas) \in Nat
  BY <1>3, FS_CardinalityType
<1> DEFINE O == 0 .. ReplicationFactor - 1
           f == [o \in O |-> Ring(o)]
<1>5. f \in Injection(O, Replicas)
  <2>1. f \in [O -> Replicas]
    BY DEF Replicas
  <2>2. \A a, b \in O : f[a] = f[b] => a = b
    BY RingInjective
  <2> HIDE DEF O, f
  <2> QED  BY <2>1, <2>2 DEF Injection, IsInjective
<1> HIDE DEF f
<1>6. Cardinality(O) <= Cardinality(Replicas)
  BY <1>3, <1>5, FS_Injection
<1>7. Cardinality(O) = IF 0 > ReplicationFactor - 1 THEN 0 ELSE (ReplicationFactor - 1) - 0 + 1
  BY <1>1, FS_Interval, Zenon
<1> HIDE DEF O
<1>8. Cardinality(O) = ReplicationFactor
  BY <1>1, <1>7
<1> QED  BY <1>3, <1>4, <1>6, <1>8, ClusterAssumption

LEMMA FollowerReplica ==
  ASSUME NEW n, NEW k \in Nat, k >= 1, k < ReplicationFactor
  PROVE  Follower(n, k) \in Replicas
<1>1. k - 1 \in 0 .. ReplicationFactor - 1 /\ k \in 0 .. ReplicationFactor - 1
  BY ClusterAssumption
<1>2. Ring(k - 1) \in Replicas /\ Ring(k) \in Replicas
  BY <1>1 DEF Replicas
<1> QED  BY <1>2 DEF Follower

LEMMA MainReplica == Main \in Replicas /\ Main \in Brokers
<1>1. 0 \in 0 .. ReplicationFactor - 1
  BY ClusterAssumption
<1> QED  BY <1>1, ConstantTypes DEF Main, DeterministicLeader, Replicas

\* A quorum within a set of replicas is one of the set.
LEMMA QuorumGrows ==
  ASSUME NEW S, NEW T \in SUBSET Replicas, S \subseteq T,
         Cardinality(S) >= MinInSyncReplicas
  PROVE  Cardinality(T) >= MinInSyncReplicas
<1>1. IsFiniteSet(T)
  BY ReplicasFinite, FS_Subset
<1>2. IsFiniteSet(S) /\ Cardinality(S) <= Cardinality(T)
  BY <1>1, FS_Subset
<1>3. Cardinality(S) \in Nat /\ Cardinality(T) \in Nat
  BY <1>1, <1>2, FS_CardinalityType
<1> QED  BY <1>2, <1>3, ClusterAssumption

\* A quorum is somebody.
LEMMA QuorumMeets ==
  ASSUME NEW S \in SUBSET Replicas, Cardinality(S) >= MinInSyncReplicas
  PROVE  S # {}
<1>1. Cardinality({}) = 0
  BY FS_EmptySet
<1> QED  BY <1>1, ClusterAssumption

-----------------------------------------------------------------------------
(* What a step does to a log.                                              *)

Grows(s, t) ==
    /\ Len(s) \in Nat /\ Len(t) \in Nat /\ Len(t) >= Len(s)
    /\ \A i \in 1 .. Len(s) : t[i] = s[i]

\* A log keeps what it has, and gets a record the leader has or one that is
\* appended by its producer's request.
LogStep(n) ==
    \/ log'[n] = log[n]
    \/ \E r \in Records :
          /\ log'[n] = Append(log[n], r)
          /\ r \in Stored \/ (n = Main /\ ProduceAppend(r))

LEMMA LogKept ==
  ASSUME TypeInv, LeaderInv, [Steady]_vars
  PROVE  \/ UNCHANGED log
         \/ \E p \in Records : ProduceAppend(p)
         \/ \E m \in rpcs : ReplicaWrite(m)
         \/ \E n \in Recovering : RecoverWrite(n)
<1>1. ASSUME NEW m \in rpcs, ReplicaStep(m), ~ReplicaWrite(m) PROVE UNCHANGED log
  <2>1. ~ReplicaTruncate(m)
    BY DEF ReplicaTruncate, LeaderInv
  <2> QED
    BY <1>1, <2>1 DEF ReplicaStep, ReplicaReceive, ReplicaReject, ReplicaApply,
                      ReplicaDiverged
<1>2. ASSUME NEW c \in Casters, CastStep(c) PROVE UNCHANGED log
  <2>1. ~ApplyTruncate(c)
    BY DEF ApplyTruncate, LeaderInv, Harmless
  <2> QED
    BY <1>2, <2>1 DEF CastStep, CastSend, CastSkip, ApplyReceive, ApplyInstall
<1>3. ASSUME NEW p \in Records, ProduceStep(p), ~ProduceAppend(p) PROVE UNCHANGED log
  BY <1>3, Zenon
     DEF ProduceStep, ProduceReadBack, ProduceVanished, SendReplica, CatchUp,
         FollowerFails, AlreadyCommitted, CommitRead, CommitApply, CommitStale,
         NotEnoughInSyncReplicas, ProduceReply
<1>4. ASSUME NEW n \in Recovering, WorkerStep(n), ~RecoverWrite(n) PROVE UNCHANGED log
  BY <1>4, Zenon
     DEF WorkerStep, SyncRead, SyncApply, SyncSkip, RecoverStart, RecoverFetch,
         FetchRead, RecoverReceive, RecoverFail
<1>5. CASE \/ Request \/ Crashes \/ Restarts \/ UNCHANGED vars
           \/ \E r \in Readers : ReaderStep(r)
  BY <1>5, Zenon
     DEF Request, ProduceCheck, FetchStart, GroupFetchStart, Crashes, Crash, Restarts,
         Restart, vars, ReaderStep, FetchRead, FetchReply, GroupFetchReply
<1> QED
  BY <1>1, <1>2, <1>3, <1>4, <1>5, Zenon DEF Steady, Serve

LEMMA ReplicatedStep ==
  ASSUME NEW s, NEW off, NEW rec
  PROVE  Replicated(s, off, rec) = s \/ Replicated(s, off, rec) = Append(s, rec)
BY DEF Replicated

LEMMA LogSteps ==
  ASSUME TypeInv, LeaderInv, CopyInv, [Steady]_vars, NEW n \in Brokers
  PROVE  LogStep(n)
<1>1. log \in [Brokers -> Seq(Records)]
  BY DEF TypeInv, TypeOK
<1>2. CASE UNCHANGED log
  BY <1>2 DEF LogStep
<1>3. ASSUME NEW p \in Records, ProduceAppend(p) PROVE LogStep(n)
  <2>1. task[p].at = Main
    BY DEF LeaderInv
  <2>2. log' = [log EXCEPT ![Main] = Append(log[Main], p)]
    BY <1>3, <2>1 DEF ProduceAppend
  <2>3. n = Main => log'[n] = Append(log[n], p)
    BY <1>1, <2>2
  <2>4. n # Main => log'[n] = log[n]
    BY <1>1, <2>2
  <2> QED  BY <1>3, <2>3, <2>4 DEF LogStep
<1>4. ASSUME NEW m \in rpcs, ReplicaWrite(m) PROVE LogStep(n)
  <2>1. m.rec \in Records /\ m.rec \in Stored
    BY DEF TypeInv, TypeOK, Rpc, CopyInv
  <2>2. log' = [log EXCEPT ![m.dst] = IF m.off > Len(log[m.dst]) THEN log[m.dst]
                                   ELSE Replicated(log[m.dst], m.off, m.rec)]
    BY <1>4 DEF ReplicaWrite
  <2>3. log'[n] = log[n] \/ log'[n] = Append(log[n], m.rec)
    BY <1>1, <2>2, ReplicatedStep
  <2> QED  BY <2>1, <2>3 DEF LogStep
<1>5. ASSUME NEW r \in Recovering, RecoverWrite(r) PROVE LogStep(n)
  <2> DEFINE rec == Head(fetch[r].recs)
  <2>1. r \in Fetchers /\ fetch[r].recs \in Seq(Records) /\ fetch[r].recs # << >>
        /\ fetch[r].pc = "write"
    BY <1>5 DEF RecoverWrite, TypeInv, TypeOK, Fetchers, Fetch
  <2>2. rec = fetch[r].recs[1] /\ 1 \in 1 .. Len(fetch[r].recs)
    BY <2>1
  <2>3. rec \in Records /\ rec \in Stored
    BY <2>1, <2>2 DEF CopyInv
  <2>4. log' = [log EXCEPT ![r] = Replicated(log[r], fetch[r].off, rec)]
    BY <1>5 DEF RecoverWrite
  <2> HIDE DEF rec
  <2>5. log'[n] = log[n] \/ log'[n] = Append(log[n], rec)
    BY <1>1, <2>4, ReplicatedStep
  <2> QED  BY <2>3, <2>5 DEF LogStep
<1> QED  BY <1>2, <1>3, <1>4, <1>5, LogKept

LEMMA LogGrows ==
  ASSUME TypeInv, NEW n \in Brokers, LogStep(n)
  PROVE  Grows(log[n], log'[n])
<1>1. log[n] \in Seq(Records) /\ Len(log[n]) \in Nat
  BY DEF TypeInv, TypeOK
<1>2. CASE log'[n] = log[n]
  BY <1>1, <1>2 DEF Grows
<1>3. ASSUME NEW r \in Records, log'[n] = Append(log[n], r) PROVE Grows(log[n], log'[n])
  <2>1. Len(log'[n]) = Len(log[n]) + 1 /\ \A i \in 1 .. Len(log[n]) : log'[n][i] = log[n][i]
    BY <1>1, <1>3
  <2> QED  BY <1>1, <2>1 DEF Grows
<1> QED  BY <1>2, <1>3 DEF LogStep

-----------------------------------------------------------------------------
(* What a step does to the handler of a request.                           *)

\* A follower's answer.
Answers(p) ==
    \E m \in rpcs :
        /\ m.task = p /\ Waiting(p, m.dst) /\ ReplicaWrite(m)
        /\ task'[p] = Acknowledged(task[p], m.dst, Len(log'[m.dst]))

\* The process of its broker ends.
Dies(p) ==
    /\ task[p].pc # "new" /\ task'[p] = Ended(p, task[p].reply)
    /\ \E n \in Brokers : Crash(n)

LEMMA TaskSteps ==
  ASSUME TypeInv, [Steady]_vars, NEW p \in Records
  PROVE  \/ task'[p] = task[p]
         \/ \E n \in Brokers : ProduceCheck(p, n)
         \/ ProduceStep(p) \/ Answers(p) \/ Dies(p)
<1>1. task \in [Records -> Task] /\ log \in [Brokers -> Seq(Records)]
  BY DEF TypeInv, TypeOK
<1>2. CASE UNCHANGED task
  BY <1>2
<1>3. ASSUME NEW r \in Records, NEW n \in Brokers, ProduceCheck(r, n), r # p
      PROVE  task'[p] = task[p]
  BY <1>1, <1>3 DEF ProduceCheck
<1>4. ASSUME NEW r \in Records, ProduceStep(r), r # p
      PROVE  task'[p] = task[p]
  <2>1. CASE ProduceAppend(r)
    BY <1>1, <1>4, <2>1 DEF ProduceAppend
  <2>2. CASE ProduceReadBack(r)
    BY <1>1, <1>4, <2>2 DEF ProduceReadBack
  <2>3. CASE ProduceVanished(r)
    BY <1>1, <1>4, <2>3 DEF ProduceVanished
  <2>4. CASE SendReplica(r) \/ CatchUp(r) \/ FollowerFails(r)
    BY <1>1, <1>4, <2>4 DEF SendReplica, CatchUp, FollowerFails
  <2>5. CASE AlreadyCommitted(r) \/ CommitRead(r) \/ CommitApply(r)
    BY <1>1, <1>4, <2>5 DEF AlreadyCommitted, CommitRead, CommitApply
  <2>6. CASE CommitStale(r) \/ NotEnoughInSyncReplicas(r) \/ ProduceReply(r)
    BY <1>1, <1>4, <2>6 DEF CommitStale, NotEnoughInSyncReplicas, ProduceReply
  <2> QED  BY <1>4, <2>1, <2>2, <2>3, <2>4, <2>5, <2>6 DEF ProduceStep
<1>5. ASSUME NEW m \in rpcs, ReplicaStep(m)
      PROVE  task'[p] = task[p] \/ Answers(p)
  <2>1. CASE ReplicaWrite(m)
    <3> DEFINE s == IF m.off > Len(log[m.dst]) THEN log[m.dst]
                    ELSE Replicated(log[m.dst], m.off, m.rec)
    <3>1. m.dst \in Brokers /\ m.task \in Records
      BY DEF TypeInv, TypeOK, Rpc
    <3>2. /\ log' = [log EXCEPT ![m.dst] = s]
          /\ task' = IF Waiting(m.task, m.dst)
                     THEN [task EXCEPT ![m.task] = Acknowledged(@, m.dst, Len(s))]
                     ELSE task
      BY <2>1 DEF ReplicaWrite
    <3> HIDE DEF s
    <3>3. log'[m.dst] = s
      BY <1>1, <3>1, <3>2
    <3>4. CASE p = m.task /\ Waiting(p, m.dst)
      <4>1. task'[p] = Acknowledged(task[p], m.dst, Len(log'[m.dst]))
        BY <1>1, <3>2, <3>3, <3>4
      <4> QED  BY <2>1, <3>4, <4>1 DEF Answers
    <3>5. CASE ~(p = m.task /\ Waiting(p, m.dst))
      BY <1>1, <3>2, <3>5
    <3> QED  BY <3>4, <3>5
  <2>2. CASE ~ReplicaWrite(m)
    BY <1>5, <2>2, Zenon
       DEF ReplicaStep, ReplicaReceive, ReplicaReject, ReplicaTruncate, ReplicaApply,
           ReplicaDiverged
  <2> QED  BY <2>1, <2>2
<1>6. ASSUME NEW n \in Brokers, Crash(n) PROVE task'[p] = task[p] \/ Dies(p)
  BY <1>6 DEF Crash, Dies
<1>7. CASE \/ \E n \in Brokers, r \in Readers :
                FetchStart(r, n) \/ GroupFetchStart(r, n)
           \/ \E c \in Casters : CastStep(c)
           \/ \E r \in Readers : ReaderStep(r)
           \/ \E n \in Recovering : WorkerStep(n)
           \/ Restarts \/ UNCHANGED vars
  <2>1. UNCHANGED task
    BY <1>7, Zenon
       DEF FetchStart, GroupFetchStart, CastStep, CastSend, CastSkip, ApplyReceive,
           ApplyTruncate, ApplyInstall, ReaderStep, FetchRead, FetchReply,
           GroupFetchReply, Restarts, Restart, vars, WorkerStep, SyncRead, SyncApply,
           SyncSkip, RecoverStart, RecoverFetch, RecoverReceive, RecoverWrite,
           RecoverFail
  <2> QED  BY <2>1
<1> QED
  BY <1>3, <1>4, <1>5, <1>6, <1>7, Zenon DEF Steady, Serve, Request, Crashes

\* What an ended handler is.
LEMMA EndedIs ==
  ASSUME NEW p \in Records, NEW a
  PROVE  /\ Ended(p, a).pc = "end" /\ Ended(p, a).off = task[p].off
         /\ Ended(p, a).at = Main /\ Ended(p, a).k = 1 /\ Ended(p, a).acks = {}
         /\ Ended(p, a).reply = IF p \in Durable THEN a ELSE task[p].reply
BY DEF Ended, NewTask, Main

LEMMA AcknowledgedIs ==
  ASSUME NEW t \in Task, NEW dst, NEW next
  PROVE  LET u == Acknowledged(t, dst, next) IN
         /\ u.at = t.at /\ u.off = t.off /\ u.rec = t.rec /\ u.reply = t.reply
         /\ u.pc \in {"send", "catchup"} /\ (u.k = t.k \/ u.k = t.k + 1)
         /\ u.acks = t.acks \/ (u.acks = t.acks \cup {dst} /\ ~(next <= t.off))
BY DEF Acknowledged, Task

\* What a step of the produce request does to its handler.
ProduceEffect(p) ==
    LET t == task[p]
        u == task'[p] IN
    \/ /\ ProduceAppend(p)
       /\ t.pc = "append" /\ u.pc = "readback" /\ u.off = NextOffset(t.at)
       /\ u.at = t.at /\ u.k = t.k /\ u.reply = t.reply
    \/ /\ t.pc = "readback" /\ u.pc = "send" /\ u.off = t.off /\ t.off < NextOffset(t.at)
       /\ u.at = t.at /\ u.k = t.k /\ u.rec = log[t.at][t.off + 1] /\ u.acks = {t.at}
       /\ u.reply = IF p \in Durable THEN t.reply ELSE "ok"
    \/ /\ t.pc \in Sending /\ u.pc \in Sending \cup {"commit"}
       /\ u.off = t.off /\ u.at = t.at /\ u.k \in {t.k, t.k + 1} /\ u.rec = t.rec
       /\ u.acks = t.acks /\ u.reply = t.reply
       /\ u.pc = "commit" => u.lead.hw = t.off + 1
    \/ /\ t.pc = "commit" /\ u.pc = "casting" /\ CommitApply(p)
       /\ u.off = t.off /\ u.at = t.at /\ u.k = t.k /\ u.reply = t.reply
    \/ /\ t.pc \in Appended /\ u.pc = "end" /\ u.off = t.off /\ u.at = Main /\ u.k = 1
       /\ \/ u.reply = "error"
          \/ p \notin Durable /\ u.reply = t.reply
          \/ u.reply = "ok" /\ (ProduceReply(p) \/ AlreadyCommitted(p))

LEMMA ProduceEffects ==
  ASSUME TypeInv, NEW p \in Records, ProduceStep(p)
  PROVE  ProduceEffect(p)
<1>1. task \in [Records -> Task] /\ task[p] \in Task
  BY DEF TypeInv, TypeOK
<1>2. CASE ProduceAppend(p)
  <2>1. task'[p] = [task[p] EXCEPT !.pc = "readback", !.off = NextOffset(task[p].at)]
    BY <1>1, <1>2 DEF ProduceAppend
  <2>2. task[p].pc = "append"
    BY <1>2 DEF ProduceAppend
  <2> QED  BY <1>1, <1>2, <2>1, <2>2 DEF ProduceEffect, Task
<1>3. CASE ProduceReadBack(p)
  <2> DEFINE rec == log[task[p].at][task[p].off + 1]
             acks == {task[p].at}
             reply == IF p \in Durable THEN task[p].reply ELSE "ok"
  <2>1. task'[p] = [task[p] EXCEPT !.pc = "send", !.rec = rec, !.acks = acks,
                                   !.reply = reply]
    BY <1>1, <1>3 DEF ProduceReadBack
  <2>2. task[p].pc = "readback" /\ task[p].off < NextOffset(task[p].at)
    BY <1>3 DEF ProduceReadBack
  <2> HIDE DEF rec, acks, reply
  <2>3. /\ task'[p].pc = "send" /\ task'[p].rec = rec /\ task'[p].acks = acks
        /\ task'[p].reply = reply /\ task'[p].off = task[p].off
        /\ task'[p].at = task[p].at /\ task'[p].k = task[p].k
    BY <1>1, <2>1 DEF Task
  <2> QED  BY <2>2, <2>3 DEF ProduceEffect, rec, acks, reply
<1>4. CASE SendReplica(p) \/ CatchUp(p) \/ FollowerFails(p) \/ CommitRead(p)
  <2>1. /\ task[p].pc \in Sending /\ task'[p].pc \in Sending \cup {"commit"}
        /\ task'[p].off = task[p].off /\ task'[p].at = task[p].at
        /\ task'[p].k \in {task[p].k, task[p].k + 1} /\ task'[p].rec = task[p].rec
        /\ task'[p].acks = task[p].acks /\ task'[p].reply = task[p].reply
    <3>1. CASE SendReplica(p)
      BY <1>1, <3>1 DEF SendReplica, Sending, Task
    <3>2. CASE CatchUp(p)
      BY <1>1, <3>2 DEF CatchUp, Sending, Task
    <3>3. CASE FollowerFails(p)
      BY <1>1, <3>3 DEF FollowerFails, Sending, Task
    <3>4. CASE CommitRead(p)
      BY <1>1, <3>4 DEF CommitRead, Sending, Task
    <3> QED  BY <1>4, <3>1, <3>2, <3>3, <3>4
  <2>2. task'[p].pc = "commit" => task'[p].lead.hw = task[p].off + 1
    <3>1. CASE CommitRead(p)
      <4>1. registry[task[p].at] \in Leadership
        BY <1>1 DEF TypeInv, TypeOK, Task
      <4>2. task'[p].lead = [registry[task[p].at] EXCEPT !.hw = task[p].off + 1]
        BY <1>1, <3>1 DEF CommitRead, Task
      <4> QED  BY <4>1, <4>2 DEF Leadership
    <3>2. CASE SendReplica(p) \/ CatchUp(p) \/ FollowerFails(p)
      BY <1>1, <3>2 DEF SendReplica, CatchUp, FollowerFails, Task
    <3> QED  BY <1>4, <3>1, <3>2
  <2> QED  BY <2>1, <2>2 DEF ProduceEffect
<1>5. CASE CommitApply(p)
  BY <1>1, <1>5 DEF CommitApply, ProduceEffect, Task
<1>6. CASE ProduceVanished(p)
  <2>1. task'[p] = [Ended(p, "error") EXCEPT !.reply = "error"] /\ task[p].pc = "readback"
    BY <1>1, <1>6 DEF ProduceVanished
  <2>2. /\ task'[p].pc = "end" /\ task'[p].off = task[p].off /\ task'[p].at = Main
        /\ task'[p].k = 1 /\ task'[p].reply = "error"
    BY <2>1 DEF Ended, NewTask, Main
  <2> QED  BY <2>1, <2>2 DEF ProduceEffect, Appended
<1>7. CASE CommitStale(p) \/ NotEnoughInSyncReplicas(p)
  <2>1. task'[p] = Ended(p, "error") /\ task[p].pc \in {"send", "commit"}
    BY <1>1, <1>7 DEF CommitStale, NotEnoughInSyncReplicas
  <2>2. task'[p].reply = IF p \in Durable THEN "error" ELSE task[p].reply
    BY <2>1, EndedIs
  <2> QED  BY <2>1, <2>2, EndedIs DEF ProduceEffect, Appended, Sending
<1>8. CASE AlreadyCommitted(p) \/ ProduceReply(p)
  <2>1. task'[p] = Ended(p, "ok") /\ task[p].pc \in {"send", "casting"}
    BY <1>1, <1>8 DEF AlreadyCommitted, ProduceReply
  <2>2. task'[p].reply = IF p \in Durable THEN "ok" ELSE task[p].reply
    BY <2>1, EndedIs
  <2> QED  BY <1>8, <2>1, <2>2, EndedIs DEF ProduceEffect, Appended, Sending
<1> QED
  BY <1>2, <1>3, <1>4, <1>5, <1>6, <1>7, <1>8 DEF ProduceStep

-----------------------------------------------------------------------------
(* What a step does to requests, fetches and answers on their way.         *)

\* A replicate request is one that was there, or a new one.
RpcEffect(m) ==
    \/ m \in rpcs
    \/ \E x \in rpcs : m.rec = x.rec /\ m.st \in {"recv", "write"}
    \/ /\ m.st = "recv"
       /\ \E p \in Records :
            \/ task[p].pc = "send" /\ m.rec = task[p].rec
            \/ \E i \in 1 .. Len(log[task[p].at]) : m.rec = log[task[p].at][i]

LEMMA RpcEffects ==
  ASSUME TypeInv, LeaderInv, [Steady]_vars, NEW m \in rpcs'
  PROVE  RpcEffect(m)
<1>1. CASE rpcs' \subseteq rpcs
  BY <1>1 DEF RpcEffect
<1>2. ASSUME NEW p \in Records, SendReplica(p) PROVE RpcEffect(m)
  <2>1. m \in rpcs \/ m = ReplicateRecord(p, task[p].off, task[p].rec, registry[task[p].at])
    BY <1>2 DEF SendReplica
  <2>2. task[p].pc = "send"
    BY <1>2 DEF SendReplica
  <2> QED  BY <2>1, <2>2 DEF RpcEffect, ReplicateRecord
<1>3. ASSUME NEW p \in Records, CatchUp(p) PROVE RpcEffect(m)
  <2> DEFINE i == task[p].next + 1
  <2>1. m \in rpcs \/ m = ReplicateRecord(p, task[p].next, log[task[p].at][i], task[p].lead)
    BY <1>3 DEF CatchUp
  <2>2. i \in 1 .. Len(log[task[p].at])
    <3>1. task[p].next \in Nat /\ task[p].next < Len(log[task[p].at])
          /\ Len(log[task[p].at]) \in Nat
      BY <1>3 DEF CatchUp, NextOffset, TypeInv, TypeOK, Task
    <3> QED  BY <3>1
  <2> HIDE DEF i
  <2> QED  BY <2>1, <2>2 DEF RpcEffect, ReplicateRecord
<1>4. ASSUME NEW x \in rpcs, ReplicaStep(x) PROVE RpcEffect(m)
  <2>1. x \in Rpc /\ x.dst \in Brokers /\ x.st \in {"recv", "write"}
    BY DEF TypeInv, TypeOK, Rpc, LeaderInv
  <2>2. CASE ReplicaReceive(x)
    <3>1. x.lead \in Held /\ registry[x.dst] \in Held
      BY <2>1 DEF Held
    <3>2. ~(x.lead.epoch > registry[x.dst].epoch)
      BY <3>1 DEF LeaderInv
    <3>3. PICK hw : rpcs' = (rpcs \ {x}) \cup {[x EXCEPT !.st = "write", !.hw = hw]}
      BY <2>2, <3>2 DEF ReplicaReceive
    <3>4. [x EXCEPT !.st = "write", !.hw = hw].rec = x.rec
          /\ [x EXCEPT !.st = "write", !.hw = hw].st = "write"
      BY <2>1 DEF Rpc
    <3> QED  BY <3>3, <3>4 DEF RpcEffect
  <2>3. CASE ReplicaReject(x) \/ ReplicaDiverged(x) \/ ReplicaWrite(x)
    BY <1>1, <2>3 DEF ReplicaReject, ReplicaDiverged, ReplicaWrite
  <2>4. ~ReplicaTruncate(x) /\ ~ReplicaApply(x)
    BY <2>1 DEF ReplicaTruncate, ReplicaApply
  <2> QED  BY <1>4, <2>2, <2>3, <2>4 DEF ReplicaStep
<1>5. ASSUME NEW p \in Records, ProduceStep(p), ~SendReplica(p), ~CatchUp(p)
      PROVE  rpcs' \subseteq rpcs
  BY <1>5, Zenon
     DEF ProduceStep, ProduceAppend, ProduceReadBack, ProduceVanished, FollowerFails,
         AlreadyCommitted, CommitRead, CommitApply, CommitStale,
         NotEnoughInSyncReplicas, ProduceReply
<1>6. CASE \/ Request \/ Crashes \/ Restarts \/ UNCHANGED vars
           \/ \E c \in Casters : CastStep(c)
           \/ \E r \in Readers : ReaderStep(r)
           \/ \E n \in Recovering : WorkerStep(n)
  <2>1. CASE Crashes
    BY <1>1, <2>1 DEF Crashes, Crash
  <2>2. CASE ~Crashes
    <3>1. UNCHANGED rpcs
      BY <1>6, <2>2, Zenon
         DEF Request, ProduceCheck, FetchStart, GroupFetchStart, CastStep, CastSend,
             CastSkip, ApplyReceive, ApplyTruncate, ApplyInstall, ReaderStep, FetchRead,
             FetchReply, GroupFetchReply, Restarts, Restart, vars, WorkerStep, SyncRead,
             SyncApply, SyncSkip, RecoverStart, RecoverFetch, RecoverReceive,
             RecoverWrite, RecoverFail
    <3> QED  BY <1>1, <3>1
  <2> QED  BY <2>1, <2>2
<1> QED
  BY <1>1, <1>2, <1>3, <1>4, <1>5, <1>6, Zenon DEF Steady, Serve

\* A fetch is at rest, begins at a leader, has read its log, or goes on with
\* what it has read.
FetchEffect(f) ==
    LET t == fetch[f]
        u == fetch'[f] IN
    \/ u = t
    \/ u.pc \in {"idle", "sync", "scan", "route"}
    \/ /\ u.pc \in {"read", "groupread"}
       /\ \E n \in Brokers : u.at = registry[n].leader
       /\ u.pc = "groupread" => u.hw = registry[u.at].hw
    \/ /\ t.pc = "read" /\ u.pc = "filter" /\ u.at = t.at
       /\ u.recs = SubSeq(log[t.at], t.off + 1, Len(log[t.at]))
    \/ /\ t.pc \in {"filter", "write"} /\ u.pc = "write"
       /\ \A i \in 1 .. Len(u.recs) : \E j \in 1 .. Len(t.recs) : u.recs[i] = t.recs[j]

LEMMA FetchReadEffect ==
  ASSUME TypeInv, NEW f \in Fetchers, FetchRead(f)
  PROVE  FetchEffect(f)
<1>1. fetch \in [Fetchers -> Fetch] /\ fetch[f] \in Fetch
  BY DEF TypeInv, TypeOK
<1> DEFINE s == SubSeq(log[fetch[f].at], fetch[f].off + 1, Len(log[fetch[f].at]))
<1>2. fetch'[f] = [fetch[f] EXCEPT !.pc = "filter", !.recs = s] /\ fetch[f].pc = "read"
  BY <1>1 DEF FetchRead
<1> HIDE DEF s
<1>3. fetch'[f].pc = "filter" /\ fetch'[f].recs = s /\ fetch'[f].at = fetch[f].at
  BY <1>1, <1>2 DEF Fetch
<1> QED  BY <1>2, <1>3 DEF FetchEffect, s

LEMMA WorkerEffect ==
  ASSUME TypeInv, NEW n \in Recovering, WorkerStep(n)
  PROVE  FetchEffect(n)
<1> DEFINE t == fetch[n]
<1>1. /\ n \in Fetchers /\ fetch \in [Fetchers -> Fetch] /\ t \in Fetch
      /\ t.recs \in Seq(Records) /\ Len(t.recs) \in Nat /\ t.off \in Nat /\ t.at \in Brokers
      /\ registry[t.at].hw \in Nat
  BY DEF TypeInv, TypeOK, Fetchers, Fetch, Leadership
<1>2. IdleFetch.pc = "idle"
  BY DEF IdleFetch
<1>3. CASE SyncRead(n) \/ SyncApply(n) \/ SyncSkip(n)
  <2>1. fetch'[n].pc \in {"sync", "scan"}
    BY <1>1, <1>3 DEF SyncRead, SyncApply, SyncSkip, Fetch
  <2> QED  BY <2>1 DEF FetchEffect
<1>4. CASE RecoverStart(n)
  <2>1. fetch'[n].pc \in {"route", "idle"}
    BY <1>1, <1>4 DEF RecoverStart, IdleFetch
  <2> QED  BY <2>1 DEF FetchEffect
<1>5. CASE RecoverFetch(n)
  <2>1. fetch'[n].pc = "read" /\ fetch'[n].at = registry[Controller].leader
    BY <1>1, <1>5 DEF RecoverFetch, Fetch
  <2> QED  BY <2>1, ConstantTypes DEF FetchEffect
<1>6. CASE FetchRead(n)
  BY <1>1, <1>6, FetchReadEffect
<1>7. CASE RecoverReceive(n)
  <2> DEFINE visible == registry[t.at].hw - t.off
             last == Min({visible, Len(t.recs)})
             kept == SubSeq(t.recs, 1, last)
  <2>1. visible \in Int
    BY <1>1
  <2>2. last \in Int /\ last <= Len(t.recs)
    <3> HIDE DEF visible
    <3> QED  BY <1>1, <2>1 DEF Min
  <2>3. fetch'[n] = IF kept = << >> THEN IdleFetch
                    ELSE [t EXCEPT !.pc = "write", !.recs = kept]
    BY <1>1, <1>7 DEF RecoverReceive
  <2> HIDE DEF last
  <2>4. \A i \in 1 .. last : t.recs[i] \in Records
    BY <1>1, <2>2
  <2>5. /\ Len(kept) = IF 1 <= last THEN last - 1 + 1 ELSE 0
        /\ \A i \in 1 .. last - 1 + 1 : kept[i] = t.recs[1 + i - 1]
    BY <2>2, <2>4, SubSeqProperties
  <2> HIDE DEF kept
  <2>6. \A i \in 1 .. Len(kept) : i \in 1 .. Len(t.recs) /\ kept[i] = t.recs[i]
    BY <1>1, <2>2, <2>5
  <2>7. CASE kept = << >>
    BY <1>2, <2>3, <2>7 DEF FetchEffect
  <2>8. CASE kept # << >>
    <3>1. fetch'[n].pc = "write" /\ fetch'[n].recs = kept
      BY <1>1, <2>3, <2>8 DEF Fetch
    <3>2. t.pc = "filter"
      BY <1>7 DEF RecoverReceive
    <3> QED  BY <2>6, <3>1, <3>2 DEF FetchEffect
  <2> QED  BY <2>7, <2>8
<1>8. CASE RecoverWrite(n)
  <2> DEFINE pc == IF Len(t.recs) = 1 THEN "route" ELSE "write"
             off == IF Len(t.recs) = 1 THEN Len(Replicated(log[n], t.off, Head(t.recs)))
                    ELSE t.off + 1
             rest == Tail(t.recs)
  <2>1. fetch'[n] = [t EXCEPT !.recs = rest, !.pc = pc, !.off = off]
    BY <1>1, <1>8 DEF RecoverWrite
  <2>2. t.pc = "write" /\ t.recs # << >>
    BY <1>1, <1>8 DEF RecoverWrite, TypeInv
  <2>3. \A i \in 1 .. Len(rest) : i + 1 \in 1 .. Len(t.recs) /\ rest[i] = t.recs[i + 1]
    BY <1>1, <2>2
  <2>4. pc \in {"route", "write"}
    OBVIOUS
  <2> HIDE DEF pc, off, rest
  <2>5. fetch'[n].pc = pc /\ fetch'[n].recs = rest
    BY <1>1, <2>1 DEF Fetch
  <2>6. CASE pc = "route"
    BY <2>5, <2>6 DEF FetchEffect
  <2>7. CASE pc = "write"
    BY <2>2, <2>3, <2>5, <2>7 DEF FetchEffect
  <2> QED  BY <2>4, <2>6, <2>7
<1>9. CASE RecoverFail(n)
  <2>1. fetch'[n] = IdleFetch
    BY <1>1, <1>9 DEF RecoverFail
  <2> QED  BY <1>2, <2>1 DEF FetchEffect
<1> QED
  BY <1>3, <1>4, <1>5, <1>6, <1>7, <1>8, <1>9 DEF WorkerStep

LEMMA FetchEffects ==
  ASSUME TypeInv, [Steady]_vars, NEW f \in Fetchers
  PROVE  FetchEffect(f)
<1>1. fetch \in [Fetchers -> Fetch] /\ fetch[f] \in Fetch
  BY DEF TypeInv, TypeOK
<1>2. CASE fetch'[f] = fetch[f]
  BY <1>2 DEF FetchEffect
<1>3. CASE fetch'[f] = IdleFetch
  BY <1>3 DEF FetchEffect, IdleFetch
<1>4. ASSUME NEW r \in Readers, NEW n \in Brokers, FetchStart(r, n) \/ GroupFetchStart(r, n)
      PROVE  FetchEffect(f)
  <2>1. CASE f = r /\ FetchStart(r, n)
    <3>1. fetch'[f].pc = "read" /\ fetch'[f].at = n
      BY <1>1, <2>1 DEF FetchStart, Fetch
    <3>2. registry[n].leader = n
      BY <2>1 DEF FetchStart
    <3> QED  BY <3>1, <3>2 DEF FetchEffect
  <2>2. CASE f = r /\ GroupFetchStart(r, n)
    <3>1. fetch'[f].pc = "groupread" /\ fetch'[f].at = n /\ fetch'[f].hw = registry[n].hw
      BY <1>1, <2>2 DEF GroupFetchStart, Fetch
    <3>2. registry[n].leader = n
      BY <2>2 DEF GroupFetchStart
    <3> QED  BY <3>1, <3>2 DEF FetchEffect
  <2>3. CASE f # r
    BY <1>1, <1>2, <1>4, <2>3 DEF FetchStart, GroupFetchStart
  <2> QED  BY <1>4, <2>1, <2>2, <2>3
<1>5. ASSUME NEW r \in Readers, ReaderStep(r) PROVE FetchEffect(f)
  <2>1. CASE f = r /\ FetchRead(r)
    BY <2>1, FetchReadEffect
  <2>2. CASE f = r /\ ~FetchRead(r)
    BY <1>1, <1>3, <1>5, <2>2 DEF ReaderStep, FetchReply, GroupFetchReply
  <2>3. CASE f # r
    BY <1>1, <1>2, <1>5, <2>3 DEF ReaderStep, FetchRead, FetchReply, GroupFetchReply
  <2> QED  BY <2>1, <2>2, <2>3
<1>6. ASSUME NEW n \in Recovering, WorkerStep(n) PROVE FetchEffect(f)
  <2>1. CASE f = n
    BY <1>6, <2>1, WorkerEffect
  <2>2. CASE f # n
    <3>1. CASE SyncRead(n) \/ SyncApply(n) \/ SyncSkip(n)
      BY <1>1, <1>2, <2>2, <3>1 DEF SyncRead, SyncApply, SyncSkip
    <3>2. CASE RecoverStart(n) \/ RecoverFetch(n) \/ FetchRead(n)
      BY <1>1, <1>2, <2>2, <3>2 DEF RecoverStart, RecoverFetch, FetchRead
    <3>3. CASE RecoverReceive(n)
      BY <1>1, <1>2, <2>2, <3>3 DEF RecoverReceive
    <3>4. CASE RecoverWrite(n)
      BY <1>1, <1>2, <2>2, <3>4 DEF RecoverWrite
    <3>5. CASE RecoverFail(n)
      BY <1>1, <1>2, <2>2, <3>5 DEF RecoverFail
    <3> QED  BY <1>6, <3>1, <3>2, <3>3, <3>4, <3>5 DEF WorkerStep
  <2> QED  BY <2>1, <2>2
<1>7. CASE Crashes
  BY <1>2, <1>3, <1>7 DEF Crashes, Crash
<1>8. CASE \/ \E p \in Records, n \in Brokers : ProduceCheck(p, n)
           \/ \E p \in Records : ProduceStep(p)
           \/ \E m \in rpcs : ReplicaStep(m)
           \/ \E c \in Casters : CastStep(c)
           \/ Restarts \/ UNCHANGED vars
  <2>1. UNCHANGED fetch
    BY <1>8, Zenon
       DEF ProduceCheck, ProduceStep, ProduceAppend, ProduceReadBack, ProduceVanished,
           SendReplica, CatchUp, FollowerFails, AlreadyCommitted, CommitRead,
           CommitApply, CommitStale, NotEnoughInSyncReplicas, ProduceReply,
           ReplicaStep, ReplicaReceive, ReplicaReject, ReplicaTruncate, ReplicaApply,
           ReplicaWrite, ReplicaDiverged, CastStep, CastSend, CastSkip, ApplyReceive,
           ApplyTruncate, ApplyInstall, Restarts, Restart, vars
  <2> QED  BY <1>2, <2>1
<1> QED
  BY <1>4, <1>5, <1>6, <1>7, <1>8, Zenon DEF Steady, Serve, Request

\* What a consumer gets that it had not.
Delivered(e) ==
    \E r \in Readers : \E s \in Seq(Records) : \E hw \in Nat :
        /\ \/ fetch[r].pc = "filter" /\ s = fetch[r].recs /\ hw = registry[fetch[r].at].hw
           \/ fetch[r].pc = "groupread" /\ s = log[fetch[r].at] /\ hw = fetch[r].hw
        /\ \E i \in 1 .. Len(s) : e = [off |-> i - 1, rec |-> s[i]] /\ i - 1 < hw

LEMMA DeliveredOnly ==
  ASSUME TypeInv, OffsetInv, [Steady]_vars, NEW e \in exposed'
  PROVE  e \in exposed \/ Delivered(e)
<1>1. fetch \in [Fetchers -> Fetch] /\ log \in [Brokers -> Seq(Records)]
      /\ registry \in [Brokers -> Leadership]
  BY DEF TypeInv, TypeOK
<1>2. ASSUME NEW s \in Seq(Records), NEW hw \in Nat, e \in Returned(s, 0, hw)
      PROVE  \E i \in 1 .. Len(s) : e = [off |-> i - 1, rec |-> s[i]] /\ i - 1 < hw
  <2>1. PICK i \in {j \in 1 .. Len(s) : 0 + j - 1 < hw} :
             e = [off |-> 0 + i - 1, rec |-> s[i]]
    BY <1>2 DEF Returned
  <2>2. 0 + i - 1 = i - 1 /\ i \in 1 .. Len(s)
    OBVIOUS
  <2> QED  BY <2>1, <2>2
<1>3. ASSUME NEW r \in Readers, FetchReply(r) PROVE e \in exposed \/ Delivered(e)
  <2>1. /\ fetch[r].recs \in Seq(Records) /\ registry[fetch[r].at].hw \in Nat
    BY <1>1 DEF Fetchers, Fetch, Leadership
  <2>2. /\ fetch[r].pc = "filter"
        /\ e \in exposed \/ e \in Returned(fetch[r].recs, 0, registry[fetch[r].at].hw)
    BY <1>3 DEF FetchReply
  <2> QED  BY <1>2, <2>1, <2>2 DEF Delivered
<1>4. ASSUME NEW r \in Readers, GroupFetchReply(r) PROVE e \in exposed \/ Delivered(e)
  <2>1. /\ log[fetch[r].at] \in Seq(Records) /\ fetch[r].hw \in Nat
    BY <1>1 DEF Fetchers, Fetch
  <2>2. /\ fetch[r].pc = "groupread"
        /\ e \in exposed \/ e \in Returned(log[fetch[r].at], 0, fetch[r].hw)
    BY <1>4 DEF GroupFetchReply
  <2> QED  BY <1>2, <2>1, <2>2 DEF Delivered
<1>5. ASSUME NEW r \in Readers, FetchRead(r) PROVE UNCHANGED exposed
  BY <1>5 DEF FetchRead
<1>6. CASE \/ Request \/ Crashes \/ Restarts \/ UNCHANGED vars
           \/ \E p \in Records : ProduceStep(p)
           \/ \E m \in rpcs : ReplicaStep(m)
           \/ \E c \in Casters : CastStep(c)
           \/ \E n \in Recovering : WorkerStep(n)
  <2>1. UNCHANGED exposed
    BY <1>6, Zenon
       DEF Request, FetchStart, GroupFetchStart, Crashes, Crash, Restarts, Restart,
           vars, ProduceCheck, ProduceStep, ProduceAppend, ProduceReadBack,
           ProduceVanished, SendReplica, CatchUp, FollowerFails, AlreadyCommitted,
           CommitRead, CommitApply, CommitStale, NotEnoughInSyncReplicas, ProduceReply,
           ReplicaStep, ReplicaReceive, ReplicaReject, ReplicaTruncate, ReplicaApply,
           ReplicaWrite, ReplicaDiverged, CastStep, CastSend, CastSkip, ApplyReceive,
           ApplyTruncate, ApplyInstall, WorkerStep, SyncRead, SyncApply, SyncSkip,
           RecoverStart, RecoverFetch, FetchRead, RecoverReceive, RecoverWrite,
           RecoverFail
  <2> QED  BY <2>1
<1> QED
  BY <1>3, <1>4, <1>5, <1>6, Zenon DEF Steady, Serve, ReaderStep

-----------------------------------------------------------------------------
(* Nobody else leads.                                                      *)

LEMMA HeldKnown ==
  ASSUME TypeInv, [Steady]_vars, NEW l \in Held'
  PROVE  Known(l)
<1>1. \/ l = InitialLeadership
      \/ (\E n \in Brokers : l = registry'[n])
      \/ (\E p \in Records : l = task'[p].lead)
      \/ (\E m \in rpcs' : l = m.lead)
      \/ (\E c \in Casters : l = cast'[c].lead)
      \/ (\E q \in Promoters : l = promo'[q].cur)
      \/ (\E f \in Fetchers : l = fetch'[f].lead)
  BY DEF Held
<1> QED  BY <1>1, KnownNow, KnownSteady DEF KnownNext

LEMMA LeaderTask ==
  ASSUME TypeInv, LeaderInv, [Steady]_vars, NEW p \in Records
  PROVE  task'[p].at = Main /\ task'[p].k >= 1
<1>1. task \in [Records -> Task] /\ task[p] \in Task /\ task[p].k \in Nat
  BY DEF TypeInv, TypeOK, Task
<1>2. task[p].at = Main /\ task[p].k >= 1
  BY DEF LeaderInv
<1>3. CASE task'[p] = task[p]
  BY <1>2, <1>3
<1>4. ASSUME NEW n \in Brokers, ProduceCheck(p, n) PROVE task'[p].at = Main /\ task'[p].k >= 1
  <2>1. registry[n] \in Held
    BY DEF Held
  <2>2. n = Main
    BY <1>4, <2>1 DEF ProduceCheck, LeaderInv
  <2>3. task'[p] = [task[p] EXCEPT !.pc = "append", !.at = n]
    BY <1>1, <1>4 DEF ProduceCheck
  <2> QED  BY <1>1, <1>2, <2>2, <2>3 DEF Task
<1>5. CASE ProduceStep(p)
  <2>1. ProduceEffect(p)
    BY <1>5, ProduceEffects
  <2> QED  BY <1>1, <1>2, <2>1 DEF ProduceEffect
<1>6. CASE Answers(p)
  BY <1>1, <1>2, <1>6, AcknowledgedIs DEF Answers
<1>7. CASE Dies(p)
  BY <1>7, EndedIs DEF Dies
<1> QED  BY <1>3, <1>4, <1>5, <1>6, <1>7, TaskSteps

LEMMA LeaderCast ==
  ASSUME TypeInv, LeaderInv, [Steady]_vars, NEW c \in Casters
  PROVE  Harmless(cast'[c])
<1>1. cast \in [Casters -> Cast] /\ \A x \in Casters : cast[x] \in Cast
  BY DEF TypeInv, TypeOK
<1>2. \A x \in Casters : Harmless(cast[x])
  BY DEF LeaderInv
<1>3. \A src \in Brokers, k \in Nat : NextPeer(src, k) \in Nat /\ NextPeer(src, k) >= 1
  BY DEF NextPeer, Brokers
<1>4. Harmless(IdleCast)
  BY DEF IdleCast, Harmless
<1>5. \A x \in Casters : Harmless(Answered(cast[x]))
  BY <1>1, <1>2, <1>3, <1>4 DEF Answered, Cast, Harmless
<1>6. ASSUME NEW x \in Casters, CastStep(x) PROVE Harmless(cast'[c])
  <2>1. ~ApplyTruncate(x)
    BY <1>2 DEF ApplyTruncate, Harmless
  <2>2. ~ApplyReceive(x)
    <3> SUFFICES ASSUME ApplyReceive(x) PROVE FALSE
      OBVIOUS
    <3>1. cast[x].lead \in Held /\ cast[x].lead.epoch = 0
      BY DEF Held, LeaderInv
    <3>2. cast[x].lead.epoch > registry[cast[x].k].epoch
      BY DEF ApplyReceive
    <3>3. cast[x].k \in Brokers
      BY <1>2 DEF ApplyReceive, Harmless
    <3>4. registry[cast[x].k] \in Held
      BY <3>3 DEF Held
    <3> QED  BY <3>1, <3>2, <3>4 DEF LeaderInv
  <2>3. CASE CastSend(x)
    BY <1>1, <1>2, <2>3 DEF CastSend, Cast, Harmless, Brokers
  <2>4. CASE CastSkip(x)
    BY <1>1, <1>2, <1>3, <2>4 DEF CastSkip, Cast, Harmless
  <2>5. CASE ApplyInstall(x)
    BY <1>1, <1>2, <1>5, <2>5 DEF ApplyInstall
  <2> QED  BY <1>6, <2>1, <2>2, <2>3, <2>4, <2>5 DEF CastStep
<1>7. ASSUME NEW n \in Brokers, Crash(n) PROVE Harmless(cast'[c])
  <2>1. \/ cast'[c] = cast[c] \/ cast'[c] = Answered(cast[c]) \/ cast'[c] = IdleCast
        \/ cast'[c] = [cast[c] EXCEPT !.live = FALSE]
    BY <1>7 DEF Crash
  <2>2. Harmless([cast[c] EXCEPT !.live = FALSE])
    BY <1>1, <1>2 DEF Cast, Harmless
  <2> QED  BY <1>2, <1>4, <1>5, <2>1, <2>2
<1>8. ASSUME NEW p \in Records, ProduceStep(p) PROVE Harmless(cast'[c])
  <2>1. \/ UNCHANGED cast \/ cast' = [cast EXCEPT ![p] = IdleCast]
        \/ cast' = [cast EXCEPT ![p] = StartCast(task[p].at, task[p].lead)]
    BY <1>8, Zenon
       DEF ProduceStep, ProduceAppend, ProduceReadBack, ProduceVanished, SendReplica,
           CatchUp, FollowerFails, AlreadyCommitted, CommitRead, CommitApply,
           CommitStale, NotEnoughInSyncReplicas, ProduceReply
  <2>2. task[p].at \in Brokers
    BY DEF TypeInv, TypeOK, Task
  <2>3. Harmless(StartCast(task[p].at, task[p].lead))
    BY <1>3, <2>2 DEF StartCast, Harmless
  <2> QED  BY <1>1, <1>2, <1>4, <2>1, <2>3
<1>9. CASE \/ Request \/ Restarts \/ UNCHANGED vars
           \/ \E m \in rpcs : ReplicaStep(m)
           \/ \E r \in Readers : ReaderStep(r)
           \/ \E n \in Recovering : WorkerStep(n)
  <2>1. UNCHANGED cast
    BY <1>9, Zenon
       DEF Request, ProduceCheck, FetchStart, GroupFetchStart, Restarts, Restart, vars,
           ReplicaStep, ReplicaReceive, ReplicaReject, ReplicaTruncate, ReplicaApply,
           ReplicaWrite, ReplicaDiverged, ReaderStep, FetchRead, FetchReply,
           GroupFetchReply, WorkerStep, SyncRead, SyncApply, SyncSkip, RecoverStart,
           RecoverFetch, RecoverReceive, RecoverWrite, RecoverFail
  <2> QED  BY <1>2, <2>1
<1> QED
  BY <1>6, <1>7, <1>8, <1>9, Zenon DEF Steady, Serve, Crashes

LEMMA LeaderStep ==
  ASSUME TypeInv, LeaderInv, [Steady]_vars
  PROVE  LeaderInv'
<1>1. ASSUME NEW l \in Held' PROVE l.leader = Main /\ l.epoch = 0
  BY HeldKnown DEF Known, LeaderInv
<1>2. ASSUME NEW m \in rpcs' PROVE m.st \in {"recv", "write"}
  <2>1. RpcEffect(m)
    BY RpcEffects
  <2> QED  BY <2>1 DEF RpcEffect, LeaderInv
<1>3. ASSUME NEW f \in Fetchers, fetch'[f].pc \in {"read", "groupread", "filter"}
      PROVE  fetch'[f].at = Main
  <2>1. FetchEffect(f)
    BY FetchEffects
  <2>2. \A n \in Brokers : registry[n].leader = Main
    BY DEF LeaderInv, Held
  <2> QED  BY <1>3, <2>1, <2>2 DEF FetchEffect, LeaderInv
<1>4. Main' = Main
  BY DEF Main, DeterministicLeader, Ring
<1> QED  BY <1>1, <1>2, <1>3, <1>4, LeaderTask, LeaderCast DEF LeaderInv

-----------------------------------------------------------------------------
(* Copies are of the leader's records.                                     *)

LEMMA StoredGrows ==
  ASSUME TypeInv, LeaderInv, CopyInv, [Steady]_vars
  PROVE  /\ Stored \subseteq Stored'
         /\ \A p \in Records : ProduceAppend(p) => p \in Stored'
<1>1. Main' = Main /\ Main \in Brokers
  BY MainReplica DEF Main, DeterministicLeader, Ring
<1>2. Stored' = {log'[Main][i] : i \in 1 .. Len(log'[Main])}
  BY <1>1 DEF Stored
<1>3. Grows(log[Main], log'[Main])
  BY <1>1, LogSteps, LogGrows
<1>4. ASSUME NEW x \in Stored PROVE x \in Stored'
  <2>1. PICK i \in 1 .. Len(log[Main]) : x = log[Main][i]
    BY DEF Stored
  <2>2. i \in 1 .. Len(log'[Main]) /\ x = log'[Main][i]
    BY <1>3, <2>1 DEF Grows
  <2> QED  BY <1>2, <2>2
<1>5. ASSUME NEW p \in Records, ProduceAppend(p) PROVE p \in Stored'
  <2>1. task[p].at = Main /\ log \in [Brokers -> Seq(Records)]
    BY DEF LeaderInv, TypeInv, TypeOK
  <2>2. log'[Main] = Append(log[Main], p)
    BY <1>1, <1>5, <2>1 DEF ProduceAppend
  <2>3. Len(log'[Main]) \in 1 .. Len(log'[Main]) /\ log'[Main][Len(log'[Main])] = p
    BY <1>1, <2>1, <2>2
  <2> QED  BY <1>2, <2>3
<1> QED  BY <1>4, <1>5

LEMMA CopyLog ==
  ASSUME TypeInv, LeaderInv, CopyInv, [Steady]_vars, NEW n \in Brokers,
         NEW i \in 1 .. Len(log'[n])
  PROVE  log'[n][i] \in Stored'
<1>1. log[n] \in Seq(Records) /\ Len(log[n]) \in Nat
  BY DEF TypeInv, TypeOK
<1>2. \A j \in 1 .. Len(log[n]) : log[n][j] \in Stored'
  BY StoredGrows DEF CopyInv
<1>3. CASE log'[n] = log[n]
  BY <1>2, <1>3
<1>4. ASSUME NEW r \in Records, log'[n] = Append(log[n], r),
             r \in Stored \/ (n = Main /\ ProduceAppend(r))
      PROVE  log'[n][i] \in Stored'
  <2>1. r \in Stored'
    BY <1>4, StoredGrows
  <2>2. i \in 1 .. Len(log[n]) => log'[n][i] = log[n][i]
    BY <1>1, <1>4
  <2>3. i \notin 1 .. Len(log[n]) => log'[n][i] = r
    BY <1>1, <1>4
  <2> QED  BY <1>2, <2>1, <2>2, <2>3
<1> QED  BY <1>3, <1>4, LogSteps DEF LogStep

LEMMA CopyTask ==
  ASSUME TypeInv, LeaderInv, CopyInv, [Steady]_vars, NEW p \in Records
  PROVE  /\ task'[p].pc \in Sending => task'[p].rec \in Stored'
         /\ task'[p].pc \in Appended \/ task'[p].reply = "ok" => p \in Stored'
<1>1. task \in [Records -> Task] /\ task[p] \in Task
  BY DEF TypeInv, TypeOK
<1>2. /\ task[p].pc \in Sending => task[p].rec \in Stored'
      /\ task[p].pc \in Appended \/ task[p].reply = "ok" => p \in Stored'
  BY StoredGrows DEF CopyInv
<1>3. CASE task'[p] = task[p]
  BY <1>2, <1>3
<1>4. CASE \E n \in Brokers : ProduceCheck(p, n)
  <2>1. task'[p].pc = "append" /\ task'[p].reply = task[p].reply
    BY <1>1, <1>4 DEF ProduceCheck, Task
  <2> QED  BY <1>2, <2>1 DEF Sending, Appended
<1>5. CASE ProduceStep(p)
  <2> DEFINE t == task[p]
             u == task'[p]
  <2>1. ProduceEffect(p)
    BY <1>5, ProduceEffects
  <2>2. CASE ProduceAppend(p) /\ u.pc = "readback"
    BY <2>2, StoredGrows DEF Sending, Appended
  <2>3. CASE /\ t.pc = "readback" /\ u.pc = "send" /\ t.off < NextOffset(t.at)
             /\ u.rec = log[t.at][t.off + 1]
    <3>1. t.at = Main /\ t.off \in Nat /\ Len(log[Main]) \in Nat
      BY <1>1, MainReplica DEF LeaderInv, Task, TypeInv, TypeOK
    <3>2. t.off + 1 \in 1 .. Len(log[Main])
      BY <2>3, <3>1 DEF NextOffset
    <3>3. u.rec \in Stored
      BY <2>3, <3>1, <3>2 DEF Stored
    <3> QED  BY <1>2, <2>3, <3>3, StoredGrows DEF Appended
  <2>4. CASE t.pc \in Sending /\ u.rec = t.rec
    BY <1>2, <2>4 DEF Appended
  <2>5. CASE t.pc \in Appended /\ u.pc \in {"casting", "end"}
    BY <1>2, <2>5 DEF Sending
  <2> QED  BY <2>1, <2>2, <2>3, <2>4, <2>5 DEF ProduceEffect, Appended
<1>6. CASE Answers(p)
  <2>1. task[p].pc \in Sending
    BY <1>6 DEF Answers, Waiting, Sending
  <2>2. task'[p].rec = task[p].rec
    BY <1>1, <1>6, AcknowledgedIs DEF Answers
  <2> QED  BY <1>2, <2>1, <2>2 DEF Appended
<1>7. CASE Dies(p)
  <2>1. task'[p].pc = "end" /\ task'[p].reply = task[p].reply
    BY <1>7, EndedIs DEF Dies
  <2> QED  BY <1>2, <2>1 DEF Sending, Appended
<1> QED  BY <1>3, <1>4, <1>5, <1>6, <1>7, TaskSteps

LEMMA CopyRead ==
  ASSUME TypeInv, CopyInv, NEW n \in Brokers, NEW o \in Nat
  PROVE  LET s == SubSeq(log[n], o + 1, Len(log[n])) IN
         \A i \in 1 .. Len(s) : s[i] \in Stored
<1> DEFINE s == SubSeq(log[n], o + 1, Len(log[n]))
<1>1. Len(log[n]) \in Nat
  BY DEF TypeInv, TypeOK
<1>2. \A i \in o + 1 .. Len(log[n]) : log[n][i] \in Stored
  BY <1>1 DEF CopyInv
<1>3. s \in Seq(Stored)
  BY <1>1, <1>2, SubSeqProperties
<1> HIDE DEF s
<1>4. \A i \in 1 .. Len(s) : s[i] \in Stored
  BY <1>3
<1> QED  BY <1>4 DEF s

LEMMA CopyStep ==
  ASSUME TypeInv, OffsetInv, LeaderInv, CopyInv, [Steady]_vars
  PROVE  CopyInv'
<1>1. ASSUME NEW m \in rpcs' PROVE m.rec \in Stored'
  <2>1. RpcEffect(m)
    BY RpcEffects
  <2>2. \A n \in Brokers : \A i \in 1 .. Len(log[n]) : log[n][i] \in Stored
    BY DEF CopyInv
  <2>3. \A p \in Records : task[p].at \in Brokers
    BY DEF TypeInv, TypeOK, Task
  <2>4. m.rec \in Stored
    BY <2>1, <2>2, <2>3 DEF RpcEffect, CopyInv, Sending
  <2> QED  BY <2>4, StoredGrows
<1>2. ASSUME NEW f \in Fetchers, fetch'[f].pc \in {"filter", "write"},
             NEW i \in 1 .. Len(fetch'[f].recs)
      PROVE  fetch'[f].recs[i] \in Stored'
  <2>1. fetch[f].at \in Brokers /\ fetch[f].off \in Nat
    BY DEF TypeInv, TypeOK, Fetch
  <2>2. FetchEffect(f)
    BY FetchEffects
  <2>3. CASE fetch'[f] = fetch[f]
    BY <1>2, <2>3, StoredGrows DEF CopyInv
  <2>4. CASE /\ fetch[f].pc \in {"filter", "write"}
             /\ \E j \in 1 .. Len(fetch[f].recs) : fetch'[f].recs[i] = fetch[f].recs[j]
    BY <2>4, StoredGrows DEF CopyInv
  <2>5. CASE fetch'[f].recs = SubSeq(log[fetch[f].at], fetch[f].off + 1,
                                     Len(log[fetch[f].at]))
    BY <1>2, <2>1, <2>5, CopyRead, StoredGrows
  <2> QED  BY <1>2, <2>2, <2>3, <2>4, <2>5 DEF FetchEffect
<1>3. ASSUME NEW e \in exposed' PROVE e.rec \in Stored'
  <2>1. CASE e \in exposed
    BY <2>1, StoredGrows DEF CopyInv
  <2>2. CASE Delivered(e)
    <3>1. PICK r \in Readers, s \in Seq(Records), hw \in Nat :
            /\ \/ fetch[r].pc = "filter" /\ s = fetch[r].recs
               \/ fetch[r].pc = "groupread" /\ s = log[fetch[r].at]
            /\ \E i \in 1 .. Len(s) : e = [off |-> i - 1, rec |-> s[i]]
      BY <2>2 DEF Delivered
    <3>2. r \in Fetchers /\ fetch[r].at \in Brokers
      BY DEF Fetchers, TypeInv, TypeOK, Fetch
    <3>3. \A i \in 1 .. Len(s) : s[i] \in Stored
      BY <3>1, <3>2 DEF CopyInv
    <3> QED  BY <3>1, <3>3, StoredGrows
  <2> QED  BY <2>1, <2>2, DeliveredOnly
<1> QED  BY <1>1, <1>2, <1>3, CopyLog, CopyTask DEF CopyInv

-----------------------------------------------------------------------------
(* Watermarks are backed.                                                  *)

LEMMA ReachingGrows ==
  ASSUME TypeInv, LeaderInv, CopyInv, [Steady]_vars, NEW hw \in Nat, NEW r \in Reaching(hw)
  PROVE  r \in Replicas /\ Len(log'[r]) >= hw
<1>1. r \in Replicas /\ r \in Brokers /\ Len(log[r]) >= hw
  BY ConstantTypes DEF Reaching, NextOffset
<1>2. Grows(log[r], log'[r])
  BY <1>1, LogSteps, LogGrows
<1> QED  BY <1>1, <1>2 DEF Grows

LEMMA QuorumTask ==
  ASSUME TypeInv, LeaderInv, CopyInv, QuorumInv, [Steady]_vars, NEW p \in Records,
         task'[p].pc \in Sending, NEW r \in task'[p].acks
  PROVE  r \in Replicas /\ Len(log'[r]) >= task'[p].off + 1
<1>1. /\ task \in [Records -> Task] /\ task[p] \in Task /\ task[p].k \in Nat
      /\ task[p].off \in Nat
  BY DEF TypeInv, TypeOK, Task
<1>2. ASSUME task[p].pc \in Sending, r \in task[p].acks, task'[p].off = task[p].off
      PROVE  r \in Replicas /\ Len(log'[r]) >= task'[p].off + 1
  <2>1. r \in Reaching(task[p].off + 1) /\ task[p].off + 1 \in Nat
    BY <1>1, <1>2 DEF QuorumInv
  <2> QED  BY <1>2, <2>1, ReachingGrows
<1>3. CASE task'[p] = task[p]
  BY <1>2, <1>3
<1>4. ~ \E n \in Brokers : ProduceCheck(p, n)
  BY <1>1 DEF ProduceCheck, Task, Sending
<1>5. CASE ProduceStep(p)
  <2>1. ProduceEffect(p)
    BY <1>5, ProduceEffects
  <2>2. CASE /\ task'[p].off = task[p].off /\ task[p].off < NextOffset(task[p].at)
             /\ task'[p].acks = {task[p].at}
    <3>1. r = Main /\ r \in Replicas /\ r \in Brokers
      BY <2>2, MainReplica DEF LeaderInv
    <3>2. Len(log[r]) \in Nat /\ Len(log[r]) > task[p].off /\ task[p].off + 1 \in Nat
      BY <1>1, <2>2, <3>1 DEF NextOffset, TypeInv, TypeOK, LeaderInv
    <3>3. r \in Reaching(task[p].off + 1)
      BY <1>1, <3>1, <3>2 DEF Reaching, NextOffset
    <3> QED  BY <2>2, <3>2, <3>3, ReachingGrows
  <2>3. CASE /\ task[p].pc \in Sending /\ task'[p].acks = task[p].acks
             /\ task'[p].off = task[p].off
    BY <1>2, <2>3
  <2> QED  BY <2>1, <2>2, <2>3 DEF ProduceEffect, Sending
<1>6. CASE Answers(p)
  <2>1. PICK m \in rpcs : /\ Waiting(p, m.dst)
                          /\ task'[p] = Acknowledged(task[p], m.dst, Len(log'[m.dst]))
    BY <1>6 DEF Answers
  <2>2. /\ task'[p].off = task[p].off
        /\ \/ task'[p].acks = task[p].acks
           \/ /\ task'[p].acks = task[p].acks \cup {m.dst}
              /\ ~(Len(log'[m.dst]) <= task[p].off)
    BY <1>1, <2>1, AcknowledgedIs
  <2>3. /\ m.dst = Follower(task[p].at, task[p].k) /\ task[p].k < ReplicationFactor
        /\ task[p].pc \in Sending /\ m.dst \in Brokers
    BY <2>1 DEF Waiting, CurrentFollower, FollowersLeft, Sending, TypeInv, TypeOK, Rpc
  <2>4. m.dst \in Replicas
    BY <1>1, <2>3, FollowerReplica DEF LeaderInv
  <2>5. Len(log'[m.dst]) \in Nat
    BY <2>3, LogSteps, LogGrows DEF Grows
  <2>6. CASE r \in task[p].acks
    BY <1>2, <2>2, <2>3, <2>6
  <2>7. CASE r \notin task[p].acks
    BY <1>1, <2>2, <2>4, <2>5, <2>7
  <2> QED  BY <2>6, <2>7
<1>7. ~Dies(p)
  BY EndedIs DEF Dies, Sending
<1> QED  BY <1>3, <1>4, <1>5, <1>6, <1>7, TaskSteps

LEMMA QuorumStep ==
  ASSUME TypeInv, LeaderInv, CopyInv, QuorumInv, [Steady]_vars
  PROVE  QuorumInv'
<1>1. ASSUME NEW p \in Records, task'[p].pc \in Sending
      PROVE  task'[p].acks \subseteq {r \in Replicas : Len(log'[r]) >= task'[p].off + 1}
  BY <1>1, QuorumTask
<1>2. ASSUME NEW l \in Held'
      PROVE  Cardinality({r \in Replicas : Len(log'[r]) >= l.hw}) >= MinInSyncReplicas
  <2> DEFINE T == {r \in Replicas : Len(log'[r]) >= l.hw}
  <2>1. ASSUME NEW hw \in Nat, hw = l.hw PROVE Reaching(hw) \subseteq T
    BY <2>1, ReachingGrows
  <2>2. T \subseteq Replicas
    OBVIOUS
  <2> HIDE DEF T
  <2>3. ASSUME NEW k \in Held, k.hw = l.hw PROVE Cardinality(T) >= MinInSyncReplicas
    <3>1. k.hw \in Nat
      BY HeldType DEF Leadership
    <3>2. Cardinality(Reaching(k.hw)) >= MinInSyncReplicas
      BY DEF QuorumInv, Backed
    <3>3. Reaching(k.hw) \subseteq T
      BY <2>1, <2>3, <3>1
    <3> QED  BY <2>2, <3>2, <3>3, QuorumGrows
  <2>4. ASSUME NEW p \in Records, task[p].pc = "send", InSync(p), l.hw = task[p].off + 1
        PROVE  Cardinality(T) >= MinInSyncReplicas
    <3>1. task[p].off + 1 \in Nat
      BY DEF TypeInv, TypeOK, Task
    <3>2. task[p].acks \subseteq Reaching(task[p].off + 1)
      BY <2>4 DEF QuorumInv, Sending
    <3>3. task[p].acks \subseteq T
      BY <2>1, <2>4, <3>1, <3>2
    <3> QED  BY <2>2, <2>4, <3>3, QuorumGrows DEF InSync
  <2>5. \A m \in rpcs : m.st # "apply"
    BY DEF LeaderInv
  <2>6. \/ \E k \in Held : k.hw = l.hw
        \/ \E p \in Records : task[p].pc = "send" /\ InSync(p) /\ l.hw = task[p].off + 1
    BY <2>5, HeldKnown DEF Known, Gained
  <2> QED  BY <2>3, <2>4, <2>6 DEF T
<1> QED  BY <1>1, <1>2 DEF QuorumInv, Backed, Reaching, NextOffset

-----------------------------------------------------------------------------
(* Answers are below the watermark.                                        *)

LEMMA WatermarkGrows ==
  ASSUME TypeInv, TypeInv', LeaderInv, LeaderInv', [Steady]_vars
  PROVE  /\ registry[Main].hw \in Nat /\ registry'[Main].hw \in Nat
         /\ registry[Main].hw <= registry'[Main].hw
<1>1. Main' = Main /\ Main \in Brokers
  BY MainReplica DEF Main, DeterministicLeader, Ring
<1>2. registry[Main] \in Leadership /\ registry'[Main] \in Leadership
  BY <1>1 DEF TypeInv, TypeOK
<1>3. registry[Main].epoch = 0
  BY <1>1 DEF LeaderInv, Held
<1>4. registry'[Main].epoch = 0
  BY <1>1 DEF LeaderInv, Held
<1>5. Accepts(registry[Main], registry'[Main])
  BY <1>1, ForwardStep DEF Forward, Steady, Next, FailStop
<1> QED  BY <1>2, <1>3, <1>4, <1>5 DEF Accepts, Leadership

LEMMA AnswerTask ==
  ASSUME TypeInv, TypeInv', LeaderInv, LeaderInv', AnswerInv, [Steady]_vars,
         NEW p \in Records
  PROVE  /\ p \in Durable /\ task'[p].pc # "end" => task'[p].reply = "none"
         /\ task'[p].pc = "commit" => task'[p].lead.hw = task'[p].off + 1
         /\ task'[p].pc = "casting" => registry'[Main].hw > task'[p].off
         /\ p \in Durable /\ task'[p].reply = "ok" => registry'[Main].hw > task'[p].off
<1> DEFINE t == task[p]
           u == task'[p]
           hw == registry[Main].hw
           new == registry'[Main].hw
<1>1. task \in [Records -> Task] /\ t \in Task /\ t.off \in Nat
  BY DEF TypeInv, TypeOK, Task
<1>2. hw \in Nat /\ new \in Nat /\ hw <= new
  BY WatermarkGrows
<1>3. /\ p \in Durable /\ t.pc # "end" => t.reply = "none"
      /\ t.pc = "commit" => t.lead.hw = t.off + 1
      /\ t.pc = "casting" => hw > t.off
      /\ p \in Durable /\ t.reply = "ok" => hw > t.off
  BY DEF AnswerInv
<1>4. /\ t.pc = "casting" => new > t.off
      /\ p \in Durable /\ t.reply = "ok" => new > t.off
  <2> HIDE DEF hw, new
  <2> QED  BY <1>1, <1>2, <1>3
<1>5. CASE u = t
  BY <1>3, <1>4, <1>5
<1>6. CASE \E n \in Brokers : ProduceCheck(p, n)
  <2>1. t.pc = "new" /\ u.pc = "append" /\ u.reply = t.reply
    BY <1>1, <1>6 DEF ProduceCheck, Task
  <2> QED  BY <1>3, <2>1
<1>7. CASE ProduceStep(p)
  <2>1. ProduceEffect(p)
    BY <1>7, ProduceEffects
  <2>2. CASE t.pc = "append" /\ u.pc = "readback" /\ u.reply = t.reply
    BY <1>3, <2>2
  <2>3. CASE /\ t.pc = "readback" /\ u.pc = "send" /\ u.off = t.off
             /\ u.reply = IF p \in Durable THEN t.reply ELSE "ok"
    BY <1>3, <1>4, <2>3
  <2>4. CASE /\ t.pc \in Sending /\ u.pc \in Sending \cup {"commit"} /\ u.off = t.off /\ u.reply = t.reply
             /\ u.pc = "commit" => u.lead.hw = t.off + 1
    BY <1>3, <1>4, <2>4 DEF Sending
  <2>5. CASE /\ t.pc = "commit" /\ u.pc = "casting" /\ u.off = t.off /\ u.reply = t.reply
             /\ CommitApply(p)
    <3>1. new = t.lead.hw
      BY <2>5, MainReplica DEF CommitApply, LeaderInv, TypeInv, TypeOK
    <3>2. new > t.off
      BY <1>1, <1>3, <2>5, <3>1
    <3> QED  BY <1>3, <2>5, <3>2
  <2>6. CASE /\ u.pc = "end" /\ u.off = t.off
             /\ u.reply = "error" \/ (p \notin Durable /\ u.reply = t.reply)
    BY <2>6
  <2>7. CASE u.pc = "end" /\ u.off = t.off /\ ProduceReply(p)
    BY <1>4, <2>7 DEF ProduceReply
  <2>8. CASE u.pc = "end" /\ u.off = t.off /\ AlreadyCommitted(p)
    <3>1. hw >= t.off + 1
      BY <2>8 DEF AlreadyCommitted, LeaderInv
    <3>2. new > t.off
      BY <1>1, <1>2, <3>1
    <3> QED  BY <2>8, <3>2
  <2> QED
    BY <2>1, <2>2, <2>3, <2>4, <2>5, <2>6, <2>7, <2>8 DEF ProduceEffect
<1>8. CASE Answers(p)
  <2>1. u.pc \in {"send", "catchup"} /\ u.off = t.off /\ u.reply = t.reply
    BY <1>1, <1>8, AcknowledgedIs DEF Answers
  <2>2. t.pc # "end"
    BY <1>8 DEF Answers, Waiting
  <2> QED  BY <1>3, <1>4, <2>1, <2>2
<1>9. CASE Dies(p)
  <2>1. u.pc = "end" /\ u.off = t.off /\ u.reply = t.reply
    BY <1>9, EndedIs DEF Dies
  <2> QED  BY <1>4, <2>1
<1> QED  BY <1>5, <1>6, <1>7, <1>8, <1>9, TaskSteps

LEMMA AnswerStep ==
  ASSUME TypeInv, TypeInv', OffsetInv, LeaderInv, LeaderInv', AnswerInv, [Steady]_vars
  PROVE  AnswerInv'
<1> DEFINE hw == registry[Main].hw
           new == registry'[Main].hw
<1>1. hw \in Nat /\ new \in Nat /\ hw <= new
  BY WatermarkGrows
<1>2. ASSUME NEW f \in Fetchers, fetch'[f].pc = "groupread" PROVE fetch'[f].hw <= new
  <2>1. FetchEffect(f)
    BY FetchEffects
  <2>2. fetch'[f].hw \in Nat
    BY DEF TypeInv, TypeOK, Fetch
  <2>3. fetch'[f].at = Main
    BY <1>2 DEF LeaderInv, Main, DeterministicLeader, Ring
  <2>4. fetch'[f].hw <= hw
    <3>1. CASE fetch'[f] = fetch[f]
      BY <1>2, <3>1 DEF AnswerInv
    <3>2. CASE fetch'[f].hw = registry[fetch'[f].at].hw
      BY <1>1, <2>3, <3>2
    <3> QED  BY <1>2, <2>1, <3>1, <3>2 DEF FetchEffect
  <2> HIDE DEF hw, new
  <2> QED  BY <1>1, <2>2, <2>4
<1>3. ASSUME NEW e \in exposed' PROVE e.off < new
  <2>1. e.off \in Nat
    BY DEF TypeInv, TypeOK
  <2>2. CASE e \in exposed
    <3>1. e.off < hw
      BY <2>2 DEF AnswerInv
    <3> HIDE DEF hw, new
    <3> QED  BY <1>1, <2>1, <3>1
  <2>3. CASE Delivered(e)
    <3>1. PICK r \in Readers, s \in Seq(Records), h \in Nat :
            /\ \/ fetch[r].pc = "filter" /\ h = registry[fetch[r].at].hw
               \/ fetch[r].pc = "groupread" /\ h = fetch[r].hw
            /\ \E i \in 1 .. Len(s) : e = [off |-> i - 1, rec |-> s[i]] /\ i - 1 < h
      BY <2>3 DEF Delivered
    <3>2. e.off < h
      BY <3>1
    <3>3. h <= hw
      BY <1>1, <3>1 DEF Fetchers, LeaderInv, AnswerInv
    <3> HIDE DEF hw, new
    <3> QED  BY <1>1, <2>1, <3>2, <3>3
  <2> QED  BY <2>2, <2>3, DeliveredOnly
<1>4. Main' = Main
  BY DEF Main, DeterministicLeader, Ring
<1> QED  BY <1>2, <1>3, <1>4, AnswerTask DEF AnswerInv

-----------------------------------------------------------------------------
(* The invariant holds.                                                    *)

LEMMA SteadyInit == Init => Inv
<1> SUFFICES ASSUME Init PROVE Inv
  OBVIOUS
<1>1. TypeInv /\ OffsetInv
  BY TypeInit, OffsetInit
<1>2. ASSUME NEW l \in Held PROVE l = InitialLeadership
  BY DEF Init, Held, NewTask, IdleCast, Promotion, IdleFetch
<1>3. InitialLeadership.leader = Main /\ InitialLeadership.epoch = 0 /\ InitialLeadership.hw = 0
  BY DEF InitialLeadership, Main
<1>4. LeaderInv
  BY <1>2, <1>3 DEF LeaderInv, Init, NewTask, IdleCast, IdleFetch, Main, Harmless
<1>5. CopyInv
  BY DEF CopyInv, Init, NewTask, IdleFetch, Sending, Appended
<1>6. QuorumInv
  <2>1. \A r \in Replicas : NextOffset(r) = 0
    BY ConstantTypes DEF Init, NextOffset
  <2>2. Replicas \subseteq Reaching(0)
    BY <2>1 DEF Reaching
  <2>3. Reaching(0) \subseteq Replicas
    BY DEF Reaching
  <2>4. Backed(0)
    BY <2>2, <2>3, ReplicasFinite, QuorumGrows DEF Backed
  <2> QED  BY <1>2, <1>3, <2>4 DEF QuorumInv, Init, NewTask, Sending
<1>7. AnswerInv
  BY InstanceAssumption DEF AnswerInv, Init, NewTask, IdleFetch
<1> QED  BY <1>1, <1>4, <1>5, <1>6, <1>7 DEF Inv, SteadyInv

LEMMA SteadyStep == Inv /\ [Steady]_vars => Inv'
<1> SUFFICES ASSUME Inv, [Steady]_vars PROVE Inv'
  OBVIOUS
<1>1. [Next]_vars
  BY DEF Steady, Next, FailStop
<1>2. TypeInv /\ OffsetInv /\ LeaderInv /\ CopyInv /\ QuorumInv /\ AnswerInv
  BY DEF Inv, SteadyInv
<1>3. TypeInv' /\ OffsetInv'
  BY <1>1, <1>2, TypeStep, OffsetStep
<1>4. LeaderInv' /\ CopyInv' /\ QuorumInv'
  BY <1>2, LeaderStep, CopyStep, QuorumStep
<1>5. AnswerInv'
  BY <1>2, <1>3, <1>4, AnswerStep
<1> QED  BY <1>3, <1>4, <1>5 DEF Inv, SteadyInv

THEOREM SteadyInvariant == SteadySpec => []Inv
BY SteadyInit, SteadyStep, PTL DEF SteadySpec

-----------------------------------------------------------------------------
(* What the invariant says of logs.                                        *)

\* A record of the leader's log is at the offset it was given.
LEMMA StoredAt ==
  ASSUME Inv, NEW x \in Stored, NEW o \in Nat, At(x, o)
  PROVE  o + 1 \in 1 .. Len(log[Main]) /\ log[Main][o + 1] = x
<1>1. PICK j \in 1 .. Len(log[Main]) : x = log[Main][j]
  BY DEF Stored
<1>2. SeqAt(log[Main], 0) /\ Len(log[Main]) \in Nat
  BY MainReplica DEF Inv, OffsetInv, TypeInv, TypeOK
<1>3. At(x, 0 + j - 1)
  BY <1>1, <1>2 DEF SeqAt
<1>4. j = o + 1
  BY <1>2, <1>3 DEF At
<1> QED  BY <1>1, <1>4

LEMMA SameRecord ==
  ASSUME Inv, NEW n \in Brokers, NEW i \in 1 .. Len(log[n])
  PROVE  i \in 1 .. Len(log[Main]) /\ log[Main][i] = log[n][i]
<1>1. log[n][i] \in Stored
  BY DEF Inv, SteadyInv, CopyInv
<1>2. At(log[n][i], 0 + i - 1)
  BY DEF Inv, OffsetInv, SeqAt
<1>3. Len(log[n]) \in Nat /\ i - 1 \in Nat /\ 0 + i - 1 = i - 1 /\ (i - 1) + 1 = i
  BY DEF Inv, TypeInv, TypeOK
<1> HIDE DEF Inv
<1>4. At(log[n][i], i - 1)
  BY <1>2, <1>3
<1>5. (i - 1) + 1 \in 1 .. Len(log[Main]) /\ log[Main][(i - 1) + 1] = log[n][i]
  BY <1>1, <1>3, <1>4, StoredAt
<1> QED  BY <1>3, <1>5

\* Equal elements make a prefix.
LEMMA PrefixOf ==
  ASSUME NEW s \in Seq(Records), NEW t \in Seq(Records), Len(s) <= Len(t),
         \A i \in 1 .. Len(s) : s[i] = t[i]
  PROVE  IsPrefix(s, t)
<1> DEFINE m == Len(s)
           a == SubSeq(s, 1, m)
           b == SubSeq(t, 1, m)
<1>1. m \in Nat /\ Len(t) \in Nat
  OBVIOUS
<1>2. (\A i \in 1 .. m : s[i] \in Records) /\ \A i \in 1 .. m : t[i] \in Records
  BY <1>1
<1>3. m = Len(s) /\ m <= Len(t)
  OBVIOUS
<1> HIDE DEF m
<1>4. /\ a \in Seq(Records) /\ Len(a) = IF 1 <= m THEN m - 1 + 1 ELSE 0
      /\ \A i \in 1 .. m - 1 + 1 : a[i] = s[1 + i - 1]
  BY <1>1, <1>2, SubSeqProperties
<1>5. /\ b \in Seq(Records) /\ Len(b) = IF 1 <= m THEN m - 1 + 1 ELSE 0
      /\ \A i \in 1 .. m - 1 + 1 : b[i] = t[1 + i - 1]
  BY <1>1, <1>2, SubSeqProperties
<1> HIDE DEF a, b
<1>6. Len(a) = Len(b) /\ \A i \in 1 .. Len(a) : a[i] = b[i]
  BY <1>1, <1>3, <1>4, <1>5
<1>7. a = b
  BY <1>4, <1>5, <1>6, SeqEqual
<1> QED  BY <1>3, <1>7 DEF IsPrefix, a, b, m

LEMMA InvMatching == Inv => LogMatching
<1> SUFFICES ASSUME Inv, NEW n \in Brokers PROVE IsPrefix(log[n], log[Main])
  BY DEF LogMatching, Main
<1>1. log[n] \in Seq(Records) /\ log[Main] \in Seq(Records)
  BY MainReplica DEF Inv, TypeInv, TypeOK
<1>2. \A i \in 1 .. Len(log[n]) : i \in 1 .. Len(log[Main]) /\ log[Main][i] = log[n][i]
  BY SameRecord
<1>3. Len(log[n]) <= Len(log[Main])
  <2>1. Len(log[n]) \in Nat /\ Len(log[Main]) \in Nat
    BY <1>1
  <2>2. CASE Len(log[n]) >= 1
    <3>1. Len(log[n]) \in 1 .. Len(log[n])
      BY <2>1, <2>2
    <3> QED  BY <1>2, <2>1, <3>1
  <2> QED  BY <2>1, <2>2
<1> QED  BY <1>1, <1>2, <1>3, PrefixOf

\* What is below the leader's watermark is stored by a quorum.
LEMMA CommittedOnQuorum ==
  ASSUME Inv, NEW x \in Stored, NEW o \in Nat, At(x, o), o < registry[Main].hw
  PROVE  OnQuorum(o, x)
<1> DEFINE hw == registry[Main].hw
<1>1. hw \in Nat /\ registry[Main] \in Held
  BY MainReplica DEF Inv, TypeInv, TypeOK, Leadership, Held
<1>2. Cardinality(Reaching(hw)) >= MinInSyncReplicas
  BY <1>1 DEF Inv, SteadyInv, QuorumInv, Backed
<1>3. Reaching(hw) \subseteq Holders(o, x)
  <2> SUFFICES ASSUME NEW r \in Reaching(hw) PROVE r \in Holders(o, x)
    OBVIOUS
  <2>1. r \in Replicas /\ r \in Brokers /\ Len(log[r]) >= hw
    BY ConstantTypes DEF Reaching, NextOffset
  <2>2. Len(log[r]) \in Nat
    BY <2>1 DEF Inv, TypeInv, TypeOK
  <2>3. o < Len(log[r]) /\ o + 1 \in 1 .. Len(log[r])
    <3>1. o < hw
      OBVIOUS
    <3> HIDE DEF hw
    <3> QED  BY <1>1, <2>1, <2>2, <3>1
  <2>4. log[r][o + 1] = x
    BY <2>1, <2>3, SameRecord, StoredAt
  <2> QED  BY <2>1, <2>3, <2>4 DEF Holders, NextOffset
<1>4. Holders(o, x) \subseteq Replicas
  BY DEF Holders
<1> QED  BY <1>2, <1>3, <1>4, QuorumGrows DEF OnQuorum

\* A durable request that was answered.
LEMMA AnsweredAt ==
  ASSUME Inv, NEW p \in Durable, task[p].reply = "ok"
  PROVE  /\ p \in Records /\ task[p].off \in Nat /\ p \in Stored /\ At(p, task[p].off)
         /\ task[p].off < registry[Main].hw
<1>1. p \in Records
  BY InstanceAssumption
<1>2. p \in Stored /\ task[p].off \in Nat
  BY <1>1 DEF Inv, SteadyInv, CopyInv, TypeInv, TypeOK, Task
<1>3. task[p].pc = "end"
  BY <1>1 DEF Inv, SteadyInv, AnswerInv
<1>4. At(p, task[p].off)
  BY <1>3 DEF At
<1>5. registry[Main].hw > task[p].off /\ registry[Main].hw \in Nat
  BY <1>1, MainReplica DEF Inv, SteadyInv, AnswerInv, TypeInv, TypeOK, Leadership
<1> QED  BY <1>1, <1>2, <1>4, <1>5

-----------------------------------------------------------------------------
(* The theorems.                                                           *)

\* A follower's log is a prefix of its leader's: pushes, catch-ups, recovery
\* and requests handled late, in any order, never leave a hole, a record of
\* nobody's or two records in different orders.
THEOREM FollowersMatch == SteadySpec => []LogMatching
BY SteadyInvariant, InvMatching, PTL

\* Replicator::commit sets a watermark the minimum of in-sync replicas has
\* reached, and no crash, broadcast, sync or restart makes it less true.
THEOREM WatermarksBacked == SteadySpec => []HwBacked
<1>1. Inv => HwBacked
  <2> SUFFICES ASSUME Inv, NEW n \in Brokers
               PROVE  Cardinality({r \in Replicas : NextOffset(r) >= registry[n].hw})
                          >= MinInSyncReplicas
    BY DEF HwBacked
  <2>1. registry[n] \in Held
    BY DEF Held
  <2> QED  BY <2>1 DEF Inv, SteadyInv, QuorumInv, Backed, Reaching
<1> QED  BY <1>1, SteadyInvariant, PTL

\* AckMode::Durable succeeds only for a record that a quorum stores at its
\* offset and that fetches on the leader return.
THEOREM DurableOnQuorum == SteadySpec => []DurableAck
<1>1. Inv => DurableAck
  <2> SUFFICES ASSUME Inv, NEW p \in Durable, task[p].reply = "ok"
               PROVE  OnQuorum(task[p].off, p) /\ registry[Main].hw > task[p].off
    BY DEF DurableAck, Main
  <2>1. OnQuorum(task[p].off, p)
    BY AnsweredAt, CommittedOnQuorum
  <2>2. registry[Main].hw > task[p].off
    BY InstanceAssumption DEF Inv, SteadyInv, AnswerInv
  <2> QED  BY <2>1, <2>2
<1> QED  BY <1>1, SteadyInvariant, PTL

\* Request::Fetch and group_fetch return no record that a quorum does not
\* store, although the watermark is read apart from the log.
THEOREM ExposedOnQuorum == SteadySpec => []ExposedCommitted
<1>1. Inv => ExposedCommitted
  <2> SUFFICES ASSUME Inv, NEW e \in exposed PROVE OnQuorum(e.off, e.rec)
    BY DEF ExposedCommitted
  <2>1. e.rec \in Stored /\ At(e.rec, e.off) /\ e.off < registry[Main].hw /\ e.off \in Nat
    BY DEF Inv, SteadyInv, CopyInv, OffsetInv, AnswerInv, TypeInv, TypeOK
  <2> QED  BY <2>1, CommittedOnQuorum
<1> QED  BY <1>1, SteadyInvariant, PTL

-----------------------------------------------------------------------------
(* The abstract specification.                                             *)

Committed == SubSeq(log[Main], 1, registry[Main].hw)

LEMMA CommittedIs ==
    Inv => /\ Committed \in Seq(Records)
           /\ registry[Main].hw \in Nat /\ Len(Committed) = registry[Main].hw
           /\ registry[Main].hw <= Len(log[Main])
           /\ \A i \in 1 .. registry[Main].hw : Committed[i] = log[Main][i]
<1> SUFFICES ASSUME Inv
             PROVE  /\ Committed \in Seq(Records)
                    /\ registry[Main].hw \in Nat /\ Len(Committed) = registry[Main].hw
                    /\ registry[Main].hw <= Len(log[Main])
                    /\ \A i \in 1 .. registry[Main].hw : Committed[i] = log[Main][i]
  OBVIOUS
<1> DEFINE hw == registry[Main].hw
<1>1. /\ hw \in Nat /\ registry[Main] \in Held
      /\ log[Main] \in Seq(Records) /\ Len(log[Main]) \in Nat
  BY MainReplica DEF Inv, TypeInv, TypeOK, Leadership, Held
<1>2. Cardinality(Reaching(hw)) >= MinInSyncReplicas
  BY <1>1 DEF Inv, SteadyInv, QuorumInv, Backed
<1>3. Reaching(hw) # {} /\ Reaching(hw) \subseteq Replicas
  BY <1>2, QuorumMeets DEF Reaching
<1>4. PICK r \in Replicas : Len(log[r]) >= hw
  BY <1>3 DEF Reaching, NextOffset
<1>5. Len(log[r]) <= Len(log[Main]) /\ Len(log[r]) \in Nat
  BY InvMatching, ConstantTypes DEF LogMatching, IsPrefix, Main, Inv, TypeInv, TypeOK
<1>6. hw <= Len(log[Main])
  <2> HIDE DEF hw
  <2> QED  BY <1>1, <1>4, <1>5
<1>7. \A i \in 1 .. hw : log[Main][i] \in Records
  <2> HIDE DEF hw
  <2> QED  BY <1>1, <1>6
<1>8. Committed = SubSeq(log[Main], 1, hw)
  BY DEF Committed
<1> HIDE DEF hw
<1>9. /\ Committed \in Seq(Records) /\ Len(Committed) = IF 1 <= hw THEN hw - 1 + 1 ELSE 0
      /\ \A i \in 1 .. hw - 1 + 1 : Committed[i] = log[Main][1 + i - 1]
  BY <1>1, <1>7, <1>8, SubSeqProperties
<1>10. Len(Committed) = hw /\ \A i \in 1 .. hw : Committed[i] = log[Main][i]
  BY <1>1, <1>9
<1> QED  BY <1>1, <1>6, <1>9, <1>10 DEF hw

LEMMA CommittedInjective ==
    Inv => IsInjective(Committed) /\ ToSet(Committed) \subseteq Records
<1> SUFFICES ASSUME Inv PROVE IsInjective(Committed) /\ ToSet(Committed) \subseteq Records
  OBVIOUS
<1>1. ToSet(Committed) \subseteq Records
  BY CommittedIs DEF ToSet
<1>2. DOMAIN Committed = 1 .. registry[Main].hw
  BY CommittedIs
<1>3. ASSUME NEW a \in DOMAIN Committed, NEW b \in DOMAIN Committed,
             Committed[a] = Committed[b]
      PROVE  a = b
  <2>1. /\ a \in Nat /\ b \in Nat /\ a \in 1 .. Len(log[Main]) /\ b \in 1 .. Len(log[Main])
        /\ log[Main][a] = log[Main][b]
    BY <1>2, <1>3, CommittedIs, MainReplica DEF Inv, TypeInv, TypeOK
  <2>2. At(log[Main][a], 0 + a - 1) /\ At(log[Main][b], 0 + b - 1)
    BY <2>1, MainReplica DEF Inv, OffsetInv, SeqAt
  <2> QED  BY <2>1, <2>2 DEF At
<1> QED  BY <1>1, <1>3 DEF IsInjective

\* A record below the watermark, at its offset.
LEMMA CommittedAt ==
  ASSUME Inv, NEW x \in Stored, NEW o \in Nat, At(x, o), o < registry[Main].hw
  PROVE  o + 1 \in DOMAIN Committed /\ Committed[o + 1] = x
<1>1. DOMAIN Committed = 1 .. registry[Main].hw /\ registry[Main].hw \in Nat
  BY CommittedIs
<1>2. o + 1 \in 1 .. registry[Main].hw
  BY <1>1
<1> QED  BY <1>1, <1>2, StoredAt, CommittedIs

AckedCommitted == \A q \in Durable : task[q].reply = "ok" => q \in ToSet(Committed)

LEMMA AnsweredCommitted == Inv => AckedCommitted
<1> SUFFICES ASSUME Inv, NEW p \in Durable, task[p].reply = "ok"
             PROVE  p \in ToSet(Committed)
  BY DEF AckedCommitted
<1>1. task[p].off + 1 \in DOMAIN Committed /\ Committed[task[p].off + 1] = p
  BY AnsweredAt, CommittedAt
<1> QED  BY <1>1 DEF ToSet

LEMMA ExposedEntries ==
    Inv => \A e \in exposed : \E i \in DOMAIN Committed :
             e = [off |-> i - 1, rec |-> Committed[i]]
<1> SUFFICES ASSUME Inv, NEW e \in exposed
             PROVE  \E i \in DOMAIN Committed : e = [off |-> i - 1, rec |-> Committed[i]]
  OBVIOUS
<1>1. e.rec \in Stored /\ At(e.rec, e.off) /\ e.off < registry[Main].hw /\ e.off \in Nat
  BY DEF Inv, SteadyInv, CopyInv, OffsetInv, AnswerInv, TypeInv, TypeOK
<1>2. e.off + 1 \in DOMAIN Committed /\ Committed[e.off + 1] = e.rec
  BY <1>1, CommittedAt
<1>3. (e.off + 1) - 1 = e.off /\ e = [off |-> e.off, rec |-> e.rec]
  BY <1>1 DEF Inv, TypeInv, TypeOK
<1> QED  BY <1>2, <1>3

LEMMA CommittedGrows ==
  ASSUME Inv, Inv', [Steady]_vars
  PROVE  IsPrefix(Committed, Committed')
<1> DEFINE hw == registry[Main].hw
           new == registry'[Main].hw
<1>1. Main' = Main /\ Main \in Brokers
  BY MainReplica DEF Main, DeterministicLeader, Ring
<1>2. hw \in Nat /\ new \in Nat /\ hw <= new
  BY WatermarkGrows DEF Inv, SteadyInv
<1>3. Grows(log[Main], log'[Main])
  BY <1>1, LogSteps, LogGrows DEF Inv, SteadyInv
<1>4. /\ Committed \in Seq(Records) /\ Len(Committed) = hw /\ hw <= Len(log[Main])
      /\ \A i \in 1 .. hw : Committed[i] = log[Main][i]
  BY CommittedIs
<1>5. (/\ Committed \in Seq(Records) /\ Len(Committed) = registry[Main].hw
       /\ \A i \in 1 .. registry[Main].hw : Committed[i] = log[Main][i])'
  BY CommittedIs, PTL
<1>6. /\ Committed' \in Seq(Records) /\ Len(Committed') = new
      /\ \A i \in 1 .. new : Committed'[i] = log'[Main][i]
  BY <1>1, <1>5
<1> HIDE DEF hw, new
<1>7. \A i \in 1 .. Len(Committed) : Committed[i] = Committed'[i]
  BY <1>2, <1>3, <1>4, <1>6 DEF Grows
<1>8. Len(Committed) <= Len(Committed')
  BY <1>2, <1>4, <1>6
<1> HIDE DEF Committed
<1> QED  BY <1>4, <1>6, <1>7, <1>8, PrefixOf

\* An answer to a durable producer is given once, by the two actions that end
\* its request with success.
LEMMA ReplyStep ==
  ASSUME Inv, [Steady]_vars, NEW p \in Durable, p \in Records
  PROVE  \/ task'[p].reply = "ok" <=> task[p].reply = "ok"
         \/ task'[p].reply = "ok" /\ (ProduceReply(p) \/ AlreadyCommitted(p))
<1>1. /\ TypeInv /\ task \in [Records -> Task] /\ task[p] \in Task
      /\ task[p].pc # "end" => task[p].reply = "none"
  BY DEF Inv, SteadyInv, AnswerInv, TypeInv, TypeOK
<1>2. CASE \E n \in Brokers : ProduceCheck(p, n)
  BY <1>1, <1>2 DEF ProduceCheck, Task
<1>3. CASE ProduceStep(p)
  <2>1. ProduceEffect(p)
    BY <1>1, <1>3, ProduceEffects
  <2> QED  BY <1>1, <2>1 DEF ProduceEffect, Appended, Sending
<1>4. CASE Answers(p)
  BY <1>1, <1>4, AcknowledgedIs DEF Answers
<1>5. CASE Dies(p)
  BY <1>5, EndedIs DEF Dies
<1> QED  BY <1>1, <1>2, <1>3, <1>4, <1>5, TaskSteps

LEMMA ReaderOnly ==
  ASSUME Inv, [Steady]_vars
  PROVE  \/ UNCHANGED exposed
         \/ exposed \subseteq exposed' /\ UNCHANGED <<log, registry, task>>
<1>1. ASSUME NEW r \in Readers, ReaderStep(r)
      PROVE  exposed \subseteq exposed' /\ UNCHANGED <<log, registry, task>>
  BY <1>1 DEF ReaderStep, FetchReply, GroupFetchReply, FetchRead
<1>2. CASE \/ Request \/ Crashes \/ Restarts \/ UNCHANGED vars
           \/ \E p \in Records : ProduceStep(p)
           \/ \E m \in rpcs : ReplicaStep(m)
           \/ \E c \in Casters : CastStep(c)
           \/ \E n \in Recovering : WorkerStep(n)
  BY <1>2, Zenon
     DEF Request, FetchStart, GroupFetchStart, Crashes, Crash, Restarts, Restart,
         vars, ProduceCheck, ProduceStep, ProduceAppend, ProduceReadBack,
         ProduceVanished, SendReplica, CatchUp, FollowerFails, AlreadyCommitted,
         CommitRead, CommitApply, CommitStale, NotEnoughInSyncReplicas, ProduceReply,
         ReplicaStep, ReplicaReceive, ReplicaReject, ReplicaTruncate, ReplicaApply,
         ReplicaWrite, ReplicaDiverged, CastStep, CastSend, CastSkip, ApplyReceive,
         ApplyTruncate, ApplyInstall, WorkerStep, SyncRead, SyncApply, SyncSkip,
         RecoverStart, RecoverFetch, FetchRead, RecoverReceive, RecoverWrite,
         RecoverFail
<1> QED  BY <1>1, <1>2, Zenon DEF Steady, Serve

Acked == {p \in Durable : task[p].reply = "ok"}

LEMMA PromiseStep ==
  ASSUME Inv, Inv', [Steady]_vars
  PROVE  [Promise!Next]_<<Committed, Acked, exposed>>
<1>1. Main' = Main /\ Committed' = SubSeq(log'[Main], 1, registry'[Main].hw)
  BY DEF Main, DeterministicLeader, Ring, Committed
<1>2. CASE exposed' # exposed
  <2>1. exposed \subseteq exposed' /\ UNCHANGED <<log, registry, task>>
    BY <1>2, ReaderOnly
  <2>2. Committed' = Committed /\ Acked' = Acked
    BY <1>1, <2>1 DEF Committed, Acked
  <2>3. (\A e \in exposed : \E i \in DOMAIN Committed :
             e = [off |-> i - 1, rec |-> Committed[i]])'
    BY ExposedEntries, PTL
  <2>4. \A e \in exposed' : \E i \in DOMAIN Committed :
             e = [off |-> i - 1, rec |-> Committed[i]]
    BY <2>2, <2>3
  <2>5. exposed' \subseteq exposed \cup Promise!Entries
    BY <2>4 DEF Promise!Entries, Committed, Main
  <2>6. Promise!Deliver
    BY <2>1, <2>2, <2>5 DEF Promise!Deliver, Committed, Acked, Main
  <2> QED  BY <2>6 DEF Promise!Next
<1>3. CASE \E p \in Durable : ProduceReply(p) \/ AlreadyCommitted(p)
  <2>1. PICK p \in Durable : ProduceReply(p) \/ AlreadyCommitted(p)
    BY <1>3
  <2>2. p \in Records /\ task \in [Records -> Task]
    BY InstanceAssumption DEF Inv, TypeInv, TypeOK
  <2>3. UNCHANGED <<log, registry, exposed>> /\ task' = [task EXCEPT ![p] = Ended(p, "ok")]
    BY <2>1 DEF ProduceReply, AlreadyCommitted
  <2>4. Committed' = Committed
    BY <1>1, <2>3 DEF Committed
  <2>5. task'[p].reply = "ok"
    BY <2>2, <2>3, EndedIs
  <2>6. \A q \in Durable : q # p => task'[q] = task[q]
    BY <2>2, <2>3, InstanceAssumption
  <2>7. Acked' = Acked \cup {p}
    BY <2>5, <2>6 DEF Acked
  <2>8. AckedCommitted'
    BY AnsweredCommitted, PTL
  <2>9. p \in ToSet(Committed')
    BY <2>5, <2>8 DEF AckedCommitted, ToSet
  <2>10. Promise!Acknowledge(p)
    BY <2>3, <2>4, <2>7, <2>9
       DEF Promise!Acknowledge, Promise!ToSet, ToSet, Committed, Acked, Main
  <2> QED  BY <2>10 DEF Promise!Next
<1>4. CASE /\ exposed' = exposed
           /\ ~ \E p \in Durable : ProduceReply(p) \/ AlreadyCommitted(p)
  <2>1. \A p \in Durable : task'[p].reply = "ok" <=> task[p].reply = "ok"
    BY <1>4, ReplyStep, InstanceAssumption
  <2>2. Acked' = Acked
    BY <2>1 DEF Acked
  <2>3. CASE Committed' = Committed
    BY <1>4, <2>2, <2>3
  <2>4. CASE Committed' # Committed
    <3>1. IsPrefix(Committed, Committed')
      BY CommittedGrows
    <3>2. (IsInjective(Committed) /\ ToSet(Committed) \subseteq Records)'
      BY CommittedInjective, PTL
    <3>3. Promise!Commit
      BY <1>4, <2>2, <2>4, <3>1, <3>2
         DEF Promise!Commit, Promise!IsPrefix, Promise!IsInjective, Promise!ToSet,
             IsPrefix, IsInjective, ToSet, Committed, Acked, Main
    <3> QED  BY <3>3 DEF Promise!Next
  <2> QED  BY <2>3, <2>4
<1> QED  BY <1>2, <1>3, <1>4

LEMMA PromiseInit == Init => Promise!Init
<1> SUFFICES ASSUME Init PROVE Promise!Init
  OBVIOUS
<1>1. Inv /\ registry[Main].hw = 0
  BY SteadyInit, MainReplica DEF Init, InitialLeadership
<1>2. Committed = << >>
  BY <1>1, CommittedIs
<1>3. Acked = {}
  BY InstanceAssumption DEF Acked, Init, NewTask
<1> QED  BY <1>2, <1>3 DEF Promise!Init, Init, Committed, Acked, Main

\* While nobody is promoted, the cluster implements CommitLog: to its clients
\* the partition is one sequence that only grows, acknowledged as durable and
\* fetched from no further than the commit.
THEOREM Implements == SteadySpec => KeepsPromise
<1>1. Inv /\ Inv' /\ [Steady]_vars => [Promise!Next]_<<Committed, Acked, exposed>>
  BY PromiseStep
<1> QED
  BY <1>1, PromiseInit, SteadyInvariant, PTL
     DEF SteadySpec, KeepsPromise, Promise!Spec, Committed, Acked, Main
=============================================================================
