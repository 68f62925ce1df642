--------------------------- MODULE ReplicationProofs ---------------------------
(***************************************************************************)
(* Theorems about Replication, for every cluster, replication policy, set  *)
(* of requests and bound.                                                  *)
(***************************************************************************)
EXTENDS Replication, SequenceTheorems, TLAPS

-----------------------------------------------------------------------------
(* Types.                                                                  *)

\* Placement stays inside the cluster.
LEMMA RingType == \A o \in Int : Ring(o) \in Brokers
BY ClusterAssumption DEF Ring, Brokers

LEMMA FollowerType == \A n : \A k \in Int : Follower(n, k) \in Brokers
BY RingType DEF Follower

LEMMA ConstantTypes ==
    /\ DeterministicLeader \in Brokers
    /\ Controller \in Brokers
    /\ Replicas \subseteq Brokers
    /\ InitialLeadership \in Leadership
BY RingType, ClusterAssumption
   DEF DeterministicLeader, Controller, Replicas, InitialLeadership, Leadership,
       Brokers

\* The type invariant that is inductive: a worker that writes has a record.
TypeInv ==
    /\ TypeOK
    /\ \A f \in Fetchers : fetch[f].pc = "write" => fetch[f].recs # << >>

LEMMA TypeInit == Init => TypeInv
BY ConstantTypes, InstanceAssumption, ClusterAssumption
   DEF Init, TypeInv, TypeOK, NewTask, Promotion, IdleFetch, IdleCast, Task, Cast,
       PromoteCall, Fetch,
       MaxMisses, Leadership, InitialLeadership

(* One lemma per task, one step per action.  Records are opened one at a   *)
(* time: first the value that changes, then the state it is in.            *)

LEMMA RequestType == TypeInv /\ Request => TypeInv'
<1> SUFFICES ASSUME TypeInv, NEW n \in Brokers,
                    \/ \E p \in Records : ProduceCheck(p, n)
                    \/ \E r \in Readers : FetchStart(r, n) \/ GroupFetchStart(r, n)
             PROVE  TypeInv'
  BY DEF Request
<1>1. ASSUME NEW p \in Records, ProduceCheck(p, n)
      PROVE  TypeInv'
  <2>1. task[p] \in Task
    BY DEF TypeInv, TypeOK
  <2>2. [task[p] EXCEPT !.pc = "append", !.at = n] \in Task
    BY <2>1 DEF Task
  <2> QED
    BY <1>1, <2>2 DEF TypeInv, TypeOK, ProduceCheck
<1>2. ASSUME NEW r \in Readers, FetchStart(r, n) \/ GroupFetchStart(r, n)
      PROVE  TypeInv'
  <2>1. fetch[r] \in Fetch /\ registry[n].hw \in Nat /\ r \in Fetchers
    BY DEF TypeInv, TypeOK, Fetchers, Leadership
  <2>2. /\ [fetch[r] EXCEPT !.pc = "read", !.at = n] \in Fetch
        /\ [fetch[r] EXCEPT !.pc = "groupread", !.at = n,
                            !.hw = registry[n].hw] \in Fetch
    BY <2>1 DEF Fetch
  <2>3. ASSUME NEW v \in Fetch, v.pc # "write", fetch' = [fetch EXCEPT ![r] = v],
               UNCHANGED <<log, registry, up, crashes, task, rpcs, cast, promo,
                           misses, exposed>>
        PROVE  TypeInv'
    BY <2>1, <2>3 DEF TypeInv, TypeOK
  <2>4. CASE FetchStart(r, n)
    <3> DEFINE v == [fetch[r] EXCEPT !.pc = "read", !.at = n]
    <3>1. v \in Fetch /\ v.pc # "write"
      BY <2>1, <2>2 DEF Fetch
    <3>2. fetch' = [fetch EXCEPT ![r] = v]
      BY <2>1, <2>4 DEF FetchStart, TypeInv, TypeOK
    <3> HIDE DEF v
    <3> QED
      BY <2>3, <2>4, <3>1, <3>2 DEF FetchStart
  <2>5. CASE GroupFetchStart(r, n)
    <3> DEFINE v == [fetch[r] EXCEPT !.pc = "groupread", !.at = n,
                                     !.hw = registry[n].hw]
    <3>1. v \in Fetch /\ v.pc # "write"
      BY <2>1, <2>2 DEF Fetch
    <3>2. fetch' = [fetch EXCEPT ![r] = v]
      BY <2>1, <2>5 DEF GroupFetchStart, TypeInv, TypeOK
    <3> HIDE DEF v
    <3> QED
      BY <2>3, <2>5, <3>1, <3>2 DEF GroupFetchStart
  <2> QED
    BY <1>2, <2>4, <2>5
<1> QED
  BY <1>1, <1>2

\* The record at an offset below the end of a log.
LEMMA ElementType ==
    \A s \in Seq(Records), o \in Nat : o < Len(s) => s[o + 1] \in Records
OBVIOUS

LEMMA TaskUpdates ==
    \A t \in Task, x \in Nat :
        /\ [t EXCEPT !.pc = "readback", !.off = x] \in Task
        /\ [t EXCEPT !.pc = "send", !.k = x] \in Task
        /\ [t EXCEPT !.pc = "catchup", !.next = x] \in Task
        /\ \A n \in Brokers :
             [t EXCEPT !.pc = "send", !.k = x, !.acks = @ \cup {n}] \in Task
<1> SUFFICES ASSUME NEW t \in Task, NEW x \in Nat
             PROVE  /\ [t EXCEPT !.pc = "readback", !.off = x] \in Task
                    /\ [t EXCEPT !.pc = "send", !.k = x] \in Task
                    /\ [t EXCEPT !.pc = "catchup", !.next = x] \in Task
                    /\ \A n \in Brokers :
                         [t EXCEPT !.pc = "send", !.k = x, !.acks = @ \cup {n}]
                            \in Task
  OBVIOUS
<1>1. [t EXCEPT !.pc = "readback", !.off = x] \in Task
  BY DEF Task
<1>2. [t EXCEPT !.pc = "send", !.k = x] \in Task
  BY DEF Task
<1>3. [t EXCEPT !.pc = "catchup", !.next = x] \in Task
  BY DEF Task
<1>4. ASSUME NEW n \in Brokers
      PROVE  [t EXCEPT !.pc = "send", !.k = x, !.acks = @ \cup {n}] \in Task
  <2> DEFINE a == t.acks \cup {n}
  <2>1. a \subseteq Brokers
    BY DEF Task
  <2> HIDE DEF a
  <2>2. [t EXCEPT !.pc = "send", !.k = x, !.acks = a] \in Task
    BY <2>1 DEF Task
  <2> QED
    BY <2>2 DEF a
<1> QED
  BY <1>1, <1>2, <1>3, <1>4

LEMMA EndedType ==
    ASSUME TypeInv, NEW p \in Records, NEW answer \in {"none", "ok", "error"}
    PROVE  Ended(p, answer) \in Task
<1>1. task[p] \in Task /\ task[p].off \in Nat
      /\ task[p].reply \in {"none", "ok", "error"}
  BY DEF TypeInv, TypeOK, Task
<1>2. NewTask(p) \in Task
  BY ConstantTypes DEF NewTask, Task
<1> QED
  BY <1>1, <1>2 DEF Ended, Task

LEMMA NextPeerType == \A src \in Brokers, k \in Nat : NextPeer(src, k) \in Nat
BY DEF NextPeer

LEMMA StartCastType ==
    \A src \in Brokers, lead \in Leadership : StartCast(src, lead) \in Cast
BY NextPeerType DEF StartCast, Cast

LEMMA IdleTypes ==
    /\ IdleCast \in Cast
    /\ IdleFetch \in Fetch
    /\ \A q : Resting(q) \in PromoteCall
BY ConstantTypes DEF IdleCast, Cast, IdleFetch, Fetch, Resting, Promotion,
                     PromoteCall

LEMMA ProduceType ==
    ASSUME TypeInv, NEW p \in Records, ProduceStep(p)
    PROVE  TypeInv'
<1> DEFINE n == task[p].at
<1>1. /\ task[p] \in Task
      /\ n \in Brokers
      /\ task[p].off \in Nat
      /\ task[p].k \in Nat
      /\ task[p].next \in Nat
      /\ task[p].rec \in Records
      /\ task[p].lead \in Leadership
  BY DEF TypeInv, TypeOK, Task
<1>2. log[n] \in Seq(Records) /\ registry[n] \in Leadership
  BY <1>1 DEF TypeInv, TypeOK
<1>3. CurrentFollower(p) \in Brokers
  BY <1>1, FollowerType DEF CurrentFollower
<1>4. \A answer \in {"none", "ok", "error"} : Ended(p, answer) \in Task
  BY EndedType
<1>5. p \in Casters
  BY DEF Casters
<1>6. CASE ProduceAppend(p)
  <2>0. NextOffset(n) \in Nat
    BY <1>2 DEF NextOffset
  <2>1. [task[p] EXCEPT !.pc = "readback", !.off = NextOffset(n)] \in Task
    BY <1>1, <2>0, TaskUpdates
  <2>2. Append(log[n], p) \in Seq(Records)
    BY <1>2
  <2> QED
    BY <1>1, <1>6, <2>1, <2>2 DEF TypeInv, TypeOK, ProduceAppend
<1>7. CASE ProduceReadBack(p)
  <2>0. task[p].off < Len(log[n])
    BY <1>7 DEF ProduceReadBack, NextOffset
  <2>1. log[n][task[p].off + 1] \in Records
    BY <1>1, <1>2, <2>0, ElementType
  <2>2. \A reply \in {"none", "ok", "error"} :
          [task[p] EXCEPT !.pc = "send", !.rec = log[n][task[p].off + 1],
                          !.acks = {n}, !.reply = reply] \in Task
    BY <1>1, <2>1 DEF Task
  <2>3. task[p].reply \in {"none", "ok", "error"}
    BY <1>1 DEF Task
  <2>4. task' \in [Records -> Task]
    BY <1>7, <2>2, <2>3 DEF TypeInv, TypeOK, ProduceReadBack
  <2> QED
    BY <1>7, <2>4 DEF TypeInv, TypeOK, ProduceReadBack
<1>8. CASE ProduceVanished(p)
  <2>1. [Ended(p, "error") EXCEPT !.reply = "error"] \in Task
    BY <1>4 DEF Task
  <2> QED
    BY <1>8, <2>1 DEF TypeInv, TypeOK, ProduceVanished
<1>9. CASE SendReplica(p)
  <2>1. [task[p] EXCEPT !.pc = "wait", !.lead = registry[n]] \in Task
    BY <1>1, <1>2 DEF Task
  <2>2. ReplicateRecord(p, task[p].off, task[p].rec, registry[n]) \in Rpc
    BY <1>1, <1>2, <1>3 DEF ReplicateRecord, Rpc
  <2> QED
    BY <1>9, <2>1, <2>2 DEF TypeInv, TypeOK, SendReplica
<1>10. CASE CatchUp(p)
  <2>1. [task[p] EXCEPT !.pc = "rewait"] \in Task
    BY <1>1 DEF Task
  <2>0. task[p].next < Len(log[n])
    BY <1>10 DEF CatchUp, NextOffset
  <2>2. log[n][task[p].next + 1] \in Records
    BY <1>1, <1>2, <2>0, ElementType
  <2>3. ReplicateRecord(p, task[p].next, log[n][task[p].next + 1],
                        task[p].lead) \in Rpc
    BY <1>1, <1>3, <2>2 DEF ReplicateRecord, Rpc
  <2> QED
    BY <1>10, <2>1, <2>3 DEF TypeInv, TypeOK, CatchUp
<1>11. CASE FollowerFails(p)
  <2>0. task[p].k + 1 \in Nat
    BY <1>1
  <2>1. [task[p] EXCEPT !.pc = "send", !.k = task[p].k + 1] \in Task
    BY <1>1, <2>0, TaskUpdates
  <2> QED
    BY <1>11, <2>1 DEF TypeInv, TypeOK, FollowerFails
<1>12. CASE AlreadyCommitted(p) \/ CommitStale(p) \/ NotEnoughInSyncReplicas(p)
  BY <1>4, <1>12 DEF TypeInv, TypeOK, AlreadyCommitted, CommitStale,
                     NotEnoughInSyncReplicas
<1>13. CASE CommitRead(p)
  <2>1. [registry[n] EXCEPT !.hw = task[p].off + 1] \in Leadership
    BY <1>1, <1>2 DEF Leadership
  <2>2. \A lead \in Leadership :
          [task[p] EXCEPT !.pc = "commit", !.lead = lead] \in Task
    BY <1>1 DEF Task
  <2> QED
    BY <1>13, <2>1, <2>2 DEF TypeInv, TypeOK, CommitRead
<1>14. CASE CommitApply(p)
  <2>1. [task[p] EXCEPT !.pc = "casting"] \in Task
    BY <1>1 DEF Task
  <2>2. StartCast(n, task[p].lead) \in Cast
    BY <1>1, StartCastType
  <2> QED
    BY <1>1, <1>5, <1>14, <2>1, <2>2 DEF TypeInv, TypeOK, CommitApply
<1>15. CASE ProduceReply(p)
  BY <1>4, <1>5, <1>15, IdleTypes DEF TypeInv, TypeOK, ProduceReply
<1> QED
  BY <1>6, <1>7, <1>8, <1>9, <1>10, <1>11, <1>12, <1>13, <1>14, <1>15
     DEF ProduceStep

(* Logs after a truncation, a replicated record, a read. *)
LEMMA LogTypes ==
    ASSUME NEW s \in Seq(Records), NEW o \in Nat
    PROVE  /\ Truncated(s, o) \in Seq(Records)
           /\ \A rec \in Records : Replicated(s, o, rec) \in Seq(Records)
           /\ SubSeq(s, o + 1, Len(s)) \in Seq(Records)
<1>1. Len(s) \in Nat /\ \A i \in 1 .. Len(s) : s[i] \in Records
  OBVIOUS
<1>2. ASSUME o < Len(s) PROVE SubSeq(s, 1, o) \in Seq(Records)
  BY <1>1, <1>2, SubSeqProperties
<1>3. SubSeq(s, o + 1, Len(s)) \in Seq(Records)
  <2>1. \A i \in o + 1 .. Len(s) : s[i] \in Records
    BY <1>1
  <2> QED
    BY <1>1, <2>1, SubSeqProperties
<1> QED
  BY <1>2, <1>3 DEF Truncated, Replicated

LEMMA PrefixType ==
    ASSUME NEW s \in Seq(Records), NEW j \in Int, j <= Len(s)
    PROVE  SubSeq(s, 1, j) \in Seq(Records)
<1>1. Len(s) \in Nat /\ \A i \in 1 .. Len(s) : s[i] \in Records
  OBVIOUS
<1>2. \A i \in 1 .. j : s[i] \in Records
  BY <1>1
<1> QED
  BY <1>2, SubSeqProperties

LEMMA InstallType ==
    \A cur, new \in Leadership :
        Install(cur, new) \in Leadership /\ Synced(cur, new) \in Leadership
BY DEF Install, Synced

LEMMA AcknowledgedType ==
    ASSUME NEW t \in Task, NEW n \in Brokers, NEW next \in Nat
    PROVE  Acknowledged(t, n, next) \in Task
<1>1. t.k + 1 \in Nat
  BY DEF Task
<1>2. /\ [t EXCEPT !.pc = "send", !.k = t.k + 1] \in Task
      /\ [t EXCEPT !.pc = "catchup", !.next = next] \in Task
      /\ [t EXCEPT !.pc = "send", !.k = t.k + 1, !.acks = @ \cup {n}] \in Task
  BY <1>1, TaskUpdates
<1> QED
  BY <1>2 DEF Acknowledged

LEMMA ReplicaType ==
    ASSUME TypeInv, NEW m \in rpcs, ReplicaStep(m)
    PROVE  TypeInv'
<1>1. /\ m \in Rpc
      /\ m.dst \in Brokers
      /\ m.off \in Nat
      /\ m.hw \in Nat
      /\ m.rec \in Records
      /\ m.task \in Records
      /\ m.lead \in Leadership
  BY DEF TypeInv, TypeOK, Rpc
<1>2. log[m.dst] \in Seq(Records) /\ registry[m.dst] \in Leadership
  BY <1>1 DEF TypeInv, TypeOK
<1>3. \A st \in {"recv", "truncate", "apply", "write"}, hw \in Nat :
        /\ [m EXCEPT !.st = st] \in Rpc
        /\ [m EXCEPT !.st = st, !.hw = hw] \in Rpc
  BY <1>1 DEF Rpc
<1>4. CASE ReplicaReceive(m)
  <2>1. registry[m.dst].hw \in Nat
    BY <1>2 DEF Leadership
  <2>2. rpcs' \subseteq Rpc
    BY <1>1, <1>3, <1>4, <2>1 DEF TypeInv, TypeOK, ReplicaReceive
  <2> QED
    BY <1>4, <2>2 DEF TypeInv, TypeOK, ReplicaReceive
<1>5. CASE ReplicaReject(m) \/ ReplicaDiverged(m)
  BY <1>5 DEF TypeInv, TypeOK, ReplicaReject, ReplicaDiverged
<1>6. CASE ReplicaTruncate(m)
  <2>1. Truncated(log[m.dst], m.off) \in Seq(Records)
    BY <1>1, <1>2, LogTypes
  <2> QED
    BY <1>1, <1>3, <1>6, <2>1 DEF TypeInv, TypeOK, ReplicaTruncate, Moved
<1>7. CASE ReplicaApply(m)
  <2>1. [m.lead EXCEPT !.hw = m.hw] \in Leadership
    BY <1>1 DEF Leadership
  <2>2. Install(registry[m.dst], [m.lead EXCEPT !.hw = m.hw]) \in Leadership
    BY <1>2, <2>1, InstallType
  <2> QED
    BY <1>1, <1>3, <1>7, <2>2 DEF TypeInv, TypeOK, ReplicaApply, Moved
<1>8. CASE ReplicaWrite(m)
  <2> DEFINE t == IF m.off > Len(log[m.dst]) THEN log[m.dst]
                  ELSE Replicated(log[m.dst], m.off, m.rec)
  <2>1. Replicated(log[m.dst], m.off, m.rec) \in Seq(Records)
    BY <1>1, <1>2, LogTypes
  <2>2. t \in Seq(Records)
    BY <1>2, <2>1
  <2>3. log' = [log EXCEPT ![m.dst] = t]
    BY <1>8 DEF ReplicaWrite
  <2>4. task' = IF Waiting(m.task, m.dst)
                THEN [task EXCEPT ![m.task] = Acknowledged(@, m.dst, Len(t))]
                ELSE task
    BY <1>8 DEF ReplicaWrite
  <2> HIDE DEF t
  <2>5. Len(t) \in Nat
    BY <2>2
  <2>6. Acknowledged(task[m.task], m.dst, Len(t)) \in Task
    BY <1>1, <2>5, AcknowledgedType DEF TypeInv, TypeOK
  <2>7. task' \in [Records -> Task]
    BY <1>1, <2>4, <2>6 DEF TypeInv, TypeOK
  <2>8. log' \in [Brokers -> Seq(Records)]
    BY <1>1, <2>2, <2>3 DEF TypeInv, TypeOK
  <2> QED
    BY <1>8, <2>7, <2>8 DEF TypeInv, TypeOK, ReplicaWrite
<1> QED
  BY <1>4, <1>5, <1>6, <1>7, <1>8 DEF ReplicaStep

LEMMA AnsweredType == \A b \in Cast : Answered(b) \in Cast
<1> SUFFICES ASSUME NEW b \in Cast PROVE Answered(b) \in Cast
  OBVIOUS
<1>1. NextPeer(b.src, b.k) \in Nat
  BY NextPeerType DEF Cast
<1>2. \A k \in Nat : [b EXCEPT !.st = "send", !.k = k] \in Cast
  BY DEF Cast
<1> QED
  BY <1>1, <1>2, IdleTypes DEF Answered

LEMMA CastType ==
    ASSUME TypeInv, NEW c \in Casters, CastStep(c)
    PROVE  TypeInv'
<1>1. /\ cast[c] \in Cast
      /\ cast[c].k \in Nat
      /\ cast[c].src \in Brokers
      /\ cast[c].lead \in Leadership
      /\ cast[c].lead.hw \in Nat
  BY DEF TypeInv, TypeOK, Cast, Leadership
<1>2. /\ \A st \in {"none", "send", "recv", "truncate", "install"} :
           [cast[c] EXCEPT !.st = st] \in Cast
      /\ \A k \in Nat : [cast[c] EXCEPT !.k = k] \in Cast
  BY <1>1 DEF Cast
<1>3. CASE CastSend(c) \/ ApplyReceive(c)
  BY <1>2, <1>3 DEF TypeInv, TypeOK, CastSend, ApplyReceive
<1>4. CASE CastSkip(c)
  <2>1. NextPeer(cast[c].src, cast[c].k) \in Nat
    BY <1>1, NextPeerType
  <2> QED
    BY <1>2, <1>4, <2>1 DEF TypeInv, TypeOK, CastSkip
<1>5. CASE ApplyTruncate(c)
  <2>1. \A n \in Brokers : Truncated(log[n], cast[c].lead.hw) \in Seq(Records)
    BY <1>1, LogTypes DEF TypeInv, TypeOK
  <2>2. log' \in [Brokers -> Seq(Records)]
    BY <1>5, <2>1 DEF TypeInv, TypeOK, ApplyTruncate
  <2> QED
    BY <1>2, <1>5, <2>2 DEF TypeInv, TypeOK, ApplyTruncate
<1>6. CASE ApplyInstall(c)
  <2>1. \A n \in Brokers : Install(registry[n], cast[c].lead) \in Leadership
    BY <1>1, InstallType DEF TypeInv, TypeOK
  <2>2. registry' \in [Brokers -> Leadership]
    BY <1>6, <2>1 DEF TypeInv, TypeOK, ApplyInstall
  <2> QED
    BY <1>1, <1>6, <2>2, AnsweredType DEF TypeInv, TypeOK, ApplyInstall
<1> QED
  BY <1>3, <1>4, <1>5, <1>6 DEF CastStep

LEMMA ReturnedType ==
    ASSUME NEW s \in Seq(Records), NEW hw
    PROVE  Returned(s, 0, hw) \subseteq [off : Nat, rec : Records]
BY DEF Returned

LEMMA FetchReadType ==
    ASSUME TypeInv, NEW f \in Fetchers, FetchRead(f)
    PROVE  TypeInv'
<1> DEFINE recs == SubSeq(log[fetch[f].at], fetch[f].off + 1,
                          Len(log[fetch[f].at]))
<1>1. fetch[f] \in Fetch /\ fetch[f].at \in Brokers /\ fetch[f].off \in Nat
  BY DEF TypeInv, TypeOK, Fetch
<1>2. recs \in Seq(Records)
  BY <1>1, LogTypes DEF TypeInv, TypeOK
<1>3. \A r \in Seq(Records) : [fetch[f] EXCEPT !.pc = "filter", !.recs = r] \in Fetch
  BY <1>1 DEF Fetch
<1> HIDE DEF recs
<1>4. fetch' = [fetch EXCEPT ![f] = [fetch[f] EXCEPT !.pc = "filter", !.recs = recs]]
  BY DEF FetchRead, TypeInv, TypeOK, recs
<1>5. fetch' \in [Fetchers -> Fetch]
  BY <1>2, <1>3, <1>4 DEF TypeInv, TypeOK
<1>6. \A g \in Fetchers : fetch'[g].pc = "write" => fetch'[g].recs # << >>
  BY <1>1, <1>4 DEF TypeInv, TypeOK, Fetch
<1> QED
  BY <1>5, <1>6 DEF TypeInv, TypeOK, FetchRead

\* A task that ended, or never ran, is not writing.
LEMMA IdleFetchFact == IdleFetch \in Fetch /\ IdleFetch.pc # "write"
BY IdleTypes DEF IdleFetch

LEMMA ReaderType ==
    ASSUME TypeInv, NEW r \in Readers, ReaderStep(r)
    PROVE  TypeInv'
<1>1. /\ r \in Fetchers
      /\ fetch[r].at \in Brokers
      /\ fetch[r].recs \in Seq(Records)
  BY DEF TypeInv, TypeOK, Fetch, Fetchers
<1>2. CASE FetchRead(r)
  BY <1>1, <1>2, FetchReadType
<1>3. CASE FetchReply(r)
  <2>1. exposed' \subseteq [off : Nat, rec : Records]
    BY <1>1, <1>3, ReturnedType DEF TypeInv, TypeOK, FetchReply
  <2> QED
    BY <1>1, <1>3, <2>1, IdleFetchFact DEF TypeInv, TypeOK, FetchReply
<1>4. CASE GroupFetchReply(r)
  <2>1. log[fetch[r].at] \in Seq(Records)
    BY <1>1 DEF TypeInv, TypeOK
  <2>2. exposed' \subseteq [off : Nat, rec : Records]
    BY <1>4, <2>1, ReturnedType DEF TypeInv, TypeOK, GroupFetchReply
  <2> QED
    BY <1>1, <1>4, <2>2, IdleFetchFact DEF TypeInv, TypeOK, GroupFetchReply
<1> QED
  BY <1>2, <1>3, <1>4 DEF ReaderStep

\* When one fetch changes, to a value that keeps the invariant.
LEMMA FetchUpdate ==
    ASSUME TypeInv, NEW n \in Fetchers, NEW v \in Fetch,
           v.pc = "write" => v.recs # << >>,
           fetch' = [fetch EXCEPT ![n] = v]
    PROVE  /\ fetch' \in [Fetchers -> Fetch]
           /\ \A f \in Fetchers : fetch'[f].pc = "write" => fetch'[f].recs # << >>
BY DEF TypeInv, TypeOK

LEMMA WorkerType ==
    ASSUME TypeInv, NEW n \in Recovering, WorkerStep(n)
    PROVE  TypeInv'
<1> DEFINE f == fetch[n]
           FetchOK == /\ fetch' \in [Fetchers -> Fetch]
                      /\ \A g \in Fetchers :
                           fetch'[g].pc = "write" => fetch'[g].recs # << >>
<1>1. /\ n \in Fetchers
      /\ n \in Brokers
      /\ f \in Fetch
      /\ f.at \in Brokers
      /\ f.off \in Nat
      /\ f.recs \in Seq(Records)
      /\ f.lead \in Leadership
      /\ Controller \in Brokers
  BY InstanceAssumption, ConstantTypes DEF TypeInv, TypeOK, Fetch, Fetchers
<1>2. \A b \in Brokers : log[b] \in Seq(Records) /\ registry[b] \in Leadership
  BY DEF TypeInv, TypeOK
<1>3. CASE SyncRead(n)
  <2>1. \A l \in Leadership : /\ [f EXCEPT !.pc = "sync", !.lead = l] \in Fetch
                              /\ [f EXCEPT !.pc = "sync", !.lead = l].pc = "sync"
    BY <1>1 DEF Fetch
  <2>2. FetchOK
    BY <1>1, <1>2, <1>3, <2>1, FetchUpdate DEF SyncRead, TypeInv, TypeOK
  <2> QED
    BY <1>3, <2>2 DEF TypeInv, TypeOK, SyncRead
<1>4. [f EXCEPT !.pc = "scan"] \in Fetch /\ [f EXCEPT !.pc = "scan"].pc = "scan"
  BY <1>1 DEF Fetch
<1>5. CASE SyncApply(n)
  <2>1. Synced(registry[n], f.lead) \in Leadership
    BY <1>1, <1>2, InstallType
  <2>2. FetchOK
    BY <1>1, <1>4, <1>5, FetchUpdate DEF SyncApply, TypeInv, TypeOK
  <2> QED
    BY <1>1, <1>5, <2>1, <2>2 DEF TypeInv, TypeOK, SyncApply
<1>6. CASE SyncSkip(n)
  <2>1. FetchOK
    BY <1>1, <1>4, <1>6, FetchUpdate DEF SyncSkip, TypeInv, TypeOK
  <2> QED
    BY <1>6, <2>1 DEF TypeInv, TypeOK, SyncSkip
<1>7. CASE RecoverStart(n)
  <2>1. NextOffset(n) \in Nat
    BY <1>1, <1>2 DEF NextOffset
  <2>2. \A o \in Nat, l \in Leadership :
          /\ [IdleFetch EXCEPT !.pc = "route", !.off = o, !.lead = l] \in Fetch
          /\ [IdleFetch EXCEPT !.pc = "route", !.off = o, !.lead = l].pc = "route"
    BY IdleTypes DEF Fetch
  <2>3. FetchOK
    BY <1>1, <1>2, <1>7, <2>1, <2>2, IdleFetchFact, FetchUpdate DEF RecoverStart
  <2> QED
    BY <1>7, <2>3 DEF TypeInv, TypeOK, RecoverStart
<1>8. CASE RecoverFetch(n)
  <2>1. registry[Controller].leader \in Brokers
    BY <1>1, <1>2 DEF Leadership
  <2>2. \A b \in Brokers : /\ [f EXCEPT !.pc = "read", !.at = b] \in Fetch
                           /\ [f EXCEPT !.pc = "read", !.at = b].pc = "read"
    BY <1>1 DEF Fetch
  <2>3. FetchOK
    BY <1>1, <1>8, <2>1, <2>2, FetchUpdate DEF RecoverFetch, TypeInv, TypeOK
  <2> QED
    BY <1>8, <2>3 DEF TypeInv, TypeOK, RecoverFetch
<1>9. CASE FetchRead(n)
  BY <1>1, <1>9, FetchReadType
<1>10. CASE RecoverReceive(n)
  <2> DEFINE visible == registry[f.at].hw - f.off
             last == Min({visible, Len(f.recs)})
             kept == SubSeq(f.recs, 1, last)
  <2>1. visible \in Int /\ Len(f.recs) \in Nat
    BY <1>1, <1>2 DEF Leadership
  <2>2. last \in Int /\ last <= Len(f.recs)
    <3> HIDE DEF visible
    <3> QED
      BY <2>1 DEF Min
  <2>3. fetch' = [fetch EXCEPT ![n] = IF kept = << >> THEN IdleFetch
                                      ELSE [f EXCEPT !.pc = "write", !.recs = kept]]
    BY <1>10 DEF RecoverReceive
  <2> HIDE DEF last
  <2>4. kept \in Seq(Records)
    BY <1>1, <2>2, PrefixType
  <2> HIDE DEF kept
  <2>5. \A s \in Seq(Records) :
          /\ [f EXCEPT !.pc = "write", !.recs = s] \in Fetch
          /\ [f EXCEPT !.pc = "write", !.recs = s].recs = s
    BY <1>1 DEF Fetch
  <2>6. FetchOK
    BY <1>1, <2>3, <2>4, <2>5, IdleFetchFact, FetchUpdate
  <2> QED
    BY <1>10, <2>6 DEF TypeInv, TypeOK, RecoverReceive
<1>11. CASE RecoverWrite(n)
  <2>1. f.recs # << >>
    BY <1>1, <1>11 DEF RecoverWrite, TypeInv
  <2>2. Head(f.recs) \in Records /\ Tail(f.recs) \in Seq(Records)
        /\ Len(Tail(f.recs)) = Len(f.recs) - 1 /\ Len(f.recs) \in Nat
    BY <1>1, <2>1, HeadTailProperties
  <2> DEFINE s == Replicated(log[n], f.off, Head(f.recs))
             pc == IF Len(f.recs) = 1 THEN "route" ELSE "write"
             off == IF Len(f.recs) = 1 THEN Len(s) ELSE f.off + 1
  <2>3. s \in Seq(Records)
    BY <1>1, <1>2, <2>2, LogTypes
  <2>4. pc \in {"route", "write"} /\ off \in Nat
    BY <1>1, <2>3
  <2>5. ASSUME pc = "write" PROVE Tail(f.recs) # << >>
    <3>1. Len(f.recs) # 1
      BY <2>5
    <3>2. Len(Tail(f.recs)) # 0
      BY <2>2, <3>1
    <3>3. Len(<< >>) = 0
      BY EmptySeq
    <3> QED
      BY <3>2, <3>3
  <2>6. fetch' = [fetch EXCEPT ![n] = [f EXCEPT !.recs = Tail(f.recs), !.pc = pc,
                                                !.off = off]]
    BY <1>1, <1>11 DEF RecoverWrite, TypeInv, TypeOK
  <2>7. log' = [log EXCEPT ![n] = s]
    BY <1>11 DEF RecoverWrite
  <2> HIDE DEF s, pc, off
  <2>8. FetchOK
    <3> DEFINE rest == Tail(f.recs)
               v == [f EXCEPT !.recs = rest, !.pc = pc, !.off = off]
    <3>0. rest \in Seq(Records)
      BY <2>2
    <3> HIDE DEF rest
    <3>1. /\ v \in Fetch
          /\ v.pc = pc
          /\ v.recs = rest
      BY <1>1, <2>4, <3>0 DEF Fetch
    <3>2. fetch' = [fetch EXCEPT ![n] = v]
      BY <2>6 DEF rest
    <3>3. pc = "write" => rest # << >>
      BY <2>5 DEF rest
    <3> HIDE DEF v
    <3> QED
      BY <1>1, <3>1, <3>2, <3>3, FetchUpdate
  <2>9. log \in [Brokers -> Seq(Records)] /\ n \in Brokers
    BY <1>1 DEF TypeInv, TypeOK
  <2>10. log' \in [Brokers -> Seq(Records)]
    BY <2>3, <2>7, <2>9
  <2>11. UNCHANGED <<registry, up, crashes, task, rpcs, cast, promo, misses, exposed>>
    BY <1>11 DEF RecoverWrite
  <2> QED
    BY <2>8, <2>10, <2>11 DEF TypeInv, TypeOK
<1>12. CASE RecoverFail(n)
  <2>1. FetchOK
    BY <1>1, <1>12, IdleFetchFact, FetchUpdate DEF RecoverFail
  <2> QED
    BY <1>12, <2>1 DEF TypeInv, TypeOK, RecoverFail
<1> QED
  BY <1>3, <1>5, <1>6, <1>7, <1>8, <1>9, <1>10, <1>11, <1>12 DEF WorkerStep

LEMMA PromoteStartType ==
    ASSUME TypeInv, NEW q \in Promotions, NEW n \in Brokers, PromoteStart(q, n)
    PROVE  TypeInv'
<1>1. q \in Promoters /\ registry[Controller] \in Leadership
  BY ConstantTypes DEF TypeInv, TypeOK, Promoters
<1>2. [pc |-> "verify", cand |-> n, cur |-> registry[Controller]] \in PromoteCall
  BY <1>1 DEF PromoteCall
<1>3. promo' \in [Promoters -> PromoteCall]
  BY <1>1, <1>2 DEF TypeInv, TypeOK, PromoteStart
<1> QED
  BY <1>3 DEF TypeInv, TypeOK, PromoteStart

LEMMA PromotedType ==
    ASSUME TypeInv, NEW q \in Promoters
    PROVE  Promoted(q) \in Leadership
BY DEF TypeInv, TypeOK, Promoted, PromoteCall, Leadership

LEMMA PromoteType ==
    ASSUME TypeInv, NEW q \in Promoters, PromoteStep(q)
    PROVE  TypeInv'
<1>1. /\ promo[q] \in PromoteCall
      /\ promo[q].cur \in Leadership
      /\ promo[q].cur.hw \in Nat
      /\ Controller \in Brokers
      /\ q \in Casters
  BY ConstantTypes DEF TypeInv, TypeOK, PromoteCall, Leadership, Casters, Promoters
<1>2. \A pc \in {"truncate", "apply", "casting"} :
        [promo[q] EXCEPT !.pc = pc] \in PromoteCall
  BY <1>1 DEF PromoteCall
<1>3. Resting(q) \in PromoteCall
  BY IdleTypes
<1>4. CASE PromoteVerify(q)
  <2>1. promo' \in [Promoters -> PromoteCall]
    BY <1>2, <1>4 DEF TypeInv, TypeOK, PromoteVerify
  <2> QED
    BY <1>4, <2>1 DEF TypeInv, TypeOK, PromoteVerify
<1>5. CASE PromoteRefuse(q) \/ PromoteStale(q)
  BY <1>3, <1>5 DEF TypeInv, TypeOK, PromoteRefuse, PromoteStale
<1>6. CASE PromoteTruncate(q)
  <2>1. Truncated(log[Controller], promo[q].cur.hw) \in Seq(Records)
    BY <1>1, LogTypes DEF TypeInv, TypeOK
  <2> QED
    BY <1>1, <1>2, <1>6, <2>1 DEF TypeInv, TypeOK, PromoteTruncate
<1>7. CASE PromoteApply(q)
  <2>1. Promoted(q) \in Leadership
    BY PromotedType
  <2>2. StartCast(Controller, Promoted(q)) \in Cast
    BY <1>1, <2>1, StartCastType
  <2> QED
    BY <1>1, <1>2, <1>7, <2>1, <2>2 DEF TypeInv, TypeOK, PromoteApply
<1>8. CASE PromoteReply(q)
  BY <1>1, <1>3, <1>8, IdleTypes DEF TypeInv, TypeOK, PromoteReply, MaxMisses
<1> QED
  BY <1>4, <1>5, <1>6, <1>7, <1>8 DEF PromoteStep

LEMMA MonitorType ==
    ASSUME TypeInv, MonitorStep
    PROVE  TypeInv'
<1>1. /\ Monitor \in Promoters
      /\ registry[Controller] \in Leadership
      /\ promo[Monitor] \in PromoteCall
      /\ misses \in 0 .. 3
      /\ MaxMisses = 3
  BY ConstantTypes DEF TypeInv, TypeOK, Promoters, MaxMisses
<1>2. CASE ProbeAnswered
  BY <1>1, <1>2 DEF TypeInv, TypeOK, ProbeAnswered
<1>3. CASE ProbeMissed
  <2>1. misses' \in 0 .. MaxMisses
    BY <1>1, <1>3 DEF ProbeMissed
  <2>2. [promo[Monitor] EXCEPT !.pc = "select", !.cur = registry[Controller]]
          \in PromoteCall
    BY <1>1 DEF PromoteCall
  <2>3. promo' \in [Promoters -> PromoteCall]
    BY <1>3, <2>2 DEF TypeInv, TypeOK, ProbeMissed
  <2> QED
    BY <1>3, <2>1, <2>3 DEF TypeInv, TypeOK, ProbeMissed
<1>4. CASE AutoSelect
  <2>1. PICK n \in Brokers :
          promo' = [promo EXCEPT ![Monitor] =
                      [pc |-> "verify", cand |-> n, cur |-> registry[Controller]]]
    BY <1>4, ConstantTypes DEF AutoSelect, AutomaticCandidates, Asked, Reachable
  <2>2. [pc |-> "verify", cand |-> n, cur |-> registry[Controller]] \in PromoteCall
    BY <1>1 DEF PromoteCall
  <2>3. promo' \in [Promoters -> PromoteCall]
    BY <2>1, <2>2 DEF TypeInv, TypeOK
  <2> QED
    BY <1>4, <2>3 DEF TypeInv, TypeOK, AutoSelect
<1>5. CASE AutoNone
  BY <1>5, IdleTypes DEF TypeInv, TypeOK, AutoNone
<1> QED
  BY <1>2, <1>3, <1>4, <1>5 DEF MonitorStep

LEMMA CrashType ==
    ASSUME TypeInv, NEW n \in Brokers, Crash(n)
    PROVE  TypeInv'
<1>1. task' \in [Records -> Task]
  <2>1. \A p \in Records : task[p] \in Task /\ task[p].reply \in {"none", "ok", "error"}
    BY DEF TypeInv, TypeOK, Task
  <2>2. \A p \in Records : Ended(p, task[p].reply) \in Task
    BY <2>1, EndedType
  <2> QED
    BY <2>1, <2>2 DEF Crash
<1>2. cast' \in [Casters -> Cast]
  <2>1. \A c \in Casters : /\ cast[c] \in Cast
                           /\ Answered(cast[c]) \in Cast
    BY AnsweredType DEF TypeInv, TypeOK
  <2>2. \A b \in Cast : [b EXCEPT !.live = FALSE] \in Cast
    BY DEF Cast
  <2> QED
    BY <2>1, <2>2, IdleTypes DEF Crash
<1>3. promo' \in [Promoters -> PromoteCall]
  BY IdleTypes DEF TypeInv, TypeOK, Crash
<1>4. /\ fetch' \in [Fetchers -> Fetch]
      /\ \A f \in Fetchers : fetch'[f].pc = "write" => fetch'[f].recs # << >>
  BY IdleFetchFact DEF TypeInv, TypeOK, Crash
<1>5. /\ crashes' \in Nat
      /\ up' \in [Brokers -> BOOLEAN]
      /\ rpcs' \subseteq Rpc
      /\ misses' \in 0 .. MaxMisses
  BY DEF TypeInv, TypeOK, Crash, MaxMisses
<1> QED
  BY <1>1, <1>2, <1>3, <1>4, <1>5 DEF TypeInv, TypeOK, Crash

LEMMA RestartType ==
    ASSUME TypeInv, NEW n \in Brokers, Restart(n)
    PROVE  TypeInv'
<1>1. Synced(registry[n], registry[Controller]) \in Leadership
  BY ConstantTypes, InstallType DEF TypeInv, TypeOK
<1> QED
  BY <1>1 DEF TypeInv, TypeOK, Restart

LEMMA TypeStep == TypeInv /\ [Next]_vars => TypeInv'
<1> SUFFICES ASSUME TypeInv, [Next]_vars PROVE TypeInv'
  OBVIOUS
<1>1. CASE Serve
  BY <1>1, RequestType, ProduceType, ReplicaType, CastType, ReaderType, WorkerType
     DEF Serve
<1>2. CASE Promote
  BY <1>2, PromoteStartType, PromoteType, MonitorType DEF Promote
<1>3. CASE Crashes \/ Restarts
  BY <1>3, CrashType, RestartType DEF Crashes, Restarts
<1>4. CASE UNCHANGED vars
  BY <1>4 DEF TypeInv, TypeOK, vars
<1> QED
  BY <1>1, <1>2, <1>3, <1>4 DEF Next, FailStop

\* Every variable keeps the shape its Rust type gives it, in every cluster and
\* through every crash and promotion.
THEOREM TypeCorrect == Spec => []TypeOK
<1>1. TypeInv => TypeOK
  BY DEF TypeInv
<1> QED
  BY <1>1, TypeInit, TypeStep, PTL DEF Spec

-----------------------------------------------------------------------------
(* A record is nowhere but at the offset its append was given.             *)
(*                                                                         *)
(* Logs are written from copies: a record that was read back, a request on *)
(* its way, an answer to a fetch.  The inductive invariant says of all of  *)
(* them what the property says of logs.  An offset is given once and then  *)
(* stays, so what holds of a copy holds until it is used.                  *)

\* The append of rec was given this offset.
At(rec, offset) ==
    /\ task[rec].off = offset
    /\ task[rec].pc \notin {"new", "append"}

\* So it was for every record of a sequence that starts at an offset.
SeqAt(s, offset) == \A i \in 1 .. Len(s) : At(s[i], offset + i - 1)

Sending == {"send", "wait", "catchup", "rewait"}

OffsetInv ==
    /\ \A n \in Brokers : SeqAt(log[n], 0)
    /\ \A p \in Records : task[p].pc \in Sending => At(task[p].rec, task[p].off)
    /\ \A m \in rpcs : At(m.rec, m.off)
    /\ \A f \in Fetchers :
          fetch[f].pc \in {"filter", "write"} => SeqAt(fetch[f].recs, fetch[f].off)
    /\ \A r \in Readers : fetch[r].off = 0
    /\ \A e \in exposed : At(e.rec, e.off)

(* Sequences.                                                              *)

LEMMA PrefixAt ==
    ASSUME NEW s \in Seq(Records), NEW j \in Int, j <= Len(s),
           NEW o \in Nat, SeqAt(s, o)
    PROVE  SeqAt(SubSeq(s, 1, j), o)
<1>1. Len(s) \in Nat /\ \A i \in 1 .. Len(s) : s[i] \in Records
  OBVIOUS
<1>2. \A i \in 1 .. j : s[i] \in Records
  BY <1>1
<1>3. /\ Len(SubSeq(s, 1, j)) = IF 1 <= j THEN j - 1 + 1 ELSE 0
      /\ \A i \in 1 .. j - 1 + 1 : SubSeq(s, 1, j)[i] = s[1 + i - 1]
  BY <1>2, SubSeqProperties
<1>4. SUFFICES ASSUME NEW i \in 1 .. Len(SubSeq(s, 1, j))
               PROVE  At(SubSeq(s, 1, j)[i], o + i - 1)
  BY DEF SeqAt
<1>5. i \in 1 .. j /\ i \in 1 .. Len(s)
  BY <1>1, <1>3, <1>4
<1>6. SubSeq(s, 1, j)[i] = s[i]
  BY <1>3, <1>5
<1> QED
  BY <1>5, <1>6 DEF SeqAt

LEMMA SuffixAt ==
    ASSUME NEW s \in Seq(Records), NEW o \in Nat, SeqAt(s, 0)
    PROVE  SeqAt(SubSeq(s, o + 1, Len(s)), o)
<1>1. Len(s) \in Nat /\ \A i \in 1 .. Len(s) : s[i] \in Records
  OBVIOUS
<1>2. \A i \in o + 1 .. Len(s) : s[i] \in Records
  BY <1>1
<1> DEFINE t == SubSeq(s, o + 1, Len(s))
<1>3. /\ Len(t) = IF o + 1 <= Len(s) THEN Len(s) - (o + 1) + 1 ELSE 0
      /\ \A i \in 1 .. Len(s) - (o + 1) + 1 : t[i] = s[o + 1 + i - 1]
  BY <1>1, <1>2, SubSeqProperties
<1> HIDE DEF t
<1>4. SUFFICES ASSUME NEW i \in 1 .. Len(t)
               PROVE  At(t[i], o + i - 1)
  BY DEF SeqAt, t
<1>5. i \in Int /\ o + i \in 1 .. Len(s) /\ t[i] = s[o + i]
  BY <1>1, <1>3, <1>4
<1>6. At(s[o + i], 0 + (o + i) - 1)
  BY <1>5 DEF SeqAt
<1>7. 0 + (o + i) - 1 = o + i - 1
  BY <1>5
<1> QED
  BY <1>5, <1>6, <1>7

LEMMA TruncatedAt ==
    ASSUME NEW s \in Seq(Records), NEW o \in Nat, SeqAt(s, 0)
    PROVE  SeqAt(Truncated(s, o), 0)
<1>1. ASSUME o < Len(s) PROVE SeqAt(SubSeq(s, 1, o), 0)
  BY <1>1, PrefixAt
<1> QED
  BY <1>1 DEF Truncated

LEMMA ReplicatedAt ==
    ASSUME NEW s \in Seq(Records), NEW o \in Nat, NEW rec \in Records,
           SeqAt(s, 0), At(rec, o)
    PROVE  SeqAt(Replicated(s, o, rec), 0)
<1>1. ASSUME o = Len(s) PROVE SeqAt(Append(s, rec), 0)
  <2>1. /\ Len(Append(s, rec)) = Len(s) + 1
        /\ Append(s, rec)[Len(s) + 1] = rec
        /\ \A i \in 1 .. Len(s) : Append(s, rec)[i] = s[i]
        /\ Len(s) \in Nat
    OBVIOUS
  <2>2. SUFFICES ASSUME NEW i \in 1 .. Len(s) + 1
                 PROVE  At(Append(s, rec)[i], 0 + i - 1)
    BY <2>1 DEF SeqAt
  <2>3. CASE i \in 1 .. Len(s)
    BY <2>1, <2>3 DEF SeqAt
  <2>4. CASE i = Len(s) + 1
    <3>1. 0 + i - 1 = o
      BY <1>1, <2>1, <2>4
    <3> QED
      BY <2>1, <2>4, <3>1
  <2> QED
    BY <2>1, <2>3, <2>4
<1> QED
  BY <1>1 DEF Replicated

LEMMA HeadTailAt ==
    ASSUME NEW s \in Seq(Records), s # << >>, NEW o \in Nat, SeqAt(s, o)
    PROVE  At(Head(s), o) /\ SeqAt(Tail(s), o + 1)
<1>1. /\ Len(s) \in Nat \ {0}
      /\ Head(s) = s[1]
      /\ Len(Tail(s)) = Len(s) - 1
      /\ \A i \in 1 .. Len(Tail(s)) : Tail(s)[i] = s[i + 1]
  BY HeadTailProperties, EmptySeq
<1>2. At(s[1], o + 1 - 1) /\ o + 1 - 1 = o
  BY <1>1 DEF SeqAt
<1>3. ASSUME NEW i \in 1 .. Len(Tail(s)) PROVE At(Tail(s)[i], o + 1 + i - 1)
  <2>1. i + 1 \in 1 .. Len(s) /\ o + (i + 1) - 1 = o + 1 + i - 1
    BY <1>1, <1>3
  <2> QED
    BY <1>1, <1>3, <2>1 DEF SeqAt
<1> QED
  BY <1>1, <1>2, <1>3 DEF SeqAt

LEMMA ReturnedAt ==
    ASSUME NEW s \in Seq(Records), NEW hw, SeqAt(s, 0)
    PROVE  \A e \in Returned(s, 0, hw) : At(e.rec, e.off)
BY DEF Returned, SeqAt

LEMMA ElementAt ==
    ASSUME NEW s \in Seq(Records), NEW o \in Nat, o < Len(s), SeqAt(s, 0)
    PROVE  At(s[o + 1], o)
<1>1. o + 1 \in 1 .. Len(s) /\ 0 + (o + 1) - 1 = o
  OBVIOUS
<1> QED
  BY <1>1 DEF SeqAt

(* An offset that was given stays.                                         *)

LEMMA EndedFacts ==
    ASSUME NEW p, NEW answer
    PROVE  /\ Ended(p, answer).off = task[p].off
           /\ Ended(p, answer).pc = "end"
           /\ [Ended(p, "error") EXCEPT !.reply = "error"].off = task[p].off
           /\ [Ended(p, "error") EXCEPT !.reply = "error"].pc = "end"
BY DEF Ended, NewTask

LEMMA AcknowledgedFacts ==
    ASSUME NEW t \in Task, NEW dst, NEW next
    PROVE  /\ Acknowledged(t, dst, next).off = t.off
           /\ Acknowledged(t, dst, next).rec = t.rec
           /\ Acknowledged(t, dst, next).pc \in {"send", "catchup"}
BY DEF Acknowledged, Task

\* What a step may do to the handler of a request that has its offset.
Given ==
    \A p \in Records :
        task[p].pc \notin {"new", "append"} =>
            /\ task'[p].off = task[p].off
            /\ task'[p].pc \notin {"new", "append"}

LEMMA GivenProduce ==
    ASSUME TypeInv, NEW p \in Records, ProduceStep(p)
    PROVE  Given
<1>1. task \in [Records -> Task] /\ task[p] \in Task
  BY DEF TypeInv, TypeOK
<1>2. CASE ProduceAppend(p)
  BY <1>1, <1>2 DEF Given, ProduceAppend
<1>3. CASE ProduceReadBack(p)
  BY <1>1, <1>3 DEF Given, ProduceReadBack, Task
<1>4. CASE SendReplica(p) \/ CatchUp(p) \/ FollowerFails(p)
  BY <1>1, <1>4 DEF Given, SendReplica, CatchUp, FollowerFails, Task
<1>5. CASE CommitRead(p) \/ CommitApply(p)
  BY <1>1, <1>5 DEF Given, CommitRead, CommitApply, Task
<1>6. CASE ProduceVanished(p)
  BY <1>1, <1>6, EndedFacts DEF Given, ProduceVanished
<1>7. CASE \/ AlreadyCommitted(p) \/ CommitStale(p) \/ NotEnoughInSyncReplicas(p)
           \/ ProduceReply(p)
  <2>1. PICK a : task' = [task EXCEPT ![p] = Ended(p, a)]
    BY <1>7 DEF AlreadyCommitted, CommitStale, NotEnoughInSyncReplicas, ProduceReply
  <2> QED
    BY <1>1, <2>1, EndedFacts DEF Given
<1> QED
  BY <1>2, <1>3, <1>4, <1>5, <1>6, <1>7 DEF ProduceStep

LEMMA GivenStep == TypeInv /\ [Next]_vars => Given
<1> SUFFICES ASSUME TypeInv, [Next]_vars PROVE Given
  OBVIOUS
<1>1. task \in [Records -> Task]
  BY DEF TypeInv, TypeOK
<1>2. ASSUME UNCHANGED task PROVE Given
  BY <1>2 DEF Given
<1>3. ASSUME NEW p \in Records, NEW n \in Brokers, ProduceCheck(p, n) PROVE Given
  BY <1>1, <1>3 DEF Given, ProduceCheck
<1>4. ASSUME NEW m \in rpcs, ReplicaStep(m) PROVE Given
  <2>1. CASE ReplicaWrite(m)
    <3>1. \A x : /\ Acknowledged(task[m.task], m.dst, x).off = task[m.task].off
                 /\ Acknowledged(task[m.task], m.dst, x).pc \notin {"new", "append"}
      <4>1. task[m.task] \in Task
        BY DEF TypeInv, TypeOK, Rpc
      <4> QED
        BY <4>1, AcknowledgedFacts
    <3> QED
      BY <1>1, <2>1, <3>1 DEF Given, ReplicaWrite
  <2> QED
    BY <1>2, <1>4, <2>1
       DEF ReplicaStep, ReplicaReceive, ReplicaReject, ReplicaTruncate,
           ReplicaApply, ReplicaDiverged
<1>5. ASSUME NEW n \in Brokers, Crash(n) PROVE Given
  BY <1>5, EndedFacts DEF Given, Crash
<1>6. CASE \/ \E n \in Brokers, r \in Readers :
                 FetchStart(r, n) \/ GroupFetchStart(r, n)
           \/ \E c \in Casters : CastStep(c)
           \/ \E r \in Readers : ReaderStep(r)
           \/ Restarts
           \/ UNCHANGED vars
  BY <1>2, <1>6
     DEF FetchStart, GroupFetchStart, CastStep, CastSend, CastSkip, ApplyReceive,
         ApplyTruncate, ApplyInstall, ReaderStep, FetchRead, FetchReply,
         GroupFetchReply, Restarts, Restart, vars
<1>7. CASE \E n \in Recovering : WorkerStep(n)
  BY <1>2, <1>7
     DEF WorkerStep, SyncRead, SyncApply, SyncSkip, RecoverStart, RecoverFetch,
         FetchRead, RecoverReceive, RecoverWrite, RecoverFail
<1>8. CASE Promote
  BY <1>2, <1>8
     DEF Promote, PromoteStart, PromoteStep, PromoteVerify, PromoteRefuse,
         PromoteTruncate, PromoteApply, PromoteStale, PromoteReply, MonitorStep,
         ProbeAnswered, ProbeMissed, AutoSelect, AutoNone
<1> QED
  BY <1>3, <1>4, <1>5, <1>6, <1>7, <1>8, GivenProduce
     DEF Next, FailStop, Serve, Request, Crashes

\* The next state's records, requests and answers, by the offsets of this one.
OffsetNext ==
    /\ \A n \in Brokers : SeqAt(log'[n], 0)
    /\ \A p \in Records : task'[p].pc \in Sending => At(task'[p].rec, task'[p].off)
    /\ \A m \in rpcs' : At(m.rec, m.off)
    /\ \A f \in Fetchers :
          fetch'[f].pc \in {"filter", "write"} =>
              SeqAt(fetch'[f].recs, fetch'[f].off)
    /\ \A r \in Readers : fetch'[r].off = 0
    /\ \A e \in exposed' : At(e.rec, e.off)

LEMMA OffsetLift ==
    ASSUME TypeInv, TypeInv', Given, OffsetNext
    PROVE  OffsetInv'
<1>1. \A rec \in Records : \A o : At(rec, o) => At(rec, o)'
  BY DEF Given, At
<1>2. ASSUME NEW s \in Seq(Records), NEW o, SeqAt(s, o) PROVE SeqAt(s, o)'
  <2>1. \A i \in 1 .. Len(s) : s[i] \in Records
    OBVIOUS
  <2> QED
    BY <1>1, <1>2, <2>1 DEF SeqAt
<1>3. \A n \in Brokers : SeqAt(log[n], 0)'
  BY <1>2 DEF OffsetNext, TypeInv, TypeOK
<1>4. \A p \in Records : task'[p].pc \in Sending => At(task[p].rec, task[p].off)'
  BY <1>1 DEF OffsetNext, TypeInv, TypeOK, Task
<1>5. \A m \in rpcs' : At(m.rec, m.off)'
  BY <1>1 DEF OffsetNext, TypeInv, TypeOK, Rpc
<1>6. \A f \in Fetchers :
        fetch'[f].pc \in {"filter", "write"} => SeqAt(fetch[f].recs, fetch[f].off)'
  BY <1>2 DEF OffsetNext, TypeInv, TypeOK, Fetch
<1>7. \A e \in exposed' : At(e.rec, e.off)'
  BY <1>1 DEF OffsetNext, TypeInv, TypeOK
<1> QED
  BY <1>3, <1>4, <1>5, <1>6, <1>7 DEF OffsetInv, OffsetNext

(* Copies are made of what has its offset.                                 *)

LEMMA OffsetRequest ==
    ASSUME TypeInv, OffsetInv, Request
    PROVE  OffsetNext
<1>1. ASSUME NEW p \in Records, NEW n \in Brokers, ProduceCheck(p, n)
      PROVE  OffsetNext
  <2>1. \A r \in Records : task'[r].pc \in Sending => task'[r] = task[r]
    BY <1>1 DEF TypeInv, TypeOK, Task, ProduceCheck, Sending
  <2> QED
    BY <1>1, <2>1 DEF OffsetInv, OffsetNext, ProduceCheck
<1>2. ASSUME NEW r \in Readers, NEW n \in Brokers,
             FetchStart(r, n) \/ GroupFetchStart(r, n)
      PROVE  OffsetNext
  <2>1. fetch \in [Fetchers -> Fetch] /\ r \in Fetchers
    BY DEF TypeInv, TypeOK, Fetchers
  <2>2. /\ \A f \in Fetchers \ {r} : fetch'[f] = fetch[f]
        /\ fetch'[r].pc \notin {"filter", "write"}
        /\ fetch'[r].off = fetch[r].off
    <3>1. CASE FetchStart(r, n)
      BY <2>1, <3>1 DEF Fetch, FetchStart
    <3>2. CASE GroupFetchStart(r, n)
      BY <2>1, <3>2 DEF Fetch, GroupFetchStart
    <3> QED
      BY <1>2, <3>1, <3>2
  <2>3. Readers \subseteq Fetchers
    BY DEF Fetchers
  <2>4. UNCHANGED <<log, task, rpcs, exposed>>
    BY <1>2 DEF FetchStart, GroupFetchStart
  <2> QED
    BY <2>2, <2>3, <2>4 DEF OffsetInv, OffsetNext
<1> QED
  BY <1>1, <1>2 DEF Request

LEMMA OffsetProduce ==
    ASSUME TypeInv, OffsetInv, NEW p \in Records, ProduceStep(p), ~ProduceAppend(p)
    PROVE  OffsetNext
<1> DEFINE n == task[p].at
<1>1. /\ task \in [Records -> Task]
      /\ task[p] \in Task
      /\ log[n] \in Seq(Records)
      /\ SeqAt(log[n], 0)
      /\ task[p].off \in Nat
      /\ task[p].next \in Nat
  BY DEF TypeInv, TypeOK, Task, OffsetInv
<1>2. ASSUME UNCHANGED <<log, rpcs, fetch, exposed>>,
             \A r \in Records \ {p} : task'[r] = task[r],
             task'[p].pc \in Sending => At(task'[p].rec, task'[p].off)
      PROVE  OffsetNext
  BY <1>2 DEF OffsetInv, OffsetNext
<1>3. CASE ProduceReadBack(p)
  <2>1. At(log[n][task[p].off + 1], task[p].off)
    BY <1>1, <1>3, ElementAt DEF ProduceReadBack, NextOffset
  <2>2. /\ task'[p].rec = log[n][task[p].off + 1]
        /\ task'[p].off = task[p].off
        /\ \A r \in Records \ {p} : task'[r] = task[r]
    BY <1>1, <1>3 DEF ProduceReadBack, Task
  <2> QED
    BY <1>2, <1>3, <2>1, <2>2 DEF ProduceReadBack
<1>4. CASE FollowerFails(p)
  <2>1. /\ task'[p].rec = task[p].rec
        /\ task'[p].off = task[p].off
        /\ task[p].pc \in Sending
        /\ \A r \in Records \ {p} : task'[r] = task[r]
    BY <1>1, <1>4 DEF FollowerFails, Task, Sending
  <2> QED
    BY <1>2, <1>4, <2>1 DEF FollowerFails, OffsetInv
<1>5. CASE \/ ProduceVanished(p) \/ AlreadyCommitted(p) \/ CommitStale(p)
           \/ NotEnoughInSyncReplicas(p) \/ ProduceReply(p)
  <2>1. CASE ProduceVanished(p)
    BY <1>1, <1>2, <2>1, EndedFacts DEF ProduceVanished, Sending
  <2>2. ASSUME NEW a, task' = [task EXCEPT ![p] = Ended(p, a)],
               UNCHANGED <<log, rpcs, fetch, exposed>>
        PROVE  OffsetNext
    BY <1>1, <1>2, <2>2, EndedFacts DEF Sending
  <2> QED
    BY <1>5, <2>1, <2>2
       DEF AlreadyCommitted, CommitStale, NotEnoughInSyncReplicas, ProduceReply
<1>6. CASE CommitRead(p) \/ CommitApply(p)
  <2>1. /\ task'[p].pc \notin Sending
        /\ \A r \in Records \ {p} : task'[r] = task[r]
    BY <1>1, <1>6 DEF CommitRead, CommitApply, Task, Sending
  <2> QED
    BY <1>2, <1>6, <2>1 DEF CommitRead, CommitApply
<1>7. CASE SendReplica(p) \/ CatchUp(p)
  <2>1. /\ task'[p].rec = task[p].rec
        /\ task'[p].off = task[p].off
        /\ task[p].pc \in Sending
        /\ \A r \in Records \ {p} : task'[r] = task[r]
    BY <1>1, <1>7 DEF SendReplica, CatchUp, Task, Sending
  <2>2. At(task[p].rec, task[p].off)
    BY <2>1 DEF OffsetInv
  <2>3. \A m \in rpcs' : At(m.rec, m.off)
    <3>1. CASE SendReplica(p)
      BY <2>2, <3>1 DEF SendReplica, ReplicateRecord, OffsetInv
    <3>2. CASE CatchUp(p)
      <4>1. At(log[n][task[p].next + 1], task[p].next)
        BY <1>1, <3>2, ElementAt DEF CatchUp, NextOffset
      <4> QED
        BY <3>2, <4>1 DEF CatchUp, ReplicateRecord, OffsetInv
    <3> QED
      BY <1>7, <3>1, <3>2
  <2>4. UNCHANGED <<log, fetch, exposed>>
    BY <1>7 DEF SendReplica, CatchUp
  <2> QED
    BY <2>1, <2>2, <2>3, <2>4 DEF OffsetInv, OffsetNext
<1> QED
  BY <1>3, <1>4, <1>5, <1>6, <1>7 DEF ProduceStep

LEMMA OffsetReplica ==
    ASSUME TypeInv, OffsetInv, NEW m \in rpcs, ReplicaStep(m)
    PROVE  OffsetNext
<1>1. /\ m \in Rpc
      /\ m.dst \in Brokers
      /\ m.off \in Nat
      /\ m.rec \in Records
      /\ m.task \in Records
      /\ At(m.rec, m.off)
      /\ log \in [Brokers -> Seq(Records)]
      /\ SeqAt(log[m.dst], 0)
  BY DEF TypeInv, TypeOK, Rpc, OffsetInv
<1>2. \A st, hw : /\ [m EXCEPT !.st = st].rec = m.rec
                  /\ [m EXCEPT !.st = st].off = m.off
                  /\ [m EXCEPT !.st = st, !.hw = hw].rec = m.rec
                  /\ [m EXCEPT !.st = st, !.hw = hw].off = m.off
  BY <1>1 DEF Rpc
<1>3. ASSUME NEW r, r.rec = m.rec, r.off = m.off,
             rpcs' \subseteq rpcs \cup {r}
      PROVE  \A x \in rpcs' : At(x.rec, x.off)
  BY <1>1, <1>3 DEF OffsetInv
<1>4. CASE ReplicaReceive(m)
  <2>1. PICK st, hw : rpcs' = (rpcs \ {m}) \cup {[m EXCEPT !.st = st, !.hw = hw]}
    BY <1>4 DEF ReplicaReceive
  <2> DEFINE r == [m EXCEPT !.st = st, !.hw = hw]
  <2>2. r.rec = m.rec /\ r.off = m.off /\ rpcs' \subseteq rpcs \cup {r}
    BY <1>2, <2>1
  <2> HIDE DEF r
  <2>3. \A x \in rpcs' : At(x.rec, x.off)
    BY <1>3, <2>2
  <2> QED
    BY <1>4, <2>3 DEF ReplicaReceive, OffsetInv, OffsetNext
<1>5. CASE ReplicaReject(m) \/ ReplicaDiverged(m)
  BY <1>5 DEF ReplicaReject, ReplicaDiverged, OffsetInv, OffsetNext
<1>6. CASE ReplicaTruncate(m)
  <2>1. \A x \in rpcs' : At(x.rec, x.off)
    BY <1>2, <1>3, <1>6 DEF ReplicaTruncate, Moved
  <2>2. SeqAt(Truncated(log[m.dst], m.off), 0)
    BY <1>1, TruncatedAt
  <2>3. \A n \in Brokers : SeqAt(log'[n], 0)
    BY <1>1, <1>6, <2>2 DEF ReplicaTruncate, OffsetInv
  <2> QED
    BY <1>6, <2>1, <2>3 DEF ReplicaTruncate, OffsetInv, OffsetNext
<1>7. CASE ReplicaApply(m)
  <2>1. \A x \in rpcs' : At(x.rec, x.off)
    BY <1>2, <1>3, <1>7 DEF ReplicaApply, Moved
  <2> QED
    BY <1>7, <2>1 DEF ReplicaApply, OffsetInv, OffsetNext
<1>8. CASE ReplicaWrite(m)
  <2>1. SeqAt(Replicated(log[m.dst], m.off, m.rec), 0)
    BY <1>1, ReplicatedAt
  <2>2. log' = [log EXCEPT ![m.dst] = IF m.off > Len(log[m.dst]) THEN log[m.dst]
                                   ELSE Replicated(log[m.dst], m.off, m.rec)]
    BY <1>8 DEF ReplicaWrite
  <2>3. \A n \in Brokers : SeqAt(log'[n], 0)
    BY <1>1, <2>1, <2>2 DEF OffsetInv
  <2>4. PICK x : task' = IF Waiting(m.task, m.dst)
                         THEN [task EXCEPT ![m.task] = Acknowledged(@, m.dst, x)]
                         ELSE task
    BY <1>8 DEF ReplicaWrite
  <2>5. task \in [Records -> Task] /\ task[m.task] \in Task
    BY <1>1 DEF TypeInv, TypeOK
  <2>6. /\ Acknowledged(task[m.task], m.dst, x).off = task[m.task].off
        /\ Acknowledged(task[m.task], m.dst, x).rec = task[m.task].rec
    BY <2>5, AcknowledgedFacts
  <2>7. Waiting(m.task, m.dst) => task[m.task].pc \in Sending
    BY DEF Waiting, Sending
  <2>8. \A r \in Records : task'[r].pc \in Sending => At(task'[r].rec, task'[r].off)
    BY <1>1, <2>4, <2>5, <2>6, <2>7 DEF OffsetInv
  <2> QED
    BY <1>8, <2>3, <2>8 DEF ReplicaWrite, OffsetInv, OffsetNext
<1> QED
  BY <1>4, <1>5, <1>6, <1>7, <1>8 DEF ReplicaStep

\* When only logs change, by a truncation.
LEMMA OffsetTruncation ==
    ASSUME TypeInv, OffsetInv, NEW b, NEW o \in Nat,
           log' = [log EXCEPT ![b] = Truncated(@, o)],
           UNCHANGED <<task, rpcs, fetch, exposed>>
    PROVE  OffsetNext
<1>1. \A n \in Brokers : SeqAt(Truncated(log[n], o), 0)
  BY TruncatedAt DEF TypeInv, TypeOK, OffsetInv
<1>2. \A n \in Brokers : SeqAt(log'[n], 0)
  BY <1>1 DEF TypeInv, TypeOK, OffsetInv
<1> QED
  BY <1>2 DEF OffsetInv, OffsetNext

LEMMA OffsetCast ==
    ASSUME TypeInv, OffsetInv, NEW c \in Casters, CastStep(c)
    PROVE  OffsetNext
<1>1. CASE ApplyTruncate(c)
  <2>1. cast[c].lead.hw \in Nat
    BY DEF TypeInv, TypeOK, Cast, Leadership
  <2> QED
    BY <1>1, <2>1, OffsetTruncation DEF ApplyTruncate
<1>2. CASE CastSend(c) \/ CastSkip(c) \/ ApplyReceive(c) \/ ApplyInstall(c)
  BY <1>2 DEF CastSend, CastSkip, ApplyReceive, ApplyInstall, OffsetInv, OffsetNext
<1> QED
  BY <1>1, <1>2 DEF CastStep

LEMMA OffsetPromote ==
    ASSUME TypeInv, OffsetInv, Promote
    PROVE  OffsetNext
<1>1. ASSUME UNCHANGED <<log, task, rpcs, fetch, exposed>> PROVE OffsetNext
  BY <1>1 DEF OffsetInv, OffsetNext
<1>2. ASSUME NEW q \in Promoters, PromoteStep(q) PROVE OffsetNext
  <2>1. CASE PromoteTruncate(q)
    <3>1. promo[q].cur.hw \in Nat
      BY DEF TypeInv, TypeOK, PromoteCall, Leadership
    <3> QED
      BY <2>1, <3>1, OffsetTruncation DEF PromoteTruncate
  <2> QED
    BY <1>1, <1>2, <2>1
       DEF PromoteStep, PromoteVerify, PromoteRefuse, PromoteApply, PromoteStale,
           PromoteReply
<1>3. CASE MonitorStep \/ \E q \in Promotions, n \in Brokers : PromoteStart(q, n)
  BY <1>1, <1>3 DEF PromoteStart, MonitorStep, ProbeAnswered, ProbeMissed,
                    AutoSelect, AutoNone
<1> QED
  BY <1>2, <1>3 DEF Promote

\* When one fetch changes.
LEMMA OffsetFetch ==
    ASSUME TypeInv, OffsetInv, NEW f \in Fetchers, NEW v,
           fetch' = [fetch EXCEPT ![f] = v],
           v.pc \in {"filter", "write"} => SeqAt(v.recs, v.off),
           f \in Readers => v.off = 0,
           UNCHANGED <<task, rpcs>>,
           \A n \in Brokers : SeqAt(log'[n], 0),
           \A e \in exposed' : At(e.rec, e.off)
    PROVE  OffsetNext
BY DEF TypeInv, TypeOK, OffsetInv, OffsetNext, Fetchers

LEMMA OffsetIdle ==
    /\ IdleFetch.pc = "idle"
    /\ IdleFetch.off = 0
BY DEF IdleFetch

LEMMA OffsetFetchRead ==
    ASSUME TypeInv, OffsetInv, NEW f \in Fetchers, FetchRead(f)
    PROVE  OffsetNext
<1> DEFINE recs == SubSeq(log[fetch[f].at], fetch[f].off + 1,
                          Len(log[fetch[f].at]))
           v == [fetch[f] EXCEPT !.pc = "filter", !.recs = recs]
<1>1. /\ fetch[f] \in Fetch
      /\ fetch[f].off \in Nat
      /\ log[fetch[f].at] \in Seq(Records)
      /\ SeqAt(log[fetch[f].at], 0)
  BY DEF TypeInv, TypeOK, Fetch, OffsetInv
<1>2. SeqAt(recs, fetch[f].off)
  BY <1>1, SuffixAt
<1>3. fetch' = [fetch EXCEPT ![f] = v]
  BY DEF FetchRead, TypeInv, TypeOK
<1> HIDE DEF recs
<1>4. v.recs = recs /\ v.off = fetch[f].off
  BY <1>1 DEF Fetch
<1>5. /\ \A n \in Brokers : SeqAt(log'[n], 0)
      /\ \A e \in exposed' : At(e.rec, e.off)
      /\ f \in Readers => v.off = 0
      /\ UNCHANGED <<task, rpcs>>
  BY <1>4 DEF FetchRead, OffsetInv
<1> HIDE DEF v
<1> QED
  BY <1>2, <1>3, <1>4, <1>5, OffsetFetch

LEMMA OffsetReader ==
    ASSUME TypeInv, OffsetInv, NEW r \in Readers, ReaderStep(r)
    PROVE  OffsetNext
<1>1. /\ r \in Fetchers
      /\ fetch[r].recs \in Seq(Records)
      /\ fetch[r].off = 0
      /\ log[fetch[r].at] \in Seq(Records)
      /\ SeqAt(log[fetch[r].at], 0)
  BY DEF TypeInv, TypeOK, Fetch, Fetchers, OffsetInv
<1>2. CASE FetchRead(r)
  BY <1>1, <1>2, OffsetFetchRead
<1>3. CASE FetchReply(r)
  <2>1. SeqAt(fetch[r].recs, 0)
    BY <1>1, <1>3 DEF FetchReply, OffsetInv
  <2>2. \A e \in exposed' : At(e.rec, e.off)
    BY <1>1, <1>3, <2>1, ReturnedAt DEF FetchReply, OffsetInv
  <2>3. \A n \in Brokers : SeqAt(log'[n], 0)
    BY <1>3 DEF FetchReply, OffsetInv
  <2> QED
    BY <1>1, <1>3, <2>2, <2>3, OffsetFetch, OffsetIdle DEF FetchReply
<1>4. CASE GroupFetchReply(r)
  <2>1. \A e \in exposed' : At(e.rec, e.off)
    BY <1>1, <1>4, ReturnedAt DEF GroupFetchReply, OffsetInv
  <2>2. \A n \in Brokers : SeqAt(log'[n], 0)
    BY <1>4 DEF GroupFetchReply, OffsetInv
  <2> QED
    BY <1>1, <1>4, <2>1, <2>2, OffsetFetch, OffsetIdle DEF GroupFetchReply
<1> QED
  BY <1>2, <1>3, <1>4 DEF ReaderStep

LEMMA OffsetWorker ==
    ASSUME TypeInv, OffsetInv, NEW n \in Recovering, WorkerStep(n)
    PROVE  OffsetNext
<1> DEFINE f == fetch[n]
<1>1. /\ n \in Fetchers
      /\ n \in Brokers
      /\ n \notin Readers
      /\ f \in Fetch
      /\ f.off \in Nat
      /\ f.at \in Brokers
      /\ f.recs \in Seq(Records)
      /\ log[n] \in Seq(Records)
      /\ SeqAt(log[n], 0)
      /\ registry[f.at].hw \in Nat
  BY InstanceAssumption
     DEF TypeInv, TypeOK, Fetch, Fetchers, OffsetInv, Leadership
<1>2. ASSUME NEW v, fetch' = [fetch EXCEPT ![n] = v],
             v.pc \in {"filter", "write"} => SeqAt(v.recs, v.off),
             UNCHANGED <<log, task, rpcs, exposed>>
      PROVE  OffsetNext
  BY <1>1, <1>2, OffsetFetch DEF OffsetInv
<1>3. CASE SyncRead(n) \/ SyncApply(n) \/ SyncSkip(n) \/ RecoverFetch(n)
  <2>1. \A pc, at, lead :
          /\ [f EXCEPT !.pc = pc].pc = pc
          /\ [f EXCEPT !.pc = pc, !.at = at].pc = pc
          /\ [f EXCEPT !.pc = pc, !.lead = lead].pc = pc
    BY <1>1 DEF Fetch
  <2>2. \E pc \in {"sync", "scan", "read"} : \E at, lead :
          \/ fetch' = [fetch EXCEPT ![n] = [f EXCEPT !.pc = pc]]
          \/ fetch' = [fetch EXCEPT ![n] = [f EXCEPT !.pc = pc, !.at = at]]
          \/ fetch' = [fetch EXCEPT ![n] = [f EXCEPT !.pc = pc, !.lead = lead]]
    <3>0. n \in DOMAIN fetch
      BY <1>1 DEF TypeInv, TypeOK
    <3>1. CASE SyncRead(n)
      <4>1. fetch' = [fetch EXCEPT ![n] = [f EXCEPT !.pc = "sync",
                                                   !.lead = registry[Controller]]]
        BY <3>0, <3>1 DEF SyncRead
      <4> QED
        BY <4>1, Zenon
    <3>2. CASE SyncApply(n) \/ SyncSkip(n)
      <4>1. fetch' = [fetch EXCEPT ![n] = [f EXCEPT !.pc = "scan"]]
        BY <3>0, <3>2 DEF SyncApply, SyncSkip
      <4> QED
        BY <4>1, Zenon
    <3>3. CASE RecoverFetch(n)
      <4>1. fetch' = [fetch EXCEPT ![n] = [f EXCEPT !.pc = "read",
                                                   !.at = registry[Controller].leader]]
        BY <3>0, <3>3 DEF RecoverFetch
      <4> QED
        BY <4>1, Zenon
    <3> QED
      BY <1>3, <3>1, <3>2, <3>3
  <2>3. UNCHANGED <<log, task, rpcs, exposed>>
    BY <1>3 DEF SyncRead, SyncApply, SyncSkip, RecoverFetch
  <2> QED
    BY <1>2, <2>1, <2>2, <2>3
<1>4. CASE RecoverStart(n)
  <2>1. \A o, l : [IdleFetch EXCEPT !.pc = "route", !.off = o, !.lead = l].pc = "route"
    BY DEF IdleFetch
  <2> QED
    BY <1>2, <1>4, <2>1, OffsetIdle DEF RecoverStart
<1>5. CASE FetchRead(n)
  BY <1>1, <1>5, OffsetFetchRead
<1>6. CASE RecoverReceive(n)
  <2> DEFINE visible == registry[f.at].hw - f.off
             last == Min({visible, Len(f.recs)})
             kept == SubSeq(f.recs, 1, last)
  <2>1. visible \in Int /\ Len(f.recs) \in Nat
    BY <1>1
  <2>2. last \in Int /\ last <= Len(f.recs)
    <3> HIDE DEF visible
    <3> QED
      BY <2>1 DEF Min
  <2>3. SeqAt(f.recs, f.off)
    BY <1>1, <1>6 DEF RecoverReceive, OffsetInv
  <2>4. fetch' = [fetch EXCEPT ![n] = IF kept = << >> THEN IdleFetch
                                      ELSE [f EXCEPT !.pc = "write", !.recs = kept]]
    BY <1>6 DEF RecoverReceive
  <2> HIDE DEF last
  <2>5. SeqAt(kept, f.off)
    BY <1>1, <2>2, <2>3, PrefixAt
  <2> HIDE DEF kept
  <2>6. [f EXCEPT !.pc = "write", !.recs = kept].recs = kept
        /\ [f EXCEPT !.pc = "write", !.recs = kept].off = f.off
    BY <1>1 DEF Fetch
  <2>7. UNCHANGED <<log, task, rpcs, exposed>>
    BY <1>6 DEF RecoverReceive
  <2> QED
    BY <1>2, <2>4, <2>5, <2>6, <2>7, OffsetIdle
<1>7. CASE RecoverWrite(n)
  <2>1. f.recs # << >> /\ SeqAt(f.recs, f.off)
    BY <1>1, <1>7 DEF RecoverWrite, TypeInv, OffsetInv
  <2>2. At(Head(f.recs), f.off) /\ SeqAt(Tail(f.recs), f.off + 1)
    BY <1>1, <2>1, HeadTailAt
  <2>3. Head(f.recs) \in Records
    BY <1>1, <2>1, HeadTailProperties
  <2>4. SeqAt(Replicated(log[n], f.off, Head(f.recs)), 0)
    BY <1>1, <2>2, <2>3, ReplicatedAt
  <2>5. \A b \in Brokers : SeqAt(log'[b], 0)
    BY <1>1, <1>7, <2>4 DEF RecoverWrite, OffsetInv, TypeInv, TypeOK
  <2> DEFINE pc == IF Len(f.recs) = 1 THEN "route" ELSE "write"
             end == Len(Replicated(log[n], f.off, Head(f.recs)))
             off == IF Len(f.recs) = 1 THEN end ELSE f.off + 1
             rest == Tail(f.recs)
             v == [f EXCEPT !.recs = rest, !.pc = pc, !.off = off]
  <2>6. fetch' = [fetch EXCEPT ![n] = v]
    BY <1>1, <1>7 DEF RecoverWrite, TypeInv, TypeOK
  <2>7. pc = "write" => SeqAt(rest, off)
    BY <2>2
  <2>8. pc # "filter"
    OBVIOUS
  <2> HIDE DEF pc, off, rest
  <2>9. v.recs = rest /\ v.pc = pc /\ v.off = off
    BY <1>1 DEF Fetch
  <2>10. /\ UNCHANGED <<task, rpcs>>
         /\ \A e \in exposed' : At(e.rec, e.off)
    BY <1>7 DEF RecoverWrite, OffsetInv
  <2> HIDE DEF v
  <2> QED
    BY <1>1, <2>5, <2>6, <2>7, <2>8, <2>9, <2>10, OffsetFetch
<1>8. CASE RecoverFail(n)
  BY <1>2, <1>8, OffsetIdle DEF RecoverFail
<1> QED
  BY <1>3, <1>4, <1>5, <1>6, <1>7, <1>8 DEF WorkerStep

LEMMA OffsetCrash ==
    ASSUME TypeInv, OffsetInv, NEW n \in Brokers, Crash(n)
    PROVE  OffsetNext
<1>1. \A p \in Records : task'[p].pc \in Sending => task'[p] = task[p]
  BY EndedFacts DEF Crash, Sending
<1>2. \A f \in Fetchers : fetch'[f] \in {fetch[f], IdleFetch}
  BY DEF Crash
<1>3. Readers \subseteq Fetchers
  BY DEF Fetchers
<1> QED
  BY <1>1, <1>2, <1>3, OffsetIdle DEF OffsetInv, OffsetNext, Crash

\* The one action that gives an offset: the next one of the leader's log, to a
\* request that had none, so nothing is said of it before.
LEMMA OffsetAppend ==
    ASSUME TypeInv, TypeInv', OffsetInv, Given, NEW p \in Records, ProduceAppend(p)
    PROVE  OffsetInv'
<1> DEFINE n == task[p].at
<1>1. /\ task \in [Records -> Task]
      /\ task[p] \in Task
      /\ n \in Brokers
      /\ log \in [Brokers -> Seq(Records)]
      /\ log[n] \in Seq(Records)
      /\ Len(log[n]) \in Nat
  BY DEF TypeInv, TypeOK, Task
<1>2. /\ log' = [log EXCEPT ![n] = Append(log[n], p)]
      /\ task'[p].off = Len(log[n])
      /\ task'[p].pc = "readback"
      /\ \A r \in Records \ {p} : task'[r] = task[r]
      /\ UNCHANGED <<rpcs, fetch, exposed>>
  BY <1>1 DEF ProduceAppend, NextOffset, Task
<1>3. \A rec \in Records : \A o : At(rec, o) => At(rec, o)'
  BY DEF Given, At
<1>4. ASSUME NEW s \in Seq(Records), NEW o, SeqAt(s, o) PROVE SeqAt(s, o)'
  <2>1. \A i \in 1 .. Len(s) : s[i] \in Records
    OBVIOUS
  <2> QED
    BY <1>3, <1>4, <2>1 DEF SeqAt
<1>5. PICK s \in Seq(Records) : s = log[n]
  BY <1>1
<1>6. SeqAt(s, 0) /\ SeqAt(s, 0)'
  BY <1>1, <1>4, <1>5 DEF OffsetInv
<1>7. \A k : k = Len(s) => At(p, k)'
  BY <1>2, <1>5 DEF At
<1>8. ASSUME NEW t, t = Append(s, p) PROVE SeqAt(t, 0)'
  <2>1. /\ Len(t) = Len(s) + 1
        /\ t[Len(s) + 1] = p
        /\ \A i \in 1 .. Len(s) : t[i] = s[i]
        /\ Len(s) \in Nat
    BY <1>8
  <2>2. SUFFICES ASSUME NEW i \in 1 .. Len(s) + 1
                 PROVE  At(t[i], 0 + i - 1)'
    BY <2>1 DEF SeqAt
  <2>3. CASE i \in 1 .. Len(s)
    BY <1>6, <2>1, <2>3 DEF SeqAt
  <2>4. CASE i = Len(s) + 1
    <3>1. 0 + i - 1 = Len(s) /\ t[i] = p
      BY <2>1, <2>4
    <3> QED
      BY <1>7, <3>1 DEF At
  <2> QED
    BY <2>1, <2>3, <2>4
<1>9. \A b \in Brokers : \A t : t = log'[b] => SeqAt(t, 0)'
  BY <1>1, <1>2, <1>4, <1>5, <1>8 DEF OffsetInv
<1>10. \A r \in Records : task'[r].pc \in Sending => At(task[r].rec, task[r].off)'
  <2>1. \A r \in Records : task'[r].pc \in Sending =>
          task'[r] = task[r] /\ At(task[r].rec, task[r].off)
    BY <1>2 DEF OffsetInv, Sending
  <2>2. \A r \in Records : task[r].rec \in Records
    BY <1>1 DEF Task
  <2> QED
    BY <1>3, <2>1, <2>2 DEF At
<1>11. \A m \in rpcs' : At(m.rec, m.off)'
  BY <1>2, <1>3 DEF OffsetInv, TypeInv, TypeOK, Rpc
<1>12. \A e \in exposed' : At(e.rec, e.off)'
  BY <1>2, <1>3 DEF OffsetInv, TypeInv, TypeOK
<1>13. \A f \in Fetchers :
         fetch'[f].pc \in {"filter", "write"} => SeqAt(fetch[f].recs, fetch[f].off)'
  BY <1>2, <1>4 DEF OffsetInv, TypeInv, TypeOK, Fetch
<1>14. \A b \in Brokers : SeqAt(log[b], 0)'
  BY <1>9 DEF SeqAt
<1> QED
  BY <1>2, <1>10, <1>11, <1>12, <1>13, <1>14 DEF OffsetInv

LEMMA OffsetInit == Init => OffsetInv
<1> SUFFICES ASSUME Init PROVE OffsetInv
  OBVIOUS
<1>1. \A o : SeqAt(<< >>, o)
  BY EmptySeq DEF SeqAt
<1>2. \A p \in Records : task[p].pc \notin Sending
  BY DEF Init, NewTask, Sending
<1> QED
  BY <1>1, <1>2, OffsetIdle DEF Init, OffsetInv, Fetchers

LEMMA OffsetStep == TypeInv /\ OffsetInv /\ [Next]_vars => OffsetInv'
<1> SUFFICES ASSUME TypeInv, OffsetInv, [Next]_vars PROVE OffsetInv'
  OBVIOUS
<1>1. TypeInv' /\ Given
  BY TypeStep, GivenStep
<1>2. ASSUME OffsetNext PROVE OffsetInv'
  BY <1>1, <1>2, OffsetLift
<1>3. ASSUME NEW p \in Records, ProduceStep(p) PROVE OffsetInv'
  BY <1>1, <1>2, <1>3, OffsetAppend, OffsetProduce
<1>4. CASE Serve
  BY <1>2, <1>3, <1>4, OffsetRequest, OffsetReplica, OffsetCast, OffsetReader,
     OffsetWorker DEF Serve
<1>5. CASE Promote
  BY <1>2, <1>5, OffsetPromote
<1>6. CASE Crashes
  BY <1>2, <1>6, OffsetCrash DEF Crashes
<1>7. CASE Restarts \/ UNCHANGED vars
  BY <1>2, <1>7 DEF Restarts, Restart, vars, OffsetInv, OffsetNext
<1> QED
  BY <1>4, <1>5, <1>6, <1>7 DEF Next, FailStop

\* However often a record is pushed, caught up, recovered, truncated and read,
\* it is stored and delivered at the one offset its append was given: pushing a
\* record again never stores it twice, and no consumer meets it elsewhere.
THEOREM RecordsKeepTheirOffset == Spec => []OffsetKept
<1>1. TypeInv /\ OffsetInv => OffsetKept
  <2> SUFFICES ASSUME TypeInv, OffsetInv PROVE OffsetKept
    OBVIOUS
  <2>1. ASSUME NEW n \in Brokers, NEW o \in 0 .. NextOffset(n) - 1
        PROVE  task[log[n][o + 1]].off = o
    <3>1. /\ log[n] \in Seq(Records)
          /\ Len(log[n]) \in Nat
          /\ SeqAt(log[n], 0)
      BY DEF TypeInv, TypeOK, OffsetInv
    <3>2. o \in Nat /\ o < Len(log[n])
      BY <3>1, <2>1 DEF NextOffset
    <3> QED
      BY <3>1, <3>2, ElementAt DEF At
  <2>2. \A e \in exposed : task[e.rec].off = e.off
    BY DEF OffsetInv, At
  <2> QED
    BY <2>1, <2>2 DEF OffsetKept
<1> QED
  BY <1>1, TypeInit, TypeStep, OffsetInit, OffsetStep, PTL DEF Spec

=============================================================================
