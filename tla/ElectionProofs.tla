---------------------------- MODULE ElectionProofs ----------------------------
(***************************************************************************)
(* Leaderships: they move forward on every broker, every epoch has one     *)
(* leader, and no broker is ahead of the controller.                       *)
(*                                                                         *)
(* The invariant about registries alone is not inductive: a leadership is  *)
(* copied into a handler, a request, a broadcast, a promotion or a sync    *)
(* and installed on a broker many steps later.  The inductive one is about *)
(* every leadership that is held anywhere.  Only PromoteApply makes one    *)
(* whose epoch and leader were not held before, and then of a new epoch.   *)
(***************************************************************************)
EXTENDS ReplicationProofs

-----------------------------------------------------------------------------
(* Registries move forward.                                                *)

LEMMA AcceptsInstalled ==
    \A cur, new \in Leadership : /\ Accepts(cur, cur)
                                 /\ Accepts(cur, Install(cur, new))
                                 /\ Accepts(cur, Synced(cur, new))
BY DEF Accepts, Install, Synced, Leadership

Forward == \A n \in Brokers : Accepts(registry[n], registry'[n])

LEMMA ForwardStep == TypeInv /\ [Next]_vars => Forward
<1> SUFFICES ASSUME TypeInv, [Next]_vars PROVE Forward
  OBVIOUS
<1>1. registry \in [Brokers -> Leadership] /\ Controller \in Brokers
  BY ConstantTypes DEF TypeInv, TypeOK
<1>2. ASSUME UNCHANGED registry PROVE Forward
  BY <1>1, <1>2, AcceptsInstalled DEF Forward
<1>3. ASSUME NEW n \in Brokers, NEW new \in Leadership,
             \/ registry' = [registry EXCEPT ![n] = Install(@, new)]
             \/ registry' = [registry EXCEPT ![n] = Synced(@, new)]
      PROVE  Forward
  BY <1>1, <1>3, AcceptsInstalled DEF Forward
<1>4. ASSUME NEW n \in Brokers, NEW new \in Leadership,
             registry' = [registry EXCEPT ![n] = new],
             Accepts(registry[n], new)
      PROVE  Forward
  BY <1>1, <1>4, AcceptsInstalled DEF Forward
<1>5. ASSUME NEW p \in Records, ProduceStep(p) PROVE Forward
  <2>1. task[p].at \in Brokers /\ task[p].lead \in Leadership
    BY DEF TypeInv, TypeOK, Task
  <2>2. CASE CommitApply(p)
    BY <1>4, <2>1, <2>2 DEF CommitApply
  <2> QED
    BY <1>2, <1>5, <2>2
       DEF ProduceStep, ProduceAppend, ProduceReadBack, ProduceVanished,
           SendReplica, CatchUp, FollowerFails, AlreadyCommitted, CommitRead,
           CommitStale, NotEnoughInSyncReplicas, ProduceReply
<1>6. ASSUME NEW m \in rpcs, ReplicaStep(m) PROVE Forward
  <2>1. m.dst \in Brokers /\ [m.lead EXCEPT !.hw = m.hw] \in Leadership
    BY DEF TypeInv, TypeOK, Rpc, Leadership
  <2>2. CASE ReplicaApply(m)
    BY <1>3, <2>1, <2>2 DEF ReplicaApply
  <2> QED
    BY <1>2, <1>6, <2>2
       DEF ReplicaStep, ReplicaReceive, ReplicaReject, ReplicaTruncate,
           ReplicaWrite, ReplicaDiverged
<1>7. ASSUME NEW c \in Casters, CastStep(c) PROVE Forward
  <2>1. cast[c].lead \in Leadership
    BY DEF TypeInv, TypeOK, Cast
  <2>2. CASE ApplyInstall(c)
    <3>1. registry' = [registry EXCEPT ![cast[c].k] = Install(@, cast[c].lead)]
      BY <2>2 DEF ApplyInstall
    <3>2. CASE cast[c].k \in Brokers
      BY <1>3, <2>1, <3>1, <3>2
    <3>3. CASE cast[c].k \notin Brokers
      BY <1>1, <1>2, <3>1, <3>3
    <3> QED
      BY <3>2, <3>3
  <2> QED
    BY <1>2, <1>7, <2>2
       DEF CastStep, CastSend, CastSkip, ApplyReceive, ApplyTruncate
<1>8. ASSUME NEW n \in Recovering, WorkerStep(n) PROVE Forward
  <2>1. n \in Brokers /\ fetch[n].lead \in Leadership
    BY InstanceAssumption DEF TypeInv, TypeOK, Fetch, Fetchers
  <2>2. CASE SyncApply(n)
    BY <1>3, <2>1, <2>2 DEF SyncApply
  <2> QED
    BY <1>2, <1>8, <2>2
       DEF WorkerStep, SyncRead, SyncSkip, RecoverStart, RecoverFetch,
           FetchRead, RecoverReceive, RecoverWrite, RecoverFail
<1>9. ASSUME NEW q \in Promoters, PromoteStep(q) PROVE Forward
  <2>1. CASE PromoteApply(q)
    BY <1>1, <1>4, <2>1, PromotedType DEF PromoteApply
  <2> QED
    BY <1>2, <1>9, <2>1
       DEF PromoteStep, PromoteVerify, PromoteRefuse, PromoteTruncate,
           PromoteStale, PromoteReply
<1>10. ASSUME NEW n \in Brokers, Restart(n) PROVE Forward
  BY <1>1, <1>3, <1>10 DEF Restart
<1>11. CASE \/ Request
            \/ \E r \in Readers : ReaderStep(r)
            \/ \E q \in Promotions, n \in Brokers : PromoteStart(q, n)
            \/ MonitorStep
            \/ Crashes
            \/ UNCHANGED vars
  BY <1>2, <1>11
     DEF Request, ProduceCheck, FetchStart, GroupFetchStart, ReaderStep,
         FetchRead, FetchReply, GroupFetchReply, PromoteStart, MonitorStep,
         ProbeAnswered, ProbeMissed, AutoSelect, AutoNone, Crashes, Crash, vars
<1> QED
  BY <1>5, <1>6, <1>7, <1>8, <1>9, <1>10, <1>11
     DEF Next, FailStop, Serve, Promote, Restarts

-----------------------------------------------------------------------------
(* One leader for each epoch.                                              *)

\* Every leadership in the system.
Held ==
    {InitialLeadership}
        \cup {registry[n] : n \in Brokers}
        \cup {task[p].lead : p \in Records}
        \cup {m.lead : m \in rpcs}
        \cup {cast[c].lead : c \in Casters}
        \cup {promo[q].cur : q \in Promoters}
        \cup {fetch[f].lead : f \in Fetchers}

EpochInv ==
    /\ \A k, l \in Held : k.epoch = l.epoch => k.leader = l.leader
    /\ \A l \in Held : l.epoch <= registry[Controller].epoch

\* The watermarks a commit may set and a replicate request keeps.
Gained ==
    {task[p].off + 1 : p \in {r \in Records : task[r].pc = "send" /\ InSync(r)}}
        \cup {m.hw : m \in {x \in rpcs : x.st = "apply"}}

\* A leadership whose epoch and leader are held already, and whose watermark is
\* held too, or gained.
Known(l) ==
    \E k \in Held :
        k.epoch = l.epoch /\ k.leader = l.leader /\ (k.hw = l.hw \/ l.hw \in Gained)

\* A step that installs and copies known leaderships only.
KnownNext ==
    /\ \A n \in Brokers : Known(registry'[n])
    /\ \A p \in Records : Known(task'[p].lead)
    /\ \A m \in rpcs' : Known(m.lead)
    /\ \A c \in Casters : Known(cast'[c].lead)
    /\ \A q \in Promoters : Known(promo'[q].cur)
    /\ \A f \in Fetchers : Known(fetch'[f].lead)

LEMMA KnownNow ==
    /\ Known(InitialLeadership)
    /\ \A n \in Brokers : Known(registry[n])
    /\ \A p \in Records : Known(task[p].lead)
    /\ \A m \in rpcs : Known(m.lead)
    /\ \A c \in Casters : Known(cast[c].lead)
    /\ \A q \in Promoters : Known(promo[q].cur)
    /\ \A f \in Fetchers : Known(fetch[f].lead)
BY DEF Known, Held

LEMMA KnownInstalled ==
    ASSUME NEW cur \in Leadership, NEW new \in Leadership, Known(cur), Known(new)
    PROVE  Known(Install(cur, new)) /\ Known(Synced(cur, new))
BY DEF Install, Synced

LEMMA KnownAdvanced ==
    ASSUME NEW l \in Leadership, NEW hw \in Gained, Known(l)
    PROVE  Known([l EXCEPT !.hw = hw])
BY DEF Known, Leadership

\* Handlers at rest hold the initial leadership.
LEMMA KnownIdle ==
    /\ IdleCast.lead = InitialLeadership
    /\ IdleFetch.lead = InitialLeadership
    /\ \A q : Resting(q).cur = InitialLeadership
    /\ \A p, a : Ended(p, a).lead = InitialLeadership
    /\ \A p : [Ended(p, "error") EXCEPT !.reply = "error"].lead = InitialLeadership
BY DEF IdleCast, IdleFetch, Resting, Promotion, Ended, NewTask

LEMMA KnownRequest == TypeInv /\ Request => KnownNext
<1> SUFFICES ASSUME TypeInv, Request PROVE KnownNext
  OBVIOUS
<1>1. /\ \A p \in Records : task'[p].lead = task[p].lead
      /\ \A f \in Fetchers : fetch'[f].lead = fetch[f].lead
  <2>1. ASSUME NEW r \in Records, NEW n \in Brokers, ProduceCheck(r, n)
        PROVE  \A p \in Records : task'[p].lead = task[p].lead
    BY <2>1 DEF TypeInv, TypeOK, Task, ProduceCheck
  <2>2. ASSUME NEW r \in Readers, NEW n \in Brokers,
               FetchStart(r, n) \/ GroupFetchStart(r, n)
        PROVE  \A f \in Fetchers : fetch'[f].lead = fetch[f].lead
    <3>1. fetch \in [Fetchers -> Fetch]
      BY DEF TypeInv, TypeOK
    <3>2. CASE FetchStart(r, n)
      BY <3>1, <3>2 DEF Fetch, FetchStart
    <3>3. CASE GroupFetchStart(r, n)
      BY <3>1, <3>3 DEF Fetch, GroupFetchStart
    <3> QED
      BY <2>2, <3>2, <3>3
  <2>3. \/ UNCHANGED fetch /\ \E r \in Records, n \in Brokers : ProduceCheck(r, n)
        \/ UNCHANGED task /\ \E r \in Readers, n \in Brokers :
                               FetchStart(r, n) \/ GroupFetchStart(r, n)
    BY DEF Request, ProduceCheck, FetchStart, GroupFetchStart
  <2> QED
    BY <2>1, <2>2, <2>3
<1>2. UNCHANGED <<registry, rpcs, cast, promo>>
  BY DEF Request, ProduceCheck, FetchStart, GroupFetchStart
<1> QED
  BY <1>1, <1>2, KnownNow DEF KnownNext

LEMMA KnownProduce ==
    ASSUME TypeInv, NEW p \in Records, ProduceStep(p)
    PROVE  KnownNext
<1> DEFINE n == task[p].at
<1>1. /\ task \in [Records -> Task]
      /\ cast \in [Casters -> Cast]
      /\ task[p] \in Task
      /\ n \in Brokers
      /\ registry[n] \in Leadership
      /\ task[p].off + 1 \in Nat
      /\ p \in Casters
  BY DEF TypeInv, TypeOK, Task, Casters
<1>2. CASE \/ ProduceAppend(p) \/ ProduceReadBack(p) \/ FollowerFails(p)
  <2>1. \A r \in Records : task'[r].lead = task[r].lead
    BY <1>1, <1>2 DEF Task, ProduceAppend, ProduceReadBack, FollowerFails
  <2> QED
    BY <1>2, <2>1, KnownNow
       DEF KnownNext, ProduceAppend, ProduceReadBack, FollowerFails
<1>3. CASE \/ ProduceVanished(p) \/ AlreadyCommitted(p) \/ CommitStale(p)
           \/ NotEnoughInSyncReplicas(p)
  <2>1. \A r \in Records : task'[r].lead \in {task[r].lead, InitialLeadership}
    <3>1. CASE ProduceVanished(p)
      BY <1>1, <3>1, KnownIdle DEF ProduceVanished
    <3>2. ASSUME NEW a, task' = [task EXCEPT ![p] = Ended(p, a)]
          PROVE  \A r \in Records :
                    task'[r].lead \in {task[r].lead, InitialLeadership}
      BY <1>1, <3>2, KnownIdle
    <3> QED
      BY <1>3, <3>1, <3>2
         DEF AlreadyCommitted, CommitStale, NotEnoughInSyncReplicas
  <2> QED
    BY <1>3, <2>1, KnownNow
       DEF KnownNext, ProduceVanished, AlreadyCommitted, CommitStale,
           NotEnoughInSyncReplicas
<1>4. CASE SendReplica(p)
  <2>1. \A r \in Records : task'[r].lead \in {task[r].lead, registry[n]}
    BY <1>1, <1>4 DEF Task, SendReplica
  <2>2. \A m \in rpcs' : m \in rpcs \/ m.lead = registry[n]
    BY <1>4 DEF SendReplica, ReplicateRecord
  <2> QED
    BY <1>1, <1>4, <2>1, <2>2, KnownNow DEF KnownNext, SendReplica
<1>5. CASE CatchUp(p)
  <2>1. \A r \in Records : task'[r].lead = task[r].lead
    BY <1>1, <1>5 DEF Task, CatchUp
  <2>2. \A m \in rpcs' : m \in rpcs \/ m.lead = task[p].lead
    BY <1>5 DEF CatchUp, ReplicateRecord
  <2> QED
    BY <1>5, <2>1, <2>2, KnownNow DEF KnownNext, CatchUp
<1>6. CASE CommitRead(p)
  <2> DEFINE new == [registry[n] EXCEPT !.hw = task[p].off + 1]
  <2>1. Known(new)
    <3>1. task[p].off + 1 \in Gained
      BY <1>6 DEF CommitRead, Gained
    <3> QED
      BY <1>1, <3>1, KnownNow, KnownAdvanced
  <2>2. \A r \in Records : task'[r].lead \in {task[r].lead, new}
    BY <1>1, <1>6 DEF Task, CommitRead
  <2> HIDE DEF new
  <2> QED
    BY <1>6, <2>1, <2>2, KnownNow DEF KnownNext, CommitRead
<1>7. CASE CommitApply(p)
  <2>1. \A r \in Records : task'[r].lead = task[r].lead
    BY <1>1, <1>7 DEF Task, CommitApply
  <2>2. \A c \in Casters : cast'[c].lead \in {cast[c].lead, task[p].lead}
    BY <1>1, <1>7 DEF CommitApply, StartCast
  <2>3. \A b \in Brokers : registry'[b] \in {registry[b], task[p].lead}
    BY <1>1, <1>7 DEF TypeInv, TypeOK, CommitApply
  <2> QED
    BY <1>7, <2>1, <2>2, <2>3, KnownNow DEF KnownNext, CommitApply
<1>8. CASE ProduceReply(p)
  <2>1. \A r \in Records : task'[r].lead \in {task[r].lead, InitialLeadership}
    BY <1>1, <1>8, KnownIdle DEF ProduceReply
  <2>2. \A c \in Casters : cast'[c].lead \in {cast[c].lead, InitialLeadership}
    BY <1>1, <1>8, KnownIdle DEF ProduceReply
  <2> QED
    BY <1>8, <2>1, <2>2, KnownNow DEF KnownNext, ProduceReply
<1> QED
  BY <1>2, <1>3, <1>4, <1>5, <1>6, <1>7, <1>8 DEF ProduceStep

LEMMA KnownReplica ==
    ASSUME TypeInv, NEW m \in rpcs, ReplicaStep(m)
    PROVE  KnownNext
<1>1. /\ m \in Rpc
      /\ m.lead \in Leadership
      /\ m.hw \in Nat
      /\ m.dst \in Brokers
      /\ m.task \in Records
      /\ registry[m.dst] \in Leadership
  BY DEF TypeInv, TypeOK, Rpc
<1>2. \A st, hw : /\ [m EXCEPT !.st = st].lead = m.lead
                  /\ [m EXCEPT !.st = st, !.hw = hw].lead = m.lead
  BY <1>1 DEF Rpc
<1>3. CASE \/ ReplicaReceive(m) \/ ReplicaReject(m) \/ ReplicaTruncate(m)
           \/ ReplicaDiverged(m)
  <2>1. \A r \in rpcs' : r \in rpcs \/ r.lead = m.lead
    <3>1. CASE ReplicaReceive(m)
      <4>1. PICK st, hw : rpcs' = (rpcs \ {m})
                                    \cup {[m EXCEPT !.st = st, !.hw = hw]}
        BY <3>1 DEF ReplicaReceive
      <4> QED
        BY <1>2, <4>1
    <3>2. CASE ReplicaReject(m)
      BY <1>2, <3>2 DEF ReplicaReject, Moved
    <3>3. CASE ReplicaTruncate(m)
      BY <1>2, <3>3 DEF ReplicaTruncate, Moved
    <3>4. CASE ReplicaDiverged(m)
      BY <1>2, <3>4 DEF ReplicaDiverged, Moved
    <3> QED
      BY <1>3, <3>1, <3>2, <3>3, <3>4
  <2> QED
    BY <1>3, <2>1, KnownNow
       DEF KnownNext, ReplicaReceive, ReplicaReject, ReplicaTruncate,
           ReplicaDiverged
<1>4. CASE ReplicaApply(m)
  <2> DEFINE new == [m.lead EXCEPT !.hw = m.hw]
  <2>1. Known(new) /\ new \in Leadership
    <3>1. m.hw \in Gained
      BY <1>4 DEF ReplicaApply, Gained
    <3>2. new \in Leadership
      BY <1>1 DEF Leadership
    <3> QED
      BY <1>1, <3>1, <3>2, KnownNow, KnownAdvanced
  <2>2. Known(Install(registry[m.dst], new))
    BY <1>1, <2>1, KnownNow, KnownInstalled
  <2>3. \A r \in rpcs' : r \in rpcs \/ r.lead = m.lead
    BY <1>2, <1>4 DEF ReplicaApply, Moved
  <2>4. registry' = [registry EXCEPT ![m.dst] = Install(registry[m.dst], new)]
    BY <1>4 DEF ReplicaApply
  <2> HIDE DEF new
  <2>5. \A n \in Brokers : Known(registry'[n])
    BY <2>2, <2>4, KnownNow DEF TypeInv, TypeOK
  <2> QED
    BY <1>4, <2>3, <2>5, KnownNow DEF KnownNext, ReplicaApply
<1>5. CASE ReplicaWrite(m)
  <2>1. \A t \in Task : \A d, x : Acknowledged(t, d, x).lead = t.lead
    BY DEF Acknowledged, Task
  <2>2. \A p \in Records : task'[p].lead = task[p].lead
    BY <1>1, <1>5, <2>1 DEF TypeInv, TypeOK, ReplicaWrite
  <2> QED
    BY <1>5, <2>2, KnownNow DEF KnownNext, ReplicaWrite
<1> QED
  BY <1>3, <1>4, <1>5 DEF ReplicaStep

LEMMA KnownCast ==
    ASSUME TypeInv, NEW c \in Casters, CastStep(c)
    PROVE  KnownNext
<1>1. /\ cast \in [Casters -> Cast]
      /\ registry \in [Brokers -> Leadership]
      /\ cast[c] \in Cast
      /\ cast[c].lead \in Leadership
  BY DEF TypeInv, TypeOK, Cast
<1>2. CASE CastSend(c) \/ CastSkip(c) \/ ApplyReceive(c) \/ ApplyTruncate(c)
  <2>1. \A d \in Casters : cast'[d].lead = cast[d].lead
    BY <1>1, <1>2 DEF Cast, CastSend, CastSkip, ApplyReceive, ApplyTruncate
  <2> QED
    BY <1>2, <2>1, KnownNow
       DEF KnownNext, CastSend, CastSkip, ApplyReceive, ApplyTruncate
<1>3. CASE ApplyInstall(c)
  <2>1. \A b \in Cast : Answered(b).lead \in {b.lead, InitialLeadership}
    BY KnownIdle DEF Answered, Cast
  <2>2. \A d \in Casters : cast'[d].lead \in {cast[d].lead, InitialLeadership}
    BY <1>1, <1>3, <2>1 DEF ApplyInstall
  <2>3. \A n \in Brokers : Known(Install(registry[n], cast[c].lead))
    BY <1>1, KnownNow, KnownInstalled
  <2>4. \A n \in Brokers : Known(registry'[n])
    BY <1>1, <1>3, <2>3, KnownNow DEF ApplyInstall
  <2> QED
    BY <1>3, <2>2, <2>4, KnownNow DEF KnownNext, ApplyInstall
<1> QED
  BY <1>2, <1>3 DEF CastStep

LEMMA KnownReader ==
    ASSUME TypeInv, NEW r \in Readers, ReaderStep(r)
    PROVE  KnownNext
<1>1. fetch \in [Fetchers -> Fetch]
  BY DEF TypeInv, TypeOK
<1>2. CASE FetchRead(r)
  <2>1. \A f \in Fetchers : fetch'[f].lead = fetch[f].lead
    BY <1>1, <1>2 DEF Fetch, FetchRead
  <2> QED
    BY <1>2, <2>1, KnownNow DEF KnownNext, FetchRead
<1>3. CASE FetchReply(r) \/ GroupFetchReply(r)
  <2>1. \A f \in Fetchers : fetch'[f].lead \in {fetch[f].lead, InitialLeadership}
    BY <1>1, <1>3, KnownIdle DEF FetchReply, GroupFetchReply
  <2> QED
    BY <1>3, <2>1, KnownNow DEF KnownNext, FetchReply, GroupFetchReply
<1> QED
  BY <1>2, <1>3 DEF ReaderStep

LEMMA KnownWorker ==
    ASSUME TypeInv, NEW n \in Recovering, WorkerStep(n)
    PROVE  KnownNext
<1>1. /\ fetch \in [Fetchers -> Fetch]
      /\ fetch[n].lead \in Leadership
      /\ registry \in [Brokers -> Leadership]
      /\ n \in Brokers
      /\ n \in Fetchers
      /\ Controller \in Brokers
  BY InstanceAssumption, ConstantTypes DEF TypeInv, TypeOK, Fetch, Fetchers
<1> DEFINE Leads == {fetch[f].lead : f \in Fetchers}
                      \cup {registry[b] : b \in Brokers} \cup {InitialLeadership}
<1>2. \A l \in Leads : Known(l)
  BY KnownNow
<1>3. ASSUME UNCHANGED <<registry, task, rpcs, cast, promo>>,
             \A f \in Fetchers : fetch'[f].lead \in Leads
      PROVE  KnownNext
  BY <1>2, <1>3, KnownNow DEF KnownNext
<1>4. CASE SyncRead(n)
  <2>1. \A f \in Fetchers : fetch'[f].lead \in {fetch[f].lead, registry[Controller]}
    BY <1>1, <1>4 DEF Fetch, SyncRead
  <2> QED
    BY <1>1, <1>3, <1>4, <2>1 DEF SyncRead
<1>5. CASE SyncApply(n)
  <2>1. \A f \in Fetchers : fetch'[f].lead = fetch[f].lead
    BY <1>1, <1>5 DEF Fetch, SyncApply
  <2>2. Known(Synced(registry[n], fetch[n].lead))
    BY <1>1, KnownNow, KnownInstalled
  <2>3. \A b \in Brokers : Known(registry'[b])
    BY <1>1, <1>5, <2>2, KnownNow DEF SyncApply
  <2> QED
    BY <1>5, <2>1, <2>3, KnownNow DEF KnownNext, SyncApply
<1>6. CASE SyncSkip(n)
  <2>1. \A f \in Fetchers : fetch'[f].lead = fetch[f].lead
    BY <1>1, <1>6 DEF Fetch, SyncSkip
  <2> QED
    BY <1>3, <1>6, <2>1 DEF SyncSkip
<1>7. CASE RecoverStart(n)
  <2>1. \A o : [IdleFetch EXCEPT !.pc = "route", !.off = o,
                                 !.lead = registry[n]].lead = registry[n]
    BY DEF IdleFetch
  <2>2. \A f \in Fetchers :
          fetch'[f].lead \in {fetch[f].lead, registry[n], InitialLeadership}
    BY <1>1, <1>7, <2>1, KnownIdle DEF RecoverStart
  <2> QED
    BY <1>1, <1>3, <1>7, <2>2 DEF RecoverStart
<1>8. CASE RecoverFetch(n) \/ FetchRead(n)
  <2>1. \A f \in Fetchers : fetch'[f].lead = fetch[f].lead
    <3>1. CASE RecoverFetch(n)
      BY <1>1, <3>1 DEF Fetch, RecoverFetch
    <3>2. CASE FetchRead(n)
      BY <1>1, <3>2 DEF Fetch, FetchRead
    <3> QED
      BY <1>8, <3>1, <3>2
  <2> QED
    BY <1>3, <1>8, <2>1 DEF RecoverFetch, FetchRead
<1>9. CASE RecoverReceive(n)
  <2>1. \A s : [fetch[n] EXCEPT !.pc = "write", !.recs = s].lead = fetch[n].lead
    BY <1>1 DEF Fetch
  <2>2. \A f \in Fetchers : fetch'[f].lead \in {fetch[f].lead, InitialLeadership}
    BY <1>1, <1>9, <2>1, KnownIdle DEF RecoverReceive
  <2> QED
    BY <1>3, <1>9, <2>2 DEF RecoverReceive
<1>10. CASE RecoverWrite(n)
  <2>1. \A f \in Fetchers : fetch'[f].lead = fetch[f].lead
    <3>1. \A r, pc, o : [fetch[n] EXCEPT !.recs = r, !.pc = pc, !.off = o].lead
                          = fetch[n].lead
      BY <1>1 DEF Fetch
    <3>2. ASSUME NEW r, NEW pc, NEW o,
                 fetch' = [fetch EXCEPT ![n].recs = r, ![n].pc = pc, ![n].off = o]
          PROVE  fetch' = [fetch EXCEPT ![n] =
                             [fetch[n] EXCEPT !.recs = r, !.pc = pc, !.off = o]]
      BY <1>1, <3>2
    <3>3. PICK r, pc, o :
            fetch' = [fetch EXCEPT ![n].recs = r, ![n].pc = pc, ![n].off = o]
      BY <1>10, Zenon DEF RecoverWrite
    <3>4. fetch' = [fetch EXCEPT ![n] =
                      [fetch[n] EXCEPT !.recs = r, !.pc = pc, !.off = o]]
      BY <3>2, <3>3
    <3> QED
      BY <1>1, <3>1, <3>4
  <2> QED
    BY <1>3, <1>10, <2>1 DEF RecoverWrite
<1>11. CASE RecoverFail(n)
  <2>1. \A f \in Fetchers : fetch'[f].lead \in {fetch[f].lead, InitialLeadership}
    BY <1>1, <1>11, KnownIdle DEF RecoverFail
  <2> QED
    BY <1>3, <1>11, <2>1 DEF RecoverFail
<1> QED
  BY <1>4, <1>5, <1>6, <1>7, <1>8, <1>9, <1>10, <1>11 DEF WorkerStep

LEMMA KnownPromotion ==
    ASSUME TypeInv,
           \/ \E q \in Promotions, n \in Brokers : PromoteStart(q, n)
           \/ \E q \in Promoters : PromoteStep(q) /\ ~PromoteApply(q)
           \/ MonitorStep
    PROVE  KnownNext
<1> DEFINE Leads(q) == {promo[q].cur, registry[Controller], InitialLeadership}
<1>1. /\ promo \in [Promoters -> PromoteCall]
      /\ cast \in [Casters -> Cast]
      /\ Controller \in Brokers
      /\ Monitor \in Promoters
      /\ Promotions \subseteq Promoters
  BY ConstantTypes DEF TypeInv, TypeOK, Promoters
<1>2. ASSUME UNCHANGED <<registry, task, rpcs, fetch>>,
             \A c \in Casters : cast'[c].lead \in {cast[c].lead, InitialLeadership},
             \A q \in Promoters : promo'[q].cur \in Leads(q)
      PROVE  KnownNext
  BY <1>1, <1>2, KnownNow DEF KnownNext
<1>3. ASSUME NEW q \in Promoters, NEW v, v.cur \in Leads(q),
             promo' = [promo EXCEPT ![q] = v]
      PROVE  \A r \in Promoters : promo'[r].cur \in Leads(r)
  BY <1>1, <1>3
<1>4. ASSUME NEW q \in Promotions, NEW n \in Brokers, PromoteStart(q, n)
      PROVE  KnownNext
  BY <1>1, <1>2, <1>3, <1>4 DEF PromoteStart
<1>5. ASSUME NEW q \in Promoters, PromoteVerify(q) \/ PromoteTruncate(q)
      PROVE  KnownNext
  <2>1. \A pc : [promo[q] EXCEPT !.pc = pc].cur = promo[q].cur
    BY <1>1 DEF PromoteCall
  <2>2. \E pc : promo' = [promo EXCEPT ![q] = [promo[q] EXCEPT !.pc = pc]]
    BY <1>1, <1>5 DEF PromoteVerify, PromoteTruncate
  <2>3. \A r \in Promoters : promo'[r].cur \in Leads(r)
    BY <1>1, <2>1, <2>2
  <2> QED
    BY <1>2, <1>5, <2>3 DEF PromoteVerify, PromoteTruncate
<1>6. ASSUME NEW q \in Promoters,
             PromoteRefuse(q) \/ PromoteStale(q) \/ PromoteReply(q)
      PROVE  KnownNext
  <2>1. \A r \in Promoters : promo'[r].cur \in Leads(r)
    BY <1>3, <1>6, KnownIdle DEF PromoteRefuse, PromoteStale, PromoteReply
  <2>2. \A c \in Casters : cast'[c].lead \in {cast[c].lead, InitialLeadership}
    BY <1>1, <1>6, KnownIdle DEF PromoteRefuse, PromoteStale, PromoteReply
  <2> QED
    BY <1>2, <1>6, <2>1, <2>2 DEF PromoteRefuse, PromoteStale, PromoteReply
<1>7. CASE MonitorStep
  <2>1. CASE ProbeAnswered
    BY <1>2, <2>1 DEF ProbeAnswered
  <2>2. CASE ProbeMissed
    <3>1. [promo[Monitor] EXCEPT !.pc = "select", !.cur = registry[Controller]].cur
            = registry[Controller]
      BY <1>1 DEF PromoteCall
    <3>2. \A r \in Promoters : promo'[r].cur \in Leads(r)
      BY <1>1, <2>2, <3>1 DEF ProbeMissed
    <3> QED
      BY <1>2, <2>2, <3>2 DEF ProbeMissed
  <2>3. CASE AutoSelect
    <3>1. PICK n : promo' = [promo EXCEPT ![Monitor] =
                      [pc |-> "verify", cand |-> n, cur |-> registry[Controller]]]
      BY <2>3 DEF AutoSelect
    <3>2. \A r \in Promoters : promo'[r].cur \in Leads(r)
      BY <1>1, <1>3, <3>1
    <3> QED
      BY <1>2, <2>3, <3>2 DEF AutoSelect
  <2>4. CASE AutoNone
    <3>1. \A r \in Promoters : promo'[r].cur \in Leads(r)
      BY <1>1, <1>3, <2>4, KnownIdle DEF AutoNone
    <3> QED
      BY <1>2, <2>4, <3>1 DEF AutoNone
  <2> QED
    BY <1>7, <2>1, <2>2, <2>3, <2>4 DEF MonitorStep
<1> QED
  BY <1>4, <1>5, <1>6, <1>7 DEF PromoteStep

LEMMA KnownCrash ==
    ASSUME TypeInv, NEW n \in Brokers, Crash(n)
    PROVE  KnownNext
<1>1. \A p \in Records : task'[p].lead \in {task[p].lead, InitialLeadership}
  BY KnownIdle DEF Crash
<1>2. \A c \in Casters : cast'[c].lead \in {cast[c].lead, InitialLeadership}
  <2>1. \A b \in Cast : /\ Answered(b).lead \in {b.lead, InitialLeadership}
                        /\ [b EXCEPT !.live = FALSE].lead = b.lead
    BY KnownIdle DEF Answered, Cast
  <2> QED
    BY <2>1, KnownIdle DEF TypeInv, TypeOK, Crash
<1>3. \A q \in Promoters : promo'[q].cur \in {promo[q].cur, InitialLeadership}
  BY KnownIdle DEF Crash
<1>4. \A f \in Fetchers : fetch'[f].lead \in {fetch[f].lead, InitialLeadership}
  BY KnownIdle DEF Crash
<1> QED
  BY <1>1, <1>2, <1>3, <1>4, KnownNow DEF KnownNext, Crash

LEMMA KnownRestart ==
    ASSUME TypeInv, NEW n \in Brokers, Restart(n)
    PROVE  KnownNext
<1>1. registry \in [Brokers -> Leadership] /\ Controller \in Brokers
  BY ConstantTypes DEF TypeInv, TypeOK
<1>2. Known(Synced(registry[n], registry[Controller]))
  BY <1>1, KnownNow, KnownInstalled
<1>3. \A b \in Brokers : Known(registry'[b])
  BY <1>1, <1>2, KnownNow DEF Restart
<1> QED
  BY <1>3, KnownNow DEF KnownNext, Restart

\* While nobody is promoted.
LEMMA KnownSteady ==
    ASSUME TypeInv, [Steady]_vars
    PROVE  KnownNext
<1>1. CASE Serve
  BY <1>1, KnownRequest, KnownProduce, KnownReplica, KnownCast, KnownReader,
     KnownWorker DEF Serve
<1>2. CASE Crashes \/ Restarts
  BY <1>2, KnownCrash, KnownRestart DEF Crashes, Restarts
<1>3. CASE UNCHANGED vars
  BY <1>3, KnownNow DEF KnownNext, vars
<1> QED
  BY <1>1, <1>2, <1>3 DEF Steady

LEMMA KnownStep ==
    ASSUME TypeInv, [Next]_vars, \A q \in Promoters : ~PromoteApply(q)
    PROVE  KnownNext
<1>1. CASE Promote
  BY <1>1, KnownPromotion DEF Promote
<1> QED
  BY <1>1, KnownSteady DEF Next, FailStop, Steady

LEMMA HeldType == TypeInv => Held \subseteq Leadership
BY ConstantTypes
   DEF TypeInv, TypeOK, Held, Task, Rpc, Cast, PromoteCall, Fetch

LEMMA EpochKept ==
    ASSUME TypeInv, TypeInv', EpochInv, Forward, KnownNext
    PROVE  EpochInv'
<1>1. \A l \in Held' : Known(l)
  BY KnownNow DEF KnownNext, Held
<1>2. /\ registry[Controller].epoch \in Nat
      /\ registry'[Controller].epoch \in Nat
      /\ \A l \in Held : l.epoch \in Nat
  BY HeldType, ConstantTypes DEF TypeInv, TypeOK, Leadership
<1>3. Accepts(registry[Controller], registry'[Controller])
  BY ConstantTypes DEF Forward
<1>4. registry[Controller].epoch <= registry'[Controller].epoch
  BY <1>2, <1>3 DEF Accepts
<1>5. \A k, l \in Held' : k.epoch = l.epoch => k.leader = l.leader
  BY <1>1 DEF Known, EpochInv
<1>6. \A l \in Held' : l.epoch <= registry'[Controller].epoch
  BY <1>1, <1>2, <1>4 DEF Known, EpochInv
<1> QED
  BY <1>5, <1>6 DEF EpochInv

\* The one action that makes a leadership: of an epoch above the controller's,
\* or else of the controller's own.
LEMMA EpochMade ==
    ASSUME TypeInv, TypeInv', EpochInv, NEW q \in Promoters, PromoteApply(q)
    PROVE  EpochInv'
<1> DEFINE new == Promoted(q)
           top == registry[Controller]
<1>1. /\ new \in Leadership
      /\ top \in Leadership
      /\ registry' = [registry EXCEPT ![Controller] = new]
      /\ registry'[Controller] = new
      /\ Accepts(top, new)
      /\ q \in Casters
  BY PromotedType, ConstantTypes
     DEF PromoteApply, TypeInv, TypeOK, Promoters, Casters
<1>2. /\ \A n \in Brokers : registry'[n] \in {registry[n], new}
      /\ \A c \in Casters : cast'[c].lead \in {cast[c].lead, new}
      /\ \A r \in Promoters : promo'[r].cur = promo[r].cur
  <2>1. \A n \in Brokers : registry'[n] \in {registry[n], new}
    BY <1>1 DEF TypeInv, TypeOK
  <2>2. StartCast(Controller, new).lead = new
    BY DEF StartCast
  <2>3. \A c \in Casters : cast'[c].lead \in {cast[c].lead, new}
    BY <2>2 DEF PromoteApply, TypeInv, TypeOK
  <2>4. \A r \in Promoters : promo'[r].cur = promo[r].cur
    BY DEF PromoteApply, TypeInv, TypeOK, PromoteCall
  <2> QED
    BY <2>1, <2>3, <2>4
<1>3. \A l \in Held' : l \in Held \/ l = new
  BY <1>2 DEF Held, PromoteApply
<1>4. top \in Held
  BY ConstantTypes DEF Held
<1>5. /\ \A l \in Held : l.epoch \in Nat /\ l.epoch <= top.epoch
      /\ top.epoch \in Nat
      /\ new.epoch \in Nat
  BY <1>1, HeldType DEF EpochInv, Leadership
<1>6. \/ new.epoch > top.epoch
      \/ new.epoch = top.epoch /\ new.leader = top.leader
  BY <1>1 DEF Accepts
<1> HIDE DEF new, top
<1>7. \A l \in Held' : l.epoch <= registry'[Controller].epoch
  BY <1>1, <1>3, <1>5, <1>6
<1>8. \A l \in Held : l.epoch = new.epoch => l.leader = new.leader
  BY <1>4, <1>5, <1>6 DEF EpochInv
<1>9. \A k, l \in Held' : k.epoch = l.epoch => k.leader = l.leader
  BY <1>3, <1>8 DEF EpochInv
<1> QED
  BY <1>7, <1>9 DEF EpochInv

LEMMA EpochInit == Init => EpochInv
<1> SUFFICES ASSUME Init PROVE EpochInv
  OBVIOUS
<1>1. \A l \in Held : l = InitialLeadership
  BY DEF Init, Held, NewTask, IdleCast, Promotion, IdleFetch
<1>2. registry[Controller] = InitialLeadership /\ InitialLeadership.epoch = 0
  BY ConstantTypes DEF Init, InitialLeadership
<1> QED
  BY <1>1, <1>2 DEF EpochInv

LEMMA EpochStep == TypeInv /\ EpochInv /\ [Next]_vars => EpochInv'
<1> SUFFICES ASSUME TypeInv, EpochInv, [Next]_vars PROVE EpochInv'
  OBVIOUS
<1>1. TypeInv' /\ Forward
  BY TypeStep, ForwardStep
<1>2. CASE \E q \in Promoters : PromoteApply(q)
  BY <1>1, <1>2, EpochMade
<1>3. CASE \A q \in Promoters : ~PromoteApply(q)
  BY <1>1, <1>3, KnownStep, EpochKept
<1> QED
  BY <1>2, <1>3

\* One epoch, one leader, however promotions on request, promotions by the
\* monitor, broadcasts, syncs and replicate requests interleave and crash.
THEOREM OneLeaderPerEpoch == Spec => []ElectionSafety
<1>1. EpochInv => ElectionSafety
  BY DEF EpochInv, ElectionSafety, Held
<1> QED
  BY <1>1, TypeInit, TypeStep, EpochInit, EpochStep, PTL DEF Spec

\* Epochs are made by the controller and persisted there first: no broker ever
\* follows an epoch that the controller, crashed or not, has not stored.
THEOREM NobodyAheadOfController == Spec => []ControllerAhead
<1>1. EpochInv => ControllerAhead
  BY DEF EpochInv, ControllerAhead, Held
<1> QED
  BY <1>1, TypeInit, TypeStep, EpochInit, EpochStep, PTL DEF Spec

=============================================================================
