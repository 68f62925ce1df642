----------------------------- MODULE StoredProofs -----------------------------
(***************************************************************************)
(* The broker on its own, continued: records with an identity are stored   *)
(* once, acknowledged records are where the answer says and below the      *)
(* watermark, and acknowledged topics keep their partitions, through       *)
(* crashes, shutdowns, timeouts of the queue and failed writes.            *)
(***************************************************************************)
EXTENDS BrokerProofs

-----------------------------------------------------------------------------
(* The inductive invariants.                                               *)

\* Without the pitfalls: a failed write of the registry's file, and a topic
\* that was created again after a failed creation, are repaired before the
\* next start.
RestartsAsWritten == "restart after a failed write" \notin Pitfalls
RestartsAsCreated == "restart after a failed creation" \notin Pitfalls

\* The number of partitions that routes a record.
Routes == IF phase = "down" THEN Len(logs) ELSE topics

\* A record with an identity is in the log it is routed to, once.
RoutedInv ==
    \A p \in Identified, l \in DOMAIN logs : \A i \in DOMAIN logs[l] :
        logs[l][i] = p =>
            /\ Routes # 0
            /\ l = (Hash[p] % Routes) + 1
            /\ \A j \in DOMAIN logs[l] : logs[l][j] = p => i = j

\* A topic is there when its record is read back; what a shutdown leaves in
\* the channel makes no topic with fewer partitions than there are logs.
CountInv ==
    /\ \A m \in ToSet(queue) : m.kind = "readback" => topics # 0
    /\ \A p \in Producers :
          prod[p].pc \in {"appended", "read", "found", "commit"} => topics # 0
    /\ phase = "stopping" => topics \in {0, Len(logs)} /\ ~Leftover(queue)

\* The record is below the watermark.
Covered(e, ack) == ack[1] < Len(e) /\ e[ack[1] + 1] > ack[2]

\* The watermarks that count: those of the file when the broker is down.
Registry == IF phase = "down" THEN file ELSE entries

\* The records whose commit is done.
Settled(t) ==
    {j \in DOMAIN t.acks : t.reply = "ok" \/ (t.pc = "commit" /\ j < t.i)}

StoredInv ==
    \A p \in Producers : \A j \in DOMAIN prod[p].acks :
       Stored(p, logs, prod[p].acks[j])

CoveredInv ==
    /\ phase = "stopping" => entries = file
    /\ \A p \in Durable : \A j \in Settled(prod[p]) :
          Covered(Registry, prod[p].acks[j])

\* The topic is there with the partitions asked for, or nobody has registered
\* more than there are.
CreatedInv ==
    /\ Len(entries) <= topics /\ Len(file) <= Len(logs)
    /\ phase # "down" /\ topics = 0 => Len(logs) <= Asked
    /\ mon.count <= topics /\ (mon.pc # "listed" => mon.count = 0)
    /\ \A k \in Creators :
          /\ crt[k].pc = "created" => topics = Asked /\ Len(logs) = Asked
          /\ crt[k].reply = "ok" =>
               /\ Len(logs) = Asked
               /\ phase # "down" => topics = Asked
               /\ phase = "up" => dealt = Asked /\ Len(entries) = Asked

-----------------------------------------------------------------------------
(* What a step does to a request, to the logs and to the registry.         *)

\* A request's handler is gone, or begins.
Cleared(p) == prod'[p].acks = <<>> /\ prod'[p].pc \in {"idle", "append"}

\* Its append is answered.
IsAppended(p) ==
    /\ ExecuteAppend /\ p = hand.of
    /\ prod'[p].pc = "appended" /\ prod'[p].reply = "none"
    /\ \A i \in DOMAIN prod'[p].acks : Stored(p, logs', prod'[p].acks[i])

\* It goes on, nothing is committed yet.
GoesOn(p) ==
    /\ prod'[p].acks = prod[p].acks /\ prod'[p].reply = "none"
    /\ prod[p].pc \in {"appended", "read", "found"}
    /\ \/ prod'[p].pc \in {"read", "found"}
       \/ prod'[p].pc = "commit" /\ prod'[p].i = 1

\* It is answered in leader mode.
IsDispatched(p) ==
    /\ prod'[p].acks = prod[p].acks /\ prod'[p].pc = "idle" /\ p \notin Durable

\* A record of it is committed.
IsCommitted(p) ==
    /\ prod[p].pc = "commit" /\ Commit(p) /\ prod'[p] = Committed(prod[p])

ProdSteps(p) ==
    \/ prod'[p] = prod[p] \/ Cleared(p) \/ IsAppended(p) \/ GoesOn(p)
    \/ IsDispatched(p) \/ IsCommitted(p)

\* What one request does leaves the others alone.
LEMMA OneSteps ==
  ASSUME TypeInv, NEW x \in Producers, NEW t, prod' = [prod EXCEPT ![x] = t],
         NEW p \in Producers
  PROVE  prod'[p] = IF p = x THEN t ELSE prod[p]
  BY DEF TypeInv, ProdInv

LEMMA IdleCleared ==
  \A r : IdleProduce(r).acks = <<>> /\ IdleProduce(r).pc = "idle"
  BY DEF IdleProduce

LEMMA ProduceSteps ==
  ASSUME TypeInv, NEW x \in Producers,
         ProduceStart(x) \/ ProduceBusy(x) \/ ProduceStep(x),
         NEW p \in Producers
  PROVE  ProdSteps(p)
<1>1. Sound(prod[x]) /\ prod[x] \in ProduceType
  BY DEF TypeInv, ProdInv, Sound
<1>2. CASE ProduceStart(x)
  <2>1. prod'[p] = IF p = x THEN [IdleProduce("none") EXCEPT !.pc = "append"] ELSE prod[p]
    BY <1>2 DEF ProduceStart, TypeInv, ProdInv
  <2>2. [IdleProduce("none") EXCEPT !.pc = "append"].acks = <<>>
    BY DEF IdleProduce
  <2>3. [IdleProduce("none") EXCEPT !.pc = "append"].pc = "append"
    BY DEF IdleProduce
  <2> QED  BY <2>1, <2>2, <2>3 DEF ProdSteps, Cleared
<1>3. CASE ProduceBusy(x) \/ CommitFails(x)
  <2>1. prod'[p] = IF p = x THEN IdleProduce("error") ELSE prod[p]
    BY <1>3 DEF ProduceBusy, CommitFails, TypeInv, ProdInv
  <2> QED  BY <2>1, IdleCleared DEF ProdSteps, Cleared
<1>4. CASE ReadBack(x)
  <2>1. prod'[p] = IF p = x THEN [prod[x] EXCEPT !.pc = "read"] ELSE prod[p]
    BY <1>4 DEF ReadBack, TypeInv, ProdInv
  <2>2. prod[x].pc = "appended" /\ prod[x].reply = "none"
    BY <1>1, <1>4 DEF ReadBack, Sound
  <2>3. p = x => prod'[p].acks = prod[p].acks /\ prod'[p].reply = "none" /\ prod'[p].pc = "read"
    BY <1>1, <2>1, <2>2 DEF ProduceType
  <2> QED  BY <2>1, <2>2, <2>3 DEF ProdSteps, GoesOn
<1>5. CASE Dispatch(x)
  <2> DEFINE t == prod[x]
  <2>1. t.pc = "found" /\ t.reply = "none"
    BY <1>1, <1>5 DEF Dispatch, Sound
  <2>2. p # x => prod'[p] = prod[p]
    BY <1>5 DEF Dispatch, TypeInv, ProdInv
  <2>3. \/ prod'[x] = [t EXCEPT !.i = t.i + 1, !.pc = "read"]
        \/ prod'[x] = [t EXCEPT !.i = 1, !.pc = "commit", !.low = Low(t.acks[1])]
        \/ x \notin Durable /\ prod'[x] = [t EXCEPT !.pc = "idle", !.reply = "ok"]
    BY <1>5 DEF Dispatch, TypeInv, ProdInv
  <2> HIDE DEF t
  <2>4. t \in ProduceType
    BY <1>1 DEF t
  <2>5. CASE prod'[x] = [t EXCEPT !.i = t.i + 1, !.pc = "read"]
    <3>1. prod'[x].pc = "read" /\ prod'[x].acks = t.acks /\ prod'[x].reply = "none"
      BY <2>1, <2>4, <2>5 DEF ProduceType
    <3> QED  BY <2>1, <2>2, <3>1 DEF ProdSteps, GoesOn, t
  <2>6. CASE prod'[x] = [t EXCEPT !.i = 1, !.pc = "commit", !.low = Low(t.acks[1])]
    <3>1. /\ prod'[x].pc = "commit" /\ prod'[x].acks = t.acks /\ prod'[x].reply = "none"
          /\ prod'[x].i = 1
      BY <2>1, <2>4, <2>6 DEF ProduceType
    <3> QED  BY <2>1, <2>2, <3>1 DEF ProdSteps, GoesOn, t
  <2>7. CASE x \notin Durable /\ prod'[x] = [t EXCEPT !.pc = "idle", !.reply = "ok"]
    <3>1. prod'[x].pc = "idle" /\ prod'[x].acks = t.acks
      BY <2>4, <2>7 DEF ProduceType
    <3> QED  BY <2>2, <2>7, <3>1 DEF ProdSteps, IsDispatched, t
  <2> QED  BY <2>3, <2>5, <2>6, <2>7
<1>6. CASE Commit(x)
  <2>1. prod'[p] = IF p = x THEN Committed(prod[x]) ELSE prod[p]
    BY <1>6 DEF Commit, TypeInv, ProdInv
  <2> QED  BY <1>6, <2>1 DEF ProdSteps, IsCommitted, Commit
<1> QED  BY <1>2, <1>3, <1>4, <1>5, <1>6 DEF ProduceStep

LEMMA RequestSteps ==
  ASSUME TypeInv, [Next]_vars, NEW p \in Producers
  PROVE  ProdSteps(p)
<1>1. CASE \E x \in Producers : ProduceStart(x) \/ ProduceBusy(x) \/ ProduceStep(x)
  BY <1>1, ProduceSteps
<1>2. CASE \/ \E s \in spawned : CommitLater(s)
           \/ \E c \in Pollers : PollStart(c) \/ PollBusy(c) \/ PollStep(c)
           \/ \E k \in Creators : CreateStart(k) \/ CreateBusy(k) \/ Created(k)
           \/ MonitorStart \/ MonitorBusy \/ MonitorRegister
           \/ OpenPartition \/ ExecuteFetch \/ ExecuteCreate \/ ExecuteList
           \/ Start \/ Stopped \/ UNCHANGED vars
  <2>1. UNCHANGED prod
    BY <1>2, Zenon DEF CommitLater, PollStart, PollBusy, PollStep, PollSleep, PollAgain,
       PollReply, CreateStart, CreateBusy, Created, MonitorStart, MonitorBusy,
       MonitorRegister, OpenPartition, ExecuteFetch, ExecuteCreate, ExecuteList, Start,
       Stopped, vars, handlers
  <2> QED  BY <2>1 DEF ProdSteps
<1>3. CASE ExecuteAppend
  <2>1. CASE phase = "up"
    <3>1. /\ hand.of \in Producers
          /\ prod' = [prod EXCEPT ![hand.of] = AppendedProduce(hand.of)]
          /\ AppendedProduce(hand.of).pc = "appended"
          /\ AppendedProduce(hand.of).reply = "none"
          /\ \A i \in DOMAIN AppendedProduce(hand.of).acks :
               Stored(hand.of, logs', AppendedProduce(hand.of).acks[i])
      BY <1>3, <2>1, AppendFacts DEF Answered
    <3>2. prod'[p] = IF p = hand.of THEN AppendedProduce(hand.of) ELSE prod[p]
      BY <3>1 DEF TypeInv, ProdInv
    <3> QED  BY <1>3, <3>1, <3>2 DEF ProdSteps, IsAppended
  <2>2. CASE phase # "up"
    <3>1. UNCHANGED prod
      BY <1>3, <2>2, AppendFacts DEF Answered
    <3> QED  BY <3>1 DEF ProdSteps
  <2> QED  BY <2>1, <2>2
<1>4. CASE ExecuteReadBack
  <2>1. CASE phase = "up"
    <3>1. hand.of \in Producers /\ prod[hand.of].pc = "read"
      BY <1>4, <2>1, InHand DEF ExecuteReadBack, Waits
    <3>2. prod'[p] = IF p = hand.of THEN [prod[p] EXCEPT !.pc = "found"] ELSE prod[p]
      BY <1>4, <2>1, <3>1 DEF ExecuteReadBack, Answered, TypeInv, ProdInv
    <3>3. Sound(prod[p]) /\ prod[p] \in ProduceType
      BY DEF TypeInv, ProdInv, Sound
    <3>4. p = hand.of => /\ prod[p].reply = "none" /\ prod'[p].acks = prod[p].acks
                         /\ prod'[p].reply = "none" /\ prod'[p].pc = "found"
      BY <3>1, <3>2, <3>3 DEF Sound, ProduceType
    <3> QED  BY <3>1, <3>2, <3>4 DEF ProdSteps, GoesOn
  <2>2. CASE phase # "up"
    <3>1. UNCHANGED prod
      BY <1>4, <2>2 DEF ExecuteReadBack, Answered
    <3> QED  BY <3>1 DEF ProdSteps
  <2> QED  BY <2>1, <2>2
<1>5. CASE ExecuteUnknown \/ CreationFails
  <2>1. UNCHANGED prod \/ prod' = [prod EXCEPT ![hand.of] = IdleProduce("error")]
    BY <1>5, Zenon DEF ExecuteUnknown, CreationFails, Answered
  <2>2. prod'[p] = prod[p] \/ prod'[p] = IdleProduce("error")
    BY <2>1 DEF TypeInv, ProdInv
  <2> QED  BY <2>2, IdleCleared DEF ProdSteps, Cleared
<1>6. CASE Shutdown \/ Crash
  <2>1. prod'[p] = prod[p] \/ prod'[p] = IdleProduce("error")
    BY <1>6 DEF Shutdown, Crash, Disconnected
  <2> QED  BY <2>1, IdleCleared DEF ProdSteps, Cleared
<1> QED
  BY <1>1, <1>2, <1>3, <1>4, <1>5, <1>6, Zenon DEF Next, StorageStep

\* No record leaves its place.
Keeps(ls, ms) ==
    /\ Len(ms) >= Len(ls)
    /\ \A l \in DOMAIN ls :
          /\ Len(ms[l]) >= Len(ls[l])
          /\ \A i \in DOMAIN ls[l] : ms[l][i] = ls[l][i]

LEMMA LogsSteps ==
  ASSUME TypeInv, [Next]_vars
  PROVE  /\ UNCHANGED logs \/ OpenPartition \/ ExecuteAppend
         /\ Keeps(logs, logs')
<1>1. UNCHANGED logs \/ OpenPartition \/ ExecuteAppend
  BY Zenon DEF Next, vars, ProduceStep, ProduceStart, ProduceBusy, ReadBack, Dispatch,
     Commit, CommitFails, CommitLater, PollStep, PollStart, PollBusy, PollSleep, PollAgain,
     PollReply, CreateStart, CreateBusy, Created, MonitorStart, MonitorBusy,
     MonitorRegister, StorageStep, ExecuteReadBack, ExecuteFetch, ExecuteUnknown,
     ExecuteCreate, ExecuteList, CreationFails, Start, Shutdown, Stopped, Crash, disk
<1>2. logs \in Logs
  BY DEF TypeInv, DiskInv, Logs
<1>3. /\ Len(logs) \in Nat /\ DOMAIN logs = 1 .. Len(logs)
      /\ \A l \in DOMAIN logs : Len(logs[l]) \in Nat
  BY <1>2, LogsType
<1>4. CASE UNCHANGED logs
  BY <1>1, <1>3, <1>4 DEF Keeps
<1>5. CASE OpenPartition
  <2>1. logs' = Append(logs, <<>>)
    BY <1>5 DEF OpenPartition
  <2>2. Len(logs') = Len(logs) + 1 /\ \A l \in DOMAIN logs : logs'[l] = logs[l]
    BY <1>2, <1>3, <2>1 DEF Logs
  <2> QED  BY <1>1, <1>3, <2>2 DEF Keeps
<1>6. CASE ExecuteAppend
  BY <1>1, <1>3, <1>6, AppendFacts DEF Grown, Keeps
<1> QED  BY <1>1, <1>4, <1>5, <1>6

LEMMA StoredKept ==
  ASSUME NEW ls \in Logs, NEW ms \in Logs, Keeps(ls, ms), NEW p,
         NEW ack \in Nat \X Nat, Stored(p, ls, ack)
  PROVE  Stored(p, ms, ack)
<1>1. /\ Len(ls) \in Nat /\ Len(ms) \in Nat /\ DOMAIN ls = 1 .. Len(ls) /\ DOMAIN ms = 1 .. Len(ms)
      /\ \A l \in DOMAIN ls : Len(ls[l]) \in Nat /\ DOMAIN ls[l] = 1 .. Len(ls[l])
      /\ \A l \in DOMAIN ms : Len(ms[l]) \in Nat
  BY LogsType
<1>2. /\ ack[1] \in Nat /\ ack[2] \in Nat /\ ack[1] + 1 \in DOMAIN ls
      /\ ack[1] + 1 \in DOMAIN ms
  BY <1>1 DEF Stored, Keeps
<1>3. ack[2] + 1 \in DOMAIN ls[ack[1] + 1]
  BY <1>1, <1>2 DEF Stored
<1> QED  BY <1>1, <1>2, <1>3 DEF Stored, Keeps

LEMMA AcksType ==
  ASSUME TypeInv, NEW p \in Producers, NEW j \in DOMAIN prod[p].acks
  PROVE  prod[p].acks[j] \in Nat \X Nat /\ prod[p].acks \in Seq(Nat \X Nat)
<1>1. prod[p].acks \in Seq(Nat \X Nat)
  BY DEF TypeInv, ProdInv, ProduceType
<1> QED  BY <1>1

\* What a request's acks name stays where it is.
LEMMA StoredStep ==
  ASSUME TypeInv, TypeInv', StoredInv, [Next]_vars
  PROVE  StoredInv'
<1> SUFFICES ASSUME NEW p \in Producers, NEW j \in DOMAIN prod'[p].acks
             PROVE  Stored(p, logs', prod'[p].acks[j])
  BY DEF StoredInv
<1>1. logs \in Logs /\ logs' \in Logs /\ Keeps(logs, logs')
  BY LogsSteps DEF TypeInv, DiskInv, Logs
<1>2. ProdSteps(p)
  BY RequestSteps
<1>3. CASE prod'[p].acks = prod[p].acks
  <2>1. prod[p].acks[j] \in Nat \X Nat /\ Stored(p, logs, prod[p].acks[j])
    BY <1>3, AcksType DEF StoredInv
  <2> QED  BY <1>1, <1>3, <2>1, StoredKept
<1>4. CASE Cleared(p)
  BY <1>4 DEF Cleared
<1>5. CASE IsAppended(p)
  BY <1>5 DEF IsAppended
<1>6. CASE IsCommitted(p)
  <2>1. Committed(prod[p]).acks = prod[p].acks
    BY <1>6, CommittedType DEF IsCommitted, TypeInv, ProdInv
  <2> QED  BY <1>3, <1>6, <2>1 DEF IsCommitted
<1> QED  BY <1>2, <1>3, <1>4, <1>5, <1>6 DEF ProdSteps, GoesOn, IsDispatched

\* The lengths the registry may be given.
Registering ==
    {Len(entries), mon.count}
        \cup {n \in {Asked} : \E k \in Creators : crt[k].pc = "created"}

\* The registry is changed by a commit, a creation or the monitor, and never
\* to a lower watermark.
Raising ==
    /\ phase # "down" /\ UNCHANGED phase
    /\ \E e \in Seq(Nat) :
         /\ Persist(e) \/ PersistFails(e)
         /\ Len(e) >= Len(entries) /\ Len(e) \in Registering
         /\ \A i \in DOMAIN entries : e[i] >= entries[i]

LEMMA RegistrySteps ==
  ASSUME TypeInv, [Next]_vars
  PROVE  \/ UNCHANGED <<phase, entries, file>> \/ Raising
         \/ Start \/ Shutdown \/ Stopped \/ Crash
<1>1. ASSUME NEW ack \in Nat \X Nat, Registered(ack[1]),
             Persist(Raised(ack)) \/ PersistFails(Raised(ack)),
             phase # "down", UNCHANGED phase
      PROVE  Raising
  <2> DEFINE e == Raised(ack)
  <2>1. /\ e \in Seq(Nat) /\ Len(e) = Len(entries) /\ Len(entries) \in Nat
        /\ \A i \in DOMAIN entries : e[i] >= entries[i]
    BY <1>1, RaisedType DEF TypeInv, DiskInv
  <2>2. (Persist(e) \/ PersistFails(e)) /\ phase # "down" /\ UNCHANGED phase
    BY <1>1
  <2> HIDE DEF e
  <2>3. Len(e) >= Len(entries) /\ Len(e) \in Registering
    BY <2>1 DEF Registering
  <2> QED  BY <2>1, <2>2, <2>3 DEF Raising
<1>2. ASSUME NEW n \in Nat \cap Registering,
             Persist(Ensured(n)) \/ PersistFails(Ensured(n)),
             phase # "down", UNCHANGED phase
      PROVE  Raising
  <2> DEFINE e == Ensured(n)
  <2>1. /\ e \in Seq(Nat) /\ Len(e) = IF n > Len(entries) THEN n ELSE Len(entries)
        /\ \A i \in DOMAIN entries : e[i] = entries[i]
    BY EnsuredType DEF TypeInv, DiskInv
  <2>2. (Persist(e) \/ PersistFails(e)) /\ phase # "down" /\ UNCHANGED phase
    BY <1>2
  <2> HIDE DEF e
  <2>3. entries \in Seq(Nat) /\ Len(entries) \in Nat
    BY DEF TypeInv, DiskInv
  <2>4. Len(e) >= Len(entries) /\ \A i \in DOMAIN entries : e[i] >= entries[i]
    BY <2>1, <2>3
  <2>5. Len(e) \in Registering
    BY <2>1 DEF Registering
  <2> QED  BY <2>1, <2>2, <2>4, <2>5 DEF Raising
<1>3. ASSUME NEW p \in Producers, Commit(p) \/ CommitFails(p)
      PROVE  UNCHANGED <<phase, entries, file>> \/ Raising
  <2> DEFINE ack == prod[p].acks[prod[p].i]
  <2>1. /\ prod[p].pc = "commit" /\ UNCHANGED phase
        /\ \/ UNCHANGED <<entries, file>>
           \/ Registered(ack[1]) /\ (Persist(Raised(ack)) \/ PersistFails(Raised(ack)))
    BY <1>3, Zenon DEF Commit, CommitFails
  <2>2. ack \in Nat \X Nat /\ phase # "down"
    BY <2>1, CommitAck
  <2> HIDE DEF ack
  <2> QED  BY <1>1, <2>1, <2>2
<1>4. ASSUME NEW s \in spawned, CommitLater(s)
      PROVE  UNCHANGED <<phase, entries, file>> \/ Raising
  <2> DEFINE ack == Head(s.acks)
  <2>1. /\ UNCHANGED phase
        /\ \/ UNCHANGED <<entries, file>>
           \/ Registered(ack[1]) /\ (Persist(Raised(ack)) \/ PersistFails(Raised(ack)))
    BY <1>4, Zenon DEF CommitLater
  <2>2. ack \in Nat \X Nat /\ phase # "down"
    BY SpawnedAck
  <2> HIDE DEF ack
  <2> QED  BY <1>1, <2>1, <2>2
<1>5. ASSUME NEW k \in Creators, Created(k) PROVE Raising
  <2>1. /\ phase = "up" /\ UNCHANGED phase
        /\ Persist(Ensured(Asked)) \/ PersistFails(Ensured(Asked))
    BY <1>5, BusyUp, Zenon DEF Created
  <2>2. Asked \in Nat \cap Registering
    BY <1>5, BrokerAssumption DEF Created, Registering
  <2> QED  BY <1>2, <2>1, <2>2
<1>6. ASSUME MonitorRegister PROVE Raising
  <2>1. /\ phase = "up" /\ UNCHANGED phase
        /\ Persist(Ensured(mon.count)) \/ PersistFails(Ensured(mon.count))
    BY <1>6, BusyUp DEF MonitorRegister
  <2>2. mon.count \in Nat \cap Registering
    BY DEF TypeInv, HandlerInv, Registering
  <2> QED  BY <1>2, <2>1, <2>2
<1>7. CASE \/ \E p \in Producers :
                ProduceStart(p) \/ ProduceBusy(p) \/ ReadBack(p) \/ Dispatch(p)
           \/ \E c \in Pollers : PollStart(c) \/ PollBusy(c) \/ PollStep(c)
           \/ \E k \in Creators : CreateStart(k) \/ CreateBusy(k)
           \/ MonitorStart \/ MonitorBusy \/ StorageStep \/ CreationFails
           \/ UNCHANGED vars
  BY <1>7, Zenon DEF ProduceStart, ProduceBusy, ReadBack, Dispatch, PollStep, PollStart,
     PollBusy, PollSleep, PollAgain, PollReply, CreateStart, CreateBusy, MonitorStart,
     MonitorBusy, StorageStep, OpenPartition, ExecuteAppend, ExecuteReadBack,
     ExecuteFetch, ExecuteUnknown, ExecuteCreate, ExecuteList, CreationFails, disk, vars
<1> QED
  BY <1>3, <1>4, <1>5, <1>6, <1>7, Zenon DEF Next, ProduceStep

\* The next start finds the watermarks this process has.
LEMMA CoveredKept ==
  ASSUME TypeInv, CoveredInv, [Next]_vars,
         RestartsAsWritten,
         NEW ack \in Nat \X Nat, Covered(Registry, ack)
  PROVE  Covered(Registry', ack)
<1>1. ack[1] \in Nat /\ ack[2] \in Nat /\ entries \in Seq(Nat)
      /\ file \in Seq(Nat \cup {Legacy})
  BY DEF TypeInv, DiskInv
<1>2. CASE UNCHANGED <<phase, entries, file>>
  BY <1>2 DEF Registry
<1>3. CASE Raising
  <2>1. PICK e \in Seq(Nat) : /\ entries' = e /\ Len(e) >= Len(entries)
                              /\ \A i \in DOMAIN entries : e[i] >= entries[i]
    BY <1>3, Zenon DEF Raising, Persist, PersistFails
  <2>2. Registry = entries /\ Registry' = e
    BY <1>3, <2>1 DEF Raising, Registry
  <2>3. ack[1] + 1 \in DOMAIN entries
    BY <1>1, <2>2 DEF Covered
  <2>4. ack[1] < Len(e) /\ e[ack[1] + 1] \in Nat /\ entries[ack[1] + 1] \in Nat
    BY <1>1, <2>1, <2>2, <2>3 DEF Covered
  <2>5. e[ack[1] + 1] >= entries[ack[1] + 1] /\ entries[ack[1] + 1] > ack[2]
    BY <2>1, <2>2, <2>3 DEF Covered
  <2> QED  BY <1>1, <2>2, <2>4, <2>5 DEF Covered
<1>4. CASE Start
  <2>1. Registry = file /\ Registry' = Recovered
    BY <1>4 DEF Start, Registry
  <2>2. ack[1] + 1 \in DOMAIN file /\ file[ack[1] + 1] # Legacy
    BY <1>1, <2>1 DEF Covered, Legacy
  <2>3. /\ Recovered[ack[1] + 1] = file[ack[1] + 1]
        /\ Len(Recovered) = IF Len(logs) > Len(file) THEN Len(logs) ELSE Len(file)
    BY <2>2, RecoveredType DEF TypeInv
  <2>4. ack[1] < Len(Recovered)
    <3>1. Len(logs) \in Nat /\ Len(file) \in Nat
      BY DEF TypeInv, DiskInv
    <3>2. ack[1] < Len(file)
      BY <2>1 DEF Covered
    <3> QED  BY <1>1, <2>3, <3>1, <3>2
  <2> QED  BY <2>1, <2>3, <2>4 DEF Covered
<1>5. CASE Shutdown
  BY <1>5 DEF Shutdown, Registry
<1>6. CASE Stopped
  BY <1>6 DEF Stopped, Off, Registry, CoveredInv, disk
<1>7. CASE Crash
  <2>1. entries = file /\ phase # "down"
    BY <1>7, Zenon DEF Crash, Awry, RestartsAsWritten
  <2>2. phase' = "down" /\ UNCHANGED file
    BY <1>7, Zenon DEF Crash, Off, disk
  <2> QED  BY <2>1, <2>2 DEF Registry
<1> QED  BY <1>2, <1>3, <1>4, <1>5, <1>6, <1>7, RegistrySteps

LEMMA CoveredStep ==
  ASSUME TypeInv, TypeInv', CoveredInv, [Next]_vars,
         RestartsAsWritten
  PROVE  CoveredInv'
<1>1. ASSUME phase' = "stopping" PROVE entries' = file'
  <2>1. CASE UNCHANGED <<phase, entries, file>>
    BY <1>1, <2>1 DEF CoveredInv
  <2>2. CASE Raising
    <3>1. phase = "stopping" /\ entries = file
      BY <1>1, <2>2 DEF Raising, CoveredInv
    <3>2. PICK e : Persist(e) \/ PersistFails(e)
      BY <2>2 DEF Raising
    <3> QED  BY <3>1, <3>2 DEF Persist, PersistFails
  <2>3. CASE Shutdown
    BY <2>3, Zenon DEF Shutdown, Awry, RestartsAsWritten, disk
  <2>4. CASE Start \/ Stopped \/ Crash
    BY <1>1, <2>4 DEF Start, Stopped, Crash, Off
  <2> QED  BY <2>1, <2>2, <2>3, <2>4, RegistrySteps
<1>2. ASSUME NEW p \in Durable, NEW j, j \in Settled(prod'[p])
      PROVE  Covered(Registry', prod'[p].acks[j])
  <2>1. p \in Producers /\ j \in DOMAIN prod'[p].acks
    BY <1>2, BrokerAssumption DEF Settled
  <2>2. prod'[p].reply = "ok" \/ (prod'[p].pc = "commit" /\ j < prod'[p].i)
    BY <1>2 DEF Settled
  <2>3. ASSUME j \in Settled(prod[p]), prod'[p].acks = prod[p].acks
        PROVE  Covered(Registry', prod'[p].acks[j])
    <3>1. Covered(Registry, prod[p].acks[j]) /\ prod[p].acks[j] \in Nat \X Nat
      BY <2>1, <2>3, AcksType DEF CoveredInv
    <3> QED  BY <2>3, <3>1, CoveredKept
  <2>4. CASE prod'[p] = prod[p]
    <3>1. j \in Settled(prod[p]) /\ prod'[p].acks = prod[p].acks
      BY <1>2, <2>4
    <3> QED  BY <2>3, <3>1
  <2>5. CASE Cleared(p)
    <3>1. j \in DOMAIN <<>>
      BY <2>1, <2>5 DEF Cleared
    <3> QED  BY <3>1
  <2>6. CASE IsAppended(p)
    BY <2>2, <2>6 DEF IsAppended
  <2>7. CASE GoesOn(p)
    <3>1. prod'[p].i = 1 /\ j < 1
      BY <2>2, <2>7 DEF GoesOn
    <3>2. j \in Nat \ {0}
      <4>1. j \in DOMAIN prod[p].acks /\ prod[p].acks \in Seq(Nat \X Nat)
        BY <2>1, <2>7, AcksType DEF GoesOn
      <4> QED  BY <4>1
    <3> QED  BY <3>1, <3>2
  <2>8. CASE IsDispatched(p)
    BY <2>8 DEF IsDispatched
  <2>9. CASE IsCommitted(p)
    <3> DEFINE t == prod[p]
               ack == t.acks[t.i]
    <3>1. Sound(t) /\ t.pc = "commit" /\ prod'[p] = Committed(t)
      BY <2>1, <2>9 DEF IsCommitted, TypeInv, ProdInv
    <3>2. /\ prod'[p].acks = t.acks
          /\ t.i < Len(t.acks) => prod'[p].reply = "none" /\ prod'[p].i = t.i + 1
      BY <3>1, CommittedType
    <3>3. /\ t.i \in 1 .. Len(t.acks) /\ ack \in Nat \X Nat
          /\ j \in 1 .. Len(t.acks) /\ Len(t.acks) \in Nat
      <4>1. t.acks \in Seq(Nat \X Nat) /\ t.i \in 1 .. Len(t.acks)
        BY <3>1 DEF Sound, ProduceType
      <4>2. j \in DOMAIN t.acks
        BY <2>1, <3>2
      <4>3. Len(t.acks) \in Nat /\ j \in 1 .. Len(t.acks)
        <5> HIDE DEF t
        <5> QED  BY <4>1, <4>2
      <4>4. t.acks[t.i] \in Nat \X Nat
        BY <4>1, ElementOfSeq
      <4> QED  BY <4>1, <4>3, <4>4
    <3>4. j < t.i \/ j = t.i
      <4>1. CASE t.i < Len(t.acks)
        <5>1. prod'[p].i = t.i + 1 /\ j < prod'[p].i
          BY <2>2, <3>2, <4>1
        <5>2. j < t.i + 1
          BY <5>1
        <5> QED  BY <3>3, <5>2
      <4>2. CASE ~(t.i < Len(t.acks))
        BY <3>3, <4>2
      <4> QED  BY <4>1, <4>2
    <3>5. CASE j < t.i
      <4>1. j \in Settled(t)
        BY <2>1, <3>1, <3>2, <3>5 DEF Settled
      <4> QED  BY <2>3, <3>2, <4>1
    <3>6. CASE j = t.i
      <4>1. phase = "up" /\ UNCHANGED phase /\ Registered(ack[1]) /\ entries' = Raised(ack)
        BY <2>1, <2>9, CommitAck DEF IsCommitted, Commit, Persist
      <4> HIDE DEF ack
      <4>2. /\ Len(Raised(ack)) = Len(entries) /\ Raised(ack)[ack[1] + 1] > ack[2]
        BY <3>3, <4>1, RaisedType DEF TypeInv, DiskInv
      <4>3. Covered(Registry', ack)
        BY <4>1, <4>2 DEF Covered, Registry, Registered
      <4> QED  BY <3>2, <3>6, <4>3 DEF ack
    <3> QED  BY <3>4, <3>5, <3>6
  <2> QED  BY <2>1, <2>4, <2>5, <2>6, <2>7, <2>8, <2>9, RequestSteps DEF ProdSteps
<1> QED  BY <1>1, <1>2 DEF CoveredInv

LEMMA InitStored == Init => StoredInv /\ CoveredInv
<1> SUFFICES ASSUME Init PROVE StoredInv /\ CoveredInv
  OBVIOUS
<1>1. phase = "down" /\ \A p \in Producers : prod[p].acks = <<>>
  BY DEF Init, IdleProduce
<1> QED  BY <1>1, BrokerAssumption DEF StoredInv, CoveredInv, Settled

\* What was acknowledged is in the log where the answer says, and what was
\* acknowledged as durable is below the watermark whenever the broker is up:
\* concurrent commits never lower a watermark, and no crash, shutdown or
\* migration loses one, unless a write of the registry's file failed before.
THEOREM AckedStayVisible ==
  ASSUME RestartsAsWritten
  PROVE  Spec => []AckedVisible
<1>1. StoredInv /\ CoveredInv => AckedVisible
  <2> SUFFICES ASSUME StoredInv, CoveredInv, NEW p \in Producers, prod[p].reply = "ok",
                      NEW i \in DOMAIN prod[p].acks
               PROVE  LET q == prod[p].acks[i][1]
                          o == prod[p].acks[i][2] IN
                      /\ logs[q + 1][o + 1] = p
                      /\ p \in Durable /\ phase = "up" => entries[q + 1] > o
    BY DEF AckedVisible
  <2>1. Stored(p, logs, prod[p].acks[i])
    BY DEF StoredInv
  <2>2. p \in Durable => Covered(Registry, prod[p].acks[i])
    BY DEF CoveredInv, Settled
  <2> QED  BY <2>1, <2>2 DEF Stored, Covered, Registry
<1>2. TypeInv /\ TypeInv' /\ StoredInv /\ CoveredInv /\ [Next]_vars =>
        StoredInv' /\ CoveredInv'
  BY StoredStep, CoveredStep
<1> QED  BY <1>1, <1>2, InitStored, InitType, TypeStep, PTL DEF Spec

-----------------------------------------------------------------------------
(* The number of partitions.                                               *)

\* A command that finds or creates the topic.
Finds ==
    /\ ExecuteAppend \/ ExecuteFetch \/ ExecuteUnknown \/ ExecuteCreate
    /\ Ready /\ Done /\ topics' = Count /\ UNCHANGED phase
    /\ hand.kind \in {"append", "fetch", "create"}

LEMMA TopicsSteps ==
  ASSUME TypeInv, [Next]_vars
  PROVE  \/ UNCHANGED <<phase, topics>> \/ Finds
         \/ Start \/ Shutdown \/ Stopped \/ Crash
<1>1. CASE ExecuteAppend \/ ExecuteFetch \/ ExecuteUnknown \/ ExecuteCreate
  BY <1>1, Zenon DEF ExecuteAppend, ExecuteFetch, ExecuteUnknown, ExecuteCreate, Finds
<1>2. CASE \/ \E p \in Producers : ProduceStart(p) \/ ProduceBusy(p) \/ ProduceStep(p)
           \/ \E s \in spawned : CommitLater(s)
           \/ \E c \in Pollers : PollStart(c) \/ PollBusy(c) \/ PollStep(c)
           \/ \E k \in Creators : CreateStart(k) \/ CreateBusy(k) \/ Created(k)
           \/ MonitorStart \/ MonitorBusy \/ MonitorRegister
           \/ OpenPartition \/ ExecuteReadBack \/ ExecuteList \/ CreationFails
           \/ UNCHANGED vars
  BY <1>2, Zenon DEF ProduceStep, ProduceStart, ProduceBusy, ReadBack, Dispatch, Commit,
     CommitFails, CommitLater, PollStep, PollStart, PollBusy, PollSleep, PollAgain,
     PollReply, CreateStart, CreateBusy, Created, MonitorStart, MonitorBusy,
     MonitorRegister, OpenPartition, ExecuteReadBack, ExecuteList, CreationFails,
     storage, vars
<1> QED  BY <1>1, <1>2, Zenon DEF Next, StorageStep

LEMMA LenSteps ==
  ASSUME TypeInv, [Next]_vars
  PROVE  /\ Len(logs) \in Nat /\ Len(logs') \in Nat
         /\ Len(logs') = Len(logs) \/ (OpenPartition /\ Len(logs') = Len(logs) + 1)
<1>1. logs \in Logs /\ Len(logs) \in Nat
  BY LogsType DEF TypeInv, DiskInv, Logs
<1>2. CASE OpenPartition
  BY <1>1, <1>2 DEF OpenPartition, Logs
<1>3. CASE ExecuteAppend
  BY <1>1, <1>3, AppendFacts DEF Grown
<1> QED  BY <1>1, <1>2, <1>3, LogsSteps

\* While the broker stops, only the storage thread and commits go on.
LEMMA StoppingSteps ==
  ASSUME TypeInv, [Next]_vars, phase = "stopping"
  PROVE  \/ UNCHANGED <<phase, topics, logs, queue>>
         \/ StorageStep \/ Stopped \/ Crash
<1>1. /\ \A p \in Producers : prod[p].pc = "idle"
      /\ \A c \in Pollers : poll[c].pc = "idle"
      /\ \A k \in Creators : crt[k].pc = "idle"
      /\ mon.pc = "idle"
  BY BusyUp
<1>2. ~\E p \in Producers : ProduceStart(p) \/ ProduceBusy(p) \/ ProduceStep(p)
  BY <1>1 DEF ProduceStep, ProduceStart, ProduceBusy, ReadBack, Dispatch, Commit, CommitFails
<1>3. ~\E c \in Pollers : PollStart(c) \/ PollBusy(c) \/ PollStep(c)
  BY <1>1 DEF PollStep, PollStart, PollBusy, PollSleep, PollAgain, PollReply
<1>4. ~\E k \in Creators : CreateStart(k) \/ CreateBusy(k) \/ Created(k)
  BY <1>1 DEF CreateStart, CreateBusy, Created
<1>5. ~(MonitorStart \/ MonitorBusy \/ MonitorRegister \/ CreationFails \/ Start \/ Shutdown)
  BY <1>1 DEF MonitorStart, MonitorBusy, MonitorRegister, CreationFails, Start, Shutdown
<1>6. CASE (\E s \in spawned : CommitLater(s)) \/ UNCHANGED vars
  BY <1>6, Zenon DEF CommitLater, vars, disk, storage
<1> QED  BY <1>2, <1>3, <1>4, <1>5, <1>6, Zenon DEF Next

LEMMA WantedType == Wanted(hand.kind) \in Nat
  BY BrokerAssumption DEF Wanted

\* A command that wants no topic goes: the first to want one comes nearer.
LEMMA LeftoverTail ==
  ASSUME Single(queue), Single(queue'), Done, queue # <<>>, Wanted(hand.kind) = 0,
         topics = 0, Len(logs') = Len(logs), Leftover(queue)'
  PROVE  Leftover(queue)
<1>1. /\ queue \in Seq(Command) /\ queue' = Tail(queue) /\ hand = queue[1]
      /\ Len(queue) \in Nat \ {0} /\ DOMAIN queue = 1 .. Len(queue)
  BY DEF Single, Done, hand
<1>2. /\ Len(queue') = Len(queue) - 1 /\ DOMAIN queue' = 1 .. Len(queue) - 1
      /\ \A i \in 1 .. Len(queue) - 1 : queue'[i] = queue[i + 1]
  BY <1>1
<1>3. PICK i \in DOMAIN queue' :
        FirstToWant(queue, i)' /\ Wanted(queue'[i].kind) < Len(logs')
  BY DEF Leftover, FirstToWant, Wanted
<1>4. /\ Wanted(queue'[i].kind) # 0
      /\ \A j \in 1 .. i - 1 : Wanted(queue'[j].kind) = 0
  BY <1>3 DEF FirstToWant, Wanted
<1>5. /\ i \in Nat \ {0} /\ i + 1 \in DOMAIN queue /\ queue'[i] = queue[i + 1]
      /\ (i + 1) - 1 = i
  BY <1>1, <1>2
<1>6. ASSUME NEW j \in 1 .. (i + 1) - 1 PROVE Wanted(queue[j].kind) = 0
  <2>1. CASE j = 1
    BY <1>1, <2>1
  <2>2. CASE j # 1
    <3>1. j - 1 \in 1 .. i - 1 /\ j - 1 \in 1 .. Len(queue) - 1 /\ (j - 1) + 1 = j
      BY <1>1, <1>2, <1>5, <2>2
    <3>2. queue'[j - 1] = queue[j]
      BY <1>2, <3>1
    <3> QED  BY <1>4, <3>1, <3>2
  <2> QED  BY <2>1, <2>2
<1>7. FirstToWant(queue, i + 1)
  BY <1>4, <1>5, <1>6 DEF FirstToWant
<1> QED  BY <1>3, <1>5, <1>7 DEF Leftover

LEMMA StoppingStep ==
  ASSUME TypeInv, TypeInv', CountInv, [Next]_vars, phase' = "stopping", RestartsAsCreated
  PROVE  topics' \in {0, Len(logs')} /\ ~Leftover(queue)'
<1>1. /\ Len(logs) \in Nat /\ topics \in Nat /\ Wanted(hand.kind) \in Nat
      /\ Single(queue) /\ Single(queue')
  BY WantedType DEF TypeInv, DiskInv, QueueInv
<1>2. ASSUME topics' # 0 PROVE ~Leftover(queue)'
  BY <1>2 DEF Leftover
<1>3. CASE Shutdown
  <2>1. /\ topics \in {0, Len(logs)} /\ UNCHANGED <<topics, logs>>
        /\ queue' = SubSeq(queue, 1, InChannel) /\ ~Leftover(SubSeq(queue, 1, InChannel))
    BY <1>3, Zenon DEF Shutdown, Awry, RestartsAsCreated, disk, storage
  <2>2. ~Leftover(queue)'
    BY <2>1 DEF Leftover, FirstToWant, Wanted
  <2> QED  BY <2>1, <2>2
<1>4. CASE phase = "stopping"
  <2>1. topics \in {0, Len(logs)} /\ ~Leftover(queue)
    BY <1>4 DEF CountInv
  <2>2. CASE UNCHANGED <<phase, topics, logs, queue>>
    BY <2>1, <2>2 DEF Leftover, FirstToWant, Wanted
  <2>3. CASE OpenPartition
    <3>1. topics = 0 /\ Len(logs) < Wanted(hand.kind) /\ UNCHANGED <<topics, queue>>
      BY <2>3 DEF OpenPartition, storage
    <3>2. Len(logs') = Len(logs) + 1
      BY <2>3, OpenPartitionType DEF OpenPartition, TypeInv, DiskInv
    <3>3. queue # <<>>
      <4>1. ASSUME queue = <<>> PROVE FALSE
        <5>1. Wanted(hand.kind) = 0
          BY <4>1 DEF hand, Wanted
        <5> QED  BY <1>1, <3>1, <5>1
      <4> QED  BY <4>1
    <3>4. hand = queue[1] /\ DOMAIN queue \subseteq Nat \ {0}
      BY <1>1, <3>3 DEF hand, Single
    <3>5. ASSUME NEW i \in DOMAIN queue, FirstToWant(queue, i)
          PROVE  ~(Wanted(queue[i].kind) < Len(logs) + 1)
      <4>1. i \in Nat \ {0} /\ (i # 1 => 1 \in 1 .. i - 1)
        BY <3>4
      <4>2. Wanted(queue[1].kind) # 0
        BY <1>1, <3>1, <3>4
      <4>3. i = 1
        BY <3>5, <4>1, <4>2 DEF FirstToWant
      <4> QED  BY <1>1, <3>1, <3>4, <4>3
    <3>6. ~Leftover(queue)'
      BY <3>1, <3>2, <3>5 DEF Leftover, FirstToWant, Wanted
    <3> QED  BY <3>1, <3>6
  <2>4. CASE Finds
    <3>1. Ready /\ Done /\ topics' = Count /\ Len(logs') = Len(logs)
      <4>1. ~OpenPartition \/ Len(logs') = Len(logs)
        BY <2>4, LogsSteps DEF Finds, OpenPartition, Done, Ready
      <4> QED  BY <2>4, <4>1, LenSteps DEF Finds
    <3>2. CASE topics # 0
      <4>1. topics' = topics
        BY <3>1, <3>2 DEF Count
      <4> QED  BY <1>2, <2>1, <3>1, <3>2, <4>1
    <3>3. CASE topics = 0 /\ Wanted(hand.kind) = 0
      <4>1. topics' = 0 /\ queue # <<>>
        BY <3>1, <3>3 DEF Count, Ready
      <4> QED  BY <1>1, <2>1, <3>1, <3>3, <4>1, LeftoverTail
    <3>4. CASE topics = 0 /\ Wanted(hand.kind) # 0
      <4>1. /\ topics' = Wanted(hand.kind) /\ queue # <<>>
            /\ Len(logs) >= Wanted(hand.kind)
        BY <3>1, <3>4 DEF Count, Ready
      <4>2. hand = queue[1] /\ 1 \in DOMAIN queue
        BY <1>1, <4>1 DEF hand, Single
      <4>3. FirstToWant(queue, 1)
        BY <3>4, <4>2 DEF FirstToWant
      <4>4. ~(Wanted(hand.kind) < Len(logs))
        BY <2>1, <3>4, <4>2, <4>3 DEF Leftover
      <4> QED  BY <1>1, <1>2, <3>1, <3>4, <4>1, <4>4
    <3> QED  BY <3>2, <3>3, <3>4
  <2>5. CASE ExecuteReadBack
    <3>1. topics # 0
      BY <2>5, InHand DEF ExecuteReadBack, CountInv
    <3>2. UNCHANGED <<topics, logs>>
      BY <2>5 DEF ExecuteReadBack, disk, storage
    <3> QED  BY <1>2, <2>1, <3>1, <3>2
  <2>6. CASE ExecuteList
    <3>1. Wanted(hand.kind) = 0 /\ Done /\ UNCHANGED <<topics, logs>> /\ queue # <<>>
      BY <2>6 DEF ExecuteList, Wanted, disk, storage, hand
    <3>2. CASE topics # 0
      BY <1>2, <2>1, <3>1, <3>2
    <3>3. CASE topics = 0
      BY <1>1, <2>1, <3>1, <3>3, LeftoverTail
    <3> QED  BY <3>2, <3>3
  <2>7. CASE Stopped \/ Crash
    BY <2>7 DEF Stopped, Crash, Off
  <2>8. CASE ExecuteAppend \/ ExecuteFetch \/ ExecuteUnknown \/ ExecuteCreate
    <3>1. Finds
      BY <2>8, Zenon DEF ExecuteAppend, ExecuteFetch, ExecuteUnknown, ExecuteCreate, Finds
    <3> QED  BY <2>4, <3>1
  <2> QED
    BY <1>4, <2>2, <2>3, <2>5, <2>6, <2>7, <2>8, StoppingSteps DEF StorageStep
<1>5. CASE phase # "stopping" /\ ~Shutdown
  BY <1>5, TopicsSteps DEF Finds, Start, Stopped, Crash, Off
<1> QED  BY <1>3, <1>4, <1>5

LEMMA ReadbackSteps ==
  ASSUME TypeInv, [Next]_vars, NEW m \in ToSet(queue'), m.kind = "readback"
  PROVE  \/ m \in ToSet(queue)
         \/ \E p \in Producers : prod[p].pc \in {"appended", "found"}
<1>1. Single(queue)
  BY DEF TypeInv, QueueInv
<1>2. ASSUME NEW p \in Producers, ReadBack(p) \/ Dispatch(p)
      PROVE  prod[p].pc \in {"appended", "found"}
  BY <1>2 DEF ReadBack, Dispatch
<1>3. ASSUME NEW kind \in {"append", "fetch", "create", "list"}, NEW h, Send(kind, h)
      PROVE  m \in ToSet(queue)
  <2> DEFINE x == [kind |-> kind, of |-> h]
  <2>1. queue' = Append(queue, x) /\ x.kind = kind
    BY <1>3 DEF Send
  <2> HIDE DEF x
  <2>2. /\ DOMAIN queue' = 1 .. Len(queue) + 1 /\ Len(queue) \in Nat
        /\ DOMAIN queue = 1 .. Len(queue)
        /\ \A i \in 1 .. Len(queue) : queue'[i] = queue[i]
        /\ queue'[Len(queue) + 1] = x
    BY <1>1, <2>1 DEF Single
  <2>3. PICK i \in DOMAIN queue' : m = queue'[i]
    BY DEF ToSet
  <2>4. i # Len(queue) + 1
    BY <2>1, <2>2, <2>3
  <2> QED  BY <2>2, <2>3, <2>4 DEF ToSet
<1>4. ASSUME NEW h, TimesOut(h) PROVE m \in ToSet(queue)
  <2>1. PICK i \in DOMAIN queue : queue' = RemoveAt(queue, i)
    BY <1>4 DEF TimesOut
  <2> QED  BY <1>1, <2>1, Left
<1>5. ASSUME Done PROVE m \in ToSet(queue)
  <2>1. CASE queue # <<>>
    BY <1>1, <1>5, <2>1, Carried
  <2>2. CASE queue = <<>>
    <3>1. DOMAIN queue' = {}
      BY <1>5, <2>2 DEF Done
    <3> QED  BY <3>1 DEF ToSet
  <2> QED  BY <2>1, <2>2
<1>6. ASSUME UNCHANGED queue PROVE m \in ToSet(queue)
  BY <1>6
<1>7. ASSUME Shutdown PROVE m \in ToSet(queue)
  BY <1>1, <1>7, Cut DEF Shutdown
<1>8. ASSUME Off PROVE FALSE
  BY <1>8, Emptied DEF Off
<1>9. CASE \E p \in Producers : ProduceStart(p) \/ ProduceBusy(p) \/ ProduceStep(p)
  BY <1>2, <1>3, <1>4, <1>6, <1>9, Zenon DEF ProduceStart, ProduceBusy, ProduceStep,
     Commit, CommitFails
<1>10. CASE \E c \in Pollers : PollStart(c) \/ PollBusy(c) \/ PollStep(c)
  BY <1>3, <1>4, <1>6, <1>10, Zenon DEF PollStart, PollBusy, PollStep, PollSleep,
     PollAgain, PollReply, Ask
<1>11. CASE \E k \in Creators : CreateStart(k) \/ CreateBusy(k) \/ Created(k)
  BY <1>3, <1>4, <1>6, <1>11, Zenon DEF CreateStart, CreateBusy, Created
<1>12. CASE MonitorStart \/ MonitorBusy \/ MonitorRegister
  BY <1>3, <1>4, <1>6, <1>12, Zenon DEF MonitorStart, MonitorBusy, MonitorRegister
<1>13. CASE StorageStep \/ CreationFails \/ (\E s \in spawned : CommitLater(s))
  BY <1>5, <1>6, <1>13, Zenon DEF StorageStep, OpenPartition, ExecuteAppend,
     ExecuteReadBack, ExecuteFetch, ExecuteUnknown, ExecuteCreate, ExecuteList,
     CreationFails, CommitLater
<1>14. CASE Start \/ Shutdown \/ Stopped \/ Crash \/ UNCHANGED vars
  BY <1>6, <1>7, <1>8, <1>14, Zenon DEF Start, Stopped, Crash, vars
<1> QED
  BY <1>9, <1>10, <1>11, <1>12, <1>13, <1>14, Zenon DEF Next

\* A topic that is there stays there until the broker is down.
LEMMA TopicsKept ==
  ASSUME TypeInv, [Next]_vars, topics # 0
  PROVE  topics' = topics \/ (phase' = "down" /\ Off)
<1>1. CASE Start
  BY <1>1 DEF Start, TypeInv, DiskInv
<1>2. CASE ~Start
  BY <1>2, TopicsSteps DEF Finds, Count, Shutdown, Stopped, Crash, Off, storage
<1> QED  BY <1>1, <1>2

LEMMA CountStep ==
  ASSUME TypeInv, TypeInv', CountInv, [Next]_vars, RestartsAsCreated
  PROVE  CountInv'
<1>1. ASSUME NEW m \in ToSet(queue'), m.kind = "readback" PROVE topics' # 0
  <2>1. topics # 0
    BY <1>1, ReadbackSteps DEF CountInv
  <2>2. ~Off
    BY <1>1, Emptied DEF Off
  <2> QED  BY <2>1, <2>2, TopicsKept
<1>2. ASSUME NEW p \in Producers, prod'[p].pc \in {"appended", "read", "found", "commit"}
      PROVE  topics' # 0
  <2>1. phase' = "up"
    BY <1>2 DEF TypeInv, QueueInv, AllIdle
  <2>2. CASE prod[p].pc \in {"appended", "read", "found", "commit"}
    BY <2>1, <2>2, TopicsKept DEF CountInv
  <2>3. CASE IsAppended(p)
    BY <2>3 DEF IsAppended, ExecuteAppend
  <2> QED
    BY <1>2, <2>2, <2>3, RequestSteps
       DEF ProdSteps, Cleared, GoesOn, IsDispatched, IsCommitted
<1> QED  BY <1>1, <1>2, StoppingStep DEF CountInv

-----------------------------------------------------------------------------
(* Records with an identity.                                               *)

\* What routes a record does not change once there is a topic.
LEMMA RoutesKept ==
  ASSUME TypeInv, CountInv, [Next]_vars, RestartsAsCreated, Routes # 0
  PROVE  Routes' = Routes
<1>1. CASE Start
  BY <1>1 DEF Start, Routes
<1>2. CASE Stopped
  <2>1. topics = Len(logs) /\ phase = "stopping"
    BY <1>2 DEF Stopped, CountInv, Routes
  <2> QED  BY <1>2, <2>1 DEF Stopped, Off, Routes, disk
<1>3. CASE Crash
  <2>1. phase # "down" /\ topics \in {0, Len(logs)} /\ phase' = "down" /\ UNCHANGED logs
    BY <1>3, Zenon DEF Crash, Awry, RestartsAsCreated, Off, disk
  <2> QED  BY <2>1 DEF Routes
<1>4. CASE Shutdown
  BY <1>4 DEF Shutdown, Routes, storage
<1>5. CASE UNCHANGED <<phase, topics>> \/ Finds
  <2>1. CASE phase = "down"
    <3>1. queue = <<>> /\ UNCHANGED phase
      BY <1>5, <2>1 DEF TypeInv, QueueInv, Finds
    <3>2. ~ExecuteAppend /\ ~OpenPartition
      <4>1. Wanted("none") = 0
        BY DEF Wanted
      <4> QED  BY <3>1, <4>1, LenSteps DEF ExecuteAppend, OpenPartition, hand
    <3> QED  BY <2>1, <3>1, <3>2, LogsSteps DEF Routes
  <2>2. CASE phase # "down"
    <3>1. topics # 0 /\ topics' = topics
      BY <1>5, <2>2 DEF Routes, Finds, Count
    <3> QED  BY <1>5, <2>2, <3>1 DEF Routes, Finds
  <2> QED  BY <2>1, <2>2
<1> QED  BY <1>1, <1>2, <1>3, <1>4, <1>5, TopicsSteps

\* The log of a record with an identity gets at most one record from its
\* append, the others none.
LEMMA GoingOnce ==
  ASSUME TypeInv, Ready, Count # 0, NEW p \in Identified, NEW l \in DOMAIN logs
  PROVE  /\ Cardinality(Going(p, l - 1)) <= 1
         /\ l # Destination(p, 1) + 1 => Cardinality(Going(p, l - 1)) = 0
<1>1. p \in Producers /\ Batch(p) = {1} /\ l \in Nat
  <2>1. p \in Producers /\ p \notin Batches
    BY BrokerAssumption
  <2>2. logs \in Seq(Seq(Producers \cup Nat))
    BY Zenon DEF TypeInv, DiskInv
  <2> QED  BY <2>1, <2>2, BatchType
<1>2. Destination(p, 1) \in Nat
  BY <1>1, DestinationType
<1>3. CASE l = Destination(p, 1) + 1
  <2>1. Going(p, l - 1) = {1}
    BY <1>1, <1>2, <1>3 DEF Going
  <2> QED  BY <1>3, <2>1, FS_Singleton
<1>4. CASE l # Destination(p, 1) + 1
  <2>1. l - 1 # Destination(p, 1)
    BY <1>1, <1>2, <1>4
  <2>2. Going(p, l - 1) = {}
    BY <1>1, <2>1 DEF Going
  <2> QED  BY <2>2, FS_EmptySet
<1> QED  BY <1>3, <1>4

\* An append of p adds p to the log p is routed to, if it is not there.
LEMMA AppendOnce ==
  ASSUME TypeInv, ExecuteAppend, NEW p \in Identified, p = hand.of, ~Duplicate(p)
  PROVE  \A l \in DOMAIN logs :
           /\ Len(logs'[l]) <= Len(logs[l]) + 1
           /\ l # Destination(p, 1) + 1 => Len(logs'[l]) = Len(logs[l])
<1> TAKE l \in DOMAIN logs
<1> DEFINE n == Cardinality(Going(p, l - 1))
<1>1. p \in Producers /\ Ready /\ Count # 0
  BY BrokerAssumption DEF ExecuteAppend
<1>2. n \in Nat /\ n <= 1 /\ (l # Destination(p, 1) + 1 => n = 0)
  BY <1>1, GoingType, GoingOnce
<1>3. logs[l] \in Seq(Producers \cup Nat) /\ Len(logs[l]) \in Nat
  BY LogsType DEF TypeInv, DiskInv, Logs
<1>4. logs'[l] = logs[l] \o [j \in 1 .. n |-> p]
  BY DEF ExecuteAppend
<1> HIDE DEF n
<1>5. Len(logs'[l]) = Len(logs[l]) + n
  BY <1>1, <1>2, <1>3, <1>4, Extended
<1> QED  BY <1>2, <1>3, <1>5

LEMMA RoutedAppend ==
  ASSUME TypeInv, TypeInv', CountInv, RoutedInv, ExecuteAppend
  PROVE  RoutedInv'
<1> SUFFICES ASSUME NEW p \in Identified, NEW l \in DOMAIN logs',
                    NEW i \in DOMAIN logs'[l], logs'[l][i] = p
             PROVE  /\ Routes' # 0
                    /\ l = (Hash[p] % Routes') + 1
                    /\ \A j \in DOMAIN logs'[l] : logs'[l][j] = p => i = j
  BY DEF RoutedInv
<1>1. /\ hand.of \in Producers /\ Grown(hand.of, logs, logs') /\ Ready /\ Count # 0
      /\ topics' = Count /\ UNCHANGED phase /\ queue # <<>>
  BY AppendFacts DEF ExecuteAppend, Ready
<1>2. phase # "down" /\ Routes = topics /\ Routes' = Count
  BY <1>1, BusyUp DEF Routes
<1>3. /\ Len(logs) \in Nat /\ DOMAIN logs = 1 .. Len(logs) /\ l \in DOMAIN logs
      /\ Len(logs[l]) \in Nat /\ DOMAIN logs[l] = 1 .. Len(logs[l])
      /\ Len(logs'[l]) \in Nat /\ DOMAIN logs'[l] = 1 .. Len(logs'[l])
  <2>1. logs \in Logs /\ logs' \in Logs /\ Len(logs') = Len(logs)
    BY <1>1 DEF TypeInv, DiskInv, Logs, Grown
  <2>2. l \in DOMAIN logs
    BY <2>1, LogsType
  <2> QED  BY <2>1, <2>2, LogsType
\* Where p was before, it stays.
<1>4. ASSUME NEW j \in DOMAIN logs[l], logs[l][j] = p
      PROVE  /\ Count = topics /\ l = (Hash[p] % Count) + 1
             /\ \A k \in DOMAIN logs[l] : logs[l][k] = p => j = k
  BY <1>2, <1>3, <1>4 DEF RoutedInv, Count
<1>5. ASSUME NEW j \in DOMAIN logs'[l], logs'[l][j] = p, ~(p = hand.of /\ ~Duplicate(p))
      PROVE  j \in DOMAIN logs[l] /\ logs[l][j] = p
  <2>1. CASE p = hand.of /\ Duplicate(p)
    <3>1. logs' = logs
      BY <2>1 DEF ExecuteAppend
    <3> QED  BY <1>5, <3>1
  <2>2. CASE p # hand.of
    <3>1. ~(j > Len(logs[l]))
      BY <1>1, <1>3, <1>5, <2>2 DEF Grown
    <3>2. j \in DOMAIN logs[l]
      BY <1>3, <3>1
    <3> QED  BY <1>1, <1>3, <1>5, <3>2 DEF Grown
  <2> QED  BY <1>5, <2>1, <2>2
<1>6. CASE p = hand.of /\ ~Duplicate(p)
  <2> DEFINE d == Destination(p, 1) + 1
  <2>1. d = (Hash[p] % Count) + 1 /\ d \in DOMAIN logs
    <3>1. p \in Producers /\ 1 \in Nat \ {0} /\ 1 \in Batch(p)
      BY <1>1, <1>6 DEF Batch
    <3>2. d = (Hash[p] % Count) + 1
      BY DEF Destination
    <3>3. d \in DOMAIN logs
      BY <1>1, <3>1, DestinationType
    <3> QED  BY <3>2, <3>3
  <2>2. p \notin ToSet(logs[d])
    BY <1>6 DEF Duplicate
  <2>3. /\ Len(logs'[l]) <= Len(logs[l]) + 1
        /\ l # d => Len(logs'[l]) = Len(logs[l])
    BY <1>3, <1>6, AppendOnce
  <2> HIDE DEF d
  <2>4. \A j \in DOMAIN logs[l] : logs[l][j] # p
    BY <1>4, <2>1, <2>2 DEF ToSet
  <2>5. \A j \in DOMAIN logs'[l] : logs'[l][j] = p => j = Len(logs[l]) + 1
    <3> SUFFICES ASSUME NEW j \in DOMAIN logs'[l], logs'[l][j] = p
                 PROVE  j = Len(logs[l]) + 1
      OBVIOUS
    <3>1. j \notin DOMAIN logs[l]
      BY <1>1, <1>3, <2>4 DEF Grown
    <3>2. j \in Nat /\ j <= Len(logs'[l]) /\ j > Len(logs[l])
      BY <1>3, <3>1
    <3>3. Len(logs'[l]) <= Len(logs[l]) + 1
      BY <2>3
    <3>4. Len(logs'[l]) \in Nat /\ Len(logs[l]) \in Nat
      BY <1>3
    <3> QED  BY <3>2, <3>3, <3>4
  <2>6. l = d
    <3>1. i = Len(logs[l]) + 1
      BY <2>5
    <3>2. i <= Len(logs'[l])
      BY <1>3
    <3>3. Len(logs'[l]) # Len(logs[l])
      <4>1. Len(logs'[l]) \in Nat /\ Len(logs[l]) \in Nat
        BY <1>3
      <4>2. Len(logs[l]) + 1 <= Len(logs'[l])
        BY <3>1, <3>2
      <4> QED  BY <4>1, <4>2
    <3> QED  BY <2>3, <3>3
  <2> QED  BY <1>1, <1>2, <2>1, <2>5, <2>6
<1>7. CASE ~(p = hand.of /\ ~Duplicate(p))
  BY <1>1, <1>2, <1>4, <1>5, <1>7
<1> QED  BY <1>6, <1>7

LEMMA RoutedStep ==
  ASSUME TypeInv, TypeInv', CountInv, RoutedInv, [Next]_vars, RestartsAsCreated
  PROVE  RoutedInv'
<1>1. CASE ExecuteAppend
  BY <1>1, RoutedAppend
<1>2. CASE UNCHANGED logs
  <2> SUFFICES ASSUME NEW p \in Identified, NEW l \in DOMAIN logs,
                      NEW i \in DOMAIN logs[l], logs[l][i] = p
               PROVE  /\ Routes' # 0
                      /\ l = (Hash[p] % Routes') + 1
                      /\ \A j \in DOMAIN logs[l] : logs[l][j] = p => i = j
    BY <1>2 DEF RoutedInv
  <2>1. /\ Routes # 0 /\ l = (Hash[p] % Routes) + 1
        /\ \A j \in DOMAIN logs[l] : logs[l][j] = p => i = j
    BY DEF RoutedInv
  <2>2. Routes' = Routes
    BY <2>1, RoutesKept
  <2> QED  BY <2>1, <2>2
<1>3. CASE OpenPartition
  <2>1. topics = 0 /\ logs' = Append(logs, <<>>) /\ hand.kind # "none"
    <3>1. Wanted("none") = 0 /\ Len(logs) \in Nat
      BY DEF Wanted, TypeInv, DiskInv
    <3> QED  BY <1>3, <3>1 DEF OpenPartition
  <2>2. Routes = 0
    BY <2>1, InHand DEF Routes
  <2>3. \A p \in Identified, l \in DOMAIN logs : \A i \in DOMAIN logs[l] : logs[l][i] # p
    BY <2>2 DEF RoutedInv
  <2>4. \A l \in DOMAIN logs' :
          \/ l \in DOMAIN logs /\ logs'[l] = logs[l]
          \/ DOMAIN logs'[l] = {}
    <3>1. /\ Len(logs) \in Nat /\ DOMAIN logs = 1 .. Len(logs)
          /\ DOMAIN logs' = 1 .. Len(logs) + 1
          /\ \A l \in 1 .. Len(logs) : logs'[l] = logs[l]
          /\ logs'[Len(logs) + 1] = <<>>
      BY <2>1 DEF TypeInv, DiskInv
    <3> QED  BY <3>1
  <2> QED  BY <2>3, <2>4 DEF RoutedInv
<1> QED  BY <1>1, <1>2, <1>3, LogsSteps

\* A record with an identity is stored once in the whole topic, however often
\* it is sent again after timeouts, errors, aborted connections and crashes:
\* every attempt is routed to the log that has it, unless a restart counted
\* the logs of a failed creation.
THEOREM IdempotentProduce ==
  ASSUME RestartsAsCreated
  PROVE  Spec => []StoredOnce
<1>1. Init => CountInv /\ RoutedInv
  <2> SUFFICES ASSUME Init PROVE CountInv /\ RoutedInv
    OBVIOUS
  <2>1. CountInv
    <3>1. ToSet(queue) = {} /\ phase = "down" /\ \A p \in Producers : prod[p].pc = "idle"
      BY Emptied DEF Init, IdleProduce
    <3> QED  BY <3>1 DEF CountInv
  <2>2. RoutedInv
    <3>1. \A l \in DOMAIN logs : \A i \in DOMAIN logs[l] : logs[l][i] \in Nat
      BY BrokerAssumption DEF Init
    <3>2. \A p \in Identified : p \notin Nat
      BY BrokerAssumption
    <3> QED  BY <3>1, <3>2 DEF RoutedInv
  <2> QED  BY <2>1, <2>2
<1>2. RoutedInv => StoredOnce
  <2> SUFFICES ASSUME RoutedInv, NEW p \in Identified, NEW l \in DOMAIN logs,
                      NEW m \in DOMAIN logs, NEW i \in DOMAIN logs[l],
                      NEW j \in DOMAIN logs[m], logs[l][i] = p, logs[m][j] = p
               PROVE  l = m /\ i = j
    BY DEF StoredOnce
  <2>1. l = m
    BY DEF RoutedInv
  <2> QED  BY <2>1 DEF RoutedInv
<1>3. TypeInv /\ TypeInv' /\ CountInv /\ RoutedInv /\ [Next]_vars => CountInv' /\ RoutedInv'
  BY CountStep, RoutedStep
<1> QED  BY <1>1, <1>2, <1>3, InitType, TypeStep, PTL DEF Spec

-----------------------------------------------------------------------------
(* An acknowledged creation.                                               *)

\* A failed creation by a record or a fetch leaves no more logs than a
\* creation asks for.
CreatesEnough == ~AutoCreate \/ Default <= Asked

LEMMA CreateSteps ==
  ASSUME TypeInv, [Next]_vars, NEW k \in Creators
  PROVE  /\ crt'[k].pc = "created" =>
              crt[k].pc = "created" \/ (ExecuteCreate /\ topics = 0 /\ phase = "up")
         /\ crt'[k].reply = "ok" =>
              \/ crt[k].reply = "ok"
              \/ crt[k].pc = "created" /\ Created(k) /\ Persist(Ensured(Asked))
<1>1. crt \in [Creators -> [pc : {"idle", "create", "created"},
                            reply : {"none", "ok", "error"}]]
  BY DEF TypeInv, HandlerInv
<1>2. CASE UNCHANGED crt
  BY <1>2
<1>3. ASSUME NEW m \in Creators, CreateStart(m) \/ CreateBusy(m)
      PROVE  crt'[k].pc = crt[k].pc \/ crt'[k].pc # "created"
  BY <1>1, <1>3 DEF CreateStart, CreateBusy, IdleCreate
<1>4. ASSUME NEW m \in Creators, CreateStart(m) \/ CreateBusy(m)
      PROVE  crt'[k].reply = crt[k].reply \/ crt'[k].reply # "ok"
  BY <1>1, <1>4 DEF CreateStart, CreateBusy, IdleCreate
<1>5. ASSUME NEW m \in Creators, Created(m)
      PROVE  /\ crt'[k].pc = "created" => crt[k].pc = "created"
             /\ crt'[k].reply = "ok" =>
                  \/ crt[k].reply = "ok"
                  \/ k = m /\ Persist(Ensured(Asked))
  <2>1. \/ Persist(Ensured(Asked)) /\ crt' = [crt EXCEPT ![m] = IdleCreate("ok")]
        \/ crt' = [crt EXCEPT ![m] = IdleCreate("error")]
    BY <1>5, Zenon DEF Created
  <2> QED  BY <1>1, <2>1 DEF IdleCreate
<1>6. CASE ExecuteCreate
  <2>1. hand.of \in Creators
    BY <1>6, InHand DEF ExecuteCreate
  <2>2. CASE k = hand.of /\ phase = "up"
    <3>1. crt'[k] = IF topics = 0 THEN [crt[k] EXCEPT !.pc = "created"] ELSE IdleCreate("error")
      BY <1>1, <1>6, <2>1, <2>2 DEF ExecuteCreate, Answered
    <3>2. [crt[k] EXCEPT !.pc = "created"].reply = crt[k].reply
      BY <1>1
    <3>3. IdleCreate("error").pc = "idle" /\ IdleCreate("error").reply = "error"
      BY DEF IdleCreate
    <3> QED  BY <1>6, <2>2, <3>1, <3>2, <3>3
  <2>3. CASE ~(k = hand.of /\ phase = "up")
    BY <1>1, <1>6, <2>1, <2>3 DEF ExecuteCreate, Answered
  <2> QED  BY <2>2, <2>3
<1>7. CASE CreationFails
  <2>1. crt'[k] = crt[k] \/ crt'[k] = IdleCreate("error")
    BY <1>1, <1>7 DEF CreationFails
  <2> QED  BY <2>1 DEF IdleCreate
<1>8. CASE Shutdown \/ Crash
  <2>1. crt'[k] = crt[k] \/ crt'[k] = IdleCreate("error")
    BY <1>8 DEF Shutdown, Crash, Disconnected
  <2> QED  BY <2>1 DEF IdleCreate
<1>9. CASE \/ \E p \in Producers : ProduceStart(p) \/ ProduceBusy(p) \/ ProduceStep(p)
           \/ \E s \in spawned : CommitLater(s)
           \/ \E c \in Pollers : PollStart(c) \/ PollBusy(c) \/ PollStep(c)
           \/ MonitorStart \/ MonitorBusy \/ MonitorRegister
           \/ OpenPartition \/ ExecuteAppend \/ ExecuteReadBack \/ ExecuteFetch
           \/ ExecuteUnknown \/ ExecuteList \/ Start \/ Stopped
           \/ UNCHANGED vars
  <2>1. UNCHANGED crt
    BY <1>9, Zenon DEF ProduceStep, ProduceStart, ProduceBusy, ReadBack, Dispatch, Commit,
       CommitFails, CommitLater, PollStep, PollStart, PollBusy, PollSleep, PollAgain,
       PollReply, MonitorStart, MonitorBusy, MonitorRegister, OpenPartition,
       ExecuteAppend, ExecuteReadBack, ExecuteFetch, ExecuteUnknown, ExecuteList,
       Start, Stopped, handlers, vars
  <2> QED  BY <1>2, <2>1
<1>10. ASSUME NEW m \in Creators, Created(m) PROVE crt[m].pc = "created"
  BY <1>10 DEF Created
<1> QED
  BY <1>3, <1>4, <1>5, <1>6, <1>7, <1>8, <1>9, <1>10, Zenon DEF Next, StorageStep

LEMMA MonitorSteps ==
  ASSUME TypeInv, [Next]_vars
  PROVE  mon' = mon \/ MonitorStart \/ mon' = IdleMonitor \/ ExecuteList
  BY Zenon DEF Next, vars, ProduceStep, ProduceStart, ProduceBusy, ReadBack, Dispatch,
     Commit, CommitFails, CommitLater, PollStep, PollStart, PollBusy, PollSleep, PollAgain,
     PollReply, CreateStart, CreateBusy, Created, MonitorBusy,
     MonitorRegister, StorageStep, OpenPartition, ExecuteAppend, ExecuteReadBack,
     ExecuteFetch, ExecuteUnknown, ExecuteCreate, CreationFails, Start, Shutdown,
     Stopped, Crash, Disconnected, handlers

LEMMA DealtSteps ==
  ASSUME TypeInv, [Next]_vars
  PROVE  \/ UNCHANGED dealt \/ dealt' = Asked
         \/ Start \/ phase' = "down"
  BY Zenon DEF Next, vars, ProduceStep, ProduceStart, ProduceBusy, ReadBack, Dispatch,
     Commit, CommitFails, CommitLater, PollStep, PollStart, PollBusy, PollSleep, PollAgain,
     PollReply, CreateStart, CreateBusy, Created, MonitorStart, MonitorBusy,
     MonitorRegister, StorageStep, OpenPartition, ExecuteAppend, ExecuteReadBack,
     ExecuteFetch, ExecuteUnknown, ExecuteCreate, ExecuteList, CreationFails, Shutdown,
     Stopped, Crash, Off

\* The topic does not lose partitions while the broker is up.
LEMMA TopicsGrow ==
  ASSUME TypeInv, TypeInv', [Next]_vars, phase' # "down"
  PROVE  topics' \in Nat /\ topics \in Nat /\ topics' >= topics
<1>1. topics' \in Nat /\ topics \in Nat
  BY DEF TypeInv, DiskInv
<1> QED  BY <1>1, TopicsKept

\* The topic that is created has the partitions it was asked to have.
LEMMA AskedCount ==
  ASSUME TypeInv, CreatedInv, ExecuteCreate, topics = 0
  PROVE  topics' = Asked /\ Len(logs) = Asked
<1>1. hand.kind = "create" /\ Wanted("create") = Asked /\ Ready /\ topics' = Count
  BY DEF ExecuteCreate, Wanted
<1>2. phase # "down"
  BY <1>1, BusyUp DEF Ready
<1>3. Len(logs) \in Nat /\ Asked \in Nat
  BY BrokerAssumption DEF TypeInv, DiskInv
<1> QED  BY <1>1, <1>2, <1>3 DEF CreatedInv, Ready, Count

LEMMA Lens ==
  ASSUME TypeInv
  PROVE  /\ Len(entries) \in Nat /\ Len(file) \in Nat /\ Len(logs) \in Nat
         /\ topics \in Nat /\ dealt \in Nat /\ topics <= Len(logs)
<1>1. /\ entries \in Seq(Nat) /\ file \in Seq(Nat \cup {Legacy})
      /\ logs \in Seq(Seq(Producers \cup Nat))
      /\ topics \in Nat /\ dealt \in Nat /\ topics <= Len(logs)
  BY Zenon DEF TypeInv, DiskInv
<1> QED  BY <1>1

LEMMA LensNext ==
  ASSUME TypeInv'
  PROVE  /\ Len(entries') \in Nat /\ Len(file') \in Nat /\ Len(logs') \in Nat
         /\ topics' \in Nat
<1>1. /\ entries' \in Seq(Nat) /\ file' \in Seq(Nat \cup {Legacy})
      /\ logs' \in Seq(Seq(Producers \cup Nat)) /\ topics' \in Nat
  BY Zenon DEF TypeInv, DiskInv
<1> QED  BY <1>1

LEMMA LensStep ==
  ASSUME TypeInv, TypeInv', CreatedInv, [Next]_vars
  PROVE  Len(entries') <= topics' /\ Len(file') <= Len(logs')
<1>1. /\ Len(entries) \in Nat /\ Len(file) \in Nat /\ Len(logs) \in Nat
      /\ Len(entries') \in Nat /\ Len(file') \in Nat /\ Len(logs') \in Nat
      /\ topics \in Nat /\ topics' \in Nat /\ mon.count \in Nat
      /\ topics <= Len(logs)
      /\ Len(entries) <= topics /\ Len(file) <= Len(logs) /\ mon.count <= topics
  <2>1. mon \in [pc : {"idle", "list", "listed"}, count : Nat]
    BY Zenon DEF TypeInv, HandlerInv
  <2>2. Len(entries) <= topics /\ Len(file) <= Len(logs) /\ mon.count <= topics
    BY Zenon DEF CreatedInv
  <2>3. mon.count \in Nat
    BY <2>1
  <2> QED  BY <2>2, <2>3, Lens, LensNext
<1>2. Len(logs') >= Len(logs)
  BY <1>1, LenSteps
<1>3. CASE UNCHANGED <<phase, entries, file>>
  <2>1. CASE phase' = "down"
    <3>1. topics = 0 /\ topics' = 0
      BY <1>3, <2>1 DEF TypeInv, DiskInv
    <3> QED  BY <1>1, <1>2, <1>3, <3>1
  <2>2. CASE phase' # "down"
    BY <1>1, <1>2, <1>3, <2>2, TopicsGrow
  <2> QED  BY <2>1, <2>2
<1>4. CASE Raising
  <2>1. PICK e \in Seq(Nat) : /\ entries' = e /\ (file' = file \/ file' = e)
                              /\ Len(e) \in Registering
    BY <1>4, Zenon DEF Raising, Persist, PersistFails
  <2>2. Len(e) <= topics /\ Len(e) \in Nat
    BY <1>1, <2>1 DEF Registering, CreatedInv
  <2>3. topics' >= topics
    BY <1>4, TopicsGrow DEF Raising
  <2> QED  BY <1>1, <1>2, <2>1, <2>2, <2>3
<1>5. CASE Start
  <2>1. /\ Len(Recovered) = IF Len(logs) > Len(file) THEN Len(logs) ELSE Len(file)
        /\ entries' = Recovered /\ file' = Recovered /\ topics' = Len(logs)
        /\ UNCHANGED logs
    BY <1>5, RecoveredType DEF Start, TypeInv
  <2> QED  BY <1>1, <2>1
<1>6. CASE Shutdown
  BY <1>1, <1>6 DEF Shutdown, disk, storage
<1>7. CASE Stopped \/ Crash
  <2>1. Len(<<>>) = 0
    OBVIOUS
  <2>2. entries' = <<>> /\ topics' = 0 /\ UNCHANGED <<logs, file>>
    BY <1>7, Zenon DEF Stopped, Crash, Off, disk
  <2> QED  BY <1>1, <2>1, <2>2
<1> QED  BY <1>3, <1>4, <1>5, <1>6, <1>7, RegistrySteps

LEMMA OpenedStep ==
  ASSUME TypeInv, TypeInv', CreatedInv, [Next]_vars, CreatesEnough,
         phase' # "down", topics' = 0
  PROVE  Len(logs') <= Asked
<1>1. Asked \in Nat /\ Default \in Nat /\ Len(logs) \in Nat /\ topics \in Nat
  BY BrokerAssumption DEF TypeInv, DiskInv
<1>2. CASE Start
  <2>1. Len(logs') = 0
    BY <1>2 DEF Start
  <2> QED  BY <1>1, <2>1
<1>3. CASE ~Start
  <2>1. phase # "down" /\ topics = 0
    <3>1. topics = 0
      BY TopicsKept
    <3>2. phase # "down"
      BY <1>3, TopicsSteps, BusyUp DEF Finds, Ready, Shutdown, Stopped, Crash
    <3> QED  BY <3>1, <3>2
  <2>2. Len(logs) <= Asked
    BY <2>1 DEF CreatedInv
  <2>3. CASE OpenPartition /\ Len(logs') = Len(logs) + 1
    <3>1. Wanted(hand.kind) <= Asked /\ Wanted(hand.kind) \in Nat
      BY <1>1, BrokerAssumption DEF Wanted, CreatesEnough
    <3>2. Len(logs) < Wanted(hand.kind)
      BY <2>3 DEF OpenPartition
    <3> QED  BY <1>1, <2>3, <3>1, <3>2
  <2> QED  BY <2>2, <2>3, LenSteps
<1> QED  BY <1>2, <1>3

LEMMA ListedStep ==
  ASSUME TypeInv, TypeInv', CreatedInv, [Next]_vars
  PROVE  mon'.count <= topics' /\ (mon'.pc # "listed" => mon'.count = 0)
<1>1. /\ topics \in Nat /\ topics' \in Nat /\ mon.count \in Nat /\ mon.count <= topics
      /\ mon.pc # "listed" => mon.count = 0
      /\ mon \in [pc : {"idle", "list", "listed"}, count : Nat]
  BY DEF TypeInv, DiskInv, HandlerInv, CreatedInv
<1>2. CASE mon' = IdleMonitor
  BY <1>1, <1>2 DEF IdleMonitor
<1>3. CASE MonitorStart
  <2>1. mon'.count = mon.count /\ mon.count = 0
    BY <1>1, <1>3 DEF MonitorStart
  <2> QED  BY <1>1, <2>1
<1>4. CASE ExecuteList \/ mon' = mon
  <2>1. CASE phase' = "down"
    <3>1. mon'.pc = "idle" /\ (mon' = mon => mon.count = 0)
      BY <1>1, <2>1, BusyUp DEF TypeInv, QueueInv, AllIdle
    <3>2. ~ExecuteList
      <4> SUFFICES ASSUME ExecuteList PROVE FALSE
        OBVIOUS
      <4>1. hand.kind = "list" /\ phase' = phase
        BY DEF ExecuteList
      <4> QED  BY <2>1, <4>1, InHand
    <3> QED  BY <1>1, <1>4, <3>1, <3>2
  <2>2. CASE phase' # "down"
    <3>1. topics' >= topics
      BY <2>2, TopicsGrow
    <3>2. CASE mon' = mon
      BY <1>1, <3>1, <3>2
    <3>3. CASE ExecuteList /\ mon' # mon
      <4>1. mon' = [pc |-> "listed", count |-> topics]
        BY <3>3 DEF ExecuteList, Answered
      <4> QED  BY <1>1, <3>1, <4>1
    <3> QED  BY <1>4, <3>2, <3>3
  <2> QED  BY <2>1, <2>2
<1> QED  BY <1>2, <1>3, <1>4, MonitorSteps

\* While a topic is there, and while the broker is down, no log is opened.
LEMMA LogsCount ==
  ASSUME TypeInv, [Next]_vars, topics # 0 \/ phase = "down"
  PROVE  Len(logs') = Len(logs)
<1>1. ~OpenPartition
  <2> SUFFICES ASSUME OpenPartition PROVE FALSE
    OBVIOUS
  <2>1. topics = 0 /\ Len(logs) < Wanted(hand.kind) /\ Len(logs) \in Nat
    BY DEF OpenPartition, TypeInv, DiskInv
  <2>2. hand.kind # "none"
    BY <2>1 DEF Wanted
  <2> QED  BY <2>1, <2>2, InHand
<1> QED  BY <1>1, LenSteps

LEMMA KeptStep ==
  ASSUME TypeInv, TypeInv', CreatedInv, [Next]_vars, NEW k \in Creators
  PROVE  /\ crt'[k].pc = "created" => topics' = Asked /\ Len(logs') = Asked
         /\ crt'[k].reply = "ok" =>
              /\ Len(logs') = Asked
              /\ phase' # "down" => topics' = Asked
              /\ phase' = "up" => dealt' = Asked /\ Len(entries') = Asked
<1>1. Asked \in Nat /\ Asked # 0 /\ Len(entries) \in Nat /\ Len(entries') \in Nat
      /\ Len(logs) \in Nat /\ Len(file) \in Nat
  BY BrokerAssumption, Lens, LensNext
<1>2. Len(entries') <= topics' /\ Len(file') <= Len(logs')
  BY LensStep
<1>3. ASSUME crt'[k].pc = "created" PROVE topics' = Asked /\ Len(logs') = Asked
  <2>1. CASE crt[k].pc = "created"
    <3>1. topics = Asked /\ Len(logs) = Asked
      BY <2>1 DEF CreatedInv
    <3>2. phase' = "up"
      BY <1>3 DEF TypeInv, QueueInv, AllIdle
    <3> QED  BY <1>1, <3>1, <3>2, TopicsKept, LogsCount
  <2>2. CASE ExecuteCreate /\ topics = 0
    <3>1. UNCHANGED logs
      BY <2>2 DEF ExecuteCreate, disk
    <3> QED  BY <2>2, <3>1, AskedCount
  <2> QED  BY <1>3, <2>1, <2>2, CreateSteps
<1>4. ASSUME crt[k].reply = "ok"
      PROVE  /\ Len(logs') = Asked
             /\ phase' # "down" => topics' = Asked
             /\ phase' = "up" => dealt' = Asked /\ Len(entries') = Asked
  <2>1. /\ Len(logs) = Asked /\ (phase # "down" => topics = Asked)
        /\ phase = "up" => dealt = Asked /\ Len(entries) = Asked
    BY <1>4 DEF CreatedInv
  <2>2. Len(logs') = Asked
    BY <1>1, <2>1, LogsCount
  <2>3. CASE Start
    <3>1. Len(Recovered) = IF Len(logs) > Len(file) THEN Len(logs) ELSE Len(file)
      BY RecoveredType DEF TypeInv
    <3>2. Len(file) <= Len(logs)
      BY DEF CreatedInv
    <3>3. topics' = Len(logs) /\ dealt' = Len(logs) /\ entries' = Recovered
      BY <2>3 DEF Start
    <3> QED  BY <1>1, <2>1, <2>2, <3>1, <3>2, <3>3
  <2>4. CASE ~Start /\ phase' # "down"
    <3>1. phase # "down" /\ (phase' = "up" => phase = "up")
      BY <2>4, TopicsSteps, BusyUp DEF Finds, Ready, Shutdown, Stopped, Crash, Off
    <3>2. topics = Asked /\ topics' = Asked
      BY <1>1, <2>1, <2>4, <3>1, TopicsKept
    <3>3. ASSUME phase' = "up" PROVE dealt' = Asked
      BY <2>1, <2>4, <3>1, <3>3, DealtSteps
    <3>4. ASSUME phase' = "up" PROVE Len(entries') = Asked
      <4>1. Len(entries) = Asked
        BY <2>1, <3>1, <3>4
      <4>2. ~Shutdown /\ ~Stopped /\ ~Crash
        BY <3>4 DEF Shutdown, Stopped, Crash, Off
      <4>3. CASE UNCHANGED <<phase, entries, file>>
        BY <4>1, <4>3
      <4>4. CASE Raising
        <5>1. Len(entries') >= Len(entries)
          BY <4>4, Zenon DEF Raising, Persist, PersistFails
        <5> QED  BY <1>1, <1>2, <3>2, <4>1, <5>1
      <4> QED  BY <2>4, <4>2, <4>3, <4>4, RegistrySteps
    <3> QED  BY <2>2, <3>2, <3>3, <3>4
  <2>5. CASE phase' = "down"
    BY <2>2, <2>5
  <2> QED  BY <2>3, <2>4, <2>5
<1>5. ASSUME crt[k].pc = "created", Created(k), Persist(Ensured(Asked))
      PROVE  /\ Len(logs') = Asked /\ topics' = Asked
             /\ dealt' = Asked /\ Len(entries') = Asked
  <2>1. topics = Asked /\ Len(logs) = Asked
    BY <1>5 DEF CreatedInv
  <2>2. UNCHANGED <<topics, logs>> /\ dealt' = Asked /\ entries' = Ensured(Asked)
    BY <1>5 DEF Created, Persist, storage
  <2>3. Len(Ensured(Asked)) = IF Asked > Len(entries) THEN Asked ELSE Len(entries)
    BY <1>1, EnsuredType DEF TypeInv, DiskInv
  <2>4. Len(entries) <= topics
    BY DEF CreatedInv
  <2> QED  BY <1>1, <2>1, <2>2, <2>3, <2>4
<1> QED  BY <1>3, <1>4, <1>5, CreateSteps

\* A topic whose creation was acknowledged keeps the partitions that were
\* asked for: create_topic answers after the last log is open, whoever is
\* late gets TopicAlreadyExists or finds the topic, and a restart counts the
\* same logs.  Failed creations leave logs behind; where the broker creates
\* topics by itself these are no more than were asked for.
THEOREM AcknowledgedCreation ==
  ASSUME CreatesEnough
  PROVE  Spec => []CreationKept
<1>1. Init => CreatedInv
  <2> SUFFICES ASSUME Init PROVE CreatedInv
    OBVIOUS
  <2>1. /\ phase = "down" /\ topics = 0 /\ Len(entries) = 0 /\ mon.count = 0
        /\ \A k \in Creators : crt[k].pc = "idle" /\ crt[k].reply = "none"
    BY DEF Init, IdleMonitor, IdleCreate
  <2>2. Len(file) <= Len(logs)
    <3>1. logs \in Seq(Seq(Producers \cup Nat)) /\ file \in Seq(Nat \cup {Legacy})
      BY InitType DEF TypeInv, DiskInv
    <3>2. DOMAIN file = DOMAIN logs
      BY DEF Init
    <3>3. Len(file) = Len(logs)
      BY <3>1, <3>2
    <3> QED  BY <3>1, <3>3
  <2> QED  BY <2>1, <2>2 DEF CreatedInv
<1>2. CreatedInv => CreationKept
  BY DEF CreatedInv, CreationKept
<1>3. TypeInv /\ TypeInv' /\ CreatedInv /\ [Next]_vars => CreatedInv'
  <2> SUFFICES ASSUME TypeInv, TypeInv', CreatedInv, [Next]_vars PROVE CreatedInv'
    OBVIOUS
  <2>1. phase' # "down" /\ topics' = 0 => Len(logs') <= Asked
    BY OpenedStep
  <2> QED  BY <2>1, LensStep, ListedStep, KeptStep DEF CreatedInv
<1> QED  BY <1>1, <1>2, <1>3, InitType, TypeStep, PTL DEF Spec
=============================================================================
