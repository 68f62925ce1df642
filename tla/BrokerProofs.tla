----------------------------- MODULE BrokerProofs -----------------------------
(***************************************************************************)
(* The broker on its own: type correctness and no lost wakeup, for every   *)
(* number of producers, pollers and creators, every partition count and    *)
(* queue capacity and every number of crashes, shutdowns, timeouts and     *)
(* failed writes.                                                          *)
(***************************************************************************)
EXTENDS Broker, FiniteSetTheorems, SequenceTheorems, TLAPS

-----------------------------------------------------------------------------
(* The inductive invariants.                                               *)

Command ==
    [kind : {"append", "readback"}, of : Producers]
        \cup [kind : {"fetch"}, of : Pollers]
        \cup [kind : {"create"}, of : Creators]
        \cup [kind : {"list"}, of : {"monitor"}]

\* A handler has at most one command in the queue,
Single(q) ==
    /\ q \in Seq(Command)
    /\ \A i, j \in DOMAIN q : i # j => q[i].of # q[j].of

\* and waits for it.
Waits(m) ==
    /\ m.kind = "append" => prod[m.of].pc = "append"
    /\ m.kind = "readback" => prod[m.of].pc = "read"
    /\ m.kind = "fetch" => poll[m.of].pc = "read"
    /\ m.kind = "create" => crt[m.of].pc = "create"
    /\ m.kind = "list" => mon.pc = "list"

AllIdle ==
    /\ \A p \in Producers : prod[p].pc = "idle"
    /\ \A c \in Pollers : poll[c].pc = "idle"
    /\ \A k \in Creators : crt[k].pc = "idle"
    /\ mon.pc = "idle"

QueueInv ==
    /\ Single(queue)
    /\ phase = "up" => \A m \in ToSet(queue) : Waits(m)
    /\ phase # "up" => AllIdle
    /\ phase = "down" => queue = <<>> /\ spawned = {}

\* The handler of a produce request: what it works on is one of its acks.
Sound(t) ==
    /\ t \in ProduceType
    /\ t.pc # "idle" => t.reply = "none"
    /\ t.pc \in {"append", "appended"} => t.i = 1
    /\ t.pc \in {"appended", "read", "found", "commit"} => t.i \in 1 .. Len(t.acks)

\* The storage thread has no more partitions than there are logs; only a log
\* that is there was written by an older version.
DiskInv ==
    /\ logs \in Seq(Seq(Producers \cup Nat))
    /\ file \in Seq(Nat \cup {Legacy})
    /\ topics \in Nat /\ robin \in Nat /\ dealt \in Nat
    /\ entries \in Seq(Nat)
    /\ topics <= Len(logs)
    /\ phase = "down" => topics = 0
    /\ \A i \in DOMAIN file : file[i] = Legacy => i <= Len(logs)

ProdInv ==
    /\ prod \in [Producers -> ProduceType]
    /\ \A p \in Producers : Sound(prod[p])

HandlerInv ==
    /\ poll \in [Pollers -> PollType]
    /\ crt \in [Creators -> [pc : {"idle", "create", "created"},
                            reply : {"none", "ok", "error"}]]
    /\ mon \in [pc : {"idle", "list", "listed"}, count : Nat]
    /\ spawned \subseteq [acks : Seq(Nat \X Nat) \ {<<>>}, low : BOOLEAN]

TypeInv ==
    /\ phase \in {"down", "up", "stopping"}
    /\ faults \in 0 .. MaxFaults
    /\ DiskInv /\ ProdInv /\ HandlerInv /\ QueueInv

\* A fetch that has found nothing, asleep or not yet, has been or will be
\* woken when there is something.
WakeInv ==
    \A c \in Pollers :
        LET t == poll[c] IN
        /\ t.pc \in {"found", "asleep"} => Polled < Len(logs)
        /\ t.pc = "asleep" => t.found = 0
        /\ /\ t.pc \in {"found", "asleep"} /\ t.found = 0
           /\ Len(logs[Polled + 1]) > t.pos
           => t.woken \/ \E p \in Producers : prod[p].pc = "appended"

\* The record p is where the answer to its append says.
Stored(p, ls, ack) ==
    /\ ack[1] < Len(ls)
    /\ ack[2] < Len(ls[ack[1] + 1])
    /\ ls[ack[1] + 1][ack[2] + 1] = p

-----------------------------------------------------------------------------
(* The queue.                                                              *)

LEMMA Emptied == ToSet(<<>>) = {} /\ Single(<<>>)
  BY DEF ToSet, Single

\* A command is sent by a handler that has none in the queue.
LEMMA Sent ==
  ASSUME NEW q, Single(q), NEW m \in Command,
         \A x \in ToSet(q) : x.of # m.of
  PROVE  Single(Append(q, m)) /\ ToSet(Append(q, m)) = ToSet(q) \cup {m}
<1>1. /\ q \in Seq(Command) /\ Len(q) \in Nat /\ DOMAIN q = 1 .. Len(q)
      /\ Append(q, m) \in Seq(Command)
      /\ Len(Append(q, m)) = Len(q) + 1
      /\ DOMAIN Append(q, m) = 1 .. Len(q) + 1
      /\ \A i \in 1 .. Len(q) : Append(q, m)[i] = q[i]
      /\ Append(q, m)[Len(q) + 1] = m
  BY DEF Single
<1>2. \A i \in DOMAIN q : q[i].of # m.of
  BY DEF ToSet
<1>3. Single(Append(q, m))
  BY <1>1, <1>2 DEF Single
<1>4. ToSet(Append(q, m)) = ToSet(q) \cup {m}
  BY <1>1 DEF ToSet
<1> QED  BY <1>3, <1>4

\* A command leaves the queue: nothing of its handler is left.
LEMMA Left ==
  ASSUME NEW q, Single(q), NEW i \in DOMAIN q
  PROVE  /\ Single(RemoveAt(q, i))
         /\ \A x \in ToSet(RemoveAt(q, i)) : x \in ToSet(q) /\ x.of # q[i].of
<1> DEFINE r == RemoveAt(q, i)
<1>1. q \in Seq(Command) /\ Len(q) \in Nat /\ DOMAIN q = 1 .. Len(q) /\ i \in 1 .. Len(q)
  BY DEF Single
<1>2. /\ SubSeq(q, 1, i - 1) \in Seq(Command) /\ Len(SubSeq(q, 1, i - 1)) = i - 1
      /\ \A j \in 1 .. i - 1 : SubSeq(q, 1, i - 1)[j] = q[j]
  BY <1>1, SubSeqProperties
<1>3. /\ SubSeq(q, i + 1, Len(q)) \in Seq(Command)
      /\ Len(SubSeq(q, i + 1, Len(q))) = Len(q) - i
      /\ \A j \in 1 .. Len(q) - i : SubSeq(q, i + 1, Len(q))[j] = q[i + j]
  <2>1. CASE i = Len(q)
    BY <1>1, <2>1
  <2>2. CASE i < Len(q)
    BY <1>1, <2>2, SubSeqProperties
  <2> QED  BY <1>1, <2>1, <2>2
<1> DEFINE s == SubSeq(q, 1, i - 1)
           t == SubSeq(q, i + 1, Len(q))
<1>a. /\ s \in Seq(Command) /\ Len(s) = i - 1 /\ t \in Seq(Command) /\ Len(t) = Len(q) - i
      /\ (\A j \in 1 .. i - 1 : s[j] = q[j]) /\ (\A j \in 1 .. Len(q) - i : t[j] = q[i + j])
  BY <1>2, <1>3
<1>b. r = s \o t
  BY DEF RemoveAt
<1> HIDE DEF r, s, t
<1>c. r \in Seq(Command) /\ Len(r) = Len(q) - 1
  <2>1. r \in Seq(Command) /\ Len(r) = Len(s) + Len(t)
    BY <1>a, <1>b, ConcatProperties
  <2> QED  BY <1>1, <1>a, <2>1
<1>d. ASSUME NEW j \in 1 .. Len(q) - 1
      PROVE  /\ j < i => r[j] = q[j]
             /\ j >= i => r[j] = q[j + 1]
  <2>1. CASE j < i
    BY <1>1, <1>a, <1>b, <2>1
  <2>2. CASE j >= i
    <3>1. r[j] = t[j - (i - 1)]
      BY <1>1, <1>a, <1>b, <2>2
    <3>2. j - (i - 1) \in 1 .. Len(q) - i /\ i + (j - (i - 1)) = j + 1
      BY <1>1, <2>2
    <3>3. t[j - (i - 1)] = q[i + (j - (i - 1))]
      BY <1>a, <3>2
    <3> QED  BY <1>1, <2>2, <3>1, <3>2, <3>3
  <2> QED  BY <1>1, <2>1, <2>2
<1>4. /\ r \in Seq(Command) /\ Len(r) = Len(q) - 1 /\ DOMAIN r = 1 .. Len(q) - 1
      /\ \A j \in 1 .. Len(q) - 1 : j < i => r[j] = q[j]
      /\ \A j \in 1 .. Len(q) - 1 : j >= i => r[j] = q[j + 1]
  BY <1>1, <1>c, <1>d
<1>5. Single(r)
  <2> SUFFICES ASSUME NEW j \in 1 .. Len(q) - 1, NEW k \in 1 .. Len(q) - 1, j # k
               PROVE  r[j].of # r[k].of
    BY <1>4 DEF Single
  <2> DEFINE from(x) == IF x < i THEN x ELSE x + 1
  <2>1. from(j) \in DOMAIN q /\ from(k) \in DOMAIN q /\ from(j) # from(k)
    BY <1>1
  <2>2. r[j] = q[from(j)] /\ r[k] = q[from(k)]
    BY <1>1, <1>4
  <2> HIDE DEF from
  <2> QED  BY <2>1, <2>2 DEF Single
<1>6. \A j \in DOMAIN r : \E k \in DOMAIN q : k # i /\ r[j] = q[k]
  <2> TAKE j \in DOMAIN r
  <2>1. CASE j < i
    BY <1>1, <1>4, <2>1
  <2>2. CASE ~(j < i)
    BY <1>1, <1>4, <2>2
  <2> QED  BY <2>1, <2>2
<1>7. \A x \in ToSet(r) : x \in ToSet(q) /\ x.of # q[i].of
  BY <1>1, <1>6 DEF ToSet, Single
<1> QED  BY <1>5, <1>7 DEF r

LEMMA TailSingle ==
  ASSUME NEW q, Single(q), q # <<>>
  PROVE  /\ Head(q) \in ToSet(q) /\ Head(q) \in Command
         /\ Single(Tail(q))
         /\ \A x \in ToSet(Tail(q)) : x \in ToSet(q) /\ x.of # Head(q).of
<1>1. /\ q \in Seq(Command) /\ Len(q) \in Nat /\ Len(q) > 0
      /\ DOMAIN q = 1 .. Len(q) /\ Head(q) = q[1] /\ Head(q) \in Command
  BY DEF Single
<1>2. /\ Tail(q) \in Seq(Command) /\ Len(Tail(q)) = Len(q) - 1
      /\ DOMAIN Tail(q) = 1 .. Len(q) - 1
      /\ \A j \in 1 .. Len(q) - 1 : Tail(q)[j] = q[j + 1]
  BY <1>1, HeadTailProperties
<1>3. Head(q) \in ToSet(q)
  BY <1>1 DEF ToSet
<1>4. Single(Tail(q))
  BY <1>1, <1>2 DEF Single
<1>5. \A j \in DOMAIN Tail(q) : \E k \in DOMAIN q : k # 1 /\ Tail(q)[j] = q[k]
  BY <1>1, <1>2
<1>6. \A x \in ToSet(Tail(q)) : x \in ToSet(q) /\ x.of # Head(q).of
  BY <1>1, <1>5 DEF ToSet, Single
<1> QED  BY <1>1, <1>3, <1>4, <1>6

\* The storage thread is done with the command in its hands.
LEMMA Carried ==
  ASSUME Single(queue), queue # <<>>, Done
  PROVE  /\ hand \in ToSet(queue) /\ hand \in Command
         /\ Single(queue')
         /\ \A x \in ToSet(queue') : x \in ToSet(queue) /\ x.of # hand.of
  BY TailSingle DEF Done, hand

\* What waits for a place is dropped when the broker is stopped.
LEMMA Cut ==
  ASSUME Single(queue), queue' = SubSeq(queue, 1, InChannel)
  PROVE  /\ Single(queue') /\ ToSet(queue') \subseteq ToSet(queue)
         /\ queue # <<>> => queue' # <<>> /\ Head(queue') = Head(queue)
<1>1. /\ queue \in Seq(Command) /\ Len(queue) \in Nat
      /\ DOMAIN queue = 1 .. Len(queue)
      /\ InChannel \in 0 .. Len(queue) /\ (queue # <<>> => InChannel > 0)
  BY BrokerAssumption DEF Single, InChannel
<1>2. /\ queue' \in Seq(Command) /\ Len(queue') = InChannel
      /\ DOMAIN queue' = 1 .. InChannel
      /\ \A j \in 1 .. InChannel : queue'[j] = queue[j]
  BY <1>1, SubSeqProperties
<1>3. Single(queue')
  BY <1>1, <1>2 DEF Single
<1>4. ToSet(queue') \subseteq ToSet(queue)
  BY <1>1, <1>2 DEF ToSet
<1>5. queue # <<>> => queue' # <<>> /\ Head(queue') = Head(queue)
  BY <1>1, <1>2
<1> QED  BY <1>3, <1>4, <1>5

\* No handler but h goes on.
Moves(h) ==
    /\ \A p \in Producers : p # h => prod'[p].pc = prod[p].pc
    /\ \A c \in Pollers : c # h => poll'[c].pc = poll[c].pc
    /\ \A k \in Creators : k # h => crt'[k].pc = crt[k].pc
    /\ h # "monitor" => mon'.pc = mon.pc

LEMMA OthersWait ==
  ASSUME QueueInv, phase = "up", NEW h, Moves(h), NEW x \in ToSet(queue), x.of # h
  PROVE  Waits(x)'
<1>1. x \in Command /\ Waits(x)
  BY DEF QueueInv, Single, ToSet
<1>2. CASE x.kind \in {"append", "readback"}
  BY <1>1, <1>2, Zenon DEF Command, Waits, Moves
<1>3. CASE x.kind = "fetch"
  BY <1>1, <1>3, Zenon DEF Command, Waits, Moves
<1>4. CASE x.kind = "create"
  BY <1>1, <1>4, Zenon DEF Command, Waits, Moves
<1>5. CASE x.kind = "list"
  BY <1>1, <1>5, Zenon DEF Command, Waits, Moves
<1> QED  BY <1>1, <1>2, <1>3, <1>4, <1>5 DEF Command

\* h sends a command,
LEMMA QueueSend ==
  ASSUME QueueInv, phase = "up", UNCHANGED phase, NEW m \in Command, Moves(m.of),
         queue' = Append(queue, m), \A x \in ToSet(queue) : x.of # m.of, Waits(m)'
  PROVE  QueueInv'
<1>1. Single(queue') /\ ToSet(queue') = ToSet(queue) \cup {m}
  BY Sent DEF QueueInv
<1>2. \A x \in ToSet(queue) : Waits(x)'
  BY OthersWait
<1> QED  BY <1>1, <1>2 DEF QueueInv

\* the command of h leaves the queue,
LEMMA QueueLeave ==
  ASSUME QueueInv, phase = "up", UNCHANGED phase, NEW h, Moves(h), Single(queue'),
         \A x \in ToSet(queue') : x \in ToSet(queue) /\ x.of # h
  PROVE  QueueInv'
<1>1. \A x \in ToSet(queue') : Waits(x)'
  BY OthersWait
<1> QED  BY <1>1 DEF QueueInv

\* h goes on without having a command in the queue.
LEMMA QueueStay ==
  ASSUME QueueInv, phase = "up", UNCHANGED <<phase, queue>>, NEW h, Moves(h),
         \A x \in ToSet(queue) : x.of # h
  PROVE  QueueInv'
  BY QueueLeave DEF QueueInv

LEMMA QueueTimesOut ==
  ASSUME TypeInv, phase = "up", UNCHANGED phase, NEW h, Moves(h), TimesOut(h)
  PROVE  QueueInv' /\ faults' \in 0 .. MaxFaults
<1>1. PICK i \in DOMAIN queue :
        queue[i].of = h /\ queue' = RemoveAt(queue, i) /\ Fault
  BY Zenon DEF TimesOut
<1>2. /\ Single(queue')
      /\ \A x \in ToSet(queue') : x \in ToSet(queue) /\ x.of # h
  BY <1>1, Left DEF TypeInv, QueueInv
<1>3. QueueInv'
  BY <1>2, QueueLeave DEF TypeInv
<1>4. faults' \in 0 .. MaxFaults
  BY <1>1, BrokerAssumption DEF TypeInv, Fault
<1> QED  BY <1>3, <1>4

\* The storage thread carries out a command; the answer is for its handler,
\* if it is still there.
LEMMA QueueDone ==
  ASSUME QueueInv, queue # <<>>, Done, UNCHANGED phase, phase \in {"up", "stopping"},
         phase = "up" => Moves(hand.of),
         phase # "up" => UNCHANGED handlers
  PROVE  QueueInv'
<1>1. /\ Single(queue')
      /\ \A x \in ToSet(queue') : x \in ToSet(queue) /\ x.of # hand.of
  BY Carried DEF QueueInv
<1>2. CASE phase = "up"
  BY <1>1, <1>2, QueueLeave
<1>3. CASE phase = "stopping"
  BY <1>1, <1>3 DEF QueueInv, AllIdle, handlers
<1> QED  BY <1>2, <1>3

LEMMA NotQueued ==
  ASSUME QueueInv, phase = "up"
  PROVE  /\ \A p \in Producers : prod[p].pc \notin {"append", "read"} =>
               \A x \in ToSet(queue) : x.of # p
         /\ \A c \in Pollers : poll[c].pc # "read" =>
               \A x \in ToSet(queue) : x.of # c
         /\ \A k \in Creators : crt[k].pc # "create" =>
               \A x \in ToSet(queue) : x.of # k
         /\ mon.pc # "list" => \A x \in ToSet(queue) : x.of # "monitor"
<1>1. \A x \in ToSet(queue) : x \in Command /\ Waits(x)
  BY DEF QueueInv, Single, ToSet
<1> QED  BY <1>1, BrokerAssumption DEF Command, Waits

\* A handler that is busy belongs to a broker that is up.
LEMMA BusyUp ==
  ASSUME TypeInv
  PROVE  /\ phase # "up" => /\ \A p \in Producers : prod[p].pc = "idle"
                            /\ \A c \in Pollers : poll[c].pc = "idle"
                            /\ \A k \in Creators : crt[k].pc = "idle"
                            /\ mon.pc = "idle"
         /\ queue # <<>> => phase \in {"up", "stopping"}
  BY DEF TypeInv, QueueInv, AllIdle

-----------------------------------------------------------------------------
(* The registry and the logs.                                              *)

LEMMA RaisedType ==
  ASSUME entries \in Seq(Nat), NEW ack \in Nat \X Nat, Registered(ack[1])
  PROVE  /\ Raised(ack) \in Seq(Nat) /\ Len(Raised(ack)) = Len(entries)
         /\ \A i \in DOMAIN entries : Raised(ack)[i] >= entries[i]
         /\ Raised(ack)[ack[1] + 1] > ack[2]
<1>1. ack[1] \in Nat /\ ack[2] \in Nat /\ ack[1] + 1 \in 1 .. Len(entries)
  BY DEF Registered
<1>2. DOMAIN entries = 1 .. Len(entries) /\ \A i \in DOMAIN entries : entries[i] \in Nat
  OBVIOUS
<1> DEFINE v == IF ack[2] + 1 > entries[ack[1] + 1] THEN ack[2] + 1
                ELSE entries[ack[1] + 1]
<1>3. v \in Nat /\ v > ack[2] /\ v >= entries[ack[1] + 1]
  BY <1>1, <1>2
<1>4. Raised(ack) = [entries EXCEPT ![ack[1] + 1] = v]
  BY <1>1, <1>2 DEF Raised
<1> HIDE DEF v
<1>5. Raised(ack) \in Seq(Nat) /\ Len(Raised(ack)) = Len(entries)
  BY <1>1, <1>3, <1>4
<1>6. Raised(ack)[ack[1] + 1] = v
  BY <1>1, <1>2, <1>4
<1>7. \A i \in DOMAIN entries : Raised(ack)[i] >= entries[i]
  BY <1>1, <1>2, <1>3, <1>4
<1> QED  BY <1>3, <1>5, <1>6, <1>7

LEMMA EnsuredType ==
  ASSUME entries \in Seq(Nat), NEW n \in Nat
  PROVE  /\ Ensured(n) \in Seq(Nat)
         /\ Len(Ensured(n)) = IF n > Len(entries) THEN n ELSE Len(entries)
         /\ \A i \in DOMAIN entries : Ensured(n)[i] = entries[i]
<1>1. Len(entries) \in Nat /\ DOMAIN entries = 1 .. Len(entries)
  OBVIOUS
<1> DEFINE k == IF n > Len(entries) THEN n ELSE Len(entries)
           val(i) == IF i > Len(entries) THEN 0 ELSE entries[i]
<1>2. k \in Nat /\ k >= Len(entries)
  BY <1>1
<1>3. Ensured(n) = [i \in 1 .. k |-> val(i)] /\ \A i \in 1 .. k : val(i) \in Nat
  BY <1>1 DEF Ensured
<1> HIDE DEF k
<1>4. Ensured(n) \in Seq(Nat) /\ Len(Ensured(n)) = k
  BY <1>2, <1>3
<1>5. \A i \in DOMAIN entries : Ensured(n)[i] = entries[i]
  BY <1>1, <1>2, <1>3
<1> QED  BY <1>4, <1>5 DEF k

LEMMA RecoveredType ==
  ASSUME DiskInv
  PROVE  /\ Recovered \in Seq(Nat)
         /\ Len(Recovered) = IF Len(logs) > Len(file) THEN Len(logs) ELSE Len(file)
         /\ \A i \in DOMAIN file : file[i] # Legacy => Recovered[i] = file[i]
<1>1. /\ Len(logs) \in Nat /\ Len(file) \in Nat
      /\ DOMAIN file = 1 .. Len(file) /\ DOMAIN logs = 1 .. Len(logs)
      /\ \A i \in DOMAIN file : file[i] \in Nat \cup {Legacy}
      /\ \A i \in DOMAIN file : file[i] = Legacy => i <= Len(logs)
      /\ \A i \in DOMAIN logs : Len(logs[i]) \in Nat
  BY DEF DiskInv
<1> DEFINE k == IF Len(logs) > Len(file) THEN Len(logs) ELSE Len(file)
           val(i) == CASE i > Len(file) -> 0
                       [] i <= Len(file) /\ file[i] = Legacy -> Len(logs[i])
                       [] OTHER -> file[i]
<1>2. k \in Nat /\ k >= Len(logs) /\ k >= Len(file)
  BY <1>1
<1>3. Recovered = [i \in 1 .. k |-> val(i)]
  BY DEF Recovered
<1>4. ASSUME NEW i \in 1 .. k
      PROVE  val(i) \in Nat /\ (i <= Len(file) /\ file[i] # Legacy => val(i) = file[i])
  <2>1. CASE i > Len(file)
    BY <1>1, <1>2, <2>1
  <2>2. CASE i <= Len(file) /\ file[i] = Legacy
    BY <1>1, <1>2, <2>2
  <2>3. CASE i <= Len(file) /\ file[i] # Legacy
    BY <1>1, <1>2, <2>3
  <2> QED  BY <1>1, <1>2, <2>1, <2>2, <2>3
<1> HIDE DEF k, val
<1>5. Recovered \in Seq(Nat) /\ Len(Recovered) = k
  BY <1>2, <1>3, <1>4
<1>6. \A i \in DOMAIN file : file[i] # Legacy => Recovered[i] = file[i]
  BY <1>1, <1>2, <1>3, <1>4
<1> QED  BY <1>5, <1>6 DEF k

\* The registry is changed, and its file unless the write fails.
LEMMA Persisting ==
  ASSUME TypeInv, NEW e \in Seq(Nat), Persist(e) \/ PersistFails(e),
         UNCHANGED <<phase, logs, topics, robin>>, dealt' \in Nat
  PROVE  DiskInv' /\ faults' \in 0 .. MaxFaults
<1>1. entries' = e /\ (file' = file \/ file' = e)
  BY Zenon DEF Persist, PersistFails
<1>2. faults' \in 0 .. MaxFaults
  BY BrokerAssumption DEF TypeInv, Persist, PersistFails, Fault
<1>3. CASE file' = file
  BY <1>1, <1>2, <1>3 DEF TypeInv, DiskInv
<1>4. CASE file' = e
  <2>1. \A i \in DOMAIN e : e[i] # Legacy
    BY DEF Legacy
  <2>2. e \in Seq(Nat \cup {Legacy})
    BY SeqMonotonic
  <2> QED  BY <1>1, <1>2, <1>4, <2>1, <2>2 DEF TypeInv, DiskInv
<1> QED  BY <1>1, <1>2, <1>3, <1>4

LEMMA DiskKept ==
  ASSUME DiskInv, UNCHANGED <<phase, logs, file, topics, robin, dealt, entries>>
  PROVE  DiskInv'
  BY DEF DiskInv

\* The partitions a command finds.
LEMMA Counting ==
  ASSUME TypeInv, Ready
  PROVE  Count \in 0 .. Len(logs) /\ (topics # 0 => Count = topics)
<1>1. Wanted(hand.kind) \in Nat
  BY BrokerAssumption DEF Wanted
<1> QED  BY <1>1 DEF TypeInv, DiskInv, Ready, Count

LEMMA CountedDisk ==
  ASSUME TypeInv, Ready, topics' = Count, UNCHANGED <<phase, logs, file, robin, dealt, entries>>
  PROVE  DiskInv'
<1>1. Count \in 0 .. Len(logs) /\ Len(logs) \in Nat /\ phase # "down"
  BY Counting, BusyUp DEF TypeInv, DiskInv, Ready
<1> QED  BY <1>1 DEF TypeInv, DiskInv

-----------------------------------------------------------------------------
(* The append.                                                             *)

LEMMA DestinationType ==
  ASSUME TypeInv, Ready, Count # 0, NEW p \in Producers, NEW i \in Nat \ {0}
  PROVE  /\ Destination(p, i) \in Nat /\ Destination(p, i) < Count
         /\ Destination(p, i) + 1 \in DOMAIN logs
<1>1. Count \in Nat /\ Count > 0 /\ Count <= Len(logs) /\ Len(logs) \in Nat
      /\ DOMAIN logs = 1 .. Len(logs)
  BY Counting DEF TypeInv, DiskInv
<1> DEFINE a == IF p \in Identified THEN Hash[p] ELSE robin + i - 1
<1>2. a \in Nat
  BY BrokerAssumption DEF TypeInv, DiskInv
<1>3. Destination(p, i) = a % Count
  BY DEF Destination
<1> HIDE DEF a
<1>4. a % Count \in Nat /\ a % Count < Count
  BY <1>1, <1>2
<1> QED  BY <1>1, <1>3, <1>4

LEMMA BatchType ==
  ASSUME NEW p
  PROVE  /\ IsFiniteSet(Batch(p)) /\ Batch(p) \subseteq Nat \ {0}
         /\ Cardinality(Batch(p)) \in Nat
         /\ Batch(p) = 1 .. 1 \/ Batch(p) = 1 .. 2
         /\ p \notin Batches => Batch(p) = {1}
<1>1. Batch(p) = 1 .. 1 \/ Batch(p) = 1 .. 2
  BY DEF Batch
<1>2. IsFiniteSet(Batch(p))
  <2>1. IsFiniteSet(1 .. 1) /\ IsFiniteSet(1 .. 2)
    BY 1 \in Int, 2 \in Int, FS_Interval, Zenon
  <2> QED  BY <1>1, <2>1
<1> QED  BY <1>1, <1>2, FS_CardinalityType DEF Batch

LEMMA GoingType ==
  ASSUME NEW p, NEW q
  PROVE  /\ Cardinality(Going(p, q)) \in Nat
         /\ \A i \in Nat :
              /\ Cardinality({j \in Going(p, q) : j < i}) \in Nat
              /\ i \in Going(p, q) =>
                   Cardinality({j \in Going(p, q) : j < i}) < Cardinality(Going(p, q))
<1>1. IsFiniteSet(Going(p, q)) /\ Cardinality(Going(p, q)) \in Nat
  BY BatchType, FS_Subset, FS_CardinalityType DEF Going
<1>2. ASSUME NEW i \in Nat
      PROVE  /\ Cardinality({j \in Going(p, q) : j < i}) \in Nat
             /\ i \in Going(p, q) =>
                  Cardinality({j \in Going(p, q) : j < i}) < Cardinality(Going(p, q))
  <2> DEFINE S == {j \in Going(p, q) : j < i}
  <2>1. IsFiniteSet(S) /\ Cardinality(S) \in Nat
    BY <1>1, FS_Subset, FS_CardinalityType
  <2>2. i \in Going(p, q) => Cardinality(S) < Cardinality(Going(p, q))
    <3>1. S \in SUBSET Going(p, q) /\ i \notin S
      OBVIOUS
    <3> HIDE DEF S
    <3>2. /\ Cardinality(S) <= Cardinality(Going(p, q))
          /\ Cardinality(S) = Cardinality(Going(p, q)) => S = Going(p, q)
      BY <1>1, <3>1, FS_Subset
    <3> QED  BY <1>1, <2>1, <3>1, <3>2
  <2> QED  BY <2>1, <2>2
<1> QED  BY <1>1, <1>2

\* A record that is in a log is found there.
LEMMA Selected ==
  ASSUME NEW s, NEW T, s \in Seq(T), NEW p, p \in ToSet(s)
  PROVE  /\ SelectInSeq(s, LAMBDA r : r = p) \in DOMAIN s
         /\ s[SelectInSeq(s, LAMBDA r : r = p)] = p
<1> DEFINE I == {i \in 1 .. Len(s) : s[i] = p}
<1>1. I # {} /\ I \subseteq Nat /\ DOMAIN s = 1 .. Len(s)
  BY DEF ToSet
<1> HIDE DEF I
<1>2. PICK n \in I : \A m \in I : n <= m
  <2>1. IsWellFoundedOn(OpToRel(<, Nat), Nat)
    BY NatLessThanWellFounded
  <2>2. PICK n \in I : \A m \in I : ~(<<m, n>> \in OpToRel(<, Nat))
    BY <1>1, <2>1, WFMin
  <2>3. \A m \in I : ~(m < n)
    BY <1>1, <2>2 DEF OpToRel
  <2> QED  BY <1>1, <2>3
<1>3. Min(I) \in I
  BY <1>2 DEF Min
<1>4. SelectInSeq(s, LAMBDA r : r = p) = Min(I)
  BY <1>1 DEF SelectInSeq, I
<1> QED  BY <1>1, <1>3, <1>4 DEF I

Logs == Seq(Seq(Producers \cup Nat))

\* Records of p were added at the ends of logs, nothing else was changed.
Grown(p, ls, ms) ==
    /\ ms \in Logs /\ Len(ms) = Len(ls)
    /\ \A l \in DOMAIN ls :
          /\ Len(ms[l]) >= Len(ls[l])
          /\ \A i \in DOMAIN ls[l] : ms[l][i] = ls[l][i]
          /\ \A i \in DOMAIN ms[l] : i > Len(ls[l]) => ms[l][i] = p

LEMMA LogsType ==
  ASSUME NEW ls \in Logs
  PROVE  /\ Len(ls) \in Nat /\ DOMAIN ls = 1 .. Len(ls)
         /\ \A l \in DOMAIN ls : /\ ls[l] \in Seq(Producers \cup Nat)
                                 /\ Len(ls[l]) \in Nat
                                 /\ DOMAIN ls[l] = 1 .. Len(ls[l])
  BY DEF Logs

LEMMA Extended ==
  ASSUME NEW p \in Producers, NEW s \in Seq(Producers \cup Nat), NEW n \in Nat,
         NEW t, t = s \o [j \in 1 .. n |-> p]
  PROVE  /\ t \in Seq(Producers \cup Nat) /\ Len(t) = Len(s) + n
         /\ \A i \in DOMAIN s : t[i] = s[i]
         /\ \A i \in DOMAIN t : i > Len(s) => t[i] = p
<1> DEFINE u == [j \in 1 .. n |-> p]
<1>1. t = s \o u /\ u \in Seq(Producers \cup Nat) /\ Len(u) = n /\ \A j \in 1 .. n : u[j] = p
  OBVIOUS
<1> HIDE DEF u
<1>2. /\ t \in Seq(Producers \cup Nat) /\ Len(t) = Len(s) + Len(u)
      /\ DOMAIN t = 1 .. Len(s) + Len(u)
      /\ \A i \in 1 .. Len(s) + Len(u) :
           t[i] = IF i <= Len(s) THEN s[i] ELSE u[i - Len(s)]
  BY <1>1, ConcatProperties
<1>3. \A i \in DOMAIN t : i > Len(s) => t[i] = p
  <2> SUFFICES ASSUME NEW i \in DOMAIN t, i > Len(s) PROVE t[i] = p
    OBVIOUS
  <2>1. i - Len(s) \in 1 .. n /\ t[i] = u[i - Len(s)]
    BY <1>1, <1>2
  <2> QED  BY <1>1, <2>1
<1>4. \A i \in DOMAIN s : t[i] = s[i]
  BY <1>1, <1>2
<1> QED  BY <1>1, <1>2, <1>3, <1>4

\* What append_record and append_batch_records do to the logs.
AppendedLogs(p) ==
    IF Duplicate(p) THEN logs
    ELSE [l \in DOMAIN logs |->
            logs[l] \o [j \in 1 .. Cardinality(Going(p, l - 1)) |-> p]]

LEMMA Appending ==
  ASSUME TypeInv, Ready, Count # 0, NEW p \in Producers
  PROVE  /\ Grown(p, logs, AppendedLogs(p))
         /\ \A i \in Batch(p) : /\ Ack(p, i) \in Nat \X Nat
                                /\ Stored(p, AppendedLogs(p), Ack(p, i))
<1> DEFINE ms == AppendedLogs(p)
<1>1. logs \in Logs
  BY DEF TypeInv, DiskInv, Logs
<1>2. /\ Len(logs) \in Nat /\ DOMAIN logs = 1 .. Len(logs)
      /\ \A l \in DOMAIN logs : /\ logs[l] \in Seq(Producers \cup Nat)
                                /\ Len(logs[l]) \in Nat
                                /\ DOMAIN logs[l] = 1 .. Len(logs[l])
  BY <1>1, LogsType
<1>3. \A i \in Batch(p) : /\ i \in Nat /\ Destination(p, i) \in Nat
                          /\ Destination(p, i) + 1 \in DOMAIN logs
                          /\ Destination(p, i) < Len(logs)
  <2> TAKE i \in Batch(p)
  <2>1. i \in Nat \ {0}
    BY BatchType
  <2> QED  BY <1>2, <2>1, DestinationType
<1>4. CASE Duplicate(p)
  <2>1. ms = logs /\ p \in Identified
    BY <1>4 DEF AppendedLogs, Duplicate
  <2>2. Grown(p, logs, ms)
    BY <1>1, <1>2, <2>1 DEF Grown
  <2>3. ASSUME NEW i \in Batch(p)
        PROVE  Ack(p, i) \in Nat \X Nat /\ Stored(p, ms, Ack(p, i))
    <3> DEFINE q == Destination(p, i)
               n == SelectInSeq(logs[q + 1], LAMBDA r : r = p)
    <3>1. Ack(p, i) = <<q, n - 1>>
      BY <1>4 DEF Ack
    <3>2. q = Destination(p, 1)
      BY <2>1 DEF Destination
    <3>3. q \in Nat /\ q + 1 \in DOMAIN logs /\ q < Len(logs)
      BY <1>3
    <3>4. p \in ToSet(logs[q + 1]) /\ logs[q + 1] \in Seq(Producers \cup Nat)
      BY <1>2, <1>4, <3>2, <3>3 DEF Duplicate
    <3> HIDE DEF q
    <3>5. n \in DOMAIN logs[q + 1] /\ logs[q + 1][n] = p
      BY <3>4, Selected
    <3> HIDE DEF n
    <3>6. n - 1 \in Nat /\ n - 1 < Len(logs[q + 1]) /\ (n - 1) + 1 = n
      BY <1>2, <3>3, <3>5
    <3> QED  BY <2>1, <3>1, <3>3, <3>5, <3>6 DEF Stored
  <2> QED  BY <2>2, <2>3
<1>5. CASE ~Duplicate(p)
  <2>1. /\ DOMAIN ms = DOMAIN logs
        /\ \A l \in DOMAIN logs :
             ms[l] = logs[l] \o [j \in 1 .. Cardinality(Going(p, l - 1)) |-> p]
    BY <1>5 DEF AppendedLogs
  <2>2. \A l \in DOMAIN logs :
          /\ ms[l] \in Seq(Producers \cup Nat)
          /\ Len(ms[l]) = Len(logs[l]) + Cardinality(Going(p, l - 1))
          /\ \A i \in DOMAIN logs[l] : ms[l][i] = logs[l][i]
          /\ \A i \in DOMAIN ms[l] : i > Len(logs[l]) => ms[l][i] = p
    <3> TAKE l \in DOMAIN logs
    <3> DEFINE n == Cardinality(Going(p, l - 1))
    <3>1. /\ logs[l] \in Seq(Producers \cup Nat) /\ n \in Nat
          /\ ms[l] = logs[l] \o [j \in 1 .. n |-> p]
      BY <1>2, <2>1, GoingType
    <3> HIDE DEF n, ms
    <3>2. /\ ms[l] \in Seq(Producers \cup Nat)
          /\ Len(ms[l]) = Len(logs[l]) + n
          /\ \A i \in DOMAIN logs[l] : ms[l][i] = logs[l][i]
          /\ \A i \in DOMAIN ms[l] : i > Len(logs[l]) => ms[l][i] = p
      BY <3>1, Extended
    <3> QED  BY <3>2 DEF n
  <2> HIDE DEF ms
  <2>3. ms \in Logs /\ Len(ms) = Len(logs)
    <3>1. ms = [l \in 1 .. Len(logs) |-> ms[l]]
      BY <1>2, <1>5, <2>1 DEF AppendedLogs, ms
    <3>2. \A l \in 1 .. Len(logs) : ms[l] \in Seq(Producers \cup Nat)
      BY <1>2, <2>2
    <3> QED  BY <1>2, <3>1, <3>2 DEF Logs
  <2>4. Grown(p, logs, ms)
    <3>1. \A l \in DOMAIN logs : Len(ms[l]) >= Len(logs[l])
      BY <1>2, <2>2, GoingType
    <3> QED  BY <2>2, <2>3, <3>1 DEF Grown
  <2>5. ASSUME NEW i \in Batch(p)
        PROVE  Ack(p, i) \in Nat \X Nat /\ Stored(p, ms, Ack(p, i))
    <3> DEFINE q == Destination(p, i)
               n == Cardinality({j \in Going(p, q) : j < i})
               k == Cardinality(Going(p, q))
    <3>1. Ack(p, i) = <<q, Len(logs[q + 1]) + n>>
      BY <1>5 DEF Ack
    <3>2. i \in Going(p, q)
      BY DEF Going
    <3>3. n \in Nat /\ k \in Nat /\ n < k
      BY <1>3, <3>2, GoingType
    <3>4. q \in Nat /\ q + 1 \in DOMAIN logs /\ q < Len(logs) /\ (q + 1) - 1 = q
      BY <1>3
    <3>5. Len(ms[q + 1]) = Len(logs[q + 1]) + k /\ ms[q + 1] \in Seq(Producers \cup Nat)
      BY <2>2, <3>4
    <3> HIDE DEF q, n, k
    <3>6. Len(logs[q + 1]) \in Nat
      BY <1>2, <3>4
    <3>7. /\ Len(logs[q + 1]) + n \in Nat
          /\ Len(logs[q + 1]) + n + 1 \in DOMAIN ms[q + 1]
          /\ Len(logs[q + 1]) + n < Len(ms[q + 1])
      BY <3>3, <3>5, <3>6
    <3>8. ms[q + 1][Len(logs[q + 1]) + n + 1] = p
      BY <2>2, <3>3, <3>4, <3>6, <3>7
    <3> QED  BY <2>3, <3>1, <3>4, <3>7, <3>8 DEF Stored
  <2> QED  BY <2>4, <2>5 DEF ms
<1> QED  BY <1>4, <1>5

-----------------------------------------------------------------------------
(* Every step keeps the types.                                             *)

LEMMA IdleTypes ==
  /\ \A r \in {"none", "error"} : Sound(IdleProduce(r))
  /\ \A n \in Nat : IdlePoll(n) \in PollType
  /\ IdleMonitor \in [pc : {"idle", "list", "listed"}, count : Nat]
<1>1. ASSUME NEW r \in {"none", "error"} PROVE Sound(IdleProduce(r))
  <2>1. IdleProduce(r) \in ProduceType
    BY DEF IdleProduce, ProduceType
  <2> QED  BY <2>1 DEF Sound, IdleProduce
<1>2. ASSUME NEW n \in Nat PROVE IdlePoll(n) \in PollType
  BY DEF IdlePoll, PollType
<1>3. IdleMonitor \in [pc : {"idle", "list", "listed"}, count : Nat]
  BY DEF IdleMonitor
<1> QED  BY <1>1, <1>2, <1>3

LEMMA ProduceSet ==
  ASSUME NEW t \in ProduceType, NEW n \in Nat, NEW b \in BOOLEAN
  PROVE  /\ [t EXCEPT !.pc = "append"] \in ProduceType
         /\ [t EXCEPT !.i = n, !.pc = "read"] \in ProduceType
         /\ [t EXCEPT !.i = n, !.low = b] \in ProduceType
<1>1. [t EXCEPT !.pc = "append"] \in ProduceType
  BY Zenon DEF ProduceType
<1>2. [t EXCEPT !.i = n, !.pc = "read"] \in ProduceType
  BY Zenon DEF ProduceType
<1>3. [t EXCEPT !.i = n, !.low = b] \in ProduceType
  BY Zenon DEF ProduceType
<1> QED  BY <1>1, <1>2, <1>3

LEMMA ProdSet ==
  ASSUME ProdInv, NEW p \in Producers, NEW t, Sound(t), prod' = [prod EXCEPT ![p] = t]
  PROVE  /\ ProdInv' /\ prod'[p] = t
         /\ \A x \in Producers : x # p => prod'[x] = prod[x]
  BY DEF ProdInv, Sound

LEMMA ProdMoves ==
  ASSUME NEW p \in Producers, UNCHANGED <<poll, crt, mon>>,
         \A x \in Producers : x # p => prod'[x] = prod[x]
  PROVE  Moves(p)
  BY DEF Moves

LEMMA PollSet ==
  ASSUME HandlerInv, NEW c \in Pollers, NEW t \in PollType,
         poll' = [poll EXCEPT ![c] = t]
  PROVE  /\ poll' \in [Pollers -> PollType] /\ poll'[c] = t
         /\ \A x \in Pollers : x # c => poll'[x] = poll[x]
  BY DEF HandlerInv

LEMMA PollMoves ==
  ASSUME NEW c \in Pollers, UNCHANGED <<prod, crt, mon>>,
         \A x \in Pollers : x # c => poll'[x] = poll[x]
  PROVE  Moves(c)
  BY DEF Moves

LEMMA SentTypes ==
  /\ \A p \in Producers : /\ [kind |-> "append", of |-> p] \in Command
                          /\ [kind |-> "readback", of |-> p] \in Command
  /\ \A c \in Pollers : [kind |-> "fetch", of |-> c] \in Command
  /\ \A k \in Creators : [kind |-> "create", of |-> k] \in Command
  /\ [kind |-> "list", of |-> "monitor"] \in Command
  BY DEF Command

LEMMA ProduceStartType ==
  ASSUME TypeInv, NEW p \in Producers, ProduceStart(p)
  PROVE  TypeInv'
<1> DEFINE t == [IdleProduce("none") EXCEPT !.pc = "append"]
           m == [kind |-> "append", of |-> p]
<1>1. t.pc = "append" /\ t.i = 1 /\ t.reply = "none" /\ t \in ProduceType
  <2>1. t.pc = "append" /\ t.i = 1 /\ t.reply = "none"
    BY DEF IdleProduce
  <2>2. t \in ProduceType
    BY IdleTypes, ProduceSet DEF Sound
  <2> QED  BY <2>1, <2>2
<1>2. Sound(t)
  BY <1>1 DEF Sound
<1>3. /\ phase = "up" /\ prod[p].pc = "idle" /\ prod' = [prod EXCEPT ![p] = t]
      /\ queue' = Append(queue, m)
      /\ UNCHANGED <<phase, disk, storage, entries, dealt, poll, crt, mon, spawned, faults>>
  BY DEF ProduceStart, Send
<1> HIDE DEF t
<1>4. ProdInv' /\ prod'[p] = t /\ \A x \in Producers : x # p => prod'[x] = prod[x]
  BY <1>2, <1>3, ProdSet DEF TypeInv
<1>5. Moves(p) /\ \A x \in ToSet(queue) : x.of # p
  BY <1>3, <1>4, ProdMoves, NotQueued DEF TypeInv
<1>6. QueueInv'
  <2>1. m \in Command /\ m.of = p /\ Waits(m)'
    BY <1>1, <1>4, SentTypes DEF Waits
  <2> HIDE DEF m
  <2> QED  BY <1>3, <1>5, <2>1, QueueSend DEF TypeInv
<1>7. DiskInv' /\ HandlerInv'
  BY <1>3, DiskKept DEF TypeInv, HandlerInv, disk, storage
<1> QED  BY <1>3, <1>4, <1>6, <1>7 DEF TypeInv

LEMMA ProduceBusyType ==
  ASSUME TypeInv, NEW p \in Producers, ProduceBusy(p)
  PROVE  TypeInv'
<1>1. /\ phase = "up" /\ prod' = [prod EXCEPT ![p] = IdleProduce("error")] /\ TimesOut(p)
      /\ UNCHANGED <<phase, disk, storage, entries, dealt, poll, crt, mon, spawned>>
  BY BusyUp DEF ProduceBusy
<1>2. ProdInv' /\ \A x \in Producers : x # p => prod'[x] = prod[x]
  BY <1>1, IdleTypes, ProdSet DEF TypeInv
<1>3. QueueInv' /\ faults' \in 0 .. MaxFaults
  BY <1>1, <1>2, ProdMoves, QueueTimesOut
<1>4. DiskInv' /\ HandlerInv'
  BY <1>1, DiskKept DEF TypeInv, HandlerInv, disk, storage
<1> QED  BY <1>1, <1>2, <1>3, <1>4 DEF TypeInv

LEMMA NotifiedType ==
  ASSUME TypeInv, poll' = Notified
  PROVE  /\ HandlerInv => poll' \in [Pollers -> PollType]
         /\ \A c \in Pollers : /\ poll'[c].pc = poll[c].pc
                               /\ poll'[c].found = poll[c].found
                               /\ poll'[c].pos = poll[c].pos
                               /\ poll'[c].woken <=> poll[c].pc # "idle"
<1>1. \A c \in Pollers : poll[c] \in PollType
  BY DEF TypeInv, HandlerInv
<1> DEFINE w(c) == [poll[c] EXCEPT !.woken = poll[c].pc # "idle"]
<1>2. \A c \in Pollers : w(c) \in PollType
  BY <1>1 DEF PollType
<1>3. \A c \in Pollers : w(c).pc = poll[c].pc /\ w(c).found = poll[c].found
                         /\ w(c).pos = poll[c].pos 
  BY <1>1 DEF PollType
<1>4. \A c \in Pollers : w(c).woken <=> poll[c].pc # "idle"
  BY <1>1 DEF PollType
<1>5. poll' = [c \in Pollers |-> w(c)]
  BY DEF Notified
<1> HIDE DEF w
<1> QED  BY <1>2, <1>3, <1>4, <1>5

LEMMA ReadBackType ==
  ASSUME TypeInv, NEW p \in Producers, ReadBack(p)
  PROVE  TypeInv'
<1> DEFINE t == [prod[p] EXCEPT !.pc = "read"]
           m == [kind |-> "readback", of |-> p]
<1>1. /\ phase = "up" /\ prod[p].pc = "appended" /\ prod' = [prod EXCEPT ![p] = t]
      /\ poll' = Notified /\ queue' = Append(queue, m)
      /\ UNCHANGED <<phase, disk, storage, entries, dealt, crt, mon, spawned, faults>>
  BY BusyUp DEF ReadBack, Send, TypeInv, ProdInv
<1>2. t.pc = "read" /\ Sound(t)
  BY <1>1 DEF TypeInv, ProdInv, Sound, ProduceType
<1> HIDE DEF t
<1>3. ProdInv' /\ prod'[p] = t /\ \A x \in Producers : x # p => prod'[x] = prod[x]
  BY <1>1, <1>2, ProdSet DEF TypeInv
<1>4. HandlerInv' /\ \A c \in Pollers : poll'[c].pc = poll[c].pc
  BY <1>1, NotifiedType DEF TypeInv, HandlerInv
<1>5. Moves(p) /\ \A x \in ToSet(queue) : x.of # p
  BY <1>1, <1>3, <1>4, NotQueued DEF TypeInv, Moves
<1>6. QueueInv'
  <2>1. m \in Command /\ m.of = p /\ Waits(m)'
    BY <1>2, <1>3, SentTypes DEF Waits
  <2> HIDE DEF m
  <2> QED  BY <1>1, <1>5, <2>1, QueueSend DEF TypeInv
<1>7. DiskInv'
  BY <1>1, DiskKept DEF TypeInv, disk, storage
<1> QED  BY <1>1, <1>3, <1>4, <1>6, <1>7 DEF TypeInv

LEMMA LaterType ==
  ASSUME NEW acks \in Seq(Nat \X Nat)
  PROVE  Later(acks) \subseteq [acks : Seq(Nat \X Nat) \ {<<>>}, low : BOOLEAN]
<1>1. Low(Head(acks)) \in BOOLEAN
  BY DEF Low
<1>2. CASE acks = <<>>
  BY <1>2 DEF Later
<1>3. CASE acks # <<>>
  <2> DEFINE b == Low(Head(acks))
  <2>1. Later(acks) = {[acks |-> acks, low |-> b]}
    BY <1>3 DEF Later
  <2> HIDE DEF b
  <2>2. acks \in Seq(Nat \X Nat) \ {<<>>} /\ b \in BOOLEAN
    BY <1>1, <1>3 DEF b
  <2>3. [acks |-> acks, low |-> b] \in [acks : Seq(Nat \X Nat) \ {<<>>}, low : BOOLEAN]
    BY <2>2
  <2> QED  BY <2>1, <2>3
<1> QED  BY <1>2, <1>3

LEMMA DispatchType ==
  ASSUME TypeInv, NEW p \in Producers, Dispatch(p)
  PROVE  TypeInv'
<1> DEFINE t == prod[p]
           m == [kind |-> "readback", of |-> p]
<1>1. /\ phase = "up" /\ t.pc = "found" /\ Sound(t)
      /\ UNCHANGED <<phase, disk, storage, entries, dealt, poll, crt, mon, faults>>
  BY BusyUp DEF Dispatch, TypeInv, ProdInv
<1>2. t \in ProduceType /\ t.i \in 1 .. Len(t.acks) /\ t.reply = "none"
  BY <1>1 DEF Sound
<1>3. \A x \in ToSet(queue) : x.of # p
  BY <1>1, NotQueued DEF TypeInv
<1>4. DiskInv'
  BY <1>1, DiskKept DEF TypeInv, disk, storage
<1>5. CASE t.i < Len(t.acks)
  <2> DEFINE u == [t EXCEPT !.i = t.i + 1, !.pc = "read"]
  <2>1. /\ prod' = [prod EXCEPT ![p] = u] /\ queue' = Append(queue, m)
        /\ UNCHANGED spawned
    BY <1>1, <1>5 DEF Dispatch, Send, TypeInv, ProdInv
  <2>2. u.pc = "read" /\ u.acks = t.acks /\ u.i = t.i + 1 /\ u.reply = "none"
    BY <1>2 DEF ProduceType
  <2>3. u \in ProduceType
    <3>1. t.i + 1 \in Nat
      BY <1>2 DEF ProduceType
    <3> QED  BY <1>2, <3>1, ProduceSet
  <2>4. Sound(u)
    <3>1. Len(t.acks) \in Nat /\ t.i + 1 \in 1 .. Len(t.acks)
      BY <1>2, <1>5 DEF ProduceType
    <3> HIDE DEF t, u
    <3> QED  BY <2>2, <2>3, <3>1 DEF Sound
  <2> HIDE DEF u
  <2>5. ProdInv' /\ prod'[p] = u /\ \A x \in Producers : x # p => prod'[x] = prod[x]
    BY <2>1, <2>4, ProdSet DEF TypeInv
  <2>6. Moves(p)
    BY <1>1, <2>5, ProdMoves
  <2>7. QueueInv'
    <3>1. m \in Command /\ m.of = p /\ Waits(m)'
      BY <2>2, <2>5, SentTypes DEF Waits
    <3> HIDE DEF m
    <3> QED  BY <1>1, <1>3, <2>1, <2>6, <3>1, QueueSend DEF TypeInv
  <2>8. HandlerInv'
    BY <1>1, <2>1 DEF TypeInv, HandlerInv
  <2> QED  BY <1>1, <1>4, <2>5, <2>7, <2>8 DEF TypeInv
<1>6. CASE ~(t.i < Len(t.acks)) /\ p \in Durable
  <2> DEFINE u == [t EXCEPT !.i = 1, !.pc = "commit", !.low = Low(t.acks[1])]
  <2>1. prod' = [prod EXCEPT ![p] = u] /\ UNCHANGED <<queue, spawned>>
    BY <1>1, <1>6 DEF Dispatch, TypeInv, ProdInv
  <2>2. u.pc = "commit" /\ u.acks = t.acks /\ u.i = 1 /\ u.reply = "none"
    BY <1>2 DEF ProduceType
  <2>3. u \in ProduceType
    <3>1. Low(t.acks[1]) \in BOOLEAN
      BY DEF Low
    <3> QED  BY <1>2, <3>1 DEF ProduceType
  <2>4. Sound(u)
    BY <1>2, <1>6, <2>2, <2>3 DEF Sound, ProduceType
  <2> HIDE DEF u
  <2>5. ProdInv' /\ \A x \in Producers : x # p => prod'[x] = prod[x]
    BY <2>1, <2>4, ProdSet DEF TypeInv
  <2>6. QueueInv'
    BY <1>1, <1>3, <2>1, <2>5, ProdMoves, QueueStay DEF TypeInv
  <2>7. HandlerInv'
    BY <1>1, <2>1 DEF TypeInv, HandlerInv
  <2> QED  BY <1>1, <1>4, <2>5, <2>6, <2>7 DEF TypeInv
<1>7. CASE ~(t.i < Len(t.acks)) /\ p \notin Durable
  <2> DEFINE u == [t EXCEPT !.pc = "idle", !.reply = "ok"]
  <2>1. /\ prod' = [prod EXCEPT ![p] = u] /\ UNCHANGED queue
        /\ spawned' = spawned \cup Later(t.acks)
    BY <1>1, <1>7 DEF Dispatch
  <2>2. u.pc = "idle"
    BY <1>2 DEF ProduceType
  <2>3. u \in ProduceType
    BY <1>2 DEF ProduceType
  <2>4. Sound(u)
    BY <2>2, <2>3 DEF Sound
  <2> HIDE DEF u
  <2>5. ProdInv' /\ \A x \in Producers : x # p => prod'[x] = prod[x]
    BY <2>1, <2>4, ProdSet DEF TypeInv
  <2>6. QueueInv'
    BY <1>1, <1>3, <2>1, <2>5, ProdMoves, QueueStay DEF TypeInv
  <2>7. HandlerInv'
    <3>1. t.acks \in Seq(Nat \X Nat)
      BY <1>2 DEF ProduceType
    <3>2. Later(t.acks) \subseteq [acks : Seq(Nat \X Nat) \ {<<>>}, low : BOOLEAN]
      BY <3>1, LaterType
    <3> QED  BY <1>1, <2>1, <3>2 DEF TypeInv, HandlerInv
  <2> QED  BY <1>1, <1>4, <2>5, <2>6, <2>7 DEF TypeInv
<1> QED  BY <1>5, <1>6, <1>7

LEMMA CommittedType ==
  ASSUME NEW t, Sound(t), t.pc = "commit"
  PROVE  /\ Sound(Committed(t)) /\ Committed(t).acks = t.acks
         /\ t.i < Len(t.acks) => /\ Committed(t).pc = "commit"
                                 /\ Committed(t).i = t.i + 1
                                 /\ Committed(t).reply = "none"
         /\ ~(t.i < Len(t.acks)) => /\ Committed(t).pc = "idle"
                                    /\ Committed(t).reply = "ok"
<1>1. t \in ProduceType /\ t.i \in 1 .. Len(t.acks) /\ t.reply = "none"
  BY DEF Sound
<1>2. CASE t.i < Len(t.acks)
  <2> DEFINE u == [t EXCEPT !.i = @ + 1, !.low = Low(t.acks[t.i + 1])]
  <2>1. Committed(t) = u
    BY <1>2 DEF Committed
  <2>2. u.pc = "commit" /\ u.acks = t.acks /\ u.i = t.i + 1 /\ u.reply = "none"
    BY <1>1 DEF ProduceType
  <2>3. u \in ProduceType
    <3>1. Low(t.acks[t.i + 1]) \in BOOLEAN
      BY DEF Low
    <3>2. t.i + 1 \in Nat /\ u = [t EXCEPT !.i = t.i + 1, !.low = Low(t.acks[t.i + 1])]
      BY <1>1 DEF ProduceType
    <3> QED  BY <1>1, <3>1, <3>2, ProduceSet
  <2> HIDE DEF u
  <2>4. Sound(u)
    BY <1>1, <1>2, <2>2, <2>3 DEF Sound, ProduceType
  <2> QED  BY <1>2, <2>1, <2>2, <2>4
<1>3. CASE ~(t.i < Len(t.acks))
  <2> DEFINE u == [t EXCEPT !.pc = "idle", !.low = FALSE, !.reply = "ok"]
  <2>1. Committed(t) = u
    BY <1>3 DEF Committed
  <2>2. u.pc = "idle" /\ u.acks = t.acks /\ u.reply = "ok"
    BY <1>1 DEF ProduceType
  <2>3. u \in ProduceType
    BY <1>1 DEF ProduceType
  <2> HIDE DEF u
  <2>4. Sound(u)
    BY <2>2, <2>3 DEF Sound
  <2> QED  BY <1>3, <2>1, <2>2, <2>4
<1> QED  BY <1>2, <1>3

LEMMA CommitAck ==
  ASSUME TypeInv, NEW p \in Producers, prod[p].pc = "commit"
  PROVE  /\ prod[p].acks[prod[p].i] \in Nat \X Nat
         /\ prod[p].i \in DOMAIN prod[p].acks /\ phase = "up"
<1>1. Sound(prod[p])
  BY DEF TypeInv, ProdInv
<1>2. prod[p].acks \in Seq(Nat \X Nat) /\ prod[p].i \in 1 .. Len(prod[p].acks)
  BY <1>1 DEF Sound, ProduceType
<1> QED  BY <1>2, BusyUp

LEMMA CommitType ==
  ASSUME TypeInv, NEW p \in Producers, Commit(p) \/ CommitFails(p)
  PROVE  TypeInv'
<1> DEFINE ack == prod[p].acks[prod[p].i]
<1>1. /\ prod[p].pc = "commit"
      /\ UNCHANGED <<phase, logs, storage, dealt, queue, poll, crt, mon, spawned>>
      /\ \/ prod' = [prod EXCEPT ![p] = Committed(prod[p])]
         \/ prod' = [prod EXCEPT ![p] = IdleProduce("error")]
      /\ \/ UNCHANGED <<entries, file, faults>>
         \/ Registered(ack[1]) /\ (Persist(Raised(ack)) \/ PersistFails(Raised(ack)))
  BY Zenon DEF Commit, CommitFails
<1>2. phase = "up" /\ ack \in Nat \X Nat
  BY <1>1, CommitAck
<1>3. ProdInv' /\ \A x \in Producers : x # p => prod'[x] = prod[x]
  <2>1. Sound(Committed(prod[p])) /\ Sound(IdleProduce("error"))
    BY <1>1, CommittedType, IdleTypes DEF TypeInv, ProdInv
  <2> QED  BY <1>1, <2>1, ProdSet DEF TypeInv
<1>4. QueueInv'
  BY <1>1, <1>2, <1>3, ProdMoves, NotQueued, QueueStay DEF TypeInv
<1>5. DiskInv' /\ faults' \in 0 .. MaxFaults
  <2>1. CASE UNCHANGED <<entries, file, faults>>
    BY <1>1, <2>1, DiskKept DEF TypeInv, storage
  <2>2. CASE Registered(ack[1]) /\ (Persist(Raised(ack)) \/ PersistFails(Raised(ack)))
    <3> HIDE DEF ack
    <3>1. Raised(ack) \in Seq(Nat)
      BY <1>2, <2>2, RaisedType DEF TypeInv, DiskInv
    <3>2. UNCHANGED <<phase, logs, topics, robin>> /\ dealt' \in Nat
      BY <1>1 DEF storage, TypeInv, DiskInv
    <3> QED  BY <2>2, <3>1, <3>2, Persisting
  <2> QED  BY <1>1, <2>1, <2>2
<1>6. HandlerInv'
  BY <1>1 DEF TypeInv, HandlerInv
<1> QED  BY <1>1, <1>3, <1>4, <1>5, <1>6 DEF TypeInv

LEMMA SpawnedAck ==
  ASSUME TypeInv, NEW s \in spawned
  PROVE  /\ Head(s.acks) \in Nat \X Nat /\ Tail(s.acks) \in Seq(Nat \X Nat)
         /\ phase # "down"
<1>1. s.acks \in Seq(Nat \X Nat) /\ s.acks # <<>>
  BY DEF TypeInv, HandlerInv
<1>2. phase # "down"
  BY DEF TypeInv, QueueInv
<1> QED  BY <1>1, <1>2, HeadTailProperties

LEMMA CommitLaterType ==
  ASSUME TypeInv, NEW s \in spawned, CommitLater(s)
  PROVE  TypeInv'
<1> DEFINE ack == Head(s.acks)
<1>1. /\ UNCHANGED <<phase, logs, storage, dealt, queue, handlers>>
      /\ \/ UNCHANGED <<entries, file, faults>>
         \/ Registered(ack[1]) /\ (Persist(Raised(ack)) \/ PersistFails(Raised(ack)))
      /\ \/ spawned' = (spawned \ {s}) \cup Later(Tail(s.acks))
         \/ spawned' = spawned \ {s}
  BY Zenon DEF CommitLater
<1>2. ack \in Nat \X Nat /\ Tail(s.acks) \in Seq(Nat \X Nat) /\ phase # "down"
  BY SpawnedAck
<1> HIDE DEF ack
<1>3. HandlerInv'
  <2>1. Later(Tail(s.acks)) \subseteq [acks : Seq(Nat \X Nat) \ {<<>>}, low : BOOLEAN]
    BY <1>2, LaterType
  <2> QED  BY <1>1, <2>1 DEF TypeInv, HandlerInv, handlers
<1>4. DiskInv' /\ faults' \in 0 .. MaxFaults
  <2>1. CASE UNCHANGED <<entries, file, faults>>
    BY <1>1, <2>1, DiskKept DEF TypeInv, storage
  <2>2. CASE Registered(ack[1]) /\ (Persist(Raised(ack)) \/ PersistFails(Raised(ack)))
    <3>1. Raised(ack) \in Seq(Nat)
      BY <1>2, <2>2, RaisedType DEF TypeInv, DiskInv
    <3>2. UNCHANGED <<phase, logs, topics, robin>> /\ dealt' \in Nat
      BY <1>1 DEF storage, TypeInv, DiskInv
    <3> QED  BY <2>2, <3>1, <3>2, Persisting
  <2> QED  BY <1>1, <2>1, <2>2
<1>5. ProdInv' /\ QueueInv'
  BY <1>1, <1>2 DEF TypeInv, ProdInv, QueueInv, Waits, AllIdle, handlers
<1> QED  BY <1>1, <1>3, <1>4, <1>5 DEF TypeInv

LEMMA PollFields ==
  ASSUME NEW t \in PollType, NEW n \in Nat \cup {-1}, NEW k \in Nat, NEW b \in BOOLEAN
  PROVE  /\ [t EXCEPT !.pc = "read", !.wait = b, !.woken = FALSE, !.hw = n] \in PollType
         /\ [t EXCEPT !.pc = "read", !.woken = FALSE] \in PollType
         /\ [t EXCEPT !.pc = "asleep"] \in PollType
         /\ [t EXCEPT !.pc = "found", !.found = k] \in PollType
<1>1. [t EXCEPT !.pc = "read", !.wait = b, !.woken = FALSE, !.hw = n] \in PollType
  BY Zenon DEF PollType
<1>2. [t EXCEPT !.pc = "read", !.woken = FALSE] \in PollType
  BY Zenon DEF PollType
<1>3. [t EXCEPT !.pc = "asleep"] \in PollType
  BY Zenon DEF PollType
<1>4. [t EXCEPT !.pc = "found", !.found = k] \in PollType
  BY Zenon DEF PollType
<1> QED  BY <1>1, <1>2, <1>3, <1>4

\* A fetch is sent to the storage thread.
LEMMA AskType ==
  ASSUME TypeInv, phase = "up", NEW c \in Pollers, poll[c].pc # "read",
         NEW t \in PollType, t.pc = "read", Ask(c, t),
         UNCHANGED <<phase, disk, storage, entries, dealt, prod, crt, mon, spawned, faults>>
  PROVE  TypeInv'
<1> DEFINE m == [kind |-> "fetch", of |-> c]
<1>1. poll' = [poll EXCEPT ![c] = t] /\ queue' = Append(queue, m)
  BY DEF Ask, Send
<1>2. /\ poll' \in [Pollers -> PollType] /\ poll'[c] = t
      /\ \A x \in Pollers : x # c => poll'[x] = poll[x]
  BY <1>1, PollSet DEF TypeInv
<1>3. Moves(c) /\ \A x \in ToSet(queue) : x.of # c
  BY <1>2, PollMoves, NotQueued DEF TypeInv
<1>4. QueueInv'
  <2>1. m \in Command /\ m.of = c /\ Waits(m)'
    BY <1>2, SentTypes DEF Waits
  <2> HIDE DEF m
  <2> QED  BY <1>1, <1>3, <2>1, QueueSend DEF TypeInv
<1>5. DiskInv' /\ ProdInv' /\ HandlerInv'
  BY <1>2, DiskKept DEF TypeInv, ProdInv, HandlerInv, disk, storage
<1> QED  BY <1>4, <1>5 DEF TypeInv

LEMMA PollStartType ==
  ASSUME TypeInv, NEW c \in Pollers, PollStart(c)
  PROVE  TypeInv'
<1>1. PICK grouped \in BOOLEAN, wait \in BOOLEAN :
        /\ grouped => Registered(Polled)
        /\ Ask(c, [poll[c] EXCEPT
                     !.pc = "read", !.wait = wait, !.woken = FALSE,
                     !.hw = IF grouped THEN entries[Polled + 1] ELSE -1])
  BY Zenon DEF PollStart
<1> DEFINE n == IF grouped THEN entries[Polled + 1] ELSE -1
           t == [poll[c] EXCEPT !.pc = "read", !.wait = wait, !.woken = FALSE, !.hw = n]
<1>2. n \in Nat \cup {-1}
  <2>1. CASE grouped
    <3>1. Registered(Polled)
      BY <1>1, <2>1, Zenon
    <3>2. entries \in Seq(Nat) /\ Polled \in Nat
      BY BrokerAssumption DEF TypeInv, DiskInv
    <3>3. Polled + 1 \in 1 .. Len(entries)
      BY <3>1, <3>2 DEF Registered
    <3>4. entries[Polled + 1] \in Nat
      BY <3>2, <3>3, ElementOfSeq
    <3> QED  BY <2>1, <3>4
  <2>2. CASE ~grouped
    BY <2>2
  <2> QED  BY <2>1, <2>2
<1>3. Ask(c, t)
  BY <1>1
<1> HIDE DEF n
<1>4. poll[c] \in PollType
  BY DEF TypeInv, HandlerInv
<1>5. t \in PollType /\ t.pc = "read"
  BY <1>2, <1>4, PollFields DEF PollType
<1> HIDE DEF t
<1> QED  BY <1>3, <1>5, AskType DEF PollStart

LEMMA PollAgainType ==
  ASSUME TypeInv, NEW c \in Pollers, PollAgain(c)
  PROVE  TypeInv'
<1> DEFINE t == [poll[c] EXCEPT !.pc = "read", !.woken = FALSE]
<1>1. phase = "up" /\ poll[c].pc = "asleep" /\ poll[c] \in PollType
  BY BusyUp DEF PollAgain, TypeInv, HandlerInv
<1>2. t \in PollType /\ t.pc = "read" /\ Ask(c, t)
  BY <1>1, PollFields DEF PollAgain, PollType
<1> HIDE DEF t
<1> QED  BY <1>1, <1>2, AskType DEF PollAgain

\* A fetch goes on without the storage thread.
LEMMA PollSteps ==
  ASSUME TypeInv, phase = "up", NEW c \in Pollers, poll[c].pc # "read",
         NEW t \in PollType, poll' = [poll EXCEPT ![c] = t],
         UNCHANGED <<phase, disk, storage, entries, dealt, queue, prod, crt, mon,
                     spawned, faults>>
  PROVE  TypeInv'
<1>1. /\ poll' \in [Pollers -> PollType]
      /\ \A x \in Pollers : x # c => poll'[x] = poll[x]
  BY PollSet DEF TypeInv
<1>2. QueueInv'
  BY <1>1, PollMoves, NotQueued, QueueStay DEF TypeInv
<1>3. DiskInv' /\ ProdInv' /\ HandlerInv'
  BY <1>1, DiskKept DEF TypeInv, ProdInv, HandlerInv, disk, storage
<1> QED  BY <1>2, <1>3 DEF TypeInv

LEMMA PollSleepType ==
  ASSUME TypeInv, NEW c \in Pollers, PollSleep(c)
  PROVE  TypeInv'
<1> DEFINE t == [poll[c] EXCEPT !.pc = "asleep"]
<1>1. phase = "up" /\ poll[c].pc = "found" /\ poll[c] \in PollType
  BY BusyUp DEF PollSleep, TypeInv, HandlerInv
<1>2. t \in PollType /\ poll' = [poll EXCEPT ![c] = t]
  BY <1>1, PollFields DEF PollSleep
<1> HIDE DEF t
<1> QED  BY <1>1, <1>2, PollSteps DEF PollSleep

LEMMA PollReplyType ==
  ASSUME TypeInv, NEW c \in Pollers, PollReply(c)
  PROVE  TypeInv'
<1> DEFINE t == poll[c]
           hw == IF t.hw >= 0 THEN t.hw ELSE entries[Polled + 1]
           S == {o \in t.pos .. t.pos + t.found - 1 : o < hw}
           n == IF t.hw >= 0 \/ Registered(Polled)
                THEN t.pos + Cardinality(S) ELSE t.pos
<1>1. t.pc \in {"found", "asleep"} /\ poll' = [poll EXCEPT ![c] = IdlePoll(n)]
  BY Zenon DEF PollReply
<1>2. phase = "up" /\ t \in PollType
  BY <1>1, BusyUp DEF TypeInv, HandlerInv
<1>3. t.pos \in Nat /\ t.found \in Nat
  BY <1>2 DEF PollType
<1>4. Cardinality(S) \in Nat
  <2>1. IsFiniteSet(t.pos .. t.pos + t.found - 1)
    <3>1. t.pos \in Int /\ t.pos + t.found - 1 \in Int
      BY <1>3
    <3> QED  BY <3>1, FS_Interval, Zenon
  <2> HIDE DEF hw
  <2>2. IsFiniteSet(S)
    BY <2>1, FS_Subset
  <2> QED  BY <2>2, FS_CardinalityType
<1>5. n \in Nat
  <2> HIDE DEF S
  <2> QED  BY <1>3, <1>4
<1> HIDE DEF n
<1>6. IdlePoll(n) \in PollType
  BY <1>5, IdleTypes
<1> QED  BY <1>1, <1>2, <1>6, PollSteps DEF PollReply

LEMMA PollBusyType ==
  ASSUME TypeInv, NEW c \in Pollers, PollBusy(c)
  PROVE  TypeInv'
<1>1. /\ phase = "up" /\ poll' = [poll EXCEPT ![c] = IdlePoll(poll[c].pos)] /\ TimesOut(c)
      /\ UNCHANGED <<phase, disk, storage, entries, dealt, prod, crt, mon, spawned>>
  BY BusyUp DEF PollBusy
<1>2. IdlePoll(poll[c].pos) \in PollType
  BY IdleTypes DEF TypeInv, HandlerInv, PollType
<1>3. /\ poll' \in [Pollers -> PollType]
      /\ \A x \in Pollers : x # c => poll'[x] = poll[x]
  BY <1>1, <1>2, PollSet DEF TypeInv
<1>4. QueueInv' /\ faults' \in 0 .. MaxFaults
  BY <1>1, <1>3, PollMoves, QueueTimesOut
<1>5. DiskInv' /\ ProdInv' /\ HandlerInv'
  BY <1>1, <1>3, DiskKept DEF TypeInv, ProdInv, HandlerInv, disk, storage
<1> QED  BY <1>1, <1>4, <1>5 DEF TypeInv

CreateType ==
    [pc : {"idle", "create", "created"}, reply : {"none", "ok", "error"}]

LEMMA CreateFields ==
  ASSUME NEW t \in CreateType
  PROVE  /\ \A r \in {"none", "ok", "error"} : IdleCreate(r) \in CreateType
         /\ [t EXCEPT !.pc = "create"] \in CreateType
         /\ [t EXCEPT !.pc = "created"] \in CreateType
  BY Zenon DEF CreateType, IdleCreate

LEMMA CrtSet ==
  ASSUME HandlerInv, NEW k \in Creators, NEW t \in CreateType,
         crt' = [crt EXCEPT ![k] = t]
  PROVE  /\ crt' \in [Creators -> CreateType] /\ crt'[k] = t
         /\ \A x \in Creators : x # k => crt'[x] = crt[x]
  BY DEF HandlerInv, CreateType

LEMMA CrtMoves ==
  ASSUME NEW k \in Creators, UNCHANGED <<prod, poll, mon>>,
         \A x \in Creators : x # k => crt'[x] = crt[x]
  PROVE  Moves(k)
  BY DEF Moves

LEMMA CreateStartType ==
  ASSUME TypeInv, NEW k \in Creators, CreateStart(k)
  PROVE  TypeInv'
<1> DEFINE t == [crt[k] EXCEPT !.pc = "create"]
           m == [kind |-> "create", of |-> k]
<1>1. crt[k] \in CreateType
  BY DEF TypeInv, HandlerInv, CreateType
<1>2. /\ phase = "up" /\ crt[k].pc = "idle" /\ crt' = [crt EXCEPT ![k] = t]
      /\ queue' = Append(queue, m)
      /\ UNCHANGED <<phase, disk, storage, entries, dealt, prod, poll, mon, spawned, faults>>
  BY DEF CreateStart, IdleCreate, Send, TypeInv, HandlerInv
<1>3. t \in CreateType /\ t.pc = "create"
  BY <1>1, CreateFields DEF CreateType
<1> HIDE DEF t
<1>4. /\ crt' \in [Creators -> CreateType] /\ crt'[k] = t
      /\ \A x \in Creators : x # k => crt'[x] = crt[x]
  BY <1>2, <1>3, CrtSet DEF TypeInv
<1>5. Moves(k) /\ \A x \in ToSet(queue) : x.of # k
  BY <1>2, <1>4, CrtMoves, NotQueued DEF TypeInv
<1>6. QueueInv'
  <2>1. m \in Command /\ m.of = k /\ Waits(m)'
    BY <1>3, <1>4, SentTypes DEF Waits
  <2> HIDE DEF m
  <2> QED  BY <1>2, <1>5, <2>1, QueueSend DEF TypeInv
<1>7. DiskInv' /\ ProdInv' /\ HandlerInv'
  BY <1>2, <1>4, DiskKept DEF TypeInv, ProdInv, HandlerInv, CreateType, disk, storage
<1> QED  BY <1>2, <1>6, <1>7 DEF TypeInv

LEMMA CreateBusyType ==
  ASSUME TypeInv, NEW k \in Creators, CreateBusy(k)
  PROVE  TypeInv'
<1>1. /\ phase = "up" /\ crt' = [crt EXCEPT ![k] = IdleCreate("error")] /\ TimesOut(k)
      /\ UNCHANGED <<phase, disk, storage, entries, dealt, prod, poll, mon, spawned>>
  BY BusyUp DEF CreateBusy
<1>2. IdleCreate("error") \in CreateType
  BY DEF IdleCreate, CreateType
<1>3. /\ crt' \in [Creators -> CreateType]
      /\ \A x \in Creators : x # k => crt'[x] = crt[x]
  BY <1>1, <1>2, CrtSet DEF TypeInv
<1>4. QueueInv' /\ faults' \in 0 .. MaxFaults
  BY <1>1, <1>3, CrtMoves, QueueTimesOut
<1>5. DiskInv' /\ ProdInv' /\ HandlerInv'
  BY <1>1, <1>3, DiskKept DEF TypeInv, ProdInv, HandlerInv, CreateType, disk, storage
<1> QED  BY <1>1, <1>4, <1>5 DEF TypeInv

LEMMA CreatedType ==
  ASSUME TypeInv, NEW k \in Creators, Created(k)
  PROVE  TypeInv'
<1>1. PICK r \in {"ok", "error"} : crt' = [crt EXCEPT ![k] = IdleCreate(r)]
  BY Zenon DEF Created
<1>2. /\ crt[k].pc = "created" /\ phase = "up" /\ dealt' = Asked
      /\ Persist(Ensured(Asked)) \/ PersistFails(Ensured(Asked))
      /\ UNCHANGED <<phase, logs, storage, queue, prod, poll, mon, spawned>>
  BY BusyUp, Zenon DEF Created
<1>3. IdleCreate(r) \in CreateType
  BY DEF IdleCreate, CreateType
<1>4. /\ crt' \in [Creators -> CreateType]
      /\ \A x \in Creators : x # k => crt'[x] = crt[x]
  BY <1>1, <1>3, CrtSet DEF TypeInv
<1>5. QueueInv'
  BY <1>2, <1>4, CrtMoves, NotQueued, QueueStay DEF TypeInv
<1>6. Ensured(Asked) \in Seq(Nat) /\ Asked \in Nat
  BY BrokerAssumption, EnsuredType DEF TypeInv, DiskInv
<1>7. DiskInv' /\ faults' \in 0 .. MaxFaults
  BY <1>2, <1>6, Persisting DEF storage
<1>8. ProdInv' /\ HandlerInv'
  BY <1>2, <1>4 DEF TypeInv, ProdInv, HandlerInv, CreateType
<1> QED  BY <1>2, <1>5, <1>7, <1>8 DEF TypeInv

MonitorType == [pc : {"idle", "list", "listed"}, count : Nat]

LEMMA MonitorStartType ==
  ASSUME TypeInv, MonitorStart
  PROVE  TypeInv'
<1> DEFINE m == [kind |-> "list", of |-> "monitor"]
<1>1. /\ phase = "up" /\ mon.pc = "idle" /\ mon' = [mon EXCEPT !.pc = "list"]
      /\ queue' = Append(queue, m)
      /\ UNCHANGED <<phase, disk, storage, entries, dealt, prod, poll, crt, spawned, faults>>
  BY DEF MonitorStart, Send
<1>2. mon' \in MonitorType /\ mon'.pc = "list"
  BY <1>1 DEF TypeInv, HandlerInv, MonitorType
<1>3. QueueInv'
  <2>1. m \in Command /\ m.of = "monitor" /\ Waits(m)'
    BY <1>2, SentTypes DEF Waits
  <2>2. Moves("monitor") /\ \A x \in ToSet(queue) : x.of # "monitor"
    BY <1>1, NotQueued DEF TypeInv, Moves
  <2> HIDE DEF m
  <2> QED  BY <1>1, <2>1, <2>2, QueueSend DEF TypeInv
<1>4. DiskInv' /\ ProdInv' /\ HandlerInv'
  BY <1>1, <1>2, DiskKept DEF TypeInv, ProdInv, HandlerInv, MonitorType, disk, storage
<1> QED  BY <1>1, <1>3, <1>4 DEF TypeInv

LEMMA MonitorBusyType ==
  ASSUME TypeInv, MonitorBusy
  PROVE  TypeInv'
<1>1. /\ phase = "up" /\ mon' = IdleMonitor /\ TimesOut("monitor")
      /\ UNCHANGED <<phase, disk, storage, entries, dealt, prod, poll, crt, spawned>>
  BY BusyUp DEF MonitorBusy
<1>2. Moves("monitor")
  BY <1>1 DEF Moves
<1>3. QueueInv' /\ faults' \in 0 .. MaxFaults
  BY <1>1, <1>2, QueueTimesOut
<1>4. DiskInv' /\ ProdInv' /\ HandlerInv'
  BY <1>1, IdleTypes, DiskKept DEF TypeInv, ProdInv, HandlerInv, disk, storage
<1> QED  BY <1>1, <1>3, <1>4 DEF TypeInv

LEMMA MonitorRegisterType ==
  ASSUME TypeInv, MonitorRegister
  PROVE  TypeInv'
<1>1. /\ phase = "up" /\ mon.pc = "listed" /\ mon' = IdleMonitor
      /\ Persist(Ensured(mon.count)) \/ PersistFails(Ensured(mon.count))
      /\ UNCHANGED <<phase, logs, storage, dealt, queue, prod, poll, crt, spawned>>
  BY BusyUp DEF MonitorRegister
<1>2. QueueInv'
  <2>1. Moves("monitor") /\ \A x \in ToSet(queue) : x.of # "monitor"
    BY <1>1, NotQueued DEF TypeInv, Moves
  <2> QED  BY <1>1, <2>1, QueueStay DEF TypeInv
<1>3. Ensured(mon.count) \in Seq(Nat)
  <2>1. mon.count \in Nat
    BY DEF TypeInv, HandlerInv
  <2> QED  BY <2>1, EnsuredType DEF TypeInv, DiskInv
<1>4. DiskInv' /\ faults' \in 0 .. MaxFaults
  <2>1. dealt' \in Nat /\ UNCHANGED <<phase, logs, topics, robin>>
    BY <1>1 DEF TypeInv, DiskInv, storage
  <2> QED  BY <1>1, <1>3, <2>1, Persisting
<1>5. ProdInv' /\ HandlerInv'
  BY <1>1, IdleTypes DEF TypeInv, ProdInv, HandlerInv
<1> QED  BY <1>1, <1>2, <1>4, <1>5 DEF TypeInv

LEMMA InHand ==
  ASSUME TypeInv, hand.kind # "none"
  PROVE  /\ queue # <<>> /\ hand \in Command /\ hand \in ToSet(queue)
         /\ phase \in {"up", "stopping"}
         /\ phase = "up" => Waits(hand)
         /\ hand.kind \in {"append", "readback"} => hand.of \in Producers
         /\ hand.kind = "fetch" => hand.of \in Pollers
         /\ hand.kind = "create" => hand.of \in Creators
         /\ hand.kind = "list" => hand.of = "monitor"
<1>1. queue # <<>>
  BY DEF hand
<1>2. hand \in Command /\ hand \in ToSet(queue)
  BY <1>1, TailSingle DEF hand, TypeInv, QueueInv
<1>3. phase \in {"up", "stopping"} /\ (phase = "up" => Waits(hand))
  BY <1>1, <1>2 DEF TypeInv, QueueInv
<1> QED  BY <1>1, <1>2, <1>3 DEF Command

LEMMA OpenPartitionType ==
  ASSUME TypeInv, OpenPartition
  PROVE  TypeInv'
<1>1. /\ logs' = Append(logs, <<>>) /\ topics = 0
      /\ UNCHANGED <<phase, file, storage, entries, dealt, queue, handlers, spawned, faults>>
  BY DEF OpenPartition
<1>2. logs \in Logs /\ <<>> \in Seq(Producers \cup Nat)
  BY DEF TypeInv, DiskInv, Logs
<1>3. logs' \in Logs /\ Len(logs') = Len(logs) + 1 /\ Len(logs) \in Nat
  BY <1>1, <1>2 DEF Logs
<1>4. DiskInv'
  BY <1>1, <1>3 DEF TypeInv, DiskInv, Logs, storage
<1>5. ProdInv' /\ HandlerInv' /\ QueueInv'
  BY <1>1 DEF TypeInv, ProdInv, HandlerInv, QueueInv, Waits, AllIdle, handlers
<1> QED  BY <1>1, <1>4, <1>5 DEF TypeInv

\* A handler of a request to produce gets its answer, if it is there.
LEMMA AnswerProduce ==
  ASSUME TypeInv, hand.kind \in {"append", "readback"}, Done, NEW t, Sound(t),
         prod' = Answered(prod, [prod EXCEPT ![hand.of] = t]),
         UNCHANGED <<phase, poll, crt, mon, spawned>>
  PROVE  ProdInv' /\ HandlerInv' /\ QueueInv'
<1>1. queue # <<>> /\ phase \in {"up", "stopping"} /\ hand.of \in Producers
  BY InHand
<1>2. HandlerInv'
  BY DEF TypeInv, HandlerInv
<1>3. CASE phase = "up"
  <2>1. prod' = [prod EXCEPT ![hand.of] = t]
    BY <1>3 DEF Answered
  <2>2. ProdInv' /\ \A x \in Producers : x # hand.of => prod'[x] = prod[x]
    BY <1>1, <2>1, ProdSet DEF TypeInv
  <2>3. Moves(hand.of)
    BY <1>1, <2>2, ProdMoves
  <2> QED  BY <1>1, <1>2, <1>3, <2>2, <2>3, QueueDone DEF TypeInv
<1>4. CASE phase = "stopping"
  <2>1. UNCHANGED handlers
    BY <1>4 DEF Answered, handlers
  <2> QED  BY <1>1, <1>2, <1>4, <2>1, QueueDone DEF TypeInv, ProdInv, handlers
<1> QED  BY <1>1, <1>3, <1>4

LEMMA AnswerPoll ==
  ASSUME TypeInv, hand.kind = "fetch", Done, NEW t \in PollType,
         poll' = Answered(poll, [poll EXCEPT ![hand.of] = t]),
         UNCHANGED <<phase, prod, crt, mon, spawned>>
  PROVE  ProdInv' /\ HandlerInv' /\ QueueInv'
<1>1. queue # <<>> /\ phase \in {"up", "stopping"} /\ hand.of \in Pollers
  BY InHand
<1>2. ProdInv'
  BY DEF TypeInv, ProdInv
<1>3. CASE phase = "up"
  <2>1. poll' = [poll EXCEPT ![hand.of] = t]
    BY <1>3 DEF Answered
  <2>2. /\ poll' \in [Pollers -> PollType]
        /\ \A x \in Pollers : x # hand.of => poll'[x] = poll[x]
    BY <1>1, <2>1, PollSet DEF TypeInv
  <2>3. Moves(hand.of)
    BY <1>1, <2>2, PollMoves
  <2>4. HandlerInv'
    BY <2>2 DEF TypeInv, HandlerInv
  <2> QED  BY <1>1, <1>2, <1>3, <2>3, <2>4, QueueDone DEF TypeInv
<1>4. CASE phase = "stopping"
  <2>1. UNCHANGED handlers
    BY <1>4 DEF Answered, handlers
  <2> QED  BY <1>1, <1>2, <1>4, <2>1, QueueDone DEF TypeInv, HandlerInv, handlers
<1> QED  BY <1>1, <1>3, <1>4

LEMMA AnswerCreate ==
  ASSUME TypeInv, hand.kind = "create", Done, NEW t \in CreateType,
         crt' = Answered(crt, [crt EXCEPT ![hand.of] = t]),
         UNCHANGED <<phase, prod, poll, mon, spawned>>
  PROVE  ProdInv' /\ HandlerInv' /\ QueueInv'
<1>1. queue # <<>> /\ phase \in {"up", "stopping"} /\ hand.of \in Creators
  BY InHand
<1>2. ProdInv'
  BY DEF TypeInv, ProdInv
<1>3. CASE phase = "up"
  <2>1. crt' = [crt EXCEPT ![hand.of] = t]
    BY <1>3 DEF Answered
  <2>2. /\ crt' \in [Creators -> CreateType]
        /\ \A x \in Creators : x # hand.of => crt'[x] = crt[x]
    BY <1>1, <2>1, CrtSet DEF TypeInv
  <2>3. Moves(hand.of)
    BY <1>1, <2>2, CrtMoves
  <2>4. HandlerInv'
    BY <2>2 DEF TypeInv, HandlerInv, CreateType
  <2> QED  BY <1>1, <1>2, <1>3, <2>3, <2>4, QueueDone DEF TypeInv
<1>4. CASE phase = "stopping"
  <2>1. UNCHANGED handlers
    BY <1>4 DEF Answered, handlers
  <2> QED  BY <1>1, <1>2, <1>4, <2>1, QueueDone DEF TypeInv, HandlerInv, handlers
<1> QED  BY <1>1, <1>3, <1>4

\* The handler once the storage thread has answered its append.
AppendedProduce(p) ==
    [prod[p] EXCEPT !.pc = "appended", !.acks = [i \in Batch(p) |-> Ack(p, i)]]

LEMMA AppendFacts ==
  ASSUME TypeInv, ExecuteAppend
  PROVE  /\ hand.of \in Producers /\ Grown(hand.of, logs, logs') /\ Count # 0 /\ Ready
         /\ prod' = Answered(prod, [prod EXCEPT ![hand.of] = AppendedProduce(hand.of)])
         /\ phase = "up" =>
              /\ Sound(AppendedProduce(hand.of))
              /\ AppendedProduce(hand.of).pc = "appended"
              /\ AppendedProduce(hand.of).reply = "none"
              /\ \A i \in DOMAIN AppendedProduce(hand.of).acks :
                   Stored(hand.of, logs', AppendedProduce(hand.of).acks[i])
<1> DEFINE p == hand.of
           u == AppendedProduce(p)
           acks == [i \in Batch(p) |-> Ack(p, i)]
<1>1. hand.kind = "append" /\ Ready /\ Count # 0 /\ logs' = AppendedLogs(p) /\ p \in Producers
  BY InHand DEF ExecuteAppend, AppendedLogs
<1>2. prod' = Answered(prod, [prod EXCEPT ![p] = u])
  BY <1>1 DEF ExecuteAppend, AppendedProduce, TypeInv, ProdInv
<1>3. /\ Grown(p, logs, logs')
      /\ \A i \in Batch(p) : Ack(p, i) \in Nat \X Nat /\ Stored(p, logs', Ack(p, i))
  <2> HIDE DEF p
  <2>1. /\ Grown(p, logs, AppendedLogs(p))
        /\ \A i \in Batch(p) : /\ Ack(p, i) \in Nat \X Nat
                               /\ Stored(p, AppendedLogs(p), Ack(p, i))
    BY <1>1, Appending
  <2> QED  BY <1>1, <2>1
<1> HIDE DEF p
<1>4. /\ acks \in Seq(Nat \X Nat) /\ Len(acks) >= 1
      /\ \A i \in DOMAIN acks : Stored(p, logs', acks[i])
  <2>1. acks \in Seq(Nat \X Nat) /\ Len(acks) >= 1
    <3> DEFINE f(i) == Ack(p, i)
    <3>1. acks = [i \in Batch(p) |-> f(i)] /\ \A i \in Batch(p) : f(i) \in Nat \X Nat
      BY <1>3
    <3>2. Batch(p) = 1 .. 1 \/ Batch(p) = 1 .. 2
      BY BatchType
    <3> HIDE DEF f, acks
    <3>3. CASE Batch(p) = 1 .. 1
      BY <3>1, <3>3
    <3>4. CASE Batch(p) = 1 .. 2
      BY <3>1, <3>4
    <3> QED  BY <3>2, <3>3, <3>4
  <2>2. \A i \in DOMAIN acks : Stored(p, logs', acks[i])
    BY <1>3
  <2> QED  BY <2>1, <2>2
<1>5. ASSUME phase = "up"
      PROVE  Sound(u) /\ u.pc = "appended" /\ u.acks = acks /\ u.reply = "none"
  <2>1. Sound(prod[p]) /\ prod[p].pc = "append"
    BY <1>1, <1>5, InHand DEF p, Waits, TypeInv, ProdInv
  <2> HIDE DEF acks
  <2>2. u = [prod[p] EXCEPT !.pc = "appended", !.acks = acks]
    BY DEF AppendedProduce, acks
  <2>3. prod[p] \in ProduceType /\ prod[p].i = 1 /\ prod[p].reply = "none"
    BY <2>1 DEF Sound
  <2> HIDE DEF u
  <2>4. u \in ProduceType
    BY <1>4, <2>2, <2>3, Zenon DEF ProduceType
  <2>5. u.pc = "appended" /\ u.acks = acks /\ u.i = 1 /\ u.reply = "none"
    BY <2>2, <2>3 DEF ProduceType
  <2> QED  BY <1>4, <2>4, <2>5 DEF Sound
<1> QED  BY <1>1, <1>2, <1>3, <1>4, <1>5 DEF p

LEMMA ExecuteAppendType ==
  ASSUME TypeInv, ExecuteAppend
  PROVE  TypeInv'
<1>1. /\ hand.kind = "append" /\ Ready /\ Count # 0 /\ topics' = Count /\ Done
      /\ UNCHANGED <<phase, file, entries, dealt, poll, crt, mon, spawned, faults>>
  BY DEF ExecuteAppend
<1>2. Grown(hand.of, logs, logs')
  BY AppendFacts
<1>3. robin' \in Nat
  <2>1. Count \in Nat /\ Count > 0 /\ robin \in Nat
    BY <1>1, Counting DEF TypeInv, DiskInv
  <2> DEFINE n == Cardinality(Batch(hand.of))
  <2>2. n \in Nat
    BY BatchType
  <2>3. robin' = robin \/ robin' = (robin + n) % Count
    BY DEF ExecuteAppend
  <2> HIDE DEF n
  <2> QED  BY <2>1, <2>2, <2>3
<1>4. DiskInv'
  <2>1. /\ logs \in Logs /\ logs' \in Logs /\ Len(logs') = Len(logs) /\ Len(logs) \in Nat
        /\ Count \in 0 .. Len(logs) /\ phase # "down"
    BY <1>1, <1>2, Counting, BusyUp DEF TypeInv, DiskInv, Logs, Grown, Ready
  <2> QED  BY <1>1, <1>3, <2>1 DEF TypeInv, DiskInv, Logs
<1>5. ProdInv' /\ HandlerInv' /\ QueueInv'
  <2>1. CASE phase = "up"
    BY <1>1, <2>1, AppendFacts, AnswerProduce
  <2>2. CASE phase # "up"
    <3>1. prod' = Answered(prod, [prod EXCEPT ![hand.of] = IdleProduce("error")])
      BY <2>2, AppendFacts DEF Answered
    <3> QED  BY <1>1, <3>1, IdleTypes, AnswerProduce
  <2> QED  BY <2>1, <2>2
<1> QED  BY <1>1, <1>4, <1>5 DEF TypeInv

LEMMA ExecuteReadBackType ==
  ASSUME TypeInv, ExecuteReadBack
  PROVE  TypeInv'
<1> DEFINE p == hand.of
           t == IF phase = "up" THEN [prod[p] EXCEPT !.pc = "found"] ELSE IdleProduce("error")
<1>1. /\ hand.kind = "readback" /\ Done /\ p \in Producers
      /\ UNCHANGED <<phase, disk, storage, entries, dealt, poll, crt, mon, spawned, faults>>
  BY InHand DEF ExecuteReadBack
<1>2. prod' = Answered(prod, [prod EXCEPT ![p] = t])
  BY <1>1 DEF ExecuteReadBack, Answered, TypeInv, ProdInv
<1>3. Sound(t)
  <2>1. CASE phase = "up"
    <3>1. Sound(prod[p]) /\ prod[p].pc = "read"
      BY <1>1, <2>1, InHand DEF Waits, TypeInv, ProdInv
    <3> HIDE DEF p
    <3> QED  BY <2>1, <3>1 DEF Sound, ProduceType
  <2>2. CASE phase # "up"
    BY <2>2, IdleTypes
  <2> QED  BY <2>1, <2>2
<1> HIDE DEF t
<1>4. ProdInv' /\ HandlerInv' /\ QueueInv'
  BY <1>1, <1>2, <1>3, AnswerProduce
<1>5. DiskInv'
  BY <1>1, DiskKept DEF TypeInv, disk, storage
<1> QED  BY <1>1, <1>4, <1>5 DEF TypeInv

LEMMA FoundType ==
  ASSUME TypeInv, Polled < Len(logs), NEW pos \in Nat, NEW n \in Found(pos)
  PROVE  n \in Nat /\ (n = 0 => Len(logs[Polled + 1]) <= pos)
<1>1. Len(logs[Polled + 1]) \in Nat
  BY BrokerAssumption DEF TypeInv, DiskInv
<1> QED  BY <1>1 DEF Found

LEMMA ExecuteFetchType ==
  ASSUME TypeInv, ExecuteFetch
  PROVE  TypeInv'
<1> DEFINE c == hand.of
<1>1. /\ hand.kind = "fetch" /\ Ready /\ Polled < Len(logs) /\ topics' = Count
      /\ Done /\ c \in Pollers
      /\ UNCHANGED <<phase, disk, robin, entries, dealt, prod, crt, mon, spawned, faults>>
  BY InHand DEF ExecuteFetch
<1>2. PICK n \in Found(poll[c].pos) :
        poll' = Answered(poll, [poll EXCEPT ![c].pc = "found", ![c].found = n])
  BY DEF ExecuteFetch
<1>3. poll[c] \in PollType /\ poll[c].pos \in Nat
  BY <1>1 DEF TypeInv, HandlerInv, PollType
<1>4. n \in Nat
  BY <1>1, <1>2, <1>3, FoundType
<1> DEFINE t == [poll[c] EXCEPT !.pc = "found", !.found = n]
<1>5. t \in PollType
  BY <1>3, <1>4, PollFields
<1>6. poll' = Answered(poll, [poll EXCEPT ![c] = t])
  BY <1>1, <1>2 DEF Answered, TypeInv, HandlerInv
<1> HIDE DEF t
<1>7. ProdInv' /\ HandlerInv' /\ QueueInv'
  BY <1>1, <1>5, <1>6, AnswerPoll
<1>8. DiskInv'
  BY <1>1, CountedDisk DEF disk
<1> QED  BY <1>1, <1>7, <1>8 DEF TypeInv

LEMMA ExecuteUnknownType ==
  ASSUME TypeInv, ExecuteUnknown
  PROVE  TypeInv'
<1>1. /\ hand.kind \in {"append", "fetch"} /\ Ready /\ topics' = Count /\ Done
      /\ UNCHANGED <<phase, disk, robin, entries, dealt, crt, mon, spawned, faults>>
  BY DEF ExecuteUnknown
<1>2. DiskInv'
  BY <1>1, CountedDisk DEF disk
<1>3. CASE hand.kind = "append"
  <2>1. /\ prod' = Answered(prod, [prod EXCEPT ![hand.of] = IdleProduce("error")])
        /\ UNCHANGED poll
    BY <1>3 DEF ExecuteUnknown
  <2>2. ProdInv' /\ HandlerInv' /\ QueueInv'
    BY <1>1, <1>3, <2>1, IdleTypes, AnswerProduce
  <2> QED  BY <1>1, <1>2, <2>2 DEF TypeInv
<1>4. CASE hand.kind = "fetch"
  <2> DEFINE t == IdlePoll(poll[hand.of].pos)
  <2>1. hand.of \in Pollers /\ poll[hand.of].pos \in Nat
    BY <1>4, InHand DEF TypeInv, HandlerInv, PollType
  <2>2. poll' = Answered(poll, [poll EXCEPT ![hand.of] = t]) /\ UNCHANGED prod
    BY <1>4, <2>1 DEF ExecuteUnknown, TypeInv, HandlerInv
  <2>3. t \in PollType
    BY <2>1, IdleTypes
  <2> HIDE DEF t
  <2>4. ProdInv' /\ HandlerInv' /\ QueueInv'
    BY <1>1, <1>4, <2>2, <2>3, AnswerPoll
  <2> QED  BY <1>1, <1>2, <2>4 DEF TypeInv
<1> QED  BY <1>1, <1>3, <1>4

LEMMA ExecuteCreateType ==
  ASSUME TypeInv, ExecuteCreate
  PROVE  TypeInv'
<1> DEFINE k == hand.of
           t == IF topics = 0 THEN [crt[k] EXCEPT !.pc = "created"] ELSE IdleCreate("error")
<1>1. /\ hand.kind = "create" /\ Ready /\ topics' = Count /\ Done /\ k \in Creators
      /\ UNCHANGED <<phase, disk, robin, entries, dealt, prod, poll, mon, spawned, faults>>
  BY InHand DEF ExecuteCreate
<1>2. crt' = Answered(crt, [crt EXCEPT ![k] = t])
  BY <1>1 DEF ExecuteCreate, TypeInv, HandlerInv
<1>3. t \in CreateType
  <2>1. crt[k] \in CreateType
    BY <1>1 DEF TypeInv, HandlerInv, CreateType
  <2>2. [crt[k] EXCEPT !.pc = "created"] \in CreateType /\ IdleCreate("error") \in CreateType
    BY <2>1, CreateFields
  <2> QED  BY <2>2
<1> HIDE DEF t
<1>4. ProdInv' /\ HandlerInv' /\ QueueInv'
  BY <1>1, <1>2, <1>3, AnswerCreate
<1>5. DiskInv'
  BY <1>1, CountedDisk DEF disk
<1> QED  BY <1>1, <1>4, <1>5 DEF TypeInv

LEMMA CreationFailsType ==
  ASSUME TypeInv, CreationFails
  PROVE  TypeInv'
<1>1. /\ phase = "up" /\ hand.kind \in {"create", "append", "fetch"} /\ Fault /\ Done
      /\ UNCHANGED <<phase, disk, storage, entries, dealt, mon, spawned>>
  BY DEF CreationFails
<1>2. DiskInv' /\ faults' \in 0 .. MaxFaults
  BY <1>1, DiskKept, BrokerAssumption DEF TypeInv, Fault, disk, storage
<1>3. CASE hand.kind = "append"
  <2>1. /\ prod' = Answered(prod, [prod EXCEPT ![hand.of] = IdleProduce("error")])
        /\ UNCHANGED <<poll, crt>>
    BY <1>1, <1>3 DEF CreationFails, Answered
  <2>2. ProdInv' /\ HandlerInv' /\ QueueInv'
    BY <1>1, <1>3, <2>1, IdleTypes, AnswerProduce
  <2> QED  BY <1>1, <1>2, <2>2 DEF TypeInv
<1>4. CASE hand.kind = "fetch"
  <2> DEFINE t == IdlePoll(poll[hand.of].pos)
  <2>1. hand.of \in Pollers /\ poll[hand.of].pos \in Nat
    BY <1>4, InHand DEF TypeInv, HandlerInv, PollType
  <2>2. /\ poll' = Answered(poll, [poll EXCEPT ![hand.of] = t])
        /\ UNCHANGED <<prod, crt>>
    BY <1>1, <1>4, <2>1 DEF CreationFails, Answered, TypeInv, HandlerInv
  <2>3. t \in PollType
    BY <2>1, IdleTypes
  <2> HIDE DEF t
  <2>4. ProdInv' /\ HandlerInv' /\ QueueInv'
    BY <1>1, <1>4, <2>2, <2>3, AnswerPoll
  <2> QED  BY <1>1, <1>2, <2>4 DEF TypeInv
<1>5. CASE hand.kind = "create"
  <2>1. /\ crt' = Answered(crt, [crt EXCEPT ![hand.of] = IdleCreate("error")])
        /\ UNCHANGED <<prod, poll>>
    BY <1>1, <1>5 DEF CreationFails, Answered
  <2>2. IdleCreate("error") \in CreateType
    BY DEF IdleCreate, CreateType
  <2>3. ProdInv' /\ HandlerInv' /\ QueueInv'
    BY <1>1, <1>5, <2>1, <2>2, AnswerCreate
  <2> QED  BY <1>1, <1>2, <2>3 DEF TypeInv
<1> QED  BY <1>1, <1>3, <1>4, <1>5

LEMMA ExecuteListType ==
  ASSUME TypeInv, ExecuteList
  PROVE  TypeInv'
<1>1. /\ hand.kind = "list" /\ Done /\ queue # <<>> /\ hand.of = "monitor"
      /\ phase \in {"up", "stopping"}
      /\ UNCHANGED <<phase, disk, storage, entries, dealt, prod, poll, crt, spawned, faults>>
  BY InHand DEF ExecuteList
<1>2. DiskInv' /\ ProdInv'
  BY <1>1, DiskKept DEF TypeInv, ProdInv, disk, storage
<1>3. HandlerInv'
  BY <1>1 DEF TypeInv, HandlerInv, DiskInv, ExecuteList, Answered
<1>4. QueueInv'
  <2>1. phase = "up" => Moves(hand.of)
    BY <1>1 DEF Moves
  <2>2. phase # "up" => UNCHANGED handlers
    BY <1>1 DEF ExecuteList, Answered, handlers
  <2> QED  BY <1>1, <2>1, <2>2, QueueDone DEF TypeInv
<1> QED  BY <1>1, <1>2, <1>3, <1>4 DEF TypeInv

LEMMA DisconnectedType ==
  ASSUME TypeInv, Disconnected
  PROVE  /\ ProdInv' /\ AllIdle' /\ mon' \in MonitorType
         /\ poll' \in [Pollers -> PollType] /\ crt' \in [Creators -> CreateType]
         /\ \A p \in Producers :
              prod'[p].acks = <<>> \/ (prod[p].pc = "idle" /\ prod'[p] = prod[p])
<1>1. \A p \in Producers : /\ Sound(prod'[p]) /\ prod'[p].pc = "idle"
                           /\ \/ prod'[p].acks = <<>>
                              \/ prod[p].pc = "idle" /\ prod'[p] = prod[p]
  <2> TAKE p \in Producers
  <2>1. CASE prod[p].pc = "idle"
    BY <2>1 DEF Disconnected, TypeInv, ProdInv
  <2>2. CASE prod[p].pc # "idle"
    <3>1. prod'[p] = IdleProduce("error")
      BY <2>2 DEF Disconnected
    <3>2. IdleProduce("error").pc = "idle" /\ IdleProduce("error").acks = <<>>
      BY DEF IdleProduce
    <3> QED  BY <3>1, <3>2, IdleTypes
  <2> QED  BY <2>1, <2>2
<1>2. ProdInv'
  BY <1>1 DEF ProdInv, Disconnected, Sound
<1>3. \A c \in Pollers : poll'[c] \in PollType /\ poll'[c].pc = "idle"
  <2> TAKE c \in Pollers
  <2>1. poll[c].pos \in Nat /\ poll'[c] = IdlePoll(poll[c].pos)
    BY DEF TypeInv, HandlerInv, PollType, Disconnected
  <2>2. IdlePoll(poll[c].pos).pc = "idle"
    BY DEF IdlePoll
  <2> QED  BY <2>1, <2>2, IdleTypes
<1>4. \A k \in Creators : crt'[k] \in CreateType /\ crt'[k].pc = "idle"
  BY DEF TypeInv, HandlerInv, CreateType, Disconnected, IdleCreate
<1>5. mon' \in MonitorType /\ mon'.pc = "idle"
  BY DEF Disconnected, IdleMonitor, MonitorType
<1>6. poll' \in [Pollers -> PollType] /\ crt' \in [Creators -> CreateType]
  BY <1>3, <1>4 DEF Disconnected
<1> QED  BY <1>1, <1>2, <1>3, <1>4, <1>5, <1>6 DEF AllIdle

LEMMA StartType ==
  ASSUME TypeInv, Start
  PROVE  TypeInv'
<1>1. /\ phase = "down" /\ phase' = "up" /\ topics' = Len(logs) /\ dealt' = Len(logs)
      /\ entries' = Recovered /\ file' = Recovered
      /\ UNCHANGED <<logs, robin, queue, handlers, spawned, faults>>
  BY DEF Start
<1>2. Recovered \in Seq(Nat)
  BY RecoveredType DEF TypeInv
<1>3. DiskInv'
  <2>1. \A i \in DOMAIN Recovered : Recovered[i] # Legacy
    BY <1>2 DEF Legacy
  <2>2. Recovered \in Seq(Nat \cup {Legacy})
    BY <1>2, SeqMonotonic
  <2> QED  BY <1>1, <1>2, <2>1, <2>2 DEF TypeInv, DiskInv
<1>4. ProdInv' /\ HandlerInv'
  BY <1>1 DEF TypeInv, ProdInv, HandlerInv, handlers
<1>5. QueueInv'
  BY <1>1, Emptied DEF TypeInv, QueueInv
<1> QED  BY <1>1, <1>3, <1>4, <1>5 DEF TypeInv

LEMMA ShutdownType ==
  ASSUME TypeInv, Shutdown
  PROVE  TypeInv'
<1>1. /\ phase = "up" /\ phase' = "stopping" /\ queue' = SubSeq(queue, 1, InChannel)
      /\ Disconnected /\ Fault
      /\ UNCHANGED <<disk, storage, entries, dealt, spawned>>
  BY DEF Shutdown
<1>2. DiskInv'
  BY <1>1 DEF TypeInv, DiskInv, disk, storage
<1>3. ProdInv' /\ HandlerInv' /\ AllIdle'
  BY <1>1, DisconnectedType DEF TypeInv, HandlerInv, CreateType, MonitorType
<1>4. QueueInv'
  BY <1>1, <1>3, Cut DEF TypeInv, QueueInv
<1>5. faults' \in 0 .. MaxFaults
  BY <1>1, BrokerAssumption DEF TypeInv, Fault
<1> QED  BY <1>1, <1>2, <1>3, <1>4, <1>5 DEF TypeInv

LEMMA OffType ==
  ASSUME TypeInv, Off, AllIdle', ProdInv', UNCHANGED disk
  PROVE  DiskInv' /\ QueueInv'
<1>1. DiskInv'
  <2>1. <<>> \in Seq(Nat) /\ 0 \in Nat /\ 0 <= Len(logs)
    BY DEF TypeInv, DiskInv
  <2> QED  BY <2>1 DEF TypeInv, DiskInv, Off, disk
<1>2. QueueInv'
  BY Emptied DEF QueueInv, Off
<1> QED  BY <1>1, <1>2

LEMMA StoppedType ==
  ASSUME TypeInv, Stopped
  PROVE  TypeInv'
<1>1. phase = "stopping" /\ Off /\ UNCHANGED <<disk, handlers, faults>>
  BY DEF Stopped
<1>2. ProdInv' /\ HandlerInv' /\ AllIdle'
  BY <1>1 DEF TypeInv, ProdInv, HandlerInv, QueueInv, AllIdle, Off, handlers
<1>3. DiskInv' /\ QueueInv'
  BY <1>1, <1>2, OffType
<1> QED  BY <1>1, <1>2, <1>3 DEF TypeInv, Off

LEMMA CrashType ==
  ASSUME TypeInv, Crash
  PROVE  TypeInv'
<1>1. Fault /\ Off /\ Disconnected /\ UNCHANGED disk
  BY DEF Crash
<1>2. ProdInv' /\ HandlerInv' /\ AllIdle'
  BY <1>1, DisconnectedType DEF HandlerInv, CreateType, MonitorType, Off
<1>3. DiskInv' /\ QueueInv'
  BY <1>1, <1>2, OffType
<1>4. faults' \in 0 .. MaxFaults
  BY <1>1, BrokerAssumption DEF TypeInv, Fault
<1> QED  BY <1>1, <1>2, <1>3, <1>4 DEF TypeInv, Off

LEMMA InitType == Init => TypeInv
<1> SUFFICES ASSUME Init PROVE TypeInv
  OBVIOUS
<1>1. logs \in Logs /\ faults \in 0 .. MaxFaults
  <2>1. OldRecords \in Logs
    <3>1. OldRecords \in Seq(Seq(Nat)) /\ Nat \subseteq Producers \cup Nat
      BY BrokerAssumption
    <3>2. Seq(Nat) \subseteq Seq(Producers \cup Nat)
      BY <3>1, SeqMonotonic, Zenon
    <3>3. Seq(Seq(Nat)) \subseteq Seq(Seq(Producers \cup Nat))
      BY <3>2, SeqMonotonic, Zenon
    <3> QED  BY <3>1, <3>3, Zenon DEF Logs
  <2>2. <<>> \in Logs
    BY DEF Logs
  <2> QED  BY <2>1, <2>2, BrokerAssumption DEF Init
<1>2. DiskInv
  <2>1. file \in Seq(Nat \cup {Legacy}) /\ DOMAIN file = DOMAIN logs
    BY <1>1 DEF Init, Logs
  <2>2. <<>> \in Seq(Nat) /\ 0 \in Nat /\ Len(logs) \in Nat /\ DOMAIN logs = 1 .. Len(logs)
    BY <1>1 DEF Logs
  <2>3. topics = 0 /\ robin = 0 /\ dealt = 0 /\ entries = <<>>
    BY DEF Init
  <2> QED  BY <1>1, <2>1, <2>2, <2>3 DEF DiskInv, Logs
<1>3. ProdInv
  BY IdleTypes DEF Init, ProdInv, Sound
<1>4. HandlerInv
  <2>1. IdlePoll(0) \in PollType /\ IdleMonitor \in MonitorType
    BY IdleTypes DEF MonitorType
  <2>2. IdleCreate("none") \in CreateType
    BY DEF IdleCreate, CreateType
  <2> QED  BY <2>1, <2>2 DEF Init, HandlerInv, MonitorType, CreateType
<1>5. QueueInv
  BY Emptied DEF Init, QueueInv, AllIdle, IdleProduce, IdlePoll, IdleCreate, IdleMonitor
<1> QED  BY <1>1, <1>2, <1>3, <1>4, <1>5 DEF TypeInv, Init

LEMMA TypeStep == TypeInv /\ [Next]_vars => TypeInv'
<1> SUFFICES ASSUME TypeInv, [Next]_vars PROVE TypeInv'
  OBVIOUS
<1>1. ASSUME NEW p \in Producers, ProduceStart(p) \/ ProduceBusy(p) \/ ProduceStep(p)
      PROVE  TypeInv'
  BY <1>1, ProduceStartType, ProduceBusyType, ReadBackType, DispatchType, CommitType
     DEF ProduceStep
<1>2. ASSUME NEW s \in spawned, CommitLater(s) PROVE TypeInv'
  BY <1>2, CommitLaterType
<1>3. ASSUME NEW c \in Pollers, PollStart(c) \/ PollBusy(c) \/ PollStep(c)
      PROVE  TypeInv'
  BY <1>3, PollStartType, PollBusyType, PollSleepType, PollAgainType, PollReplyType
     DEF PollStep
<1>4. ASSUME NEW k \in Creators, CreateStart(k) \/ CreateBusy(k) \/ Created(k)
      PROVE  TypeInv'
  BY <1>4, CreateStartType, CreateBusyType, CreatedType
<1>5. CASE MonitorStart \/ MonitorBusy \/ MonitorRegister
  BY <1>5, MonitorStartType, MonitorBusyType, MonitorRegisterType
<1>6. CASE StorageStep \/ CreationFails
  BY <1>6, OpenPartitionType, ExecuteAppendType, ExecuteReadBackType, ExecuteFetchType,
     ExecuteUnknownType, ExecuteCreateType, ExecuteListType, CreationFailsType
     DEF StorageStep
<1>7. CASE Start \/ Shutdown \/ Stopped \/ Crash
  BY <1>7, StartType, ShutdownType, StoppedType, CrashType
<1>8. CASE UNCHANGED vars
  BY <1>8 DEF vars, disk, storage, handlers, TypeInv, DiskInv, ProdInv, HandlerInv,
     QueueInv, Waits, AllIdle
<1> QED  BY <1>1, <1>2, <1>3, <1>4, <1>5, <1>6, <1>7, <1>8, Zenon DEF Next

\* Every variable of the broker keeps its type: whoever is answered is a
\* handler that waits, a commit that goes on has a record to commit, and no
\* start finds a line without a watermark and without a log.
THEOREM TypeCorrect == Spec => []TypeOK
<1>1. TypeInv => TypeOK
  <2> SUFFICES ASSUME TypeInv PROVE TypeOK
    OBVIOUS
  <2>1. prod \in [Producers -> ProduceType]
    BY DEF TypeInv, ProdInv
  <2>2. spawned \subseteq [acks : Seq(Nat \X Nat), low : BOOLEAN]
    BY DEF TypeInv, HandlerInv
  <2> QED  BY <2>1, <2>2 DEF TypeInv, DiskInv, HandlerInv, TypeOK
<1> QED  BY <1>1, InitType, TypeStep, PTL DEF Spec

-----------------------------------------------------------------------------
(* The long poll.                                                          *)

Appended(p) == prod[p].pc = "appended"

\* No fetch has come further, and no append has been forgotten.
LEMMA WakeFrame ==
  ASSUME TypeInv, WakeInv, UNCHANGED logs,
         \A p \in Producers : Appended(p) => Appended(p)',
         \A c \in Pollers : poll'[c].pc \in {"idle", "read"} \/ poll'[c] = poll[c]
  PROVE  WakeInv'
<1> SUFFICES ASSUME NEW c \in Pollers, poll'[c].pc \in {"found", "asleep"}
             PROVE  LET t == poll'[c] IN
                    /\ Polled < Len(logs')
                    /\ t.pc = "asleep" => t.found = 0
                    /\ t.found = 0 /\ Len(logs'[Polled + 1]) > t.pos =>
                         t.woken \/ \E p \in Producers : prod'[p].pc = "appended"
  BY DEF WakeInv
<1>1. poll'[c] = poll[c]
  OBVIOUS
<1>2. (\E p \in Producers : prod[p].pc = "appended") =>
        \E p \in Producers : prod'[p].pc = "appended"
  BY DEF Appended
<1> QED  BY <1>1, <1>2 DEF WakeInv

LEMMA WakeIdle ==
  ASSUME TypeInv', phase' # "up"
  PROVE  WakeInv'
  BY DEF TypeInv, QueueInv, AllIdle, WakeInv

LEMMA WakeProduce ==
  ASSUME TypeInv, WakeInv, NEW p \in Producers, ~Appended(p), NEW t,
         prod' = [prod EXCEPT ![p] = t], UNCHANGED <<logs, poll>>
  PROVE  WakeInv'
<1>1. \A x \in Producers : x # p => prod'[x] = prod[x]
  BY DEF TypeInv, ProdInv
<1>2. \A x \in Producers : Appended(x) => Appended(x)'
  BY <1>1 DEF Appended
<1> QED  BY <1>2, WakeFrame

LEMMA WakePoll ==
  ASSUME TypeInv, WakeInv, NEW c \in Pollers, poll'[c].pc \in {"idle", "read"},
         \A x \in Pollers : x # c => poll'[x] = poll[x], UNCHANGED <<logs, prod>>
  PROVE  WakeInv'
<1>1. \A x \in Producers : Appended(x) => Appended(x)'
  BY DEF Appended
<1> QED  BY <1>1, WakeFrame

LEMMA WakeOther ==
  ASSUME TypeInv, WakeInv, UNCHANGED <<logs, prod, poll>>
  PROVE  WakeInv'
  BY WakeFrame DEF Appended

\* The waiters are notified after the append: whoever has read before is woken.
LEMMA WakeReadBack ==
  ASSUME TypeInv, WakeInv, NEW p \in Producers, ReadBack(p)
  PROVE  WakeInv'
<1>1. UNCHANGED logs /\ poll' = Notified
  BY DEF ReadBack, disk
<1>2. \A c \in Pollers : /\ poll'[c].pc = poll[c].pc
                         /\ poll'[c].found = poll[c].found
                         /\ poll'[c].woken <=> poll[c].pc # "idle"
  BY <1>1, NotifiedType
<1> QED  BY <1>1, <1>2 DEF WakeInv

LEMMA WakeSleep ==
  ASSUME TypeInv, WakeInv, NEW c \in Pollers, PollSleep(c)
  PROVE  WakeInv'
<1> DEFINE t == [poll[c] EXCEPT !.pc = "asleep"]
<1>1. /\ UNCHANGED <<logs, prod>> /\ poll[c].pc = "found" /\ poll[c].found = 0
      /\ \A x \in Pollers : poll'[x] = IF x = c THEN t ELSE poll[x]
  BY DEF PollSleep, disk, TypeInv, HandlerInv
<1>2. poll[c] \in PollType
  BY DEF TypeInv, HandlerInv
<1>3. t.pc = "asleep" /\ t.found = poll[c].found /\ t.pos = poll[c].pos /\ t.woken = poll[c].woken
  BY <1>2 DEF PollType
<1> HIDE DEF t
<1>4. ASSUME NEW x \in Pollers
      PROVE  /\ poll'[x].pc \in {"found", "asleep"} => poll[x].pc \in {"found", "asleep"}
             /\ poll'[x].pc = "asleep" => poll'[x].found = 0
             /\ poll'[x].found = poll[x].found /\ poll'[x].pos = poll[x].pos
             /\ poll'[x].woken = poll[x].woken
  BY <1>1, <1>3 DEF WakeInv
<1> QED  BY <1>1, <1>4 DEF WakeInv

LEMMA WakeAppend ==
  ASSUME TypeInv, TypeInv', WakeInv, ExecuteAppend
  PROVE  WakeInv'
<1>1. UNCHANGED <<poll, phase>>
  BY DEF ExecuteAppend
<1>2. CASE phase = "up"
  <2>1. /\ hand.of \in Producers /\ Len(logs') = Len(logs)
        /\ prod' = [prod EXCEPT ![hand.of] = AppendedProduce(hand.of)]
        /\ AppendedProduce(hand.of).pc = "appended"
    BY <1>2, AppendFacts DEF Answered, Grown
  <2>2. prod'[hand.of].pc = "appended"
    BY <2>1 DEF TypeInv, ProdInv
  <2> QED  BY <1>1, <2>1, <2>2 DEF WakeInv
<1>3. CASE phase # "up"
  BY <1>1, <1>3, WakeIdle
<1> QED  BY <1>2, <1>3

LEMMA WakeOpen ==
  ASSUME TypeInv, WakeInv, OpenPartition
  PROVE  WakeInv'
<1>1. logs' = Append(logs, <<>>) /\ UNCHANGED handlers /\ logs \in Logs
  BY DEF OpenPartition, TypeInv, DiskInv, Logs
<1>2. /\ Len(logs) \in Nat /\ Len(logs') = Len(logs) + 1
      /\ \A i \in 1 .. Len(logs) : logs'[i] = logs[i]
  BY <1>1 DEF Logs
<1>3. Polled < Len(logs) => Polled < Len(logs') /\ logs'[Polled + 1] = logs[Polled + 1]
  <2> SUFFICES ASSUME Polled < Len(logs)
               PROVE  Polled < Len(logs') /\ logs'[Polled + 1] = logs[Polled + 1]
    OBVIOUS
  <2>1. Polled \in Nat
    BY BrokerAssumption
  <2>2. Polled + 1 \in 1 .. Len(logs) /\ Polled < Len(logs')
    BY <1>2, <2>1
  <2> QED  BY <1>2, <2>2
<1> QED  BY <1>1, <1>3 DEF WakeInv, handlers

\* A fetch that finds nothing has read after the last append.
LEMMA WakeFetch ==
  ASSUME TypeInv, TypeInv', WakeInv, ExecuteFetch
  PROVE  WakeInv'
<1> DEFINE c == hand.of
<1>1. UNCHANGED <<phase, logs, prod>> /\ Polled < Len(logs) /\ c \in Pollers
  BY InHand DEF ExecuteFetch, disk
<1>2. PICK n \in Found(poll[c].pos) :
        poll' = Answered(poll, [poll EXCEPT ![c].pc = "found", ![c].found = n])
  BY DEF ExecuteFetch
<1>3. poll[c] \in PollType /\ poll[c].pos \in Nat
  BY <1>1 DEF TypeInv, HandlerInv, PollType
<1>4. n \in Nat /\ (n = 0 => Len(logs[Polled + 1]) <= poll[c].pos)
  BY <1>1, <1>2, <1>3, FoundType
<1>5. CASE phase = "up"
  <2> DEFINE t == [poll[c] EXCEPT !.pc = "found", !.found = n]
  <2>1. \A x \in Pollers : poll'[x] = IF x = c THEN t ELSE poll[x]
    BY <1>1, <1>2, <1>5 DEF Answered, TypeInv, HandlerInv
  <2>2. t.pc = "found" /\ t.found = n /\ t.pos = poll[c].pos
    BY <1>3 DEF PollType
  <2> HIDE DEF t
  <2>3. Len(logs[Polled + 1]) \in Nat
    BY <1>1, BrokerAssumption DEF TypeInv, DiskInv
  <2>4. n = 0 => ~(Len(logs[Polled + 1]) > t.pos)
    BY <1>3, <1>4, <2>2, <2>3
  <2> HIDE DEF c
  <2> QED  BY <1>1, <2>1, <2>2, <2>4 DEF WakeInv
<1>6. CASE phase # "up"
  BY <1>1, <1>6, WakeIdle
<1> QED  BY <1>5, <1>6

LEMMA WakeStep ==
  ASSUME TypeInv, TypeInv', WakeInv, [Next]_vars
  PROVE  WakeInv'
<1>1. ASSUME NEW p \in Producers,
             ProduceStart(p) \/ ProduceBusy(p) \/ Dispatch(p) \/ Commit(p) \/ CommitFails(p)
      PROVE  WakeInv'
  <2>1. prod[p].pc # "appended" /\ UNCHANGED <<logs, poll>>
    BY <1>1, Zenon DEF ProduceStart, ProduceBusy, Dispatch, Commit, CommitFails, disk
  <2>2. \A x \in Producers : x # p => prod'[x] = prod[x]
    BY <1>1 DEF ProduceStart, ProduceBusy, Dispatch, Commit, CommitFails, TypeInv, ProdInv
  <2>3. \A x \in Producers : Appended(x) => Appended(x)'
    BY <2>1, <2>2 DEF Appended
  <2> QED  BY <2>1, <2>3, WakeFrame
<1>2. ASSUME NEW p \in Producers, ReadBack(p) PROVE WakeInv'
  BY <1>2, WakeReadBack
<1>3. ASSUME NEW c \in Pollers, PollStart(c) \/ PollBusy(c) \/ PollAgain(c) \/ PollReply(c)
      PROVE  WakeInv'
  <2>1. UNCHANGED <<logs, prod>>
    BY <1>3, Zenon DEF PollStart, PollBusy, PollAgain, PollReply, disk
  <2>2. poll[c] \in PollType
    BY DEF TypeInv, HandlerInv
  <2>3. \A x \in Pollers : x # c => poll'[x] = poll[x]
    BY <1>3 DEF PollStart, PollBusy, PollAgain, PollReply, Ask, TypeInv, HandlerInv
  <2>4. poll'[c].pc \in {"idle", "read"}
    <3>1. CASE PollStart(c)
      <4>1. PICK w, h : Ask(c, [poll[c] EXCEPT !.pc = "read", !.wait = w,
                                               !.woken = FALSE, !.hw = h])
        BY <3>1, Zenon DEF PollStart
      <4>2. poll'[c] = [poll[c] EXCEPT !.pc = "read", !.wait = w, !.woken = FALSE, !.hw = h]
        BY <4>1 DEF Ask, TypeInv, HandlerInv
      <4> QED  BY <2>2, <4>2 DEF PollType
    <3>2. CASE PollAgain(c)
      <4>1. poll'[c] = [poll[c] EXCEPT !.pc = "read", !.woken = FALSE]
        BY <3>2 DEF PollAgain, Ask, TypeInv, HandlerInv
      <4> QED  BY <2>2, <4>1 DEF PollType
    <3>3. CASE PollBusy(c) \/ PollReply(c)
      <4>1. PICK n : poll' = [poll EXCEPT ![c] = IdlePoll(n)]
        BY <3>3, Zenon DEF PollBusy, PollReply
      <4> QED  BY <4>1 DEF IdlePoll, TypeInv, HandlerInv
    <3> QED  BY <1>3, <3>1, <3>2, <3>3
  <2> QED  BY <2>1, <2>3, <2>4, WakePoll
<1>4. ASSUME NEW c \in Pollers, PollSleep(c) PROVE WakeInv'
  BY <1>4, WakeSleep
<1>5. CASE \/ \E s \in spawned : CommitLater(s)
           \/ \E k \in Creators : CreateStart(k) \/ CreateBusy(k) \/ Created(k)
           \/ MonitorStart \/ MonitorBusy \/ MonitorRegister \/ ExecuteCreate
           \/ ExecuteList \/ Start \/ UNCHANGED vars
  <2>1. UNCHANGED <<logs, prod, poll>>
    BY <1>5, Zenon DEF CommitLater, CreateStart, CreateBusy, Created, MonitorStart,
       MonitorBusy, MonitorRegister, ExecuteCreate, ExecuteList, Start, vars, disk, handlers
  <2> QED  BY <2>1, WakeOther
<1>6. CASE ExecuteReadBack
  <2>1. UNCHANGED <<phase, logs, poll>> /\ hand.of \in Producers
    BY <1>6, InHand DEF ExecuteReadBack, disk
  <2>2. CASE phase = "up"
    <3>1. prod[hand.of].pc = "read"
      BY <1>6, <2>2, InHand DEF ExecuteReadBack, Waits
    <3>2. \A x \in Producers : x # hand.of => prod'[x] = prod[x]
      BY <1>6, <2>2 DEF ExecuteReadBack, Answered, TypeInv, ProdInv
    <3>3. \A x \in Producers : Appended(x) => Appended(x)'
      BY <3>1, <3>2 DEF Appended
    <3> QED  BY <2>1, <3>3, WakeFrame
  <2>3. CASE phase # "up"
    BY <2>1, <2>3, WakeIdle
  <2> QED  BY <2>2, <2>3
<1>7. CASE ExecuteUnknown \/ CreationFails
  <2>1. /\ UNCHANGED <<phase, logs>> /\ hand.kind \in {"append", "fetch", "create"}
        /\ phase = "up" \/ ~(phase = "up")
    BY <1>7, Zenon DEF ExecuteUnknown, CreationFails, disk
  <2>2. CASE phase = "up"
    <3>1. CASE hand.kind = "append"
      <4>1. /\ hand.of \in Producers /\ prod[hand.of].pc = "append" /\ UNCHANGED poll
            /\ prod' = [prod EXCEPT ![hand.of] = IdleProduce("error")]
        BY <1>7, <2>2, <3>1, InHand DEF ExecuteUnknown, CreationFails, Answered, Waits
      <4> QED  BY <2>1, <4>1, WakeProduce DEF Appended
    <3>2. CASE hand.kind = "fetch"
      <4>1. /\ hand.of \in Pollers /\ UNCHANGED prod
            /\ poll' = [poll EXCEPT ![hand.of] = IdlePoll(poll[hand.of].pos)]
        BY <1>7, <2>2, <3>2, InHand DEF ExecuteUnknown, CreationFails, Answered,
           TypeInv, HandlerInv
      <4>2. /\ poll'[hand.of].pc = "idle"
            /\ \A x \in Pollers : x # hand.of => poll'[x] = poll[x]
        BY <4>1 DEF IdlePoll, TypeInv, HandlerInv
      <4> QED  BY <2>1, <4>1, <4>2, WakePoll
    <3>3. CASE hand.kind = "create"
      <4>1. UNCHANGED <<logs, prod, poll>>
        BY <1>7, <2>1, <3>3 DEF ExecuteUnknown, CreationFails
      <4> QED  BY <4>1, WakeOther
    <3> QED  BY <2>1, <3>1, <3>2, <3>3
  <2>3. CASE phase # "up"
    BY <2>1, <2>3, WakeIdle
  <2> QED  BY <2>2, <2>3
<1>8. CASE Shutdown \/ Stopped \/ Crash
  <2>1. phase' # "up"
    BY <1>8 DEF Shutdown, Stopped, Crash, Off
  <2> QED  BY <2>1, WakeIdle
<1> QED
  BY <1>1, <1>2, <1>3, <1>4, <1>5, <1>6, <1>7, <1>8, WakeAppend, WakeOpen, WakeFetch, Zenon
     DEF Next, ProduceStep, PollStep, StorageStep

\* No record is missed by a long poll: a fetch that sleeps although there is
\* a record for it has been notified, or the append is about to notify.
THEOREM NeverMissed == Spec => []NoLostWakeup
<1>1. Init => WakeInv
  BY DEF Init, WakeInv, IdlePoll
<1>2. TypeInv /\ TypeInv' /\ WakeInv /\ [Next]_vars => WakeInv'
  BY WakeStep
<1>3. WakeInv => NoLostWakeup
  BY DEF WakeInv, NoLostWakeup
<1> QED  BY <1>1, <1>2, <1>3, InitType, TypeStep, PTL DEF Spec
=============================================================================
