------------------------------ MODULE GroupProofs ------------------------------
(***************************************************************************)
(* The consumer group: type correctness, disjoint owners, and delivery at  *)
(* least and at most once, for every number of members, partitions and     *)
(* records and every number of crashes and restarts.                       *)
(***************************************************************************)
EXTENDS ConsumerGroup, FiniteSetTheorems, TLAPS

-----------------------------------------------------------------------------
Consumer ==
    [pc : {"down", "join", "load", "idle", "fetch", "wait", "handle"},
     gen : Nat, parts : SUBSET Partitions,
     offs : [Partitions -> 0 .. NumRecords], todo : SUBSET Partitions,
     upto : 0 .. NumRecords, conn : BOOLEAN, beats : BOOLEAN]

Group ==
    [generation : Nat, members : SUBSET Members,
     assigned : [Members -> SUBSET Partitions]]

\* A consumer that has a current partition; in a batch, also a current record.
Sound(c) ==
    /\ c \in Consumer
    /\ c.todo \subseteq c.parts
    /\ c.pc \in {"down", "join"} => ~c.conn
    /\ c.pc \in {"load", "fetch", "wait", "handle"} => c.todo # {}
    /\ c.pc = "idle" => c.parts = {}
    /\ c.pc \in {"wait", "handle"} => c.offs[Min(c.todo)] < c.upto

\* A live commit is the one its sender waits for.
Awaited(r) ==
    /\ consumer[r.member].pc = "wait"
    /\ consumer[r.member].conn
    /\ r = CommitRequest(r.member, consumer[r.member])

Commits ==
    [member : Members, gen : Nat, part : Partitions, off : 1 .. NumRecords,
     live : BOOLEAN]

ConsumersOK ==
    /\ consumer \in [Members -> Consumer]
    /\ inflight \subseteq Commits
    /\ \A m \in Members : Sound(consumer[m])
    /\ \A r \in inflight : r.live => Awaited(r)

CoordinatorOK ==
    /\ count \in {Default, Created}
    /\ group \in Group
    /\ overdue \subseteq group.members
    /\ committed \in [Partitions -> 0 .. NumRecords]

HistoryOK ==
    /\ mode \in {"at-least-once", "at-most-once"}
    /\ runs \in [Records -> 0 .. 2]
    /\ settled \subseteq Records
    /\ faults \in Nat

TypeInv == CoordinatorOK /\ ConsumersOK /\ HistoryOK

\* m is a member of the group's generation, with a connection to the broker
Owner(m) ==
    /\ consumer[m].conn
    /\ consumer[m].gen = group.generation
    /\ m \in group.members

Disjoint(g) ==
    \A m, n \in Members : m # n => g.assigned[m] \cap g.assigned[n] = {}

OwnerInv ==
    /\ Disjoint(group)
    /\ \A m \in Members : consumer[m].conn => consumer[m].gen <= group.generation
    /\ \A m \in Members : Owner(m) => consumer[m].parts = group.assigned[m]


-----------------------------------------------------------------------------
(* Helpers: minima, ranks, and the states a consumer moves to.             *)

LEMMA Constants ==
    /\ Members \subseteq Nat /\ IsFiniteSet(Members)
    /\ Default \in Nat /\ Created \in Nat
    /\ Partitions \subseteq Nat
    /\ NumRecords \in Nat
BY GroupAssumption DEF Partitions

LEMMA MinNat ==
    ASSUME NEW S, S \subseteq Nat, S # {}
    PROVE  Min(S) \in S /\ \A y \in S : Min(S) <= y
<1>1. PICK x \in S : \A y \in S : ~(<<y, x>> \in OpToRel(<, Nat))
  <2>1. IsWellFoundedOn(OpToRel(<, Nat), Nat)
    BY NatLessThanWellFounded
  <2> QED
    BY <2>1, WFMin
<1>2. \A y \in S : ~(y < x)
  BY <1>1 DEF OpToRel
<1>3. \A y \in S : x <= y
  BY <1>2
<1> QED
  BY <1>3 DEF Min

LEMMA MinPartition ==
    ASSUME NEW S, S \subseteq Partitions, S # {}
    PROVE  Min(S) \in S /\ Min(S) \in Partitions
BY MinNat, Constants

LEMMA OffsetType ==
    ASSUME NEW c \in Consumer, NEW p \in Partitions
    PROVE  c.offs[p] \in 0 .. NumRecords /\ c.offs[p] \in Nat
<1>1. c.offs[p] \in 0 .. NumRecords
  BY DEF Consumer
<1> QED
  BY <1>1, Constants

LEMMA MinPair == \A k \in 0 .. 2 : Min({k + 1, 2}) \in 0 .. 2
<1> SUFFICES ASSUME NEW k \in 0 .. 2 PROVE Min({k + 1, 2}) \in 0 .. 2
  OBVIOUS
<1>1. {k + 1, 2} \subseteq Nat /\ {k + 1, 2} # {}
  OBVIOUS
<1>2. Min({k + 1, 2}) \in {k + 1, 2} /\ Min({k + 1, 2}) <= 2
  BY <1>1, MinNat
<1> QED
  BY <1>2

LEMMA SoundDown == Sound(Down) /\ Sound(Joining)
<1>1. Down \in Consumer
  BY Constants DEF Down, Consumer
<1>2. Joining \in Consumer
  BY <1>1 DEF Down, Joining, Consumer
<1> QED
  BY <1>1, <1>2 DEF Sound, Down, Joining

\* A state that GoOn may move a consumer to.
Ready(c) == Sound(c) /\ (c.pc = "wait" => c.conn)

LEMMA ReadyDown == Ready(Down) /\ Ready(Joining)
BY SoundDown DEF Ready, Down, Joining

LEMMA ReadyRound ==
    ASSUME NEW c \in Consumer, c.parts # {}
    PROVE  Ready(Round(c))
<1>1. CASE c.beats
  BY <1>1 DEF Round, Ready, Sound, Consumer
<1>2. CASE ~c.beats
  BY <1>2, ReadyDown DEF Round
<1> QED
  BY <1>1, <1>2

LEMMA ReadyNextPartition ==
    ASSUME NEW c \in Consumer, c.todo \subseteq c.parts, c.parts # {}, NEW p
    PROVE  Ready(NextPartition(c, p))
<1> DEFINE d == [c EXCEPT !.todo = @ \ {p}, !.upto = 0]
<1>1. d \in Consumer /\ d.parts # {} /\ d.todo \subseteq d.parts
  <2>1. c.todo \ {p} \in SUBSET Partitions /\ 0 \in 0 .. NumRecords
    BY Constants DEF Consumer
  <2>2. d \in Consumer /\ d.parts = c.parts /\ d.todo = c.todo \ {p}
    BY <2>1 DEF Consumer
  <2> QED
    BY <2>2
<1>2. CASE d.todo = {}
  BY <1>1, <1>2, ReadyRound DEF NextPartition
<1>3. CASE d.todo # {}
  <2>1. NextPartition(c, p) = [d EXCEPT !.pc = "fetch"]
    BY <1>3 DEF NextPartition
  <2> HIDE DEF d
  <2> QED
    BY <1>1, <1>3, <2>1 DEF Ready, Sound, Consumer
<1> QED
  BY <1>2, <1>3

LEMMA ReadyCommitting ==
    ASSUME NEW c, Sound(c), c.todo # {}, c.offs[Min(c.todo)] < c.upto
    PROVE  Ready(Committing(c))
<1>1. CASE c.conn
  BY <1>1 DEF Committing, Ready, Sound, Consumer
<1>2. CASE ~c.conn
  BY <1>2, ReadyDown DEF Committing
<1> QED
  BY <1>1, <1>2

LEMMA ReadyBegin ==
    ASSUME NEW c, Sound(c), c.todo # {}, c.offs[Min(c.todo)] < c.upto
    PROVE  Ready(Begin(c))
<1>1. Ready([c EXCEPT !.pc = "handle"])
  BY DEF Ready, Sound, Consumer
<1> QED
  BY <1>1, ReadyCommitting DEF Begin

LEMMA ReadyAdvanced ==
    ASSUME NEW c, Sound(c), c.pc \in {"wait", "handle"}, NEW p, p = Min(c.todo)
    PROVE  Ready(Advanced(c, p))
<1> DEFINE d == [c EXCEPT !.offs[p] = @ + 1]
<1>1. /\ c \in Consumer /\ p \in c.todo /\ p \in Partitions
      /\ c.offs[p] < c.upto
  BY MinPartition DEF Sound, Consumer
<1>2. c.offs[p] \in 0 .. NumRecords /\ c.upto \in 0 .. NumRecords
  BY <1>1 DEF Consumer
<1>3. d.offs = [c.offs EXCEPT ![p] = @ + 1]
  BY <1>1 DEF Consumer
<1>4. d.offs \in [Partitions -> 0 .. NumRecords] /\ d.offs[p] = c.offs[p] + 1
  BY <1>1, <1>2, <1>3, Constants DEF Consumer
<1>5. /\ d.todo = c.todo /\ d.pc = c.pc /\ d.parts = c.parts /\ d.upto = c.upto
      /\ d.conn = c.conn /\ d.beats = c.beats /\ d.gen = c.gen
  BY <1>1 DEF Consumer
<1>6. d \in Consumer
  BY <1>1, <1>3, <1>4 DEF Consumer
<1>7. ASSUME d.offs[p] # d.upto PROVE d.offs[Min(d.todo)] < d.upto
  BY <1>1, <1>2, <1>4, <1>5, <1>7, Constants
<1>8. CASE d.offs[p] = d.upto
  <2>1. Advanced(c, p) = NextPartition(d, p)
    BY <1>8 DEF Advanced
  <2>2. d.todo \subseteq d.parts /\ d.parts # {}
    BY <1>1, <1>5 DEF Sound
  <2> HIDE DEF d
  <2> QED
    BY <1>6, <2>1, <2>2, ReadyNextPartition
<1>9. CASE d.offs[p] # d.upto
  <2>1. Advanced(c, p) = Begin(d)
    BY <1>9 DEF Advanced
  <2>2. Sound(d) /\ d.todo # {}
    BY <1>1, <1>5, <1>6, <1>7, <1>9 DEF Sound
  <2> HIDE DEF d
  <2> QED
    BY <2>1, <2>2, <1>7, <1>9, ReadyBegin
<1> QED
  BY <1>8, <1>9

-----------------------------------------------------------------------------
(* Types.                                                                  *)

LEMMA TypeInvImplies == TypeInv => TypeOK
BY DEF TypeInv, CoordinatorOK, ConsumersOK, HistoryOK, TypeOK, Group, Consumer,
       Commits

LEMMA RebalancedType ==
    ASSUME CoordinatorOK, NEW ms, ms \subseteq Members
    PROVE  /\ Rebalanced(ms) \in Group
           /\ Rebalanced(ms).members = ms
           /\ Rebalanced(ms).generation = group.generation + 1
<1>1. 0 .. count - 1 \subseteq Partitions
  BY Constants DEF CoordinatorOK, Partitions
<1>2. group.generation + 1 \in Nat
  BY DEF CoordinatorOK, Group
<1>3. [m \in Members |->
         IF m \in ms
         THEN {p \in 0 .. count - 1 : p % Cardinality(ms) = Rank(m, ms)}
         ELSE {}] \in [Members -> SUBSET Partitions]
  BY <1>1
<1> QED
  BY <1>2, <1>3 DEF Rebalanced, Group

LEMMA ActiveType == CoordinatorOK => Active \in Group
<1> SUFFICES ASSUME CoordinatorOK PROVE Active \in Group
  OBVIOUS
<1>1. group.members \ overdue \subseteq Members
  BY DEF CoordinatorOK, Group
<1> QED
  BY <1>1, RebalancedType DEF Active, CoordinatorOK

LEMMA JoinedType == \A m \in Members : CoordinatorOK => Joined(m) \in Group
<1> SUFFICES ASSUME NEW m \in Members, CoordinatorOK PROVE Joined(m) \in Group
  OBVIOUS
<1>1. (group.members \ overdue) \cup {m} \subseteq Members
  BY DEF CoordinatorOK, Group
<1> QED
  BY <1>1, RebalancedType DEF Joined, CoordinatorOK

LEMMA CommitRequestType ==
    ASSUME NEW m \in Members, NEW c, Sound(c), c.pc = "wait"
    PROVE  /\ CommitRequest(m, c) \in Commits
           /\ CommitRequest(m, c).member = m
<1>1. c \in Consumer /\ Min(c.todo) \in Partitions /\ c.offs[Min(c.todo)] < c.upto
  BY MinPartition DEF Sound, Consumer
<1>2. c.offs[Min(c.todo)] \in 0 .. NumRecords /\ c.upto \in 0 .. NumRecords
  BY <1>1 DEF Consumer
<1>3. c.offs[Min(c.todo)] + 1 \in 1 .. NumRecords
  BY <1>1, <1>2, Constants
<1> QED
  BY <1>1, <1>3 DEF CommitRequest, Commits, Consumer

\* A consumer goes on, and none of the commits that stay is one it waits for.
LEMMA GoOnType ==
    ASSUME ConsumersOK, NEW m \in Members, NEW c, Ready(c),
           NEW others, others \subseteq inflight,
           \A r \in others : r.live => r.member # m,
           GoOn(m, c, others)
    PROVE  ConsumersOK'
<1>1. consumer' = [consumer EXCEPT ![m] = c] /\ Sound(c) /\ c \in Consumer
  BY DEF GoOn, Become, Ready, Sound
<1>2. consumer' \in [Members -> Consumer] /\ \A n \in Members : Sound(consumer'[n])
  BY <1>1 DEF ConsumersOK
<1>3. ASSUME NEW r \in others
      PROVE  r \in Commits /\ (r.live => Awaited(r)')
  <2>1. r \in Commits /\ r.member \in Members /\ (r.live => Awaited(r))
    BY <1>3 DEF ConsumersOK, Commits
  <2>2. r.live => consumer'[r.member] = consumer[r.member]
    BY <1>1, <2>1 DEF ConsumersOK
  <2> QED
    BY <2>1, <2>2 DEF Awaited
<1>4. CASE c.pc # "wait"
  <2>1. inflight' = others
    BY <1>4 DEF GoOn
  <2> QED
    BY <1>2, <1>3, <2>1 DEF ConsumersOK
<1>5. CASE c.pc = "wait"
  <2>1. inflight' = others \cup {CommitRequest(m, c)}
    BY <1>5 DEF GoOn
  <2>2. CommitRequest(m, c) \in Commits /\ CommitRequest(m, c).member = m
    BY <1>1, <1>5, CommitRequestType
  <2>3. consumer'[m] = c /\ c.conn
    BY <1>1, <1>5 DEF ConsumersOK, Ready
  <2>4. Awaited(CommitRequest(m, c))'
    BY <1>5, <2>2, <2>3 DEF Awaited
  <2> QED
    BY <1>2, <1>3, <2>1, <2>2, <2>4 DEF ConsumersOK
<1> QED
  BY <1>4, <1>5

\* A consumer that waits for no answer moves, and sends nothing.
LEMMA BecomeType ==
    ASSUME ConsumersOK, NEW m \in Members, NEW c, Sound(c), Become(m, c),
           inflight' = inflight,
           \A r \in inflight : r.live => r.member # m
    PROVE  ConsumersOK'
<1>1. consumer' = [consumer EXCEPT ![m] = c] /\ c \in Consumer
  BY DEF Become, Sound
<1>2. consumer' \in [Members -> Consumer] /\ \A n \in Members : Sound(consumer'[n])
  BY <1>1 DEF ConsumersOK
<1>3. ASSUME NEW r \in inflight, r.live PROVE Awaited(r)'
  <2>1. r.member \in Members /\ Awaited(r)
    BY <1>3 DEF ConsumersOK, Commits
  <2>2. consumer'[r.member] = consumer[r.member]
    BY <1>1, <1>3, <2>1 DEF ConsumersOK
  <2> QED
    BY <2>1, <2>2 DEF Awaited
<1> QED
  BY <1>2, <1>3 DEF ConsumersOK

\* load_offsets reads one partition.
LEMMA LoadOffsetMoves ==
    ASSUME CoordinatorOK, ConsumersOK, NEW m \in Members, LoadOffset(m)
    PROVE  \E d \in Consumer :
             /\ Become(m, IF d.todo = {} THEN Round(d) ELSE d)
             /\ d.pc = "load" /\ d.conn = consumer[m].conn /\ d.gen = consumer[m].gen
             /\ d.parts = consumer[m].parts
             /\ d.todo = consumer[m].todo \ {Current(m)}
             /\ d.offs = [consumer[m].offs EXCEPT ![Current(m)] = committed[Current(m)]]
<1> DEFINE c == consumer[m]
           p == Current(m)
           d == [c EXCEPT !.offs[p] = committed[p], !.todo = @ \ {p}]
<1>1. c \in Consumer /\ Sound(c) /\ c.pc = "load"
  BY DEF ConsumersOK, LoadOffset
<1>2. p \in Partitions /\ committed[p] \in 0 .. NumRecords
  BY <1>1, MinPartition DEF Current, Sound, Consumer, CoordinatorOK
<1>3. Become(m, IF d.todo = {} THEN Round(d) ELSE d)
  BY DEF LoadOffset
<1> HIDE DEF p
<1>4. [c.offs EXCEPT ![p] = committed[p]] \in [Partitions -> 0 .. NumRecords]
  BY <1>1, <1>2 DEF Consumer
<1>5. d \in Consumer
  BY <1>1, <1>4 DEF Consumer
<1>6. /\ d.pc = "load" /\ d.conn = c.conn /\ d.gen = c.gen /\ d.parts = c.parts
      /\ d.todo = c.todo \ {p}
  BY <1>1 DEF Consumer
<1>7. d.offs = [c.offs EXCEPT ![p] = committed[p]]
  BY <1>1 DEF Consumer
<1> HIDE DEF d
<1> QED
  BY <1>3, <1>5, <1>6, <1>7 DEF p

LEMMA NotAwaited ==
    ASSUME ConsumersOK, NEW m \in Members,
           consumer[m].pc # "wait" \/ ~consumer[m].conn
    PROVE  \A r \in inflight : r.live => r.member # m
BY DEF ConsumersOK, Awaited

LEMMA TypeInit == Init => TypeInv
<1> SUFFICES ASSUME Init PROVE TypeInv
  OBVIOUS
<1>1. CoordinatorOK
  BY Constants DEF Init, CoordinatorOK, Group, NoGroup
<1>2. ConsumersOK
  BY SoundDown DEF Init, ConsumersOK, Sound
<1>3. HistoryOK
  BY DEF Init, HistoryOK
<1> QED
  BY <1>1, <1>2, <1>3 DEF TypeInv

LEMMA CoordinatorStep == TypeInv /\ [Next]_vars => CoordinatorOK'
<1> SUFFICES ASSUME TypeInv, [Next]_vars PROVE CoordinatorOK'
  OBVIOUS
<1> USE DEF TypeInv
<1>1. ASSUME UNCHANGED coordinator PROVE CoordinatorOK'
  BY <1>1 DEF CoordinatorOK, coordinator
<1>2. ASSUME NEW g \in Group, Apply(g), UNCHANGED <<count, committed>>
      PROVE  CoordinatorOK'
  BY <1>2 DEF CoordinatorOK, Apply
<1>3. ASSUME NEW m \in Members, ConsumerStep(m) PROVE CoordinatorOK'
  <2>1. CASE Join(m)
    BY <1>2, <2>1, JoinedType DEF Join
  <2>2. CASE Fetch(m)
    BY <1>2, <2>2, ActiveType DEF Fetch
  <2>3. CASE FetchRefused(m)
    BY <1>1, <1>2, <2>3, ActiveType DEF FetchRefused, coordinator
  <2> QED
    BY <1>1, <1>3, <2>1, <2>2, <2>3
       DEF ConsumerStep, LoadOffset, WakeUp, Handle, ConnectionLost
<1>4. ASSUME NEW m \in Members, Heartbeat(m) PROVE CoordinatorOK'
  BY <1>1, <1>2, <1>4, ActiveType DEF Heartbeat, coordinator
<1>5. ASSUME NEW m \in Members, Shutdown(m) PROVE CoordinatorOK'
  <2>1. Active \in Group
    BY ActiveType
  <2>2. /\ Active.members \ {m} \subseteq Members
        /\ Active.generation + 1 \in Nat
    BY <2>1 DEF Group
  <2>3. Rebalanced(Active.members \ {m}) \in Group
    BY <2>2, RebalancedType
  <2>4. [Rebalanced(Active.members \ {m}) EXCEPT
           !.generation = Active.generation + 1] \in Group
    BY <2>2, <2>3 DEF Group
  <2>5. group' \in Group /\ overdue' = {}
    BY <1>5, <2>1, <2>4 DEF Shutdown
  <2> QED
    BY <1>5, <2>5 DEF CoordinatorOK, Shutdown
<1>6. ASSUME NEW m \in Members, Lapse(m) PROVE CoordinatorOK'
  BY <1>6 DEF CoordinatorOK, Lapse
<1>7. ASSUME NEW r \in inflight, Commit(r) PROVE CoordinatorOK'
  <2>1. r.part \in Partitions /\ r.off \in 0 .. NumRecords
    BY <1>7, Constants DEF ConsumersOK, Commits
  <2>2. committed' \in [Partitions -> 0 .. NumRecords]
    BY <1>7, <2>1 DEF Commit, CoordinatorOK
  <2> QED
    BY <1>7, <2>2, ActiveType DEF Commit, CoordinatorOK, Apply
<1>8. CASE Sweep
  BY <1>2, <1>8, ActiveType DEF Sweep
<1>9. CASE SetTopicPartitions
  BY <1>9 DEF SetTopicPartitions, CoordinatorOK
<1>10. CASE BrokerRestart
  BY <1>10 DEF BrokerRestart, CoordinatorOK, NoGroup, Group
<1>11. CASE \/ \E m \in Members : StartConsumer(m) \/ HandleFails(m) \/ Crash(m)
            \/ UNCHANGED vars
  BY <1>1, <1>11 DEF StartConsumer, HandleFails, Crash, vars
<1> QED
  BY <1>3, <1>4, <1>5, <1>6, <1>7, <1>8, <1>9, <1>10, <1>11 DEF Next

LEMMA ConsumersStep == TypeInv /\ [Next]_vars => ConsumersOK'
<1> SUFFICES ASSUME TypeInv, [Next]_vars PROVE ConsumersOK'
  OBVIOUS
<1> USE DEF TypeInv
<1>1. ASSUME UNCHANGED <<consumer, inflight>> PROVE ConsumersOK'
  BY <1>1 DEF ConsumersOK, Awaited
<1>2. ASSUME NEW m \in Members, Become(m, Down) \/ Become(m, Joining),
             inflight' = inflight,
             consumer[m].pc # "wait" \/ ~consumer[m].conn
      PROVE  ConsumersOK'
  BY <1>2, BecomeType, NotAwaited, SoundDown
<1>3. ASSUME NEW m \in Members
      PROVE  Sound(consumer[m]) /\ consumer[m] \in Consumer
  BY DEF ConsumersOK
<1>4. ASSUME NEW m \in Members, ConsumerStep(m) PROVE ConsumersOK'
  <2>1. CASE Join(m)
    <3> DEFINE g == Joined(m)
               c == [Down EXCEPT
                       !.pc = IF g.assigned[m] = {} THEN "idle" ELSE "load",
                       !.gen = g.generation, !.parts = g.assigned[m],
                       !.todo = g.assigned[m], !.conn = TRUE, !.beats = TRUE]
    <3>1. g \in Group
      BY JoinedType
    <3>2. g.generation \in Nat /\ g.assigned[m] \in SUBSET Partitions
      BY <3>1 DEF Group
    <3> HIDE DEF g
    <3>3. Down \in Consumer
      BY SoundDown DEF Sound
    <3>4. c \in Consumer
      BY <3>2, <3>3 DEF Consumer
    <3>5. Sound(c)
      BY <3>3, <3>4 DEF Sound, Down
    <3>6. Become(m, c) /\ inflight' = inflight /\ consumer[m].pc # "wait"
      BY <2>1 DEF Join, g
    <3> HIDE DEF c
    <3> QED
      BY <3>5, <3>6, BecomeType, NotAwaited
  <2>2. CASE LoadOffset(m)
    <3> DEFINE c == consumer[m]
    <3>1. c.pc = "load" /\ c.todo # {} /\ c.todo \subseteq c.parts
      BY <1>3, <2>2 DEF LoadOffset, Sound
    <3>2. PICK d \in Consumer :
            /\ Become(m, IF d.todo = {} THEN Round(d) ELSE d)
            /\ d.pc = "load" /\ d.parts = c.parts /\ d.todo = c.todo \ {Current(m)}
      BY <2>2, LoadOffsetMoves
    <3>3. inflight' = inflight
      BY <2>2 DEF LoadOffset
    <3>4. d.todo # {} => Sound(d)
      BY <3>1, <3>2 DEF Sound
    <3>5. Sound(Round(d))
      BY <3>1, <3>2, ReadyRound DEF Ready
    <3> QED
      BY <3>1, <3>2, <3>3, <3>4, <3>5, BecomeType, NotAwaited
  <2>3. CASE Fetch(m)
    <3> DEFINE c == consumer[m]
               p == Current(m)
    <3>1. /\ c.pc = "fetch" /\ Sound(c) /\ c \in Consumer /\ c.todo # {}
          /\ p = Min(c.todo) /\ p \in Partitions
      BY <1>3, <2>3, MinPartition DEF Fetch, Sound, Consumer, Current
    <3>2. \A r \in inflight : r.live => r.member # m
      BY <3>1, NotAwaited
    <3>3. CASE c.offs[p] >= NumRecords
      <4>1. GoOn(m, NextPartition(c, p), inflight)
        BY <2>3, <3>3 DEF Fetch
      <4>2. Ready(NextPartition(c, p))
        BY <3>1, ReadyNextPartition DEF Sound
      <4> QED
        BY <3>2, <4>1, <4>2, GoOnType
    <3>4. CASE ~(c.offs[p] >= NumRecords)
      <4>1. PICK n \in c.offs[p] + 1 .. NumRecords :
                GoOn(m, Begin([c EXCEPT !.upto = n]), inflight)
        BY <2>3, <3>4 DEF Fetch
      <4> DEFINE d == [c EXCEPT !.upto = n]
      <4>2. c.offs[p] \in 0 .. NumRecords
        BY <3>1 DEF Consumer
      <4>3. n \in 0 .. NumRecords /\ c.offs[p] < n
        BY <4>1, <4>2, Constants
      <4>4. /\ d \in Consumer /\ d.upto = n /\ d.offs = c.offs /\ d.todo = c.todo
            /\ d.parts = c.parts /\ d.pc = "fetch"
        BY <3>1, <4>3 DEF Consumer
      <4>5. Sound(d)
        BY <3>1, <4>4 DEF Sound
      <4> HIDE DEF d
      <4>6. Ready(Begin(d))
        BY <3>1, <4>3, <4>4, <4>5, ReadyBegin
      <4> QED
        BY <3>2, <4>1, <4>6, GoOnType DEF d
    <3> QED
      BY <3>3, <3>4
  <2>4. CASE Handle(m)
    <3> DEFINE c == consumer[m]
               p == Current(m)
    <3>1. c.pc = "handle" /\ Sound(c) /\ p = Min(c.todo)
      BY <1>3, <2>4 DEF Handle, Current
    <3>2. Ready(Advanced(c, p)) /\ Ready(Committing(c))
      BY <3>1, ReadyAdvanced, ReadyCommitting DEF Sound
    <3>3. \A r \in inflight : r.live => r.member # m
      BY <3>1, NotAwaited
    <3>4. \E d : Ready(d) /\ GoOn(m, d, inflight)
      BY <2>4, <3>2 DEF Handle
    <3> QED
      BY <3>3, <3>4, GoOnType
  <2>5. CASE WakeUp(m) \/ FetchRefused(m) \/ ConnectionLost(m)
    BY <1>2, <2>5 DEF WakeUp, FetchRefused, ConnectionLost
  <2> QED
    BY <1>4, <2>1, <2>2, <2>3, <2>4, <2>5 DEF ConsumerStep
<1>5. ASSUME NEW m \in Members, StartConsumer(m) \/ HandleFails(m) \/ Shutdown(m)
      PROVE  ConsumersOK'
  BY <1>2, <1>5 DEF StartConsumer, HandleFails, Shutdown, Running
<1>6. ASSUME NEW m \in Members, Heartbeat(m) PROVE ConsumersOK'
  <2>1. PICK b \in BOOLEAN : Become(m, [consumer[m] EXCEPT !.beats = b])
    BY <1>6 DEF Heartbeat, Valid
  <2> DEFINE c == [consumer[m] EXCEPT !.beats = b]
  <2>2. /\ c \in Consumer /\ c.pc = consumer[m].pc /\ c.gen = consumer[m].gen
        /\ c.parts = consumer[m].parts /\ c.offs = consumer[m].offs
        /\ c.todo = consumer[m].todo /\ c.upto = consumer[m].upto
        /\ c.conn = consumer[m].conn
    BY <1>3 DEF Consumer
  <2>3. Sound(c)
    BY <1>3, <2>2 DEF Sound
  <2>4. consumer' = [consumer EXCEPT ![m] = c] /\ inflight' = inflight
    BY <1>6, <2>1 DEF Become, Heartbeat
  <2> HIDE DEF c
  <2>5. consumer' \in [Members -> Consumer] /\ \A n \in Members : Sound(consumer'[n])
    BY <2>2, <2>3, <2>4 DEF ConsumersOK
  <2>6. ASSUME NEW r \in inflight, r.live PROVE Awaited(r)'
    <3>1. r.member \in Members /\ Awaited(r)
      BY <2>6 DEF ConsumersOK, Commits
    <3>2. CASE r.member = m
      BY <2>2, <2>4, <3>1, <3>2 DEF Awaited, CommitRequest, ConsumersOK
    <3>3. CASE r.member # m
      BY <2>4, <3>1, <3>3 DEF Awaited, ConsumersOK
    <3> QED
      BY <3>2, <3>3
  <2> QED
    BY <2>4, <2>5, <2>6 DEF ConsumersOK
<1>7. ASSUME NEW m \in Members, Crash(m) PROVE ConsumersOK'
  <2>1. /\ consumer' = [consumer EXCEPT ![m] = Down]
        /\ inflight' = {[r EXCEPT !.live = @ /\ r.member # m] : r \in inflight}
    BY <1>7 DEF Crash, Become
  <2>2. consumer' \in [Members -> Consumer] /\ \A n \in Members : Sound(consumer'[n])
    BY <2>1, SoundDown DEF ConsumersOK, Sound
  <2>3. ASSUME NEW s \in inflight' PROVE s \in Commits /\ (s.live => Awaited(s)')
    <3>1. PICK r \in inflight : s = [r EXCEPT !.live = @ /\ r.member # m]
      BY <2>1
    <3>2. r \in Commits
      BY DEF ConsumersOK
    <3>3. s \in Commits /\ (s.live => s = r /\ r.live /\ r.member # m)
      BY <3>1, <3>2 DEF Commits
    <3>4. s.live => consumer'[r.member] = consumer[r.member]
      BY <2>1, <3>2, <3>3 DEF ConsumersOK, Commits
    <3> QED
      BY <3>3, <3>4 DEF ConsumersOK, Awaited
  <2> QED
    BY <2>2, <2>3 DEF ConsumersOK
<1>8. ASSUME NEW r \in inflight, Commit(r) PROVE ConsumersOK'
  <2>1. r \in Commits /\ r.member \in Members /\ mode \in {"at-least-once", "at-most-once"}
    BY DEF ConsumersOK, Commits, HistoryOK
  <2>2. CASE r.live
    <3> DEFINE c == consumer[r.member]
    <3>1. Awaited(r) /\ Sound(c) /\ c.pc = "wait" /\ r.part = Min(c.todo)
      BY <2>1, <2>2 DEF ConsumersOK, Awaited, CommitRequest
    <3>2. \A s \in inflight \ {r} : s.live => s.member # r.member
      BY <3>1 DEF ConsumersOK, Awaited
    <3>3. Ready(Joining) /\ Ready(Advanced(c, r.part))
      BY <3>1, ReadyAdvanced, ReadyDown
    <3>4. Ready([c EXCEPT !.pc = "handle"])
      BY <3>1 DEF Ready, Sound, Consumer
    <3>5. \E d : Ready(d) /\ GoOn(r.member, d, inflight \ {r})
      BY <1>8, <2>1, <2>2, <3>3, <3>4 DEF Commit
    <3> QED
      BY <2>1, <3>2, <3>5, GoOnType
  <2>3. CASE ~r.live
    BY <1>8, <2>3 DEF Commit, ConsumersOK, Awaited
  <2> QED
    BY <2>2, <2>3
<1>9. CASE BrokerRestart
  <2>1. ASSUME NEW m \in Members PROVE Sound([consumer[m] EXCEPT !.conn = FALSE])
    BY <1>3 DEF Sound, Consumer
  <2>2. /\ consumer' = [m \in Members |-> [consumer[m] EXCEPT !.conn = FALSE]]
        /\ inflight' = {}
    BY <1>9 DEF BrokerRestart
  <2> QED
    BY <2>1, <2>2 DEF ConsumersOK, Sound
<1>10. CASE \/ \E m \in Members : Lapse(m)
            \/ Sweep \/ SetTopicPartitions
            \/ UNCHANGED vars
  BY <1>1, <1>10 DEF Lapse, Sweep, SetTopicPartitions, vars
<1> QED
  BY <1>4, <1>5, <1>6, <1>7, <1>8, <1>9, <1>10 DEF Next

LEMMA HistoryStep == TypeInv /\ [Next]_vars => HistoryOK'
<1> SUFFICES ASSUME TypeInv, [Next]_vars PROVE HistoryOK'
  OBVIOUS
<1> USE DEF TypeInv
<1>1. ASSUME UNCHANGED <<mode, history>>, faults' \in Nat PROVE HistoryOK'
  BY <1>1 DEF HistoryOK, history
<1>2. faults' \in {faults, faults + 1} => faults' \in Nat
  BY DEF HistoryOK
<1>3. ASSUME NEW m \in Members, Handle(m) \/ HandleFails(m) PROVE HistoryOK'
  <2> DEFINE c == consumer[m]
             p == Current(m)
             r == <<p, c.offs[p]>>
  <2>1. Sound(c) /\ c.pc = "handle" /\ c \in Consumer
    BY <1>3 DEF Handle, HandleFails, ConsumersOK
  <2>2. p \in Partitions /\ c.offs[p] < c.upto
    BY <2>1, MinPartition DEF Sound, Consumer, Current
  <2>3. c.offs[p] \in 0 .. NumRecords /\ c.upto \in 0 .. NumRecords
    BY <2>1, <2>2 DEF Consumer
  <2>4. c.offs[p] \in 0 .. NumRecords - 1
    BY <2>2, <2>3, Constants
  <2>5. r \in Records
    BY <2>2, <2>4 DEF Records
  <2>6. /\ runs' = [runs EXCEPT ![r] = Min({@ + 1, 2})]
        /\ settled' = settled \cup {r} \/ settled' = settled
        /\ mode' = mode /\ faults' \in {faults, faults + 1}
    BY <1>3 DEF Handle, HandleFails, Fault
  <2>7. Min({runs[r] + 1, 2}) \in 0 .. 2
    BY <2>5, MinPair DEF HistoryOK
  <2> HIDE DEF r
  <2> QED
    BY <1>2, <2>5, <2>6, <2>7 DEF HistoryOK
<1>4. CASE \E m \in Members : \/ StartConsumer(m) \/ Join(m) \/ LoadOffset(m)
                              \/ WakeUp(m) \/ Fetch(m) \/ FetchRefused(m)
                              \/ ConnectionLost(m) \/ Heartbeat(m)
  BY <1>1, <1>2, <1>4 DEF StartConsumer, Join, LoadOffset, WakeUp, Fetch,
     FetchRefused, ConnectionLost, Heartbeat
<1>5. CASE \E m \in Members : Shutdown(m) \/ Crash(m) \/ Lapse(m)
  BY <1>1, <1>2, <1>5 DEF Shutdown, Crash, Lapse, Fault
<1>6. CASE \/ \E r \in inflight : Commit(r)
           \/ Sweep \/ SetTopicPartitions \/ BrokerRestart \/ UNCHANGED vars
  BY <1>1, <1>2, <1>6 DEF Commit, Sweep, SetTopicPartitions, BrokerRestart, Fault, vars
<1> QED
  BY <1>3, <1>4, <1>5, <1>6 DEF Next, ConsumerStep

LEMMA TypeStep == TypeInv /\ [Next]_vars => TypeInv'
BY CoordinatorStep, ConsumersStep, HistoryStep DEF TypeInv

\* The coordinator, every consumer and every commit on its way keep their
\* types: offsets stay within the partition, and a consumer that fetches,
\* handles or waits has a current partition.
THEOREM TypeCorrect == Spec => []TypeOK
<1>1. Spec => []TypeInv
  BY TypeInit, TypeStep, PTL DEF Spec
<1> QED
  BY <1>1, TypeInvImplies, PTL

-----------------------------------------------------------------------------
(* Owners.                                                                 *)

LEMMA RankDiffers ==
    ASSUME NEW ms, ms \subseteq Members, NEW m \in ms, NEW n \in ms, m # n
    PROVE  Rank(m, ms) # Rank(n, ms)
<1>1. ASSUME NEW a \in ms, NEW b \in ms, a < b PROVE Rank(a, ms) # Rank(b, ms)
  <2> DEFINE A == {k \in ms : k < a}
             B == {k \in ms : k < b}
  <2>1. ms \subseteq Nat /\ IsFiniteSet(B)
    <3>1. IsFiniteSet(Members) /\ B \in SUBSET Members
      BY Constants
    <3> QED
      BY <3>1, FS_Subset, Constants
  <2>2. ASSUME NEW k \in A PROVE k \in B
    <3>1. k \in ms /\ k < a /\ k \in Nat /\ a \in Nat /\ b \in Nat
      BY <2>1
    <3> QED
      BY <1>1, <3>1
  <2>3. a \in B /\ a \notin A
    BY <1>1, <2>1
  <2>4. A \in SUBSET B
    BY <2>2
  <2>5. Cardinality(A) # Cardinality(B)
    BY <2>1, <2>3, <2>4, FS_Subset
  <2> QED
    BY <2>5 DEF Rank
<1>2. m < n \/ n < m
  BY Constants
<1> QED
  BY <1>1, <1>2

LEMMA RebalancedDisjoint ==
    ASSUME NEW ms, ms \subseteq Members
    PROVE  Disjoint(Rebalanced(ms))
<1> SUFFICES ASSUME NEW m \in Members, NEW n \in Members, m # n,
                    NEW p \in Rebalanced(ms).assigned[m],
                    p \in Rebalanced(ms).assigned[n]
             PROVE  FALSE
  BY DEF Disjoint
<1>1. m \in ms /\ p % Cardinality(ms) = Rank(m, ms)
  BY DEF Rebalanced
<1>2. n \in ms /\ p % Cardinality(ms) = Rank(n, ms)
  BY DEF Rebalanced
<1> QED
  BY <1>1, <1>2, RankDiffers

\* What a step may do to the group: nothing, or a rebalance.
Regrouped(g) ==
    \/ g = group
    \/ g.generation > group.generation /\ Disjoint(g)

LEMMA ActiveRegroups == CoordinatorOK => Regrouped(Active)
<1> SUFFICES ASSUME CoordinatorOK, overdue # {} PROVE Regrouped(Active)
  BY DEF Active, Regrouped
<1> DEFINE ms == group.members \ overdue
<1>1. Active = Rebalanced(ms) /\ ms \subseteq Members
  BY DEF Active, CoordinatorOK, Group
<1>2. group.generation \in Nat /\ Rebalanced(ms).generation = group.generation + 1
  BY <1>1, RebalancedType DEF CoordinatorOK, Group
<1> QED
  BY <1>1, <1>2, RebalancedDisjoint DEF Regrouped

LEMMA JoinedRegroups == \A m \in Members : CoordinatorOK => Regrouped(Joined(m))
<1> SUFFICES ASSUME NEW m \in Members, CoordinatorOK PROVE Regrouped(Joined(m))
  OBVIOUS
<1> DEFINE ms == (group.members \ overdue) \cup {m}
<1>1. ms \subseteq Members /\ (Joined(m) = group \/ Joined(m) = Rebalanced(ms))
  BY DEF Joined, CoordinatorOK, Group
<1>2. group.generation \in Nat /\ Rebalanced(ms).generation = group.generation + 1
  BY <1>1, RebalancedType DEF CoordinatorOK, Group
<1> QED
  BY <1>1, <1>2, RebalancedDisjoint DEF Regrouped

LEMMA ShutdownRegroups ==
    ASSUME CoordinatorOK, NEW m \in Members, Shutdown(m)
    PROVE  Regrouped(group')
<1>1. Active \in Group /\ Regrouped(Active)
  BY ActiveType, ActiveRegroups
<1>2. CASE group' = Active
  BY <1>1, <1>2
<1>3. CASE group' # Active
  <2> DEFINE h == Rebalanced(Active.members \ {m})
  <2>1. group' = [h EXCEPT !.generation = Active.generation + 1]
    BY <1>3 DEF Shutdown
  <2>2. Active.members \ {m} \subseteq Members
    BY <1>1 DEF Group
  <2>3. h \in Group /\ Disjoint(h)
    BY <2>2, RebalancedType, RebalancedDisjoint
  <2> HIDE DEF h
  <2>4. group'.generation = Active.generation + 1 /\ group'.assigned = h.assigned
    BY <2>1, <2>3 DEF Group
  <2>5. group.generation \in Nat /\ Active.generation \in Nat
    BY <1>1 DEF CoordinatorOK, Group
  <2>6. group'.generation > group.generation
    BY <1>1, <2>4, <2>5 DEF Regrouped
  <2> QED
    BY <2>3, <2>4, <2>6 DEF Regrouped, Disjoint
<1> QED
  BY <1>2, <1>3

\* Where the consumer in state c goes with these offsets: it gives up, or it
\* is between two batches, or at the next record.
MovesTo(c, d, offs) ==
    \/ d \in {Down, Joining}
    \/ /\ d.conn = c.conn /\ d.gen = c.gen /\ d.parts = c.parts /\ d.offs = offs
       /\ \/ d.pc = "fetch"
          \/ d.pc = "handle" /\ mode = "at-least-once"
          \/ d.pc = "wait" /\ mode = "at-most-once"

LEMMA RoundMoves ==
    ASSUME NEW c \in Consumer PROVE MovesTo(c, Round(c), c.offs)
BY DEF Round, MovesTo, Consumer

LEMMA NextPartitionMoves ==
    ASSUME NEW c \in Consumer, NEW p PROVE MovesTo(c, NextPartition(c, p), c.offs)
<1> DEFINE d == [c EXCEPT !.todo = @ \ {p}, !.upto = 0]
<1>1. c.todo \ {p} \in SUBSET Partitions /\ 0 \in 0 .. NumRecords
  BY Constants DEF Consumer
<1>2. /\ d \in Consumer /\ d.conn = c.conn /\ d.gen = c.gen
      /\ d.parts = c.parts /\ d.offs = c.offs
  BY <1>1 DEF Consumer
<1>3. NextPartition(c, p) = IF d.todo = {} THEN Round(d) ELSE [d EXCEPT !.pc = "fetch"]
  BY DEF NextPartition
<1> HIDE DEF d
<1>4. MovesTo(d, Round(d), d.offs)
  BY <1>2, RoundMoves
<1>5. MovesTo(d, [d EXCEPT !.pc = "fetch"], d.offs)
  BY <1>2 DEF MovesTo, Consumer
<1> QED
  BY <1>2, <1>3, <1>4, <1>5 DEF MovesTo

LEMMA BeginMoves ==
    ASSUME NEW c \in Consumer, HistoryOK PROVE MovesTo(c, Begin(c), c.offs)
BY DEF Begin, Committing, MovesTo, Consumer, HistoryOK

LEMMA AdvancedMoves ==
    ASSUME NEW c, Sound(c), c.pc \in {"wait", "handle"}, HistoryOK
    PROVE  MovesTo(c, Advanced(c, Min(c.todo)),
                   [c.offs EXCEPT ![Min(c.todo)] = @ + 1])
<1> DEFINE p == Min(c.todo)
           d == [c EXCEPT !.offs[p] = @ + 1]
<1>1. c \in Consumer /\ p \in Partitions /\ c.offs[p] < c.upto
  BY MinPartition DEF Sound, Consumer
<1>2. c.offs[p] \in 0 .. NumRecords /\ c.upto \in 0 .. NumRecords
  BY <1>1 DEF Consumer
<1>3. c.offs[p] + 1 \in 0 .. NumRecords
  BY <1>1, <1>2, Constants
<1>4. Advanced(c, p) = IF d.offs[p] = d.upto THEN NextPartition(d, p) ELSE Begin(d)
  BY DEF Advanced
<1> HIDE DEF p
<1>5. [c.offs EXCEPT ![p] = @ + 1] \in [Partitions -> 0 .. NumRecords]
  BY <1>1, <1>3 DEF Consumer
<1>6. /\ d \in Consumer /\ d.conn = c.conn /\ d.gen = c.gen /\ d.parts = c.parts
      /\ d.offs = [c.offs EXCEPT ![p] = @ + 1]
  BY <1>1, <1>5 DEF Consumer
<1> HIDE DEF d
<1>7. MovesTo(d, Advanced(c, p), d.offs)
  BY <1>4, <1>6, NextPartitionMoves, BeginMoves
<1> QED
  BY <1>6, <1>7 DEF MovesTo, p

\* The answer to a fetch.
LEMMA FetchMoves ==
    ASSUME TypeInv, NEW m \in Members, Fetch(m)
    PROVE  \E d : GoOn(m, d, inflight) /\ MovesTo(consumer[m], d, consumer[m].offs)
<1> DEFINE c == consumer[m]
           p == Current(m)
<1>1. c \in Consumer /\ Sound(c) /\ c.pc = "fetch"
  BY DEF TypeInv, ConsumersOK, Fetch
<1>2. CASE c.offs[p] >= NumRecords
  <2>1. GoOn(m, NextPartition(c, p), inflight)
    BY <1>2 DEF Fetch
  <2>2. MovesTo(c, NextPartition(c, p), c.offs)
    BY <1>1, NextPartitionMoves
  <2> QED
    BY <2>1, <2>2
<1>3. CASE ~(c.offs[p] >= NumRecords)
  <2>1. PICK k \in c.offs[p] + 1 .. NumRecords :
           GoOn(m, Begin([c EXCEPT !.upto = k]), inflight)
    BY <1>3 DEF Fetch
  <2> DEFINE e == [c EXCEPT !.upto = k]
  <2>2. p \in Partitions
    BY <1>1, MinPartition DEF Current, Sound, Consumer
  <2>3. c.offs[p] \in Nat
    BY <1>1, <2>2, OffsetType
  <2>4. k \in 0 .. NumRecords
    BY <2>1, <2>3, Constants
  <2>5. /\ e \in Consumer
        /\ e.offs = c.offs /\ e.conn = c.conn /\ e.gen = c.gen /\ e.parts = c.parts
    BY <1>1, <2>4 DEF Consumer
  <2>6. GoOn(m, Begin(e), inflight)
    BY <2>1
  <2> HIDE DEF e
  <2>7. MovesTo(e, Begin(e), c.offs)
    BY <2>5, BeginMoves DEF TypeInv
  <2>8. MovesTo(c, Begin(e), c.offs)
    BY <2>5, <2>7 DEF MovesTo
  <2> QED
    BY <2>6, <2>8
<1> QED
  BY <1>2, <1>3

\* A consumer keeps its session, or it has none.
Kept(c, d) == d.conn => c.conn /\ d.gen = c.gen /\ d.parts = c.parts

LEMMA MovesKept ==
    ASSUME NEW c, NEW d, NEW offs, MovesTo(c, d, offs)
    PROVE  Kept(c, d)
<1>1. CASE d \in {Down, Joining}
  <2>1. ~d.conn
    BY <1>1 DEF Down, Joining
  <2> QED
    BY <2>1 DEF Kept
<1>2. CASE d \notin {Down, Joining}
  BY <1>2 DEF MovesTo, Kept
<1> QED
  BY <1>1, <1>2

LEMMA BecomeKept ==
    ASSUME ConsumersOK, NEW m \in Members, NEW d, Kept(consumer[m], d), Become(m, d)
    PROVE  \A n \in Members : Kept(consumer[n], consumer'[n])
<1>1. \A n \in Members \ {m} : consumer'[n] = consumer[n]
  BY DEF ConsumersOK, Become
<1>2. consumer'[m] = d
  BY DEF ConsumersOK, Become
<1> QED
  BY <1>1, <1>2 DEF Kept

\* A step of the consumer itself, other than Join.
LEMMA StepKept ==
    ASSUME TypeInv, NEW m \in Members,
           LoadOffset(m) \/ Fetch(m) \/ Handle(m) \/ Heartbeat(m)
    PROVE  \A n \in Members : Kept(consumer[n], consumer'[n])
<1> DEFINE c == consumer[m]
<1> USE DEF TypeInv
<1>1. c \in Consumer /\ Sound(c)
  BY DEF ConsumersOK
<1>2. CASE LoadOffset(m)
  <2>1. PICK d \in Consumer :
          /\ Become(m, IF d.todo = {} THEN Round(d) ELSE d)
          /\ d.conn = c.conn /\ d.gen = c.gen /\ d.parts = c.parts
    BY <1>2, LoadOffsetMoves
  <2>2. Kept(d, Round(d))
    BY RoundMoves, MovesKept
  <2>3. Kept(c, d) /\ Kept(c, Round(d))
    BY <2>1, <2>2 DEF Kept
  <2> QED
    BY <2>1, <2>3, BecomeKept
<1>3. CASE Fetch(m)
  <2>1. PICK d : GoOn(m, d, inflight) /\ MovesTo(c, d, c.offs)
    BY <1>3, FetchMoves
  <2>2. Become(m, d) /\ Kept(c, d)
    BY <2>1, MovesKept DEF GoOn
  <2> QED
    BY <2>2, BecomeKept
<1>4. CASE Handle(m)
  <2>1. c.pc = "handle"
    BY <1>4 DEF Handle
  <2>2. Kept(c, Advanced(c, Current(m)))
    BY <1>1, <2>1, AdvancedMoves, MovesKept DEF Current
  <2>3. Kept(c, Committing(c))
    BY <1>1 DEF Kept, Committing, Down, Consumer
  <2>4. Become(m, Advanced(c, Current(m))) \/ Become(m, Committing(c))
    BY <1>4 DEF Handle, GoOn
  <2> QED
    BY <2>2, <2>3, <2>4, BecomeKept
<1>5. CASE Heartbeat(m)
  <2>1. PICK b : Become(m, [c EXCEPT !.beats = b])
    BY <1>5 DEF Heartbeat
  <2>2. Kept(c, [c EXCEPT !.beats = b])
    BY <1>1 DEF Kept, Consumer
  <2> QED
    BY <2>1, <2>2, BecomeKept
<1> QED
  BY <1>2, <1>3, <1>4, <1>5

LEMMA CommitKept ==
    ASSUME TypeInv, NEW r \in inflight, Commit(r)
    PROVE  \A n \in Members : Kept(consumer[n], consumer'[n])
<1> DEFINE c == consumer[r.member]
<1> USE DEF TypeInv
<1>1. r.member \in Members /\ c \in Consumer /\ Sound(c)
  BY DEF ConsumersOK, Commits
<1>2. CASE ~r.live
  BY <1>2 DEF Commit, Kept
<1>3. CASE r.live
  <2>1. c.pc = "wait" /\ r.part = Min(c.todo)
    BY <1>3 DEF ConsumersOK, Awaited, CommitRequest
  <2>2. Kept(c, Advanced(c, r.part))
    BY <1>1, <2>1, AdvancedMoves, MovesKept
  <2>3. Kept(c, Joining) /\ Kept(c, [c EXCEPT !.pc = "handle"])
    BY <1>1 DEF Kept, Joining, Down, Consumer
  <2>4. \/ Become(r.member, Joining) \/ Become(r.member, Advanced(c, r.part))
        \/ Become(r.member, [c EXCEPT !.pc = "handle"])
    BY <1>3 DEF Commit, GoOn, HistoryOK
  <2> QED
    BY <1>1, <2>2, <2>3, <2>4, BecomeKept
<1> QED
  BY <1>2, <1>3

LEMMA OwnerInit == Init => OwnerInv
BY DEF Init, OwnerInv, Disjoint, NoGroup, Down, Owner

LEMMA OwnerStep == TypeInv /\ OwnerInv /\ [Next]_vars => OwnerInv'
<1> SUFFICES ASSUME TypeInv, OwnerInv, [Next]_vars PROVE OwnerInv'
  OBVIOUS
<1> USE DEF TypeInv
<1>1. /\ group.generation \in Nat
      /\ \A m \in Members : consumer[m] \in Consumer /\ consumer[m].gen \in Nat
  BY DEF CoordinatorOK, ConsumersOK, Group, Consumer
<1>2. group'.generation \in Nat
  BY CoordinatorStep DEF CoordinatorOK, Group
<1>3. ASSUME Regrouped(group'),
             \A n \in Members : Kept(consumer[n], consumer'[n])
      PROVE  OwnerInv'
  <2>1. Disjoint(group')
    BY <1>3 DEF Regrouped, OwnerInv
  <2>2. ASSUME NEW n \in Members, consumer'[n].conn
        PROVE  /\ consumer'[n].gen <= group'.generation
               /\ Owner(n)' => consumer'[n].parts = group'.assigned[n]
    <3>1. /\ consumer[n].conn /\ consumer[n].gen <= group.generation
          /\ consumer'[n].gen = consumer[n].gen
          /\ consumer'[n].parts = consumer[n].parts
      BY <1>3, <2>2 DEF Kept, OwnerInv
    <3> QED
      BY <1>1, <1>2, <1>3, <3>1 DEF Regrouped, OwnerInv, Owner
  <2> QED
    BY <2>1, <2>2 DEF OwnerInv, Disjoint, Owner
<1>4. ASSUME NEW m \in Members, Become(m, Down) \/ Become(m, Joining)
      PROVE  \A n \in Members : Kept(consumer[n], consumer'[n])
  <2>1. Kept(consumer[m], Down) /\ Kept(consumer[m], Joining)
    BY DEF Kept, Down, Joining
  <2> QED
    BY <1>4, <2>1, BecomeKept
<1>5. group' = group \/ Apply(Active) => Regrouped(group')
  BY ActiveRegroups DEF Apply, Regrouped
<1>6. ASSUME NEW m \in Members, Join(m) PROVE OwnerInv'
  <2>1. group' = Joined(m) /\ Regrouped(group')
    BY <1>6, JoinedRegroups DEF Join, Apply
  <2>2. \A n \in Members \ {m} : consumer'[n] = consumer[n]
    BY <1>6 DEF Join, Become, ConsumersOK
  <2>3. /\ consumer'[m].gen = group'.generation
        /\ consumer'[m].parts = group'.assigned[m]
    BY <1>6, <2>1 DEF Join, Become, ConsumersOK, Down
  <2>4. Disjoint(group')
    BY <2>1 DEF Regrouped, OwnerInv
  <2>5. ASSUME NEW n \in Members, consumer'[n].conn
        PROVE  /\ consumer'[n].gen <= group'.generation
               /\ Owner(n)' => consumer'[n].parts = group'.assigned[n]
    <3>1. CASE n = m
      BY <1>2, <2>3, <3>1
    <3>2. CASE n # m
      BY <1>1, <1>2, <2>1, <2>2, <2>5, <3>2 DEF Regrouped, OwnerInv, Owner
    <3> QED
      BY <3>1, <3>2
  <2> QED
    BY <2>4, <2>5 DEF OwnerInv, Disjoint, Owner
<1>7. ASSUME NEW m \in Members,
             \/ StartConsumer(m) \/ WakeUp(m) \/ FetchRefused(m) \/ HandleFails(m)
             \/ ConnectionLost(m) \/ Crash(m)
      PROVE  OwnerInv'
  BY <1>3, <1>4, <1>5, <1>7
     DEF StartConsumer, WakeUp, FetchRefused, HandleFails, ConnectionLost, Crash,
         coordinator
<1>8. ASSUME NEW m \in Members, Shutdown(m) PROVE OwnerInv'
  BY <1>3, <1>4, <1>8, ShutdownRegroups DEF Shutdown
<1>9. ASSUME NEW m \in Members,
             LoadOffset(m) \/ Fetch(m) \/ Handle(m) \/ Heartbeat(m)
      PROVE  OwnerInv'
  <2>1. Regrouped(group')
    BY <1>5, <1>9 DEF LoadOffset, Fetch, Handle, Heartbeat, coordinator
  <2> QED
    BY <1>3, <1>9, <2>1, StepKept
<1>10. ASSUME NEW r \in inflight, Commit(r) PROVE OwnerInv'
  BY <1>3, <1>5, <1>10, CommitKept DEF Commit
<1>11. CASE \/ \E m \in Members : Lapse(m)
            \/ Sweep \/ SetTopicPartitions \/ UNCHANGED vars
  <2>1. Regrouped(group') /\ consumer' = consumer
    BY <1>5, <1>11 DEF Lapse, Sweep, SetTopicPartitions, vars, coordinator
  <2> QED
    BY <1>3, <2>1 DEF Kept
<1>12. CASE BrokerRestart
  BY <1>12 DEF BrokerRestart, OwnerInv, Owner, Disjoint, NoGroup, ConsumersOK, Consumer
<1> QED
  BY <1>6, <1>7, <1>8, <1>9, <1>10, <1>11, <1>12 DEF Next, ConsumerStep

LEMMA OwnerImplies == TypeInv /\ OwnerInv => OwnersDisjoint
<1> SUFFICES ASSUME TypeInv, OwnerInv,
                    NEW m \in Members, NEW n \in Members, m # n,
                    \A k \in {m, n} :
                       consumer[k].conn /\ Valid(Active, k, consumer[k].gen)
             PROVE  consumer[m].parts \cap consumer[n].parts = {}
  BY DEF OwnersDisjoint
<1>1. group.generation \in Nat /\ consumer[m].gen \in Nat
  BY DEF TypeInv, CoordinatorOK, ConsumersOK, Group, Consumer
<1>2. Active = group
  <2>1. Regrouped(Active)
    BY ActiveRegroups DEF TypeInv
  <2>2. consumer[m].gen = Active.generation /\ consumer[m].gen <= group.generation
    BY DEF Valid, OwnerInv
  <2> QED
    BY <1>1, <2>1, <2>2 DEF Regrouped
<1> QED
  BY <1>2 DEF OwnerInv, Owner, Valid, Disjoint

\* Nobody shares a partition: of the consumers whose fetches, heartbeats and
\* commits the coordinator would accept, no two have a partition in common,
\* however often the group was rebalanced and the broker restarted.
THEOREM DisjointOwners == Spec => []OwnersDisjoint
<1>1. Spec => [](TypeInv /\ OwnerInv)
  BY TypeInit, TypeStep, OwnerInit, OwnerStep, PTL DEF Spec
<1> QED
  BY <1>1, OwnerImplies, PTL

-----------------------------------------------------------------------------
(* Delivery at least once and at most once.                                *)
(*                                                                         *)
(* Neither promise is inductive: the committed offset is written from a    *)
(* commit that was sent earlier, by a consumer that may be dead or may     *)
(* have lost its partition meanwhile.  At least once rests on what is      *)
(* settled behind every offset that is held anywhere.  At most once rests  *)
(* on the coordinator: of the consumers and the commits of the current     *)
(* generation, one owns each partition, and it is exactly one step ahead   *)
(* of the committed offset.                                                *)

\* Every record of partition p below offset o is in S.
Below(S, p, o) == \A k \in 0 .. NumRecords - 1 : k < o => <<p, k>> \in S

CurrentRecord(c) == <<Min(c.todo), c.offs[Min(c.todo)]>>

\* What is behind an offset is settled: behind the committed ones, behind the
\* ones consumers go on from, and behind the ones that are on their way.
SettledInv ==
    /\ \A p \in Partitions : Below(settled, p, committed[p])
    /\ \A m \in Members, p \in Partitions : Below(settled, p, consumer[m].offs[p])
    /\ \A m \in Members :
         consumer[m].pc = "wait" => CurrentRecord(consumer[m]) \in settled
    /\ \A r \in inflight : Below(settled, r.part, r.off)

LeastInv == mode = "at-least-once" => SettledInv

-----------------------------------------------------------------------------
(* At least once.                                                          *)

LEMMA ModeKept == [Next]_vars => mode' = mode
<1> SUFFICES ASSUME [Next]_vars PROVE mode' = mode
  OBVIOUS
<1>1. CASE \E m \in Members : ConsumerStep(m)
  BY <1>1 DEF ConsumerStep, Join, LoadOffset, WakeUp, Fetch, FetchRefused, Handle,
     ConnectionLost
<1>2. CASE \E m \in Members :
              \/ StartConsumer(m) \/ HandleFails(m) \/ Heartbeat(m) \/ Shutdown(m)
              \/ Crash(m) \/ Lapse(m)
  BY <1>2 DEF StartConsumer, HandleFails, Heartbeat, Shutdown, Crash, Lapse
<1>3. CASE \/ \E r \in inflight : Commit(r)
           \/ Sweep \/ SetTopicPartitions \/ BrokerRestart \/ UNCHANGED vars
  BY <1>3 DEF Commit, Sweep, SetTopicPartitions, BrokerRestart, vars
<1> QED
  BY <1>1, <1>2, <1>3 DEF Next

LEMMA BelowGrows ==
    ASSUME NEW S, NEW T, S \subseteq T, NEW p, NEW o, Below(S, p, o)
    PROVE  Below(T, p, o)
BY DEF Below

LEMMA BelowNext ==
    ASSUME NEW S, NEW p, NEW o \in Nat, Below(S, p, o), <<p, o>> \in S
    PROVE  Below(S, p, o + 1)
<1> SUFFICES ASSUME NEW k \in 0 .. NumRecords - 1, k < o + 1 PROVE <<p, k>> \in S
  BY DEF Below
<1>1. k < o \/ k = o
  BY Constants
<1> QED
  BY <1>1 DEF Below

\* Consumer m goes on as d.
LEMMA SettledMove ==
    ASSUME TypeInv, SettledInv, settled \subseteq settled',
           \A p \in Partitions : Below(settled', p, committed'[p]),
           NEW m \in Members, NEW d, Sound(d), Become(m, d),
           \A p \in Partitions : Below(settled', p, d.offs[p]),
           d.pc = "wait" => CurrentRecord(d) \in settled',
           \A r \in inflight' :
              \/ \E s \in inflight : r.part = s.part /\ r.off = s.off
              \/ d.pc = "wait" /\ r = CommitRequest(m, d)
    PROVE  SettledInv'
<1>1. \A n \in Members \ {m} : consumer'[n] = consumer[n]
  BY DEF TypeInv, ConsumersOK, Become
<1>2. consumer'[m] = d
  BY DEF TypeInv, ConsumersOK, Become
<1>3. ASSUME NEW n \in Members, NEW p \in Partitions
      PROVE  Below(settled', p, consumer'[n].offs[p])
  <2>1. Below(settled, p, consumer[n].offs[p])
    BY DEF SettledInv
  <2>2. Below(settled', p, consumer[n].offs[p])
    BY <2>1, BelowGrows
  <2> QED
    BY <1>1, <1>2, <2>2
<1>4. ASSUME NEW n \in Members, consumer'[n].pc = "wait"
      PROVE  CurrentRecord(consumer'[n]) \in settled'
  BY <1>1, <1>2, <1>4 DEF SettledInv
<1>5. ASSUME NEW r \in inflight' PROVE Below(settled', r.part, r.off)
  <2>1. CASE \E s \in inflight : r.part = s.part /\ r.off = s.off
    BY <2>1, BelowGrows DEF SettledInv
  <2>2. CASE d.pc = "wait" /\ r = CommitRequest(m, d)
    <3> DEFINE p == Min(d.todo)
    <3>1. d \in Consumer /\ p \in Partitions
      BY <2>2, MinPartition DEF Sound, Consumer
    <3>2. d.offs[p] \in Nat
      BY <3>1, OffsetType
    <3>3. Below(settled', p, d.offs[p]) /\ <<p, d.offs[p]>> \in settled'
      BY <2>2, <3>1 DEF CurrentRecord
    <3>4. Below(settled', p, d.offs[p] + 1)
      BY <3>2, <3>3, BelowNext
    <3>5. r.part = p /\ r.off = d.offs[p] + 1
      BY <2>2 DEF CommitRequest
    <3> QED
      BY <3>4, <3>5
  <2> QED
    BY <1>5, <2>1, <2>2
<1> QED
  BY <1>3, <1>4, <1>5 DEF SettledInv

\* With at-least-once delivery a consumer that goes on does not wait.
LEMMA SettledOffsets ==
    ASSUME NEW S, NEW c, NEW d, NEW offs, MovesTo(c, d, offs),
           mode = "at-least-once",
           \A p \in Partitions : Below(S, p, offs[p])
    PROVE  d.pc # "wait" /\ \A p \in Partitions : Below(S, p, d.offs[p])
<1>1. CASE d \in {Down, Joining}
  <2>1. d.pc # "wait" /\ \A p \in Partitions : d.offs[p] = 0
    BY <1>1 DEF Down, Joining
  <2> QED
    BY <2>1, Constants DEF Below
<1>2. CASE d \notin {Down, Joining}
  BY <1>2 DEF MovesTo
<1> QED
  BY <1>1, <1>2

\* The offsets after the current record of c.
LEMMA BelowAdvanced ==
    ASSUME NEW S, NEW c, Sound(c), c.todo # {},
           \A p \in Partitions : Below(S, p, c.offs[p]),
           CurrentRecord(c) \in S
    PROVE  \A p \in Partitions : Below(S, p, [c.offs EXCEPT ![Min(c.todo)] = @ + 1][p])
<1> DEFINE q == Min(c.todo)
<1>1. c \in Consumer /\ q \in Partitions
  BY MinPartition DEF Sound, Consumer
<1>2. c.offs[q] \in Nat /\ c.offs \in [Partitions -> 0 .. NumRecords]
  BY <1>1, OffsetType DEF Consumer
<1>3. Below(S, q, c.offs[q] + 1)
  BY <1>1, <1>2, BelowNext DEF CurrentRecord
<1> HIDE DEF q
<1>4. \A p \in Partitions :
        [c.offs EXCEPT ![q] = @ + 1][p] = IF p = q THEN c.offs[q] + 1 ELSE c.offs[p]
  BY <1>1, <1>2
<1> QED
  BY <1>3, <1>4 DEF q

LEMMA LeastInit == Init => LeastInv
<1> SUFFICES ASSUME Init PROVE SettledInv
  BY DEF LeastInv
<1>1. \A p \in Partitions : committed[p] = 0 /\ \A m \in Members : consumer[m].offs[p] = 0
  BY DEF Init, Down
<1>2. inflight = {} /\ \A m \in Members : consumer[m].pc # "wait"
  BY DEF Init, Down
<1>3. \A p \in Partitions : Below(settled, p, 0)
  BY Constants DEF Below
<1> QED
  BY <1>1, <1>2, <1>3 DEF SettledInv

LEMMA LeastStep == TypeInv /\ LeastInv /\ [Next]_vars => LeastInv'
<1> SUFFICES ASSUME TypeInv, [Next]_vars, mode = "at-least-once", SettledInv
             PROVE  SettledInv'
  BY ModeKept DEF LeastInv
<1> USE DEF TypeInv
<1>1. ASSUME NEW m \in Members PROVE consumer[m] \in Consumer /\ Sound(consumer[m])
  BY DEF ConsumersOK
<1>2. \A p \in Partitions : Below(settled, p, committed[p])
  BY DEF SettledInv
<1>3. \A p \in Partitions : Below(settled, p, 0)
  BY Constants DEF Below
<1>4. ASSUME settled' = settled, committed' = committed, inflight' = inflight,
             NEW m \in Members, NEW d, Sound(d), Become(m, d), d.pc # "wait",
             \A p \in Partitions : Below(settled, p, d.offs[p])
      PROVE  SettledInv'
  BY <1>2, <1>4, SettledMove
<1>5. ASSUME settled' = settled, committed' = committed, inflight' = inflight,
             NEW m \in Members, Become(m, Down) \/ Become(m, Joining)
      PROVE  SettledInv'
  <2>1. /\ Down.pc # "wait" /\ Joining.pc # "wait"
        /\ \A p \in Partitions : Down.offs[p] = 0 /\ Joining.offs[p] = 0
    BY DEF Down, Joining
  <2> QED
    BY <1>3, <1>4, <1>5, <2>1, SoundDown
<1>6. ASSUME NEW m \in Members, Join(m) PROVE SettledInv'
  <2>1. /\ settled' = settled /\ committed' = committed /\ inflight' = inflight
        /\ consumer'[m].pc \in {"idle", "load"} /\ \A p \in Partitions : consumer'[m].offs[p] = 0
        /\ \A n \in Members \ {m} : consumer'[n] = consumer[n]
    BY <1>6 DEF Join, Become, ConsumersOK, Down, history
  <2> QED
    BY <1>3, <2>1 DEF SettledInv
<1>7. ASSUME NEW m \in Members, LoadOffset(m) PROVE SettledInv'
  <2> DEFINE c == consumer[m]
             p == Current(m)
  <2>1. p \in Partitions
    BY <1>1, <1>7, MinPartition DEF LoadOffset, Current, Sound, Consumer
  <2>2. PICK d \in Consumer :
          /\ Become(m, IF d.todo = {} THEN Round(d) ELSE d)
          /\ d.pc = "load" /\ d.offs = [c.offs EXCEPT ![p] = committed[p]]
    BY <1>7, LoadOffsetMoves
  <2> HIDE DEF p
  <2>3. \A q \in Partitions : d.offs[q] = IF q = p THEN committed[p] ELSE c.offs[q]
    BY <1>1, <2>1, <2>2 DEF Consumer
  <2>4. \A q \in Partitions : Below(settled, q, d.offs[q])
    BY <1>2, <2>3 DEF SettledInv
  <2> DEFINE e == IF d.todo = {} THEN Round(d) ELSE d
  <2>5. e.pc # "wait" /\ \A q \in Partitions : Below(settled, q, e.offs[q])
    BY <2>2, <2>4, RoundMoves, SettledOffsets
  <2>6. /\ settled' = settled /\ committed' = committed /\ inflight' = inflight
    BY <1>7 DEF LoadOffset, coordinator, history
  <2>7. Sound(e)
    BY <2>2, TypeStep DEF Become, ConsumersOK
  <2>8. Become(m, e)
    BY <2>2
  <2> HIDE DEF e
  <2> QED
    BY <1>4, <2>5, <2>6, <2>7, <2>8
<1>8. ASSUME NEW m \in Members, Fetch(m) PROVE SettledInv'
  <2> DEFINE c == consumer[m]
  <2>1. /\ settled' = settled /\ committed' = committed
        /\ \A q \in Partitions : Below(settled, q, c.offs[q])
    BY <1>8 DEF Fetch, history, SettledInv
  <2>2. PICK d : GoOn(m, d, inflight) /\ MovesTo(c, d, c.offs)
    BY <1>8, FetchMoves
  <2>3. d.pc # "wait" /\ \A q \in Partitions : Below(settled, q, d.offs[q])
    BY <2>1, <2>2, SettledOffsets
  <2>4. Become(m, d) /\ inflight' = inflight
    BY <2>2, <2>3 DEF GoOn
  <2>5. Sound(d)
    BY <2>4, TypeStep DEF Become, ConsumersOK
  <2> QED
    BY <1>4, <2>1, <2>3, <2>4, <2>5
<1>9. ASSUME NEW m \in Members, Handle(m) PROVE SettledInv'
  <2> DEFINE c == consumer[m]
             d == Committing(c)
  <2>1. /\ c.pc = "handle" /\ settled' = settled \cup {CurrentRecord(c)}
        /\ committed' = committed /\ GoOn(m, d, inflight)
    BY <1>9 DEF Handle, Current, CurrentRecord, coordinator
  <2>2. d = Down \/ (d.offs = c.offs /\ CurrentRecord(d) = CurrentRecord(c))
    BY <1>1 DEF Committing, CurrentRecord, Consumer
  <2>3. \A p \in Partitions : Below(settled', p, c.offs[p]) /\ Below(settled', p, committed'[p])
    BY <1>2, <2>1, BelowGrows DEF SettledInv
  <2>4. Down.pc # "wait" /\ \A p \in Partitions : Down.offs[p] = 0 /\ Below(settled', p, 0)
    BY Constants DEF Down, Below
  <2>5. /\ Become(m, d)
        /\ \/ inflight' = inflight
           \/ d.pc = "wait" /\ inflight' = inflight \cup {CommitRequest(m, d)}
    BY <2>1 DEF GoOn
  <2>6. Sound(d)
    BY <2>5, TypeStep DEF Become, ConsumersOK
  <2> HIDE DEF d
  <2>7. /\ \A p \in Partitions : Below(settled', p, d.offs[p])
        /\ d.pc = "wait" => CurrentRecord(d) \in settled'
    BY <2>1, <2>2, <2>3, <2>4
  <2> QED
    BY <2>1, <2>3, <2>5, <2>6, <2>7, SettledMove
<1>10. ASSUME NEW r \in inflight, Commit(r) PROVE SettledInv'
  <2> DEFINE c == consumer[r.member]
  <2>1. r.part \in Partitions /\ r.member \in Members /\ c \in Consumer /\ Sound(c)
    BY <1>1 DEF ConsumersOK, Commits
  <2>2. \A p \in Partitions : Below(settled, p, committed'[p])
    BY <1>2, <1>10, <2>1 DEF Commit, CoordinatorOK, SettledInv
  <2>3. settled' = settled
    BY <1>10 DEF Commit, history
  <2>4. CASE ~r.live
    BY <1>10, <2>2, <2>3, <2>4 DEF Commit, SettledInv
  <2>5. CASE r.live
    <3>1. Awaited(r) /\ c.pc = "wait" /\ c.todo # {} /\ r.part = Min(c.todo)
      BY <2>1, <2>5 DEF ConsumersOK, Awaited, CommitRequest, Sound
    <3>2. CurrentRecord(c) \in settled /\ \A p \in Partitions : Below(settled, p, c.offs[p])
      BY <2>1, <3>1 DEF SettledInv
    <3>3. PICK d : /\ GoOn(r.member, d, inflight \ {r})
                   /\ MovesTo(c, d, [c.offs EXCEPT ![Min(c.todo)] = @ + 1])
      <4>1. MovesTo(c, Joining, [c.offs EXCEPT ![Min(c.todo)] = @ + 1])
        BY DEF MovesTo
      <4>2. MovesTo(c, Advanced(c, r.part), [c.offs EXCEPT ![Min(c.todo)] = @ + 1])
        BY <2>1, <3>1, AdvancedMoves
      <4>3. \/ GoOn(r.member, Joining, inflight \ {r})
            \/ GoOn(r.member, Advanced(c, r.part), inflight \ {r})
        BY <1>10, <2>5 DEF Commit
      <4> QED
        BY <4>1, <4>2, <4>3
    <3>4. d.pc # "wait" /\ \A p \in Partitions : Below(settled, p, d.offs[p])
      BY <2>1, <3>1, <3>2, <3>3, BelowAdvanced, SettledOffsets
    <3>5. Become(r.member, d) /\ inflight' = inflight \ {r}
      BY <3>3, <3>4 DEF GoOn
    <3>6. Sound(d)
      BY <2>1, <3>5, TypeStep DEF Become, ConsumersOK
    <3> QED
      BY <2>1, <2>2, <2>3, <3>4, <3>5, <3>6, SettledMove
  <2> QED
    BY <2>4, <2>5
<1>11. ASSUME NEW m \in Members, Heartbeat(m) PROVE SettledInv'
  <2>1. PICK b \in BOOLEAN : Become(m, [consumer[m] EXCEPT !.beats = b])
    BY <1>11 DEF Heartbeat, Valid
  <2>2. /\ consumer'[m].offs = consumer[m].offs /\ consumer'[m].pc = consumer[m].pc
        /\ consumer'[m].todo = consumer[m].todo
        /\ \A n \in Members \ {m} : consumer'[n] = consumer[n]
    BY <1>1, <2>1 DEF Become, ConsumersOK, Consumer
  <2>3. settled' = settled /\ committed' = committed /\ inflight' = inflight
    BY <1>11 DEF Heartbeat, history
  <2>4. \A n \in Members : /\ consumer'[n].offs = consumer[n].offs
                           /\ consumer'[n].pc = consumer[n].pc
                           /\ CurrentRecord(consumer'[n]) = CurrentRecord(consumer[n])
    BY <2>2 DEF CurrentRecord
  <2> QED
    BY <2>3, <2>4 DEF SettledInv
<1>12. ASSUME NEW m \in Members, Crash(m) PROVE SettledInv'
  <2>1. ASSUME NEW s \in inflight' PROVE \E r \in inflight : s.part = r.part /\ s.off = r.off
    <3>1. PICK r \in inflight : s = [r EXCEPT !.live = @ /\ r.member # m]
      BY <1>12 DEF Crash
    <3>2. r \in Commits
      BY DEF ConsumersOK
    <3> QED
      BY <3>1, <3>2 DEF Commits
  <2>2. settled' = settled /\ committed' = committed /\ Become(m, Down)
    BY <1>12 DEF Crash, coordinator, history
  <2>3. Down.pc # "wait" /\ \A p \in Partitions : Down.offs[p] = 0
    BY DEF Down
  <2> QED
    BY <1>2, <1>3, <2>1, <2>2, <2>3, SettledMove, SoundDown
<1>13. CASE BrokerRestart
  <2>1. settled' = settled /\ committed' = committed /\ inflight' = {}
    BY <1>13 DEF BrokerRestart, history
  <2>2. \A n \in Members : /\ consumer'[n].offs = consumer[n].offs
                           /\ consumer'[n].pc = consumer[n].pc
                           /\ consumer'[n].todo = consumer[n].todo
    BY <1>1, <1>13 DEF BrokerRestart, Consumer
  <2>3. \A n \in Members : CurrentRecord(consumer'[n]) = CurrentRecord(consumer[n])
    BY <2>2 DEF CurrentRecord
  <2> QED
    BY <2>1, <2>2, <2>3 DEF SettledInv
<1>14. CASE \E m \in Members :
               \/ StartConsumer(m) \/ WakeUp(m) \/ FetchRefused(m) \/ HandleFails(m)
               \/ ConnectionLost(m) \/ Shutdown(m)
  BY <1>5, <1>14 DEF StartConsumer, WakeUp, FetchRefused, HandleFails,
     ConnectionLost, Shutdown, coordinator, history
<1>15. CASE \/ \E m \in Members : Lapse(m)
            \/ Sweep \/ SetTopicPartitions \/ UNCHANGED vars
  BY <1>15 DEF Lapse, Sweep, SetTopicPartitions, vars, coordinator, history, SettledInv
<1> QED
  BY <1>6, <1>7, <1>8, <1>9, <1>10, <1>11, <1>12, <1>13, <1>14, <1>15
     DEF Next, ConsumerStep

\* At-least-once delivery: a record below the committed offset was handled or
\* stored in a retry topic, whatever crashed in between, and although a commit
\* of a consumer that died may be handled after its successor has begun.
THEOREM DeliveredAtLeastOnce == Spec => []AtLeastOnce
<1>1. Spec => [](TypeInv /\ LeastInv)
  BY TypeInit, TypeStep, LeastInit, LeastStep, PTL DEF Spec
<1>2. LeastInv => AtLeastOnce
  BY DEF LeastInv, SettledInv, AtLeastOnce, Below, Records
<1> QED
  BY <1>1, <1>2, PTL

-----------------------------------------------------------------------------
(* At most once.                                                           *)

\* The coordinator accepts r unless a session lapses first.
Acceptable(r) == Valid(group, r.member, r.gen)

\* Commits on their way: one of each member counts, it is for a partition of
\* that member, and it is the one its sender waits for if that one lives.
CommitInv ==
    /\ \A r \in inflight : r.gen <= group.generation
    /\ \A r \in inflight : Acceptable(r) => r.part \in group.assigned[r.member]
    /\ \A r, s \in inflight :
         Acceptable(r) /\ Acceptable(s) /\ r.member = s.member => r = s
    /\ \A r \in inflight : Acceptable(r) /\ Running(r.member) => r.live

\* A record whose handler ran is behind the committed offset.
RunsInv ==
    \A r \in Records : /\ runs[r] <= 1
                       /\ runs[r] > 0 => r[2] < committed[r[1]]

\* So is one whose handler is about to run, for the first time and nowhere else.
HandlingInv ==
    /\ \A m \in Members :
         consumer[m].pc = "handle" =>
            /\ runs[CurrentRecord(consumer[m])] = 0
            /\ CurrentRecord(consumer[m])[2] < committed[CurrentRecord(consumer[m])[1]]
    /\ \A m, n \in Members :
         m # n /\ consumer[m].pc = "handle" /\ consumer[n].pc = "handle"
            => CurrentRecord(consumer[m]) # CurrentRecord(consumer[n])

\* The partitions whose offset c read from the broker.
Loaded(c) == IF c.pc = "load" THEN c.parts \ c.todo ELSE c.parts

\* The offset that is committed for partition p when c owns it.
Reached(c, p) ==
    IF c.pc = "handle" /\ p = Min(c.todo) THEN c.offs[p] + 1 ELSE c.offs[p]

OffsetInv ==
    \A m \in Members :
        Owner(m) => \A p \in Loaded(consumer[m]) :
                        committed[p] = Reached(consumer[m], p)

NextInv == \A r \in inflight : Acceptable(r) => r.off = committed[r.part] + 1

FirstInv == RunsInv /\ HandlingInv /\ OffsetInv /\ NextInv

MostInv == mode = "at-most-once" => FirstInv

\* A rebalance makes every commit that is on its way stale.
LEMMA StillAcceptable ==
    ASSUME TypeInv, CommitInv, TypeInv', Regrouped(group'), NEW r \in inflight,
           Valid(group', r.member, r.gen)
    PROVE  group' = group /\ Acceptable(r)
<1>1. r.gen \in Nat /\ group.generation \in Nat /\ group'.generation \in Nat
  BY DEF TypeInv, ConsumersOK, CoordinatorOK, Commits, Group
<1> QED
  BY <1>1 DEF Regrouped, Valid, CommitInv, Acceptable

LEMMA CommitKeep ==
    ASSUME TypeInv, CommitInv, TypeInv', Regrouped(group'), inflight' \subseteq inflight,
           \A n \in Members : Running(n)' => Running(n)
    PROVE  CommitInv'
<1>1. \A r \in inflight : Acceptable(r)' => group' = group /\ Acceptable(r)
  BY StillAcceptable DEF Acceptable
<1>2. ASSUME NEW r \in inflight' PROVE r.gen <= group'.generation
  <2>1. r.gen \in Nat /\ group.generation \in Nat /\ group'.generation \in Nat
    BY <1>2 DEF TypeInv, ConsumersOK, CoordinatorOK, Commits, Group
  <2> QED
    BY <1>2, <2>1 DEF Regrouped, CommitInv
<1>3. \A r \in inflight' : r.member \in Members
  BY DEF TypeInv, ConsumersOK, Commits
<1> QED
  BY <1>1, <1>2, <1>3 DEF CommitInv

\* Consumer m goes on as d, and may have sent a commit.
LEMMA CommitGoOn ==
    ASSUME TypeInv, OwnerInv, CommitInv, TypeInv', Regrouped(group'),
           NEW m \in Members, Running(m), NEW d, Sound(d), Kept(consumer[m], d),
           NEW others, others \subseteq inflight,
           \A r \in others : r.live => r.member # m,
           d.pc = "wait" => d.conn,
           GoOn(m, d, others)
    PROVE  CommitInv'
<1>1. /\ \A n \in Members \ {m} : consumer'[n] = consumer[n]
      /\ consumer'[m] = d
  BY DEF TypeInv, ConsumersOK, GoOn, Become
<1>2. \A n \in Members : Running(n)' => Running(n)
  BY <1>1 DEF Running
<1>3. CASE d.pc # "wait"
  BY <1>2, <1>3, CommitKeep DEF GoOn
<1>4. CASE d.pc = "wait"
  <2> DEFINE q == CommitRequest(m, d)
  <2>1. inflight' = others \cup {q}
    BY <1>4 DEF GoOn
  <2>2. q.member = m /\ q.gen = consumer[m].gen /\ q.part = Min(d.todo) /\ q.live
    BY <1>4 DEF CommitRequest, Kept
  <2>3. /\ consumer[m].conn /\ consumer[m].gen \in Nat
        /\ d.parts = consumer[m].parts
        /\ group.generation \in Nat /\ group'.generation \in Nat
    BY <1>4 DEF Kept, TypeInv, ConsumersOK, CoordinatorOK, Consumer, Group
  <2>4. consumer[m].gen <= group.generation
    BY <2>3 DEF OwnerInv
  <2> HIDE DEF q
  <2>5. \A r \in others : Acceptable(r)' => group' = group /\ Acceptable(r)
    BY StillAcceptable DEF Acceptable
  <2>6. ASSUME NEW r \in others
        PROVE  /\ r.gen <= group'.generation
               /\ Acceptable(r)' => /\ r.part \in group'.assigned[r.member]
                                    /\ r.member # m
                                    /\ Running(r.member)' => r.live
    <3>1. r.gen \in Nat /\ r.member \in Members
      BY <2>6 DEF TypeInv, ConsumersOK, Commits
    <3>2. r.gen <= group'.generation
      BY <2>3, <3>1 DEF Regrouped, CommitInv
    <3>3. ASSUME Acceptable(r)'
          PROVE  /\ r.part \in group'.assigned[r.member]
                 /\ r.member # m
                 /\ Running(r.member)' => r.live
      <4>1. group' = group /\ Acceptable(r)
        BY <2>5, <3>3
      <4> QED
        BY <1>2, <3>1, <4>1 DEF CommitInv
    <3> QED
      BY <3>2, <3>3
  <2>7. q.gen <= group'.generation
    BY <2>2, <2>3, <2>4 DEF Regrouped
  <2>8. ASSUME Acceptable(q)' PROVE q.part \in group'.assigned[q.member]
    <3>1. q.gen = group'.generation /\ m \in group'.members
      BY <2>2, <2>8 DEF Acceptable, Valid
    <3>2. group' = group
      BY <2>2, <2>3, <2>4, <3>1 DEF Regrouped
    <3>3. d.parts = group.assigned[m]
      BY <2>2, <2>3, <3>1, <3>2 DEF OwnerInv, Owner
    <3>4. Min(d.todo) \in d.parts
      BY <1>4, MinPartition DEF Sound, Consumer
    <3> QED
      BY <2>2, <3>2, <3>3, <3>4
  <2>9. \A r, s \in others :
           Acceptable(r)' /\ Acceptable(s)' /\ r.member = s.member => r = s
    BY <2>5 DEF CommitInv
  <2> QED
    BY <2>1, <2>2, <2>6, <2>7, <2>8, <2>9 DEF CommitInv
<1> QED
  BY <1>3, <1>4

LEMMA CommitInit == Init => CommitInv
BY DEF Init, CommitInv

LEMMA CommitStep ==
    ASSUME "late commit" \notin Pitfalls
    PROVE  TypeInv /\ OwnerInv /\ CommitInv /\ [Next]_vars => CommitInv'
<1> SUFFICES ASSUME TypeInv, OwnerInv, CommitInv, [Next]_vars PROVE CommitInv'
  OBVIOUS
<1>1. TypeInv'
  BY TypeStep
<1>2. ConsumersOK /\ CoordinatorOK /\ HistoryOK /\ ConsumersOK'
  BY <1>1 DEF TypeInv
<1>3. group' = group \/ Apply(Active) => Regrouped(group')
  BY <1>2, ActiveRegroups DEF Apply, Regrouped
<1>4. ASSUME NEW m \in Members, NEW d, Become(m, d), Running(m)
      PROVE  \A n \in Members : Running(n)' => Running(n)
  BY <1>2, <1>4 DEF ConsumersOK, Become, Running
<1>5. ASSUME NEW m \in Members, StartConsumer(m) PROVE CommitInv'
  <2>1. /\ inflight' = inflight /\ group' = group
        /\ \A n \in Members \ {m} : consumer'[n] = consumer[n]
        /\ \A r \in inflight : r.member = m => ~Acceptable(r)
    BY <1>2, <1>5 DEF StartConsumer, Become, ConsumersOK, Acceptable, coordinator
  <2>2. \A r \in inflight : Acceptable(r) /\ Running(r.member)' => Running(r.member)
    BY <1>2, <2>1 DEF Running, ConsumersOK, Commits
  <2> QED
    BY <2>1, <2>2 DEF CommitInv, Acceptable
<1>6. ASSUME NEW m \in Members, Join(m) PROVE CommitInv'
  <2>1. Regrouped(group') /\ inflight' = inflight
    BY <1>2, <1>6, JoinedRegroups DEF Join, Apply
  <2>2. \A n \in Members : Running(n)' => Running(n)
    BY <1>4, <1>6 DEF Join, Running
  <2> QED
    BY <1>1, <2>1, <2>2, CommitKeep
<1>7. ASSUME NEW m \in Members,
             \/ LoadOffset(m) \/ WakeUp(m) \/ FetchRefused(m) \/ ConnectionLost(m)
             \/ HandleFails(m)
      PROVE  CommitInv'
  <2>1. inflight' = inflight /\ Regrouped(group')
    BY <1>3, <1>7 DEF LoadOffset, WakeUp, FetchRefused, ConnectionLost, HandleFails,
       coordinator
  <2>2. Running(m) /\ \E d : Become(m, d)
    BY <1>7 DEF LoadOffset, WakeUp, FetchRefused, ConnectionLost, HandleFails, Running
  <2> QED
    BY <1>1, <1>4, <2>1, <2>2, CommitKeep
<1>8. ASSUME NEW m \in Members, Heartbeat(m) PROVE CommitInv'
  <2>1. inflight' = inflight /\ Regrouped(group')
    BY <1>3, <1>8 DEF Heartbeat, coordinator
  <2>2. PICK b : Become(m, [consumer[m] EXCEPT !.beats = b])
    BY <1>8 DEF Heartbeat
  <2>3. \A n \in Members : Running(n)' => Running(n)
    BY <1>2, <2>2 DEF Become, ConsumersOK, Consumer, Running
  <2> QED
    BY <1>1, <2>1, <2>3, CommitKeep
<1>9. ASSUME NEW m \in Members, Shutdown(m) PROVE CommitInv'
  BY <1>1, <1>2, <1>4, <1>9, CommitKeep, ShutdownRegroups DEF Shutdown, Running
<1>10. ASSUME NEW m \in Members, Fetch(m) \/ Handle(m) PROVE CommitInv'
  <2>1. PICK d : GoOn(m, d, inflight)
    BY <1>10 DEF Fetch, Handle
  <2>2. consumer[m].pc \in {"fetch", "handle"} /\ consumer'[m] = d
    BY <1>2, <1>10, <2>1 DEF Fetch, Handle, GoOn, Become, ConsumersOK
  <2>3. Kept(consumer[m], d) /\ Sound(d)
    BY <1>2, <1>10, <2>2, StepKept DEF ConsumersOK
  <2>4. d.pc = "wait" => d.conn
    <3>1. ASSUME d.pc = "wait" PROVE d.conn
      <4> DEFINE q == CommitRequest(m, d)
      <4>1. q \in inflight' /\ q.live /\ q.member = m
        BY <2>1, <3>1 DEF GoOn, CommitRequest
      <4> QED
        BY <1>2, <2>2, <4>1 DEF ConsumersOK, Awaited
    <3> QED
      BY <3>1
  <2>5. Regrouped(group')
    BY <1>3, <1>10 DEF Fetch, Handle, coordinator
  <2>6. Running(m) /\ \A r \in inflight : r.live => r.member # m
    BY <1>2, <2>2, NotAwaited DEF Running
  <2> QED
    BY <1>1, <2>1, <2>3, <2>4, <2>5, <2>6, CommitGoOn
<1>11. ASSUME NEW m \in Members, Crash(m) PROVE CommitInv'
  <2>1. /\ group' = group /\ ~Running(m)'
        /\ \A n \in Members \ {m} : consumer'[n] = consumer[n]
    BY <1>2, <1>11 DEF Crash, Become, ConsumersOK, Running, Down, coordinator
  <2>2. ASSUME NEW s \in inflight'
        PROVE  \E r \in inflight :
                 /\ s = [r EXCEPT !.live = @ /\ r.member # m]
                 /\ s.member = r.member /\ s.gen = r.gen /\ s.part = r.part
                 /\ s.live <=> r.live /\ r.member # m
    <3>1. PICK r \in inflight : s = [r EXCEPT !.live = @ /\ r.member # m]
      BY <1>11 DEF Crash
    <3>2. r \in Commits
      BY <1>2 DEF ConsumersOK
    <3> QED
      BY <3>1, <3>2 DEF Commits
  <2>3. ASSUME NEW s \in inflight'
        PROVE  /\ s.gen <= group'.generation
               /\ Acceptable(s)' => s.part \in group'.assigned[s.member]
               /\ Acceptable(s)' /\ Running(s.member)' => s.live
    <3>1. PICK r \in inflight :
             /\ s.member = r.member /\ s.gen = r.gen /\ s.part = r.part
             /\ s.live <=> r.live /\ r.member # m
      BY <2>2
    <3>2. Acceptable(s)' => Acceptable(r)
      BY <2>1, <3>1 DEF Acceptable
    <3>3. r.member \in Members
      BY <1>2 DEF ConsumersOK, Commits
    <3>4. Running(s.member)' => r.member # m /\ Running(r.member)
      BY <2>1, <3>1, <3>3 DEF Running
    <3> QED
      BY <2>1, <3>1, <3>2, <3>4 DEF CommitInv
  <2>4. ASSUME NEW s \in inflight', NEW t \in inflight', s.member = t.member,
               Acceptable(s)', Acceptable(t)'
        PROVE  s = t
    <3>1. PICK r \in inflight :
             /\ s = [r EXCEPT !.live = @ /\ r.member # m]
             /\ s.member = r.member /\ s.gen = r.gen
      BY <2>2
    <3>2. PICK u \in inflight :
             /\ t = [u EXCEPT !.live = @ /\ u.member # m]
             /\ t.member = u.member /\ t.gen = u.gen
      BY <2>2
    <3>3. Acceptable(r) /\ Acceptable(u)
      BY <2>1, <2>4, <3>1, <3>2 DEF Acceptable
    <3>4. r = u
      BY <2>4, <3>1, <3>2, <3>3 DEF CommitInv
    <3> QED
      BY <3>1, <3>2, <3>4
  <2> QED
    BY <2>3, <2>4 DEF CommitInv
<1>12. ASSUME NEW r \in inflight, Commit(r) PROVE CommitInv'
  <2>1. Regrouped(group') /\ r.member \in Members
    BY <1>2, <1>3, <1>12 DEF Commit, ConsumersOK, Commits
  <2>2. CASE ~r.live
    BY <1>1, <1>12, <2>1, <2>2, CommitKeep DEF Commit, Running
  <2>3. CASE r.live
    <3>1. PICK d : GoOn(r.member, d, inflight \ {r})
      BY <1>12, <2>3 DEF Commit
    <3>2. Awaited(r) /\ Running(r.member)
      BY <1>2, <2>3 DEF ConsumersOK, Awaited, Running
    <3>3. \A s \in inflight \ {r} : s.live => s.member # r.member
      BY <1>2, <3>2 DEF ConsumersOK, Awaited
    <3>4. consumer'[r.member] = d
      BY <1>2, <2>1, <3>1 DEF GoOn, Become, ConsumersOK
    <3>5. Sound(d) /\ Kept(consumer[r.member], d)
      BY <1>2, <1>12, <2>1, <3>4, CommitKept DEF ConsumersOK
    <3>6. d.pc = "wait" => d.conn
      <4>1. ASSUME d.pc = "wait" PROVE d.conn
        <5> DEFINE q == CommitRequest(r.member, d)
        <5>1. q \in inflight' /\ q.live /\ q.member = r.member
          BY <3>1, <4>1 DEF GoOn, CommitRequest
        <5> QED
          BY <1>2, <3>4, <5>1 DEF ConsumersOK, Awaited
      <4> QED
        BY <4>1
    <3> QED
      BY <1>1, <2>1, <3>1, <3>2, <3>3, <3>5, <3>6, CommitGoOn
  <2> QED
    BY <2>2, <2>3
<1>13. CASE BrokerRestart
  BY <1>13 DEF BrokerRestart, CommitInv
<1>14. CASE \/ \E m \in Members : Lapse(m)
            \/ Sweep \/ SetTopicPartitions \/ UNCHANGED vars
  <2>1. Regrouped(group') /\ inflight' = inflight /\ consumer' = consumer
    BY <1>3, <1>14 DEF Lapse, Sweep, SetTopicPartitions, vars, coordinator
  <2> QED
    BY <1>1, <2>1, CommitKeep DEF Running
<1> QED
  BY <1>5, <1>6, <1>7, <1>8, <1>9, <1>10, <1>11, <1>12, <1>13, <1>14
     DEF Next, ConsumerStep

\* No handler is started: what ran and what runs is as before.
LEMMA HandlingKeep ==
    ASSUME RunsInv, HandlingInv, runs' = runs, committed' = committed,
           \A n \in Members :
              consumer'[n].pc = "handle" =>
                /\ consumer[n].pc = "handle"
                /\ CurrentRecord(consumer'[n]) = CurrentRecord(consumer[n])
    PROVE  RunsInv' /\ HandlingInv'
<1>1. RunsInv'
  BY DEF RunsInv
<1>2. ASSUME NEW m \in Members, consumer'[m].pc = "handle"
      PROVE  /\ runs'[CurrentRecord(consumer'[m])] = 0
             /\ CurrentRecord(consumer'[m])[2] < committed'[CurrentRecord(consumer'[m])[1]]
  BY <1>2 DEF HandlingInv
<1>3. ASSUME NEW m \in Members, NEW n \in Members, m # n,
             consumer'[m].pc = "handle", consumer'[n].pc = "handle"
      PROVE  CurrentRecord(consumer'[m]) # CurrentRecord(consumer'[n])
  BY <1>3 DEF HandlingInv
<1> QED
  BY <1>1, <1>2, <1>3 DEF HandlingInv

\* A rebalance leaves no owner but those that join.
LEMMA OwnersStay ==
    ASSUME TypeInv, OwnerInv, TypeInv', Regrouped(group'), NEW n \in Members,
           consumer[n].conn, consumer[n].gen = group'.generation
    PROVE  group' = group
<1>1. /\ consumer[n].gen \in Nat /\ group.generation \in Nat
      /\ group'.generation \in Nat
  BY DEF TypeInv, ConsumersOK, CoordinatorOK, Consumer, Group
<1>2. consumer[n].gen <= group.generation
  BY DEF OwnerInv
<1>3. ~(group'.generation > group.generation)
  BY <1>1, <1>2
<1> QED
  BY <1>3 DEF Regrouped

\* Consumer m goes on as d, and may have sent a commit; no commit is handled.
LEMMA OffsetMove ==
    ASSUME TypeInv, OwnerInv, CommitInv, OffsetInv, NextInv, TypeInv',
           Regrouped(group'), committed' = committed,
           NEW m \in Members, NEW d, Sound(d), Become(m, d), Kept(consumer[m], d),
           Owner(m) /\ d.conn => \A p \in Loaded(d) : committed[p] = Reached(d, p),
           \A r \in inflight' :
              \/ \E s \in inflight : /\ r.member = s.member /\ r.gen = s.gen
                                     /\ r.part = s.part /\ r.off = s.off
              \/ d.pc = "wait" /\ d.conn /\ r = CommitRequest(m, d)
    PROVE  OffsetInv' /\ NextInv'
<1>1. /\ \A n \in Members \ {m} : consumer'[n] = consumer[n]
      /\ consumer'[m] = d
  BY DEF TypeInv, ConsumersOK, Become
<1>2. ASSUME NEW n \in Members, consumer'[n].conn, consumer'[n].gen = group'.generation
      PROVE  /\ group' = group /\ consumer[n].conn
             /\ consumer[n].gen = group.generation
  <2>1. consumer[n].conn /\ consumer'[n].gen = consumer[n].gen
    BY <1>1, <1>2 DEF Kept
  <2>2. group' = group
    BY <1>2, <2>1, OwnersStay
  <2> QED
    BY <1>2, <2>1, <2>2
<1>3. \A n \in Members : Owner(n)' => group' = group /\ Owner(n)
  BY <1>2 DEF Owner
<1>4. ASSUME NEW n \in Members, Owner(n)', NEW p \in Loaded(consumer'[n])
      PROVE  committed'[p] = Reached(consumer'[n], p)
  <2>1. group' = group /\ Owner(n) /\ consumer'[n].conn
    BY <1>3, <1>4 DEF Owner
  <2> QED
    BY <1>1, <1>4, <2>1 DEF OffsetInv
<1>5. ASSUME NEW r \in inflight', Acceptable(r)' PROVE r.off = committed'[r.part] + 1
  <2>1. CASE \E s \in inflight : /\ r.member = s.member /\ r.gen = s.gen
                                 /\ r.part = s.part /\ r.off = s.off
    <3>1. PICK s \in inflight : /\ r.member = s.member /\ r.gen = s.gen
                                /\ r.part = s.part /\ r.off = s.off
      BY <2>1
    <3>2. Valid(group', s.member, s.gen)
      BY <1>5, <3>1 DEF Acceptable
    <3>3. Acceptable(s)
      BY <3>2, StillAcceptable
    <3> QED
      BY <3>1, <3>3 DEF NextInv
  <2>2. CASE d.pc = "wait" /\ d.conn /\ r = CommitRequest(m, d)
    <3>1. /\ r.member = m /\ r.gen = d.gen /\ r.part = Min(d.todo)
          /\ r.off = d.offs[Min(d.todo)] + 1
      BY <2>2 DEF CommitRequest
    <3>2. Owner(m)'
      BY <1>1, <1>5, <2>2, <3>1 DEF Owner, Acceptable, Valid
    <3>3. Min(d.todo) \in Loaded(d)
      BY <2>2, MinPartition DEF Loaded, Sound, Consumer
    <3>4. committed'[Min(d.todo)] = d.offs[Min(d.todo)]
      BY <1>1, <1>4, <2>2, <3>2, <3>3 DEF Reached
    <3> QED
      BY <3>1, <3>4
  <2> QED
    BY <1>5, <2>1, <2>2
<1> QED
  BY <1>4, <1>5 DEF OffsetInv, NextInv

LEMMA MovedHandling ==
    ASSUME NEW c, NEW d, NEW offs, MovesTo(c, d, offs), mode = "at-most-once"
    PROVE  d.pc # "handle"
<1>1. CASE d \in {Down, Joining}
  BY <1>1 DEF Down, Joining
<1>2. CASE d \notin {Down, Joining}
  BY <1>2 DEF MovesTo
<1> QED
  BY <1>1, <1>2

\* The offsets of a consumer that goes on with the committed ones.
LEMMA MovedOffsets ==
    ASSUME NEW c, NEW d, NEW offs, MovesTo(c, d, offs), mode = "at-most-once",
           d.conn => \A p \in c.parts : committed[p] = offs[p]
    PROVE  d.conn => \A p \in Loaded(d) : committed[p] = Reached(d, p)
<1>1. CASE d \in {Down, Joining}
  <2>1. ~d.conn
    BY <1>1 DEF Down, Joining
  <2> QED
    BY <2>1
<1>2. CASE d \notin {Down, Joining}
  BY <1>2 DEF MovesTo, Loaded, Reached
<1> QED
  BY <1>1, <1>2

\* The handler of the current record of m runs.
LEMMA RunsStep ==
    ASSUME TypeInv, RunsInv, HandlingInv, NEW m \in Members,
           consumer[m].pc = "handle", committed' = committed,
           runs' = [runs EXCEPT ![CurrentRecord(consumer[m])] = Min({@ + 1, 2})],
           \A n \in Members \ {m} : consumer'[n] = consumer[n],
           consumer'[m].pc # "handle"
    PROVE  RunsInv' /\ HandlingInv'
<1> DEFINE c == consumer[m]
           r == CurrentRecord(c)
<1>1. c \in Consumer /\ Sound(c)
  BY DEF TypeInv, ConsumersOK
<1>2. Min(c.todo) \in Partitions /\ c.offs[Min(c.todo)] < c.upto
  BY <1>1, MinPartition DEF Sound, Consumer
<1>3. c.offs[Min(c.todo)] \in 0 .. NumRecords /\ c.upto \in 0 .. NumRecords
  BY <1>1, <1>2, OffsetType DEF Consumer
<1>4. c.offs[Min(c.todo)] \in 0 .. NumRecords - 1
  BY <1>2, <1>3, Constants
<1>5. r \in Records
  BY <1>2, <1>4 DEF Records, CurrentRecord
<1>6. runs[r] = 0 /\ r[2] < committed[r[1]]
  BY DEF HandlingInv
<1> HIDE DEF r
<1>7. Min({0 + 1, 2}) = 1
  <2>1. {0 + 1, 2} \subseteq Nat /\ {0 + 1, 2} # {}
    OBVIOUS
  <2>2. Min({0 + 1, 2}) \in {0 + 1, 2} /\ Min({0 + 1, 2}) <= 0 + 1
    BY <2>1, MinNat
  <2> QED
    BY <2>2
<1>8. runs' = [runs EXCEPT ![r] = 1]
  BY <1>5, <1>6, <1>7 DEF TypeInv, HistoryOK, r
<1>9. RunsInv'
  BY <1>5, <1>6, <1>8 DEF RunsInv, TypeInv, HistoryOK
<1>10. ASSUME NEW n \in Members, consumer'[n].pc = "handle"
       PROVE  /\ n # m /\ consumer'[n] = consumer[n] /\ consumer[n].pc = "handle"
              /\ CurrentRecord(consumer[n]) # r
  BY <1>10 DEF HandlingInv, r
<1>11. ASSUME NEW n \in Members, consumer'[n].pc = "handle"
       PROVE  runs'[CurrentRecord(consumer'[n])] = 0
  <2>1. runs[CurrentRecord(consumer[n])] = 0
    BY <1>10, <1>11 DEF HandlingInv
  <2>2. \A s : s # r => runs'[s] = runs[s]
    BY <1>8 DEF TypeInv, HistoryOK
  <2> QED
    BY <1>10, <1>11, <2>1, <2>2
<1>12. HandlingInv'
  BY <1>10, <1>11 DEF HandlingInv
<1> QED
  BY <1>9, <1>12

\* The coordinator accepts commit r: the record it commits is nobody else's.
LEMMA AcceptStep ==
    ASSUME TypeInv, OwnerInv, CommitInv, FirstInv, TypeInv', mode = "at-most-once",
           NEW r \in inflight, Commit(r),
           Valid(Active, r.member, r.gen), r.part \in Active.assigned[r.member]
    PROVE  FirstInv'
<1> DEFINE m == r.member
           p == r.part
           c == consumer[m]
<1>1. /\ m \in Members /\ p \in Partitions /\ r.gen \in Nat /\ c \in Consumer /\ Sound(c)
      /\ r \in Commits
  BY DEF TypeInv, ConsumersOK, Commits
<1>2. Active = group
  <2>1. Regrouped(Active) /\ Active.generation \in Nat /\ group.generation \in Nat
    BY ActiveRegroups, ActiveType DEF TypeInv, CoordinatorOK, Group
  <2> QED
    BY <1>1, <2>1 DEF Regrouped, Valid, CommitInv
<1>3. /\ group' = group /\ Acceptable(r) /\ r.off = committed[p] + 1
      /\ r.part \in group.assigned[m]
  BY <1>2 DEF Commit, Apply, Acceptable, FirstInv, NextInv
<1>4. committed' = [committed EXCEPT ![p] = r.off]
  BY DEF Commit
<1>5. /\ \A q \in Partitions : committed[q] \in Nat
      /\ committed'[p] = committed[p] + 1
      /\ \A q \in Partitions : q # p => committed'[q] = committed[q]
      /\ \A q \in Partitions : committed'[q] \in Nat /\ committed[q] <= committed'[q]
  <2>1. \A q \in Partitions : committed[q] \in Nat
    BY Constants DEF TypeInv, CoordinatorOK
  <2>2. /\ committed'[p] = committed[p] + 1
        /\ \A q \in Partitions : q # p => committed'[q] = committed[q]
    BY <1>1, <1>3, <1>4 DEF TypeInv, CoordinatorOK
  <2> QED
    BY <1>1, <2>1, <2>2
<1>6. runs' = runs /\ inflight' \subseteq inflight \ {r} /\ \A n \in Members \ {m} : consumer'[n] = consumer[n]
  <2>1. CASE ~r.live
    BY <2>1 DEF Commit, history
  <2>2. CASE r.live
    <3>1. GoOn(m, [c EXCEPT !.pc = "handle"], inflight \ {r})
      BY <2>2 DEF Commit
    <3>2. [c EXCEPT !.pc = "handle"].pc = "handle"
      BY <1>1 DEF Consumer
    <3> QED
      BY <1>1, <3>1, <3>2 DEF GoOn, Become, TypeInv, ConsumersOK, Commit, history
  <2> QED
    BY <2>1, <2>2
<1>7. RunsInv'
  <2>1. \A s \in Records : s[1] \in Partitions /\ s[2] \in Nat
    BY Constants DEF Records
  <2> QED
    BY <1>5, <1>6, <2>1 DEF FirstInv, RunsInv
<1>8. ASSUME NEW n \in Members \ {m}, consumer[n].pc = "handle"
      PROVE  /\ runs'[CurrentRecord(consumer[n])] = 0
             /\ CurrentRecord(consumer[n])[2] < committed'[CurrentRecord(consumer[n])[1]]
             /\ CurrentRecord(consumer[n]) # <<p, committed[p]>>
  <2> DEFINE q == Min(consumer[n].todo)
             o == consumer[n].offs[q]
  <2>1. consumer[n] \in Consumer /\ Sound(consumer[n])
    BY DEF TypeInv, ConsumersOK
  <2>2. q \in Partitions
    BY <1>8, <2>1, MinPartition DEF Sound, Consumer
  <2>3. o \in Nat
    BY <2>1, <2>2, OffsetType
  <2>4. CurrentRecord(consumer[n]) = <<q, o>>
    BY DEF CurrentRecord
  <2> HIDE DEF q, o
  <2>5. runs[<<q, o>>] = 0 /\ o < committed[q]
    BY <1>8, <2>4 DEF FirstInv, HandlingInv
  <2>6. o < committed'[q]
    BY <1>5, <2>2, <2>3, <2>5
  <2>7. <<q, o>> # <<p, committed[p]>>
    BY <1>1, <1>5, <2>2, <2>3, <2>5
  <2> QED
    BY <1>6, <2>4, <2>5, <2>6, <2>7
<1>9. NextInv'
  <2> SUFFICES ASSUME NEW s \in inflight', Acceptable(s)'
               PROVE  s.off = committed'[s.part] + 1
    BY DEF NextInv
  <2>1. s \in inflight /\ s # r /\ Acceptable(s)
    BY <1>3, <1>6 DEF Acceptable
  <2>2. s.member # m /\ s.part \in group.assigned[s.member]
    BY <1>3, <2>1 DEF CommitInv
  <2>3. s.member \in Members /\ s.part \in Partitions
    BY <2>1 DEF TypeInv, ConsumersOK, Commits
  <2>4. s.part # p
    BY <1>1, <1>3, <2>2, <2>3 DEF OwnerInv, Disjoint
  <2> QED
    BY <1>5, <2>1, <2>3, <2>4 DEF FirstInv, NextInv
<1>10. ASSUME NEW n \in Members \ {m}, Owner(n)', NEW q \in Loaded(consumer'[n])
       PROVE  committed'[q] = Reached(consumer'[n], q)
  <2>1. consumer'[n] = consumer[n] /\ Owner(n) /\ consumer[n] \in Consumer
    BY <1>3, <1>6, <1>10 DEF Owner, TypeInv, ConsumersOK
  <2>2. q \in consumer[n].parts /\ q \in Partitions
    BY <1>10, <2>1 DEF Loaded, Consumer
  <2>3. q # p
    BY <1>1, <1>3, <2>1, <2>2 DEF OwnerInv, Disjoint
  <2> QED
    BY <1>5, <1>10, <2>1, <2>2, <2>3 DEF FirstInv, OffsetInv
<1>11. CASE ~r.live
  <2>1. consumer' = consumer /\ ~Running(m)
    BY <1>3, <1>11 DEF Commit, CommitInv
  <2>2. c.pc # "handle" /\ ~Owner(m)'
    BY <1>1, <2>1 DEF Running, Owner, Sound, TypeInv, ConsumersOK
  <2>3. HandlingInv'
    BY <1>8, <2>1, <2>2 DEF FirstInv, HandlingInv
  <2>4. OffsetInv'
    BY <1>10, <2>2 DEF OffsetInv
  <2> QED
    BY <1>7, <1>9, <2>3, <2>4 DEF FirstInv
<1>12. CASE r.live
  <2>1. /\ Awaited(r) /\ c.pc = "wait" /\ c.conn /\ p = Min(c.todo)
        /\ r.off = c.offs[p] + 1 /\ r.gen = c.gen
    BY <1>1, <1>12 DEF TypeInv, ConsumersOK, Awaited, CommitRequest
  <2>2. Owner(m)
    BY <1>3, <2>1 DEF Owner, Acceptable, Valid
  <2>3. p \in c.parts
    BY <1>1, <2>1, MinPartition DEF Sound, Consumer
  <2>4. \A q \in c.parts : committed[q] = c.offs[q]
    BY <1>1, <2>1, <2>2 DEF FirstInv, OffsetInv, Loaded, Reached
  <2>5. consumer'[m] = [c EXCEPT !.pc = "handle"]
    BY <1>1, <1>12 DEF Commit, GoOn, Become, TypeInv, ConsumersOK
  <2>6. /\ consumer'[m].pc = "handle" /\ consumer'[m].parts = c.parts
        /\ consumer'[m].offs = c.offs /\ consumer'[m].todo = c.todo
    BY <1>1, <2>5 DEF Consumer
  <2>7. CurrentRecord(consumer'[m]) = <<p, committed[p]>>
    BY <2>1, <2>3, <2>4, <2>6 DEF CurrentRecord
  <2>8. c.offs[p] \in 0 .. NumRecords - 1
    <3>1. /\ c.offs[p] \in 0 .. NumRecords /\ c.upto \in 0 .. NumRecords
          /\ c.offs[p] < c.upto
      BY <1>1, <2>1, OffsetType DEF Sound, Consumer
    <3> QED
      BY <3>1, Constants
  <2>9. <<p, committed[p]>> \in Records /\ runs[<<p, committed[p]>>] = 0
    <3>1. <<p, committed[p]>> \in Records
      BY <1>1, <2>3, <2>4, <2>8 DEF Records
    <3>2. runs[<<p, committed[p]>>] \in 0 .. 2 /\ ~(runs[<<p, committed[p]>>] > 0)
      BY <1>1, <1>5, <3>1 DEF TypeInv, HistoryOK, FirstInv, RunsInv
    <3> QED
      BY <3>1, <3>2
  <2>10. ASSUME NEW n \in Members, consumer'[n].pc = "handle"
         PROVE  /\ runs'[CurrentRecord(consumer'[n])] = 0
                /\ CurrentRecord(consumer'[n])[2] < committed'[CurrentRecord(consumer'[n])[1]]
    <3>1. CASE n = m
      BY <1>1, <1>5, <1>6, <2>7, <2>9, <3>1
    <3>2. CASE n # m
      BY <1>6, <1>8, <2>10, <3>2
    <3> QED
      BY <3>1, <3>2
  <2>11. ASSUME NEW n \in Members, NEW k \in Members, n # k,
                consumer'[n].pc = "handle", consumer'[k].pc = "handle"
         PROVE  CurrentRecord(consumer'[n]) # CurrentRecord(consumer'[k])
    <3>1. CASE n = m
      BY <1>6, <1>8, <2>7, <2>11, <3>1
    <3>2. CASE k = m
      BY <1>6, <1>8, <2>7, <2>11, <3>2
    <3>3. CASE n # m /\ k # m
      BY <1>6, <2>11, <3>3 DEF FirstInv, HandlingInv
    <3> QED
      BY <3>1, <3>2, <3>3
  <2>12. ASSUME NEW q \in Loaded(consumer'[m])
         PROVE  committed'[q] = Reached(consumer'[m], q)
    <3>1. q \in c.parts /\ q \in Partitions
      BY <1>1, <2>6, <2>12 DEF Loaded, Consumer
    <3>2. CASE q = p
      BY <1>5, <2>1, <2>3, <2>4, <2>6, <3>2 DEF Reached
    <3>3. CASE q # p
      BY <1>5, <2>1, <2>4, <2>6, <3>1, <3>3 DEF Reached
    <3> QED
      BY <3>2, <3>3
  <2>13. HandlingInv' /\ OffsetInv'
    BY <1>10, <2>10, <2>11, <2>12 DEF HandlingInv, OffsetInv
  <2> QED
    BY <1>7, <1>9, <2>13 DEF FirstInv
<1> QED
  BY <1>11, <1>12

LEMMA MostInit == Init => MostInv
<1> SUFFICES ASSUME Init PROVE FirstInv
  BY DEF MostInv
<1>1. \A m \in Members : consumer[m].pc = "down" /\ ~consumer[m].conn
  BY DEF Init, Down
<1> QED
  BY <1>1 DEF Init, FirstInv, RunsInv, HandlingInv, OffsetInv, NextInv, Owner

LEMMA MostStep ==
    ASSUME "late commit" \notin Pitfalls
    PROVE  TypeInv /\ OwnerInv /\ CommitInv /\ MostInv /\ [Next]_vars => MostInv'
<1> SUFFICES ASSUME TypeInv, OwnerInv, CommitInv, [Next]_vars,
                    mode = "at-most-once", FirstInv
             PROVE  FirstInv'
  BY ModeKept DEF MostInv
<1>1. TypeInv'
  BY TypeStep
<1>2. /\ ConsumersOK /\ CoordinatorOK /\ HistoryOK /\ ConsumersOK'
      /\ RunsInv /\ HandlingInv /\ OffsetInv /\ NextInv
  BY <1>1 DEF TypeInv, FirstInv
<1>3. group' = group \/ Apply(Active) => Regrouped(group')
  BY <1>2, ActiveRegroups DEF Apply, Regrouped
<1>4. ASSUME NEW m \in Members, NEW d, Become(m, d)
      PROVE  /\ consumer'[m] = d /\ Sound(d) /\ d \in Consumer
             /\ \A n \in Members \ {m} : consumer'[n] = consumer[n]
  BY <1>2, <1>4 DEF ConsumersOK, Become, Sound
<1>5. ASSUME NEW m \in Members PROVE consumer[m] \in Consumer /\ Sound(consumer[m])
  BY <1>2 DEF ConsumersOK
<1>6. ASSUME NEW m \in Members, NEW d, Become(m, d), Kept(consumer[m], d),
             Regrouped(group'), committed' = committed, runs' = runs,
             d.pc = "handle" =>
                /\ consumer[m].pc = "handle"
                /\ CurrentRecord(d) = CurrentRecord(consumer[m]),
             Owner(m) /\ d.conn => \A p \in Loaded(d) : committed[p] = Reached(d, p),
             \A r \in inflight' :
                \/ \E s \in inflight : /\ r.member = s.member /\ r.gen = s.gen
                                       /\ r.part = s.part /\ r.off = s.off
                \/ d.pc = "wait" /\ d.conn /\ r = CommitRequest(m, d)
      PROVE  FirstInv'
  <2>1. RunsInv' /\ HandlingInv'
    BY <1>2, <1>4, <1>6, HandlingKeep
  <2>2. OffsetInv' /\ NextInv'
    BY <1>1, <1>2, <1>4, <1>6, OffsetMove
  <2> QED
    BY <2>1, <2>2 DEF FirstInv
\* m gives up.
<1>7. ASSUME NEW m \in Members, Become(m, Down) \/ Become(m, Joining),
             Regrouped(group'), committed' = committed, runs' = runs,
             \A r \in inflight' :
                \E s \in inflight : /\ r.member = s.member /\ r.gen = s.gen
                                    /\ r.part = s.part /\ r.off = s.off
      PROVE  FirstInv'
  <2>1. /\ Down.pc # "handle" /\ ~Down.conn /\ Kept(consumer[m], Down)
        /\ Joining.pc # "handle" /\ ~Joining.conn /\ Kept(consumer[m], Joining)
    BY DEF Down, Joining, Kept
  <2> QED
    BY <1>6, <1>7, <2>1
\* m goes on as d and sends its commit.
<1>8. ASSUME NEW m \in Members, NEW d, NEW others, GoOn(m, d, others),
             others \subseteq inflight
      PROVE  /\ Become(m, d)
             /\ \A r \in inflight' :
                \/ \E s \in inflight : /\ r.member = s.member /\ r.gen = s.gen
                                       /\ r.part = s.part /\ r.off = s.off
                \/ d.pc = "wait" /\ d.conn /\ r = CommitRequest(m, d)
  <2>1. ASSUME d.pc = "wait" PROVE d.conn
    <3> DEFINE q == CommitRequest(m, d)
    <3>1. q \in inflight' /\ q.live /\ q.member = m
      BY <1>8, <2>1 DEF GoOn, CommitRequest
    <3>2. consumer'[m] = d
      BY <1>4, <1>8 DEF GoOn
    <3> QED
      BY <1>2, <3>1, <3>2 DEF ConsumersOK, Awaited
  <2> QED
    BY <1>8, <2>1 DEF GoOn
<1>9. ASSUME NEW m \in Members, Join(m) PROVE FirstInv'
  <2>1. /\ Regrouped(group') /\ committed' = committed /\ inflight' = inflight
        /\ runs' = runs
    BY <1>2, <1>9, JoinedRegroups DEF Join, Apply, history
  <2>2. /\ \A n \in Members \ {m} : consumer'[n] = consumer[n]
        /\ consumer'[m].pc \in {"idle", "load"}
        /\ Loaded(consumer'[m]) = {}
    BY <1>2, <1>9 DEF Join, Become, ConsumersOK, Down, Loaded
  <2>3. RunsInv' /\ HandlingInv'
    BY <1>2, <2>1, <2>2, HandlingKeep
  <2>4. NextInv'
    BY <1>1, <1>2, <2>1, StillAcceptable DEF NextInv, Acceptable
  <2>5. ASSUME NEW n \in Members \ {m}, Owner(n)'
        PROVE  group' = group /\ Owner(n)
    <3>1. consumer[n].conn /\ consumer[n].gen = group'.generation
      BY <2>2, <2>5 DEF Owner
    <3>2. group' = group
      BY <1>1, <2>1, <3>1, OwnersStay
    <3> QED
      BY <2>2, <2>5, <3>2 DEF Owner
  <2>6. OffsetInv'
    BY <1>2, <2>1, <2>2, <2>5 DEF OffsetInv
  <2> QED
    BY <2>3, <2>4, <2>6 DEF FirstInv
<1>10. ASSUME NEW m \in Members, LoadOffset(m) PROVE FirstInv'
  <2> DEFINE c == consumer[m]
             p == Current(m)
  <2>1. /\ Regrouped(group') /\ committed' = committed /\ runs' = runs
        /\ inflight' = inflight /\ c.pc = "load"
    BY <1>3, <1>10 DEF LoadOffset, coordinator, history
  <2>2. p \in c.todo /\ p \in Partitions /\ c.todo \subseteq c.parts
    BY <1>5, <2>1, MinPartition DEF Current, Sound, Consumer
  <2>3. PICK d \in Consumer :
          /\ Become(m, IF d.todo = {} THEN Round(d) ELSE d)
          /\ d.pc = "load" /\ d.parts = c.parts /\ d.todo = c.todo \ {p}
          /\ d.offs = [c.offs EXCEPT ![p] = committed[p]]
    BY <1>2, <1>10, LoadOffsetMoves
  <2> DEFINE e == IF d.todo = {} THEN Round(d) ELSE d
  <2>4. Become(m, e)
    BY <2>3
  <2>5. Kept(c, e)
    <3>1. consumer'[m] = e
      BY <1>4, <2>4
    <3> QED
      BY <1>10, <3>1, StepKept
  <2> HIDE DEF p
  <2>6. \A q \in Partitions : d.offs[q] = IF q = p THEN committed[p] ELSE c.offs[q]
    BY <1>5, <2>2, <2>3 DEF Consumer
  <2>7. ASSUME Owner(m), NEW q \in c.parts \ d.todo PROVE committed[q] = d.offs[q]
    <3>1. q \in Partitions
      BY <1>5, <2>7 DEF Consumer
    <3>2. CASE q = p
      BY <2>6, <3>1, <3>2
    <3>3. CASE q # p
      BY <1>2, <2>1, <2>3, <2>6, <2>7, <3>1, <3>3 DEF OffsetInv, Loaded, Reached
    <3> QED
      BY <3>2, <3>3
  <2>8. CASE d.todo = {}
    <3>1. e = Round(d)
      BY <2>8
    <3>2. MovesTo(d, Round(d), d.offs)
      BY RoundMoves
    <3> HIDE DEF e
    <3>3. e.pc # "handle"
      BY <3>1, <3>2, MovedHandling
    <3>4. Owner(m) => \A q \in d.parts : committed[q] = d.offs[q]
      BY <2>3, <2>7, <2>8
    <3>5. Owner(m) /\ e.conn => \A q \in Loaded(e) : committed[q] = Reached(e, q)
      BY <3>1, <3>2, <3>4, MovedOffsets
    <3> QED
      BY <1>6, <2>1, <2>4, <2>5, <3>3, <3>5
  <2>9. CASE d.todo # {}
    <3>1. e = d /\ Loaded(d) = c.parts \ d.todo /\ \A q : Reached(d, q) = d.offs[q]
      BY <2>3, <2>9 DEF Loaded, Reached
    <3> QED
      BY <1>6, <2>1, <2>3, <2>4, <2>5, <2>7, <3>1
  <2> QED
    BY <2>8, <2>9
<1>11. ASSUME NEW m \in Members, Fetch(m) PROVE FirstInv'
  <2> DEFINE c == consumer[m]
  <2>1. /\ Regrouped(group') /\ committed' = committed /\ runs' = runs /\ c.pc = "fetch"
    BY <1>3, <1>11 DEF Fetch, history
  <2>2. PICK d : GoOn(m, d, inflight) /\ MovesTo(c, d, c.offs)
    BY <1>11, FetchMoves
  <2>3. Kept(c, d)
    BY <2>2, MovesKept
  <2>4. d.pc # "handle"
    BY <2>2, MovedHandling
  <2>5. Owner(m) => \A p \in c.parts : committed[p] = c.offs[p]
    BY <1>2, <2>1 DEF OffsetInv, Loaded, Reached
  <2>6. Owner(m) /\ d.conn => \A p \in Loaded(d) : committed[p] = Reached(d, p)
    BY <2>2, <2>5, MovedOffsets
  <2> QED
    BY <1>6, <1>8, <2>1, <2>2, <2>3, <2>4, <2>6
<1>12. ASSUME NEW m \in Members, Handle(m) PROVE FirstInv'
  <2> DEFINE c == consumer[m]
             p == Min(c.todo)
             d == Advanced(c, p)
             offs == [c.offs EXCEPT ![p] = @ + 1]
  <2>1. /\ Regrouped(group') /\ committed' = committed /\ c.pc = "handle"
        /\ runs' = [runs EXCEPT ![CurrentRecord(c)] = Min({@ + 1, 2})]
        /\ GoOn(m, d, inflight)
    BY <1>3, <1>12 DEF Handle, coordinator, Current, CurrentRecord
  <2>2. MovesTo(c, d, offs)
    BY <1>2, <1>5, <2>1, AdvancedMoves
  <2>3. p \in Partitions /\ p \in c.todo
    BY <1>5, <2>1, MinPartition DEF Sound, Consumer
  <2>4. d.pc # "handle"
    BY <2>2, MovedHandling
  <2>5. Become(m, d) /\ Kept(c, d)
    BY <2>1, <2>2, MovesKept DEF GoOn
  <2> HIDE DEF d
  <2>6. RunsInv' /\ HandlingInv'
    BY <1>2, <1>4, <2>1, <2>4, <2>5, RunsStep
  <2>7. Owner(m) => \A q \in c.parts : committed[q] = offs[q]
    <3>1. ASSUME Owner(m), NEW q \in c.parts PROVE committed[q] = offs[q]
      <4>1. committed[q] = Reached(c, q)
        BY <1>2, <2>1, <3>1 DEF OffsetInv, Loaded
      <4>2. q \in Partitions /\ offs[q] = IF q = p THEN c.offs[q] + 1 ELSE c.offs[q]
        BY <1>5, <2>3 DEF Consumer
      <4> QED
        BY <2>1, <4>1, <4>2 DEF Reached
    <3> QED
      BY <3>1
  <2>8. Owner(m) /\ d.conn => \A q \in Loaded(d) : committed[q] = Reached(d, q)
    BY <2>2, <2>7, MovedOffsets
  <2>9. OffsetInv' /\ NextInv'
    BY <1>1, <1>2, <1>4, <1>8, <2>1, <2>5, <2>8, OffsetMove
  <2> QED
    BY <2>6, <2>9 DEF FirstInv
<1>13. ASSUME NEW m \in Members, HandleFails(m) PROVE FirstInv'
  <2>1. /\ Regrouped(group') /\ committed' = committed /\ consumer[m].pc = "handle"
        /\ runs' = [runs EXCEPT ![CurrentRecord(consumer[m])] = Min({@ + 1, 2})]
        /\ inflight' = inflight /\ Become(m, Down)
    BY <1>3, <1>13 DEF HandleFails, coordinator, Current, CurrentRecord
  <2>2. Down.pc # "handle" /\ ~Down.conn /\ Kept(consumer[m], Down)
    BY DEF Down, Kept
  <2>3. RunsInv' /\ HandlingInv'
    BY <1>2, <1>4, <2>1, <2>2, RunsStep
  <2>4. OffsetInv' /\ NextInv'
    BY <1>1, <1>2, <1>4, <2>1, <2>2, OffsetMove
  <2> QED
    BY <2>3, <2>4 DEF FirstInv
<1>14. ASSUME NEW m \in Members, Heartbeat(m) PROVE FirstInv'
  <2> DEFINE c == consumer[m]
  <2>1. /\ Regrouped(group') /\ committed' = committed /\ runs' = runs
        /\ inflight' = inflight
    BY <1>3, <1>14 DEF Heartbeat, history
  <2>2. PICK b : Become(m, [c EXCEPT !.beats = b])
    BY <1>14 DEF Heartbeat
  <2> DEFINE d == [c EXCEPT !.beats = b]
  <2>3. /\ d.pc = c.pc /\ d.parts = c.parts /\ d.todo = c.todo /\ d.offs = c.offs
        /\ Kept(c, d)
    BY <1>5 DEF Consumer, Kept
  <2> HIDE DEF d
  <2>4. /\ CurrentRecord(d) = CurrentRecord(c) /\ Loaded(d) = Loaded(c)
        /\ \A p : Reached(d, p) = Reached(c, p)
    BY <2>3 DEF CurrentRecord, Loaded, Reached
  <2>5. Owner(m) => \A p \in Loaded(d) : committed[p] = Reached(d, p)
    BY <1>2, <2>4 DEF OffsetInv
  <2>6. Become(m, d)
    BY <2>2 DEF d
  <2> QED
    BY <1>6, <2>1, <2>3, <2>4, <2>5, <2>6
<1>15. ASSUME NEW m \in Members, Crash(m) PROVE FirstInv'
  <2>1. /\ Regrouped(group') /\ committed' = committed /\ runs' = runs
        /\ Become(m, Down)
    BY <1>3, <1>15 DEF Crash, coordinator, history
  <2>2. ASSUME NEW s \in inflight'
        PROVE  \E r \in inflight : /\ s.member = r.member /\ s.gen = r.gen
                                   /\ s.part = r.part /\ s.off = r.off
    <3>1. PICK r \in inflight : s = [r EXCEPT !.live = @ /\ r.member # m]
      BY <1>15 DEF Crash
    <3>2. r \in Commits
      BY <1>2 DEF ConsumersOK
    <3> QED
      BY <3>1, <3>2 DEF Commits
  <2> QED
    BY <1>7, <2>1, <2>2
<1>16. ASSUME NEW m \in Members,
              \/ StartConsumer(m) \/ WakeUp(m) \/ FetchRefused(m)
              \/ ConnectionLost(m) \/ Shutdown(m)
       PROVE  FirstInv'
  <2>1. Regrouped(group')
    BY <1>2, <1>3, <1>16, ShutdownRegroups
       DEF StartConsumer, WakeUp, FetchRefused, ConnectionLost, coordinator
  <2>2. /\ committed' = committed /\ runs' = runs /\ inflight' = inflight
        /\ Become(m, Down) \/ Become(m, Joining)
    BY <1>16 DEF StartConsumer, WakeUp, FetchRefused, ConnectionLost, Shutdown,
       coordinator, history
  <2> QED
    BY <1>7, <2>1, <2>2
<1>17. ASSUME NEW r \in inflight, Commit(r) PROVE FirstInv'
  <2>1. CASE Valid(Active, r.member, r.gen) /\ r.part \in Active.assigned[r.member]
    BY <1>1, <1>17, <2>1, AcceptStep
  <2>2. CASE ~(Valid(Active, r.member, r.gen) /\ r.part \in Active.assigned[r.member])
    <3>1. /\ Regrouped(group') /\ committed' = committed /\ runs' = runs
          /\ r.member \in Members
      BY <1>2, <1>3, <1>17, <2>2 DEF Commit, history, ConsumersOK, Commits
    <3>2. CASE r.live
      <4>1. GoOn(r.member, Joining, inflight \ {r})
        BY <1>17, <2>2, <3>2 DEF Commit
      <4>2. Become(r.member, Joining) /\ inflight' = inflight \ {r}
        BY <4>1 DEF GoOn, Joining, Down
      <4> QED
        BY <1>7, <3>1, <4>2
    <3>3. CASE ~r.live
      <4>1. consumer' = consumer /\ inflight' \subseteq inflight
        BY <1>17, <3>3 DEF Commit
      <4>2. Become(r.member, consumer[r.member])
        BY <1>2, <3>1, <4>1 DEF Become, ConsumersOK
      <4>3. /\ Kept(consumer[r.member], consumer[r.member])
            /\ Owner(r.member) => \A p \in Loaded(consumer[r.member]) :
                   committed[p] = Reached(consumer[r.member], p)
        BY <1>2, <3>1 DEF Kept, OffsetInv
      <4> QED
        BY <1>6, <3>1, <4>1, <4>2, <4>3
    <3> QED
      BY <3>2, <3>3
  <2> QED
    BY <2>1, <2>2
<1>18. CASE BrokerRestart
  <2>1. /\ committed' = committed /\ runs' = runs /\ inflight' = {}
        /\ \A n \in Members : consumer'[n] = [consumer[n] EXCEPT !.conn = FALSE]
    BY <1>18 DEF BrokerRestart, history
  <2>2. \A n \in Members : /\ consumer'[n].pc = consumer[n].pc /\ ~consumer'[n].conn
                           /\ consumer'[n].todo = consumer[n].todo
                           /\ consumer'[n].offs = consumer[n].offs
    BY <1>5, <2>1 DEF Consumer
  <2>3. RunsInv' /\ HandlingInv'
    BY <1>2, <2>1, <2>2, HandlingKeep DEF CurrentRecord
  <2>4. OffsetInv' /\ NextInv'
    BY <2>1, <2>2 DEF OffsetInv, NextInv, Owner
  <2> QED
    BY <2>3, <2>4 DEF FirstInv
<1>19. CASE \/ \E m \in Members : Lapse(m)
            \/ Sweep \/ SetTopicPartitions \/ UNCHANGED vars
  <2>1. /\ Regrouped(group') /\ inflight' = inflight /\ consumer' = consumer
        /\ committed' = committed /\ runs' = runs
    BY <1>3, <1>19 DEF Lapse, Sweep, SetTopicPartitions, vars, coordinator, history
  <2>2. RunsInv' /\ HandlingInv'
    BY <1>2, <2>1, HandlingKeep
  <2>3. NextInv'
    BY <1>1, <1>2, <2>1, StillAcceptable DEF NextInv, Acceptable
  <2>4. ASSUME NEW n \in Members, Owner(n)' PROVE Owner(n)
    <3>1. /\ consumer[n].conn /\ consumer[n].gen = group'.generation
      BY <2>1, <2>4 DEF Owner
    <3>2. group' = group
      BY <1>1, <2>1, <3>1, OwnersStay
    <3> QED
      BY <2>1, <2>4, <3>2 DEF Owner
  <2>5. OffsetInv'
    BY <1>2, <2>1, <2>4 DEF OffsetInv
  <2> QED
    BY <2>2, <2>3, <2>5 DEF FirstInv
<1> QED
  BY <1>9, <1>10, <1>11, <1>12, <1>13, <1>14, <1>15, <1>16, <1>17, <1>18, <1>19
     DEF Next, ConsumerStep

\* At-most-once delivery: no handler runs twice on a record, however many
\* consumers were thought dead and still work, as long as no process joins
\* under a name whose last commit is still on its way (groups.rs accepts that
\* commit for the successor).
THEOREM DeliveredAtMostOnce ==
    ASSUME "late commit" \notin Pitfalls
    PROVE  Spec => []AtMostOnce
<1>1. TypeInv /\ OwnerInv /\ CommitInv /\ MostInv /\ [Next]_vars
        => (TypeInv /\ OwnerInv /\ CommitInv /\ MostInv)'
  BY TypeStep, OwnerStep, CommitStep, MostStep
<1>2. Init => TypeInv /\ OwnerInv /\ CommitInv /\ MostInv
  BY TypeInit, OwnerInit, CommitInit, MostInit
<1>3. MostInv => AtMostOnce
  BY DEF MostInv, FirstInv, RunsInv, AtMostOnce
<1> QED
  BY <1>1, <1>2, <1>3, PTL DEF Spec

=============================================================================
