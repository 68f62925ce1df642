------------------------------ MODULE LogLemmas ------------------------------
(***************************************************************************)
(* Facts about the operators PartitionLog is built from: induction and     *)
(* recursion over the naturals, sets of numbers in their order, flattened  *)
(* sequences, the bytes of a segment and its sparse index.                 *)
(*                                                                         *)
(* The library's induction rules take the property as an operator; here it *)
(* is a set of numbers, whose least missing element is looked at.          *)
(***************************************************************************)
EXTENDS PartitionLog, FiniteSetTheorems, SequenceTheorems, WellFoundedInduction, TLAPS

\* A set of numbers has a least element, a bounded one a greatest.
LEMMA Least ==
  ASSUME NEW T \in SUBSET Nat, T # {}
  PROVE  \E x \in T : \A y \in T : x <= y
<1> DEFINE R == OpToRel(<, Nat)
<1>1. IsWellFoundedOn(R, Nat)
  BY NatLessThanWellFounded, Zenon
<1>2. \A x, y \in Nat : x < y => <<x, y>> \in R
  BY DEF OpToRel
<1> HIDE DEF R
<1>3. PICK x \in T : \A y \in T : ~ (<<y, x>> \in R)
  BY <1>1, WFMin
<1>4. \A y \in T : x <= y
  <2> TAKE y \in T
  <2>1. x \in Nat /\ y \in Nat /\ ~(y < x)
    BY <1>2, <1>3
  <2> QED  BY <2>1
<1> QED  BY <1>4

LEMMA Greatest ==
  ASSUME NEW n \in Nat, NEW T \in SUBSET (1 .. n), T # {}
  PROVE  Max(T) \in T /\ \A y \in T : Max(T) >= y
<1> DEFINE U == {n - x : x \in T}
<1>1. U \in SUBSET Nat /\ U # {}
  <2>1. \A x \in T : n - x \in Nat
    OBVIOUS
  <2>2. PICK x \in T : TRUE
    OBVIOUS
  <2>3. n - x \in U
    OBVIOUS
  <2> QED  BY <2>1, <2>3
<1>2. PICK u \in U : \A v \in U : u <= v
  BY <1>1, Least
<1>3. PICK x \in T : u = n - x
  BY <1>2
<1>4. \A y \in T : x >= y
  <2> TAKE y \in T
  <2>1. n - y \in U
    OBVIOUS
  <2>2. n - x <= n - y /\ x \in Nat /\ y \in Nat
    BY <1>2, <1>3, <2>1
  <2> QED  BY <2>2
<1> HIDE DEF U
<1> QED  BY <1>3, <1>4 DEF Max

LEMMA Induction ==
  ASSUME NEW T \in SUBSET Nat, 0 \in T, \A n \in T : n + 1 \in T
  PROVE  T = Nat
<1> SUFFICES ASSUME Nat \ T # {} PROVE FALSE
  OBVIOUS
<1>1. Nat \ T \in SUBSET Nat
  OBVIOUS
<1>2. PICK x \in Nat \ T : \A y \in Nat \ T : x <= y
  BY <1>1, Least
<1>3. x # 0 /\ x - 1 \in Nat
  BY <1>2
<1>4. x - 1 \in T
  BY <1>2, <1>3
<1> QED  BY <1>2, <1>4

\* Up to a bound.
LEMMA InductionTo ==
  ASSUME NEW n \in Nat, NEW T, 0 \in T, \A i \in 0 .. n - 1 : i \in T => i + 1 \in T
  PROVE  \A i \in 0 .. n : i \in T
<1> DEFINE U == {i \in Nat : i <= n => i \in T}
<1>1. U \in SUBSET Nat /\ 0 \in U
  OBVIOUS
<1>2. \A i \in U : i + 1 \in U
  OBVIOUS
<1> HIDE DEF U
<1>3. U = Nat
  BY <1>1, <1>2, Induction
<1> QED  BY <1>3 DEF U

\* A function defined by recursion on its argument exists.
Recursive(f, n, S, base, step) ==
    /\ f \in [0 .. n -> S] /\ f[0] = base
    /\ \A k \in 1 .. n : f[k] = step[<<k, f[k - 1]>>]

LEMMA Recursion ==
  ASSUME NEW n \in Nat, NEW S, NEW base \in S, NEW step \in [(1 .. n) \X S -> S]
  PROVE  \E f : Recursive(f, n, S, base, step)
<1> DEFINE T == {m \in 0 .. n : \E f : Recursive(f, m, S, base, step)}
<1>1. 0 \in T
  <2>1. Recursive([k \in 0 .. 0 |-> base], 0, S, base, step)
    BY DEF Recursive
  <2> QED  BY <2>1
<1>2. ASSUME NEW m \in 0 .. n - 1, m \in T PROVE m + 1 \in T
  <2>1. PICK f : Recursive(f, m, S, base, step)
    BY <1>2
  <2> DEFINE v == step[<<m + 1, f[m]>>]
             g == [k \in 0 .. m + 1 |-> IF k = m + 1 THEN v ELSE f[k]]
  <2>2. m \in Nat /\ m + 1 \in 1 .. n /\ f \in [0 .. m -> S] /\ f[m] \in S
    BY <2>1 DEF Recursive
  <2>3. v \in S
    BY <2>2
  <2>4. g \in [0 .. m + 1 -> S] /\ g[0] = base
    BY <2>1, <2>2, <2>3 DEF Recursive
  <2>5. ASSUME NEW k \in 1 .. m + 1 PROVE g[k] = step[<<k, g[k - 1]>>]
    <3>1. k - 1 \in 0 .. m /\ g[k - 1] = f[k - 1]
      BY <2>2
    <3>2. CASE k = m + 1
      <4>1. g[k] = v /\ k - 1 = m /\ g[k - 1] = f[m]
        BY <2>2, <3>1, <3>2
      <4> QED  BY <3>2, <4>1
    <3>3. CASE k # m + 1
      BY <2>1, <2>2, <3>1, <3>3 DEF Recursive
    <3> QED  BY <3>2, <3>3
  <2> HIDE DEF g
  <2>6. Recursive(g, m + 1, S, base, step)
    BY <2>4, <2>5 DEF Recursive
  <2> QED  BY <2>2, <2>6
<1> HIDE DEF T
<1>3. \A i \in 0 .. n : i \in T
  BY <1>1, <1>2, InductionTo
<1>4. n \in T
  BY <1>3
<1> QED  BY <1>4 DEF T

-----------------------------------------------------------------------------
(* Numbers in their order.                                                 *)

Increasing(s, n) == s \in [1 .. n -> Nat] /\ \A i, j \in 1 .. n : i < j => s[i] < s[j]

First(s, i) == {s[j] : j \in 1 .. i}

LEMMA Counted ==
  ASSUME NEW n \in Nat, NEW s, Increasing(s, n), NEW i \in 0 .. n
  PROVE  IsFiniteSet(First(s, i)) /\ Cardinality(First(s, i)) = i
<1> DEFINE T == {s[j] : j \in 1 .. i}
           f == [j \in 1 .. i |-> s[j]]
<1>1. f \in [1 .. i -> T]
  BY DEF Increasing
<1>2. \A a, b \in 1 .. i : f[a] = f[b] => a = b
  <2> SUFFICES ASSUME NEW a \in 1 .. i, NEW b \in 1 .. i, f[a] = f[b] PROVE a = b
    OBVIOUS
  <2>1. a \in 1 .. n /\ b \in 1 .. n /\ s[a] = s[b] /\ s[a] \in Nat
    BY DEF Increasing
  <2> QED  BY <2>1 DEF Increasing
<1>3. f \in Bijection(1 .. i, T)
  <2>1. f \in Injection(1 .. i, T)
    BY <1>1, <1>2 DEF Injection, IsInjective
  <2>2. f \in Surjection(1 .. i, T)
    BY <1>1 DEF Surjection
  <2> QED  BY <2>1, <2>2 DEF Bijection
<1> HIDE DEF T, f
<1>4. ExistsBijection(1 .. i, T)
  BY <1>3, Zenon DEF ExistsBijection
<1>5. Cardinality(T) = i /\ IsFiniteSet(T)
  <2>1. i \in Nat
    OBVIOUS
  <2> QED  BY <1>4, <2>1, FS_CountingElements, FS_NatBijection
<1> QED  BY <1>5 DEF T, First

\* A set is sorted by the increasing sequence that enumerates it.
LEMMA SortedIs ==
  ASSUME NEW n \in Nat, NEW s, Increasing(s, n), NEW T, T = {s[i] : i \in 1 .. n}
  PROVE  Sorted(T) = s /\ IsFiniteSet(T) /\ Cardinality(T) = n
<1>1. IsFiniteSet(T) /\ Cardinality(T) = n
  <2>1. n \in 0 .. n /\ T = First(s, n)
    BY DEF First
  <2> QED  BY <2>1, Counted
<1>2. ASSUME NEW i \in 1 .. n PROVE Cardinality({m \in T : m < s[i]}) = i - 1
  <2>1. {m \in T : m < s[i]} = {s[j] : j \in 1 .. i - 1}
    <3>1. \A j \in 1 .. n : s[j] < s[i] <=> j \in 1 .. i - 1
      <4> SUFFICES ASSUME NEW j \in 1 .. n PROVE s[j] < s[i] <=> j \in 1 .. i - 1
        OBVIOUS
      <4>1. s[i] \in Nat /\ s[j] \in Nat
        BY DEF Increasing
      <4>2. (j < i => s[j] < s[i]) /\ (i < j => s[i] < s[j])
        BY DEF Increasing
      <4> QED  BY <4>1, <4>2
    <3>2. \A j \in 1 .. i - 1 : j \in 1 .. n
      OBVIOUS
    <3> QED  BY <3>1, <3>2
  <2>2. i - 1 \in 0 .. n
    OBVIOUS
  <2>3. Cardinality(First(s, i - 1)) = i - 1
    BY <2>2, Counted
  <2> QED  BY <2>1, <2>3 DEF First
<1>3. ASSUME NEW i \in 1 .. n
      PROVE  (CHOOSE x \in T : Cardinality({m \in T : m < x}) = i - 1) = s[i]
  <2> DEFINE C(x) == Cardinality({m \in T : m < x})
  <2>1. s[i] \in T /\ C(s[i]) = i - 1
    BY <1>2
  <2>2. ASSUME NEW x \in T, C(x) = i - 1 PROVE x = s[i]
    <3>1. PICK j \in 1 .. n : x = s[j]
      OBVIOUS
    <3>2. C(x) = j - 1
      BY <1>2, <3>1
    <3>3. j = i
      BY <2>2, <3>2
    <3> QED  BY <3>1, <3>3
  <2> HIDE DEF C
  <2>3. (CHOOSE x \in T : C(x) = i - 1) = s[i]
    BY <2>1, <2>2
  <2> QED  BY <2>3 DEF C
<1>4. Sorted(T) = [i \in 1 .. n |-> s[i]]
  BY <1>1, <1>3, Zenon DEF Sorted
<1>5. s = [i \in 1 .. n |-> s[i]]
  BY DEF Increasing
<1> QED  BY <1>1, <1>4, <1>5

\* t is what s has from position a to position b.
Slice(t, s, a, b) ==
    /\ t \in Seq(Entries) /\ Len(t) = b - a + 1
    /\ \A i \in 1 .. b - a + 1 : t[i] = s[a + i - 1]

LEMMA PickInterval ==
  ASSUME NEW s \in Seq(Entries), NEW a \in Nat, a >= 1, NEW b \in Nat, a <= b + 1, b <= Len(s),
         NEW at, at = a .. b
  PROVE  Slice(Pick(s, at), s, a, b)
<1> DEFINE n == b - a + 1
           t == [i \in 1 .. n |-> a + i - 1]
           v == [i \in 1 .. n |-> s[a + i - 1]]
<1>1. n \in Nat /\ Increasing(t, n)
  BY DEF Increasing
<1>2. a .. b = {t[i] : i \in 1 .. n}
  <2>1. \A x \in a .. b : x - a + 1 \in 1 .. n /\ t[x - a + 1] = x
    OBVIOUS
  <2>2. \A i \in 1 .. n : t[i] \in a .. b
    OBVIOUS
  <2> QED  BY <2>1, <2>2
<1>3. Sorted(a .. b) = t
  <2> HIDE DEF n, t
  <2> QED  BY <1>1, <1>2, SortedIs
<1>4. Pick(s, a .. b) = [i \in DOMAIN t |-> s[t[i]]]
  BY <1>3 DEF Pick
<1>5. Pick(s, a .. b) = v
  BY <1>1, <1>4
<1>6. \A i \in 1 .. n : s[a + i - 1] \in Entries
  <2> TAKE i \in 1 .. n
  <2>1. a + i - 1 \in 1 .. Len(s)
    OBVIOUS
  <2> QED  BY <2>1, ElementOfSeq
<1>7. v \in Seq(Entries) /\ Len(v) = n
  BY <1>1, <1>6
<1> QED  BY <1>5, <1>7 DEF Slice

-----------------------------------------------------------------------------
(* Sequences one after the other.                                          *)

\* c consists of the first n sequences; the i-th one begins after at[i].
Flat(c, E, n, seqs, at) ==
    /\ c \in Seq(E) /\ Len(c) = at[n + 1]
    /\ \A i \in 1 .. n : \A j \in 1 .. Len(seqs[i]) : c[at[i] + j] = seqs[i][j]
    /\ \A k \in 1 .. at[n + 1] :
         \E i \in 1 .. n : \E j \in 1 .. Len(seqs[i]) : k = at[i] + j

LEMMA FlattenDef ==
  ASSUME NEW E, NEW n \in Nat \ {0}, NEW seqs \in [1 .. n -> Seq(E)]
  PROVE  \E g : /\ g = [i \in 1 .. n |-> IF i = 1 THEN seqs[i] ELSE g[i - 1] \o seqs[i]]
                /\ FlattenSeq(seqs) = g[n]
<1> DEFINE S == Seq(E)
           step == [p \in (1 .. n) \X S |-> p[2] \o seqs[p[1]]]
           Q(g) == g = [i \in 1 .. n |-> IF i = 1 THEN seqs[i] ELSE g[i - 1] \o seqs[i]]
           G == CHOOSE g : Q(g)
<1>1. step \in [(1 .. n) \X S -> S] /\ << >> \in S
  OBVIOUS
<1>2. PICK f : Recursive(f, n, S, << >>, step)
  <2> HIDE DEF step, S
  <2> QED  BY <1>1, Recursion
<1> DEFINE h == [i \in 1 .. n |-> f[i]]
<1>3. Q(h)
  <2>1. f \in [0 .. n -> S] /\ f[0] = << >>
    BY <1>2 DEF Recursive
  <2>2. ASSUME NEW i \in 1 .. n PROVE f[i] = f[i - 1] \o seqs[i]
    <3>1. i - 1 \in 0 .. n /\ f[i - 1] \in S
      BY <2>1
    <3>2. f[i] = step[<<i, f[i - 1]>>]
      BY <1>2, Zenon DEF Recursive
    <3>3. step[<<i, f[i - 1]>>] = f[i - 1] \o seqs[i]
      <4> HIDE DEF S
      <4> QED  BY <3>1
    <3> QED  BY <3>2, <3>3
  <2>3. ASSUME NEW i \in 1 .. n
        PROVE  h[i] = IF i = 1 THEN seqs[i] ELSE h[i - 1] \o seqs[i]
    <3>1. CASE i = 1
      <4>0. 1 \in 1 .. n /\ 1 - 1 = 0
        OBVIOUS
      <4>1. f[1] = << >> \o seqs[1] /\ seqs[1] \in Seq(E)
        <5> HIDE DEF S, step
        <5> QED  BY <2>1, <2>2, <4>0
      <4>2. f[1] = seqs[1]
        BY <4>1, ConcatEmptySeq
      <4> QED  BY <3>1, <4>2
    <3>2. CASE i # 1
      BY <2>2, <3>2
    <3> QED  BY <3>1, <3>2
  <2> HIDE DEF S, step
  <2> QED  BY <2>3
<1> HIDE DEF Q
<1>4. Q(G)
  BY <1>3, Zenon
<1>5. FlattenSeq(seqs) = G[n]
  <2>1. Len(seqs) = n /\ n # 0
    OBVIOUS
  <2> QED  BY <2>1 DEF FlattenSeq, Q
<1> HIDE DEF G
<1> QED  BY <1>4, <1>5 DEF Q

\* Numbers that add up do not fall.
LEMMA Cumulative ==
  ASSUME NEW n \in Nat, NEW at \in [1 .. n + 1 -> Nat],
         \A i \in 1 .. n : at[i] <= at[i + 1]
  PROVE  \A x, y \in 1 .. n + 1 : x <= y => at[x] <= at[y]
<1> DEFINE T == {y \in 0 .. n : \A x \in 1 .. y + 1 : at[x] <= at[y + 1]}
<1>1. 0 \in T
  <2>1. \A x \in 1 .. 0 + 1 : x = 1
    OBVIOUS
  <2>2. 1 \in 1 .. n + 1 /\ at[1] \in Nat
    OBVIOUS
  <2> QED  BY <2>1, <2>2
<1>2. ASSUME NEW y \in 0 .. n - 1, y \in T PROVE y + 1 \in T
  <2>1. y + 1 \in 1 .. n /\ at[y + 1] <= at[(y + 1) + 1]
    OBVIOUS
  <2>2. at[y + 1] \in Nat /\ at[(y + 1) + 1] \in Nat
    BY <2>1
  <2>3. ASSUME NEW x \in 1 .. (y + 1) + 1 PROVE at[x] <= at[(y + 1) + 1]
    <3>1. CASE x = (y + 1) + 1
      BY <2>2, <3>1
    <3>2. CASE x \in 1 .. y + 1
      <4>1. at[x] <= at[y + 1] /\ at[x] \in Nat
        BY <1>2, <2>1, <3>2
      <4> QED  BY <2>1, <2>2, <4>1
    <3>3. x = (y + 1) + 1 \/ x \in 1 .. y + 1
      OBVIOUS
    <3> QED  BY <3>1, <3>2, <3>3
  <2> QED  BY <2>1, <2>3
<1> HIDE DEF T
<1>3. \A y \in 0 .. n : y \in T
  BY <1>1, <1>2, InductionTo
<1> SUFFICES ASSUME NEW x \in 1 .. n + 1, NEW y \in 1 .. n + 1, x <= y
             PROVE  at[x] <= at[y]
  OBVIOUS
<1>4. y - 1 \in 0 .. n /\ (y - 1) + 1 = y
  OBVIOUS
<1>5. y - 1 \in T
  BY <1>3, <1>4
<1> QED  BY <1>4, <1>5 DEF T

\* The sequences and where they begin.
Parts(E, n, seqs, at) ==
    /\ seqs \in [1 .. n -> Seq(E)] /\ at \in [1 .. n + 1 -> Nat] /\ at[1] = 0
    /\ \A i \in 1 .. n : at[i + 1] = at[i] + Len(seqs[i])

LEMMA PartsAt ==
  ASSUME NEW E, NEW n \in Nat, NEW seqs, NEW at, Parts(E, n, seqs, at), NEW i \in 1 .. n
  PROVE  /\ seqs[i] \in Seq(E) /\ Len(seqs[i]) \in Nat
         /\ at[i] \in Nat /\ at[i + 1] \in Nat /\ at[i + 1] = at[i] + Len(seqs[i])
         /\ \A m \in i .. n : at[i + 1] <= at[m + 1]
<1>1. \A h \in 1 .. n : /\ seqs[h] \in Seq(E) /\ at[h] \in Nat /\ at[h + 1] \in Nat
                        /\ at[h + 1] = at[h] + Len(seqs[h])
  BY DEF Parts
<1>2. \A h \in 1 .. n : Len(seqs[h]) \in Nat
  BY <1>1
<1>3. \A h \in 1 .. n : at[h] <= at[h + 1]
  BY <1>1, <1>2
<1>4. at \in [1 .. n + 1 -> Nat]
  BY DEF Parts
<1>5. \A x, y \in 1 .. n + 1 : x <= y => at[x] <= at[y]
  BY <1>3, <1>4, Cumulative
<1>6. ASSUME NEW m \in i .. n PROVE at[i + 1] <= at[m + 1]
  <2>1. i + 1 \in 1 .. n + 1 /\ m + 1 \in 1 .. n + 1 /\ i + 1 <= m + 1
    OBVIOUS
  <2> QED  BY <1>5, <2>1
<1> QED  BY <1>1, <1>2, <1>6

LEMMA FlatStep ==
  ASSUME NEW E, NEW n \in Nat, NEW m \in 1 .. n - 1, NEW seqs, NEW at,
         Parts(E, n, seqs, at), NEW c, Flat(c, E, m, seqs, at)
  PROVE  Flat(c \o seqs[m + 1], E, m + 1, seqs, at)
<1> DEFINE s == seqs[m + 1]
           d == c \o s
           p == Len(c)
           q == Len(s)
<1>0. m + 1 \in 1 .. n /\ m \in 1 .. n /\ m + 1 \in Nat
  OBVIOUS
<1>1. c \in Seq(E) /\ p = at[m + 1]
  BY DEF Flat
<1>2. s \in Seq(E) /\ q \in Nat /\ p \in Nat /\ at[(m + 1) + 1] = p + q
  BY <1>0, <1>1, PartsAt
<1>3. /\ d \in Seq(E) /\ Len(d) = p + q
      /\ \A k \in 1 .. p + q : d[k] = IF k <= p THEN c[k] ELSE s[k - p]
  <2> HIDE DEF s
  <2> QED  BY <1>1, <1>2, ConcatProperties
<1> HIDE DEF d, p
<1>4. ASSUME NEW j \in 1 .. q PROVE d[at[m + 1] + j] = s[j]
  <2>1. p + j \in 1 .. p + q /\ ~(p + j <= p) /\ (p + j) - p = j
    BY <1>2
  <2> QED  BY <1>1, <1>3, <2>1
<1>5. ASSUME NEW i \in 1 .. m, NEW j \in 1 .. Len(seqs[i])
      PROVE  d[at[i] + j] = seqs[i][j]
  <2>1. i \in 1 .. n /\ m \in i .. n
    BY <1>0
  <2>2. /\ Len(seqs[i]) \in Nat /\ at[i] \in Nat /\ at[i + 1] = at[i] + Len(seqs[i])
        /\ at[i + 1] <= p
    BY <1>1, <2>1, PartsAt
  <2>3. at[i] + j \in 1 .. p + q /\ at[i] + j <= p
    <3>1. PICK x, l : x = at[i] /\ l = Len(seqs[i])
      OBVIOUS
    <3>2. x \in Nat /\ l \in Nat /\ x + l <= p /\ j \in 1 .. l /\ p \in Nat /\ q \in Nat
      BY <1>2, <2>2, <3>1
    <3>3. x + j \in 1 .. p + q /\ x + j <= p
      BY ONLY <3>2
    <3> QED  BY <3>1, <3>3
  <2>4. c[at[i] + j] = seqs[i][j]
    BY DEF Flat
  <2> QED  BY <1>3, <2>3, <2>4
<1>6. ASSUME NEW i \in 1 .. m + 1, NEW j \in 1 .. Len(seqs[i])
      PROVE  d[at[i] + j] = seqs[i][j]
  <2>1. i = m + 1 \/ i \in 1 .. m
    OBVIOUS
  <2> QED  BY <1>4, <1>5, <2>1
<1>7. ASSUME NEW k \in 1 .. p + q
      PROVE  \E i \in 1 .. m + 1 : \E j \in 1 .. Len(seqs[i]) : k = at[i] + j
  <2>1. CASE k \in 1 .. p
    <3>1. \E i \in 1 .. m : \E j \in 1 .. Len(seqs[i]) : k = at[i] + j
      BY <1>1, <2>1 DEF Flat
    <3>2. \A i \in 1 .. m : i \in 1 .. m + 1
      OBVIOUS
    <3> QED  BY <3>1, <3>2, Zenon
  <2>2. CASE k \notin 1 .. p
    <3>1. k - p \in 1 .. q /\ k = p + (k - p)
      BY <1>2, <2>2
    <3>2. k = at[m + 1] + (k - p) /\ m + 1 \in 1 .. m + 1
      BY <1>1, <3>1
    <3> QED  BY <3>1, <3>2, Zenon
  <2> QED  BY <2>1, <2>2
<1>8. Flat(d, E, m + 1, seqs, at)
  <2> HIDE DEF s, q
  <2> QED  BY <1>2, <1>3, <1>6, <1>7 DEF Flat
<1> QED  BY <1>8 DEF d

LEMMA FlattenIs ==
  ASSUME NEW E, NEW n \in Nat \ {0}, NEW seqs, NEW at, Parts(E, n, seqs, at)
  PROVE  Flat(FlattenSeq(seqs), E, n, seqs, at)
<1>0. seqs \in [1 .. n -> Seq(E)]
  BY DEF Parts
<1>1. PICK g : /\ g = [i \in 1 .. n |-> IF i = 1 THEN seqs[i] ELSE g[i - 1] \o seqs[i]]
               /\ FlattenSeq(seqs) = g[n]
  BY <1>0, FlattenDef
<1> DEFINE T == {m \in 0 .. n - 1 : Flat(g[m + 1], E, m + 1, seqs, at)}
<1>2. 0 \in T
  <2>1. 1 \in 1 .. n
    OBVIOUS
  <2>2. g[1] = seqs[1]
    BY <1>1, <2>1
  <2>3. at[1] = 0
    BY DEF Parts
  <2>4. seqs[1] \in Seq(E) /\ Len(seqs[1]) \in Nat /\ at[1 + 1] = at[1] + Len(seqs[1])
    BY <2>1, PartsAt
  <2>5. Len(seqs[1]) = at[1 + 1]
    BY <2>3, <2>4
  <2>6. \A j \in 1 .. Len(seqs[1]) : at[1] + j = j
    BY <2>3, <2>4
  <2>7. \A i \in 1 .. 1 : i = 1
    OBVIOUS
  <2>8. 1 \in 1 .. 1
    OBVIOUS
  <2>9. \A k \in 1 .. at[1 + 1] :
          \E i \in 1 .. 1 : \E j \in 1 .. Len(seqs[i]) : k = at[i] + j
    <3> TAKE k \in 1 .. at[1 + 1]
    <3>1. k \in 1 .. Len(seqs[1]) /\ k = at[1] + k
      BY <2>5, <2>6
    <3> QED  BY <2>8, <3>1, Zenon
  <2>10. Flat(seqs[1], E, 1, seqs, at)
    BY <2>4, <2>5, <2>6, <2>7, <2>9 DEF Flat
  <2> QED  BY <2>2, <2>10
<1>3. ASSUME NEW m \in 0 .. (n - 1) - 1, m \in T PROVE m + 1 \in T
  <2> DEFINE i == m + 1
  <2>1. Flat(g[i], E, i, seqs, at)
    BY <1>3
  <2>2. i \in 1 .. n - 1 /\ i \in 1 .. n /\ i + 1 \in 1 .. n /\ i + 1 # 1 /\ (i + 1) - 1 = i
        /\ i \in 0 .. n - 1
    OBVIOUS
  <2> HIDE DEF i, T
  <2>3. g[i + 1] = g[i] \o seqs[i + 1]
    BY <1>1, <2>2
  <2>4. Flat(g[i + 1], E, i + 1, seqs, at)
    BY <2>1, <2>2, <2>3, FlatStep
  <2> QED  BY <2>2, <2>4 DEF i, T
<1> HIDE DEF T
<1>4. n - 1 \in Nat
  OBVIOUS
<1>5. \A m \in 0 .. n - 1 : m \in T
  BY <1>2, <1>3, <1>4, InductionTo
<1>6. n - 1 \in T /\ (n - 1) + 1 = n
  BY <1>4, <1>5
<1> QED  BY <1>1, <1>6 DEF T

-----------------------------------------------------------------------------
(* The records of a segment, their bytes and the index.                    *)

LEMMA RecordFacts ==
  ASSUME NEW r \in AllRecords
  PROVE  /\ Size(r) \in Nat \ {0} /\ r.seq \in Nat
         /\ Identified(r) => r \in Requests /\ r.who \in Producers
<1>1. CASE r \in Requests
  <2>1. /\ r.who \in Producers \cup {NoProducer} /\ r.seq \in Nat
        /\ ValueSize(r.val) \in Nat \ {0} /\ IdentitySize \in Nat \ {0}
    BY <1>1, LogAssumption
  <2>2. Size(r) \in Nat \ {0}
    BY <2>1 DEF Size
  <2> QED  BY <1>1, <2>1, <2>2 DEF Identified
<1>2. CASE r \notin Requests
  <2>1. PICK q \in Requests : r = Anonymous(q)
    BY <1>2 DEF AllRecords
  <2>2. r.val = q.val /\ r.who = NoProducer /\ r.seq = 0
    BY <2>1 DEF Anonymous
  <2>3. ValueSize(r.val) \in Nat \ {0}
    BY <2>2, LogAssumption
  <2> QED  BY <2>2, <2>3 DEF Size, Identified
<1> QED  BY <1>1, <1>2

LEMMA EntryFacts ==
  ASSUME NEW e \in Entries
  PROVE  e.off \in Nat /\ e.rec \in AllRecords /\ e = Entry(e.off, e.rec)
BY DEF Entries, Entry

LEMMA BytesDef ==
  ASSUME NEW recs \in Seq(Entries)
  PROVE  \E g : /\ g \in [0 .. Len(recs) -> Nat] /\ g[0] = 0
                /\ \A k \in 1 .. Len(recs) : g[k] = g[k - 1] + Size(recs[k].rec)
                /\ \A k : Bytes(recs, k) = g[k]
<1> DEFINE n == Len(recs)
           step == [p \in (1 .. n) \X Nat |-> p[2] + Size(recs[p[1]].rec)]
           Q(g) == g = [k \in 0 .. n |-> IF k = 0 THEN 0 ELSE g[k - 1] + Size(recs[k].rec)]
           G == CHOOSE g : Q(g)
<1>0. n \in Nat /\ 0 \in Nat
  OBVIOUS
<1>1. ASSUME NEW k \in 1 .. n PROVE Size(recs[k].rec) \in Nat
  <2>1. recs[k] \in Entries
    BY ElementOfSeq
  <2> QED  BY <2>1, EntryFacts, RecordFacts
<1>2. step \in [(1 .. n) \X Nat -> Nat]
  BY <1>1
<1>3. PICK f : Recursive(f, n, Nat, 0, step)
  <2> HIDE DEF step, n
  <2> QED  BY <1>0, <1>2, Recursion
<1>4. f \in [0 .. n -> Nat] /\ f[0] = 0
  BY <1>3 DEF Recursive
<1>5. ASSUME NEW k \in 1 .. n PROVE f[k] = f[k - 1] + Size(recs[k].rec)
  <2>1. k - 1 \in 0 .. n /\ f[k - 1] \in Nat
    BY <1>4
  <2>2. f[k] = step[<<k, f[k - 1]>>]
    BY <1>3, Zenon DEF Recursive
  <2>3. step[<<k, f[k - 1]>>] = f[k - 1] + Size(recs[k].rec)
    <3> HIDE DEF n
    <3> QED  BY <2>1
  <2> QED  BY <2>2, <2>3
<1>6. Q(f)
  <2> HIDE DEF n, step
  <2> QED  BY <1>0, <1>4, <1>5
<1> HIDE DEF Q, step
<1>7. Q(G)
  BY <1>6, Zenon
<1>8. \A k : Bytes(recs, k) = G[k]
  BY DEF Bytes, Q
<1> HIDE DEF G
<1>9. \E g : Q(g) /\ \A k : Bytes(recs, k) = g[k]
  BY <1>7, <1>8, Zenon
<1>10. PICK g : Q(g) /\ \A k : Bytes(recs, k) = g[k]
  BY <1>9
<1> DEFINE T == {k \in 0 .. n : g[k] \in Nat}
<1> HIDE DEF n
<1>11. 0 \in T
  BY <1>0, <1>10 DEF Q
<1>12. \A k \in 1 .. n : g[k] = g[k - 1] + Size(recs[k].rec)
  BY <1>0, <1>10 DEF Q
<1>13. ASSUME NEW k \in 0 .. n - 1, k \in T PROVE k + 1 \in T
  <2>1. k + 1 \in 1 .. n /\ (k + 1) - 1 = k /\ k + 1 \in 0 .. n
    BY <1>0
  <2>2. g[k + 1] = g[k] + Size(recs[k + 1].rec)
    BY <1>12, <2>1
  <2> QED  BY <1>1, <1>13, <2>1, <2>2
<1> HIDE DEF T
<1>14. \A k \in 0 .. n : k \in T
  BY <1>0, <1>11, <1>13, InductionTo
<1>15. g \in [0 .. n -> Nat] /\ g[0] = 0
  <2>1. \A k \in 0 .. n : g[k] \in Nat
    BY <1>14 DEF T
  <2>2. 0 \in 0 .. n
    BY <1>0
  <2> QED  BY <1>10, <2>1, <2>2 DEF Q
<1> QED  BY <1>10, <1>12, <1>15 DEF n

LEMMA BytesFacts ==
  ASSUME NEW recs \in Seq(Entries)
  PROVE  /\ Bytes(recs, 0) = 0
         /\ \A k \in 0 .. Len(recs) : Bytes(recs, k) \in Nat
         /\ \A k \in 1 .. Len(recs) : Bytes(recs, k) = Bytes(recs, k - 1) + Size(recs[k].rec)
BY BytesDef

\* Later records are at later positions.
LEMMA BytesGrow ==
  ASSUME NEW recs \in Seq(Entries), NEW i \in 0 .. Len(recs), NEW j \in i .. Len(recs)
  PROVE  Bytes(recs, i) <= Bytes(recs, j)
<1> DEFINE n == Len(recs)
           at == [k \in 1 .. n + 1 |-> Bytes(recs, k - 1)]
<1>1. n \in Nat
  OBVIOUS
<1>2. ASSUME NEW k \in 1 .. n + 1 PROVE at[k] = Bytes(recs, k - 1) /\ at[k] \in Nat
  <2>1. k - 1 \in 0 .. n
    OBVIOUS
  <2> QED  BY <2>1, BytesFacts
<1>3. ASSUME NEW k \in 1 .. n PROVE at[k] <= at[k + 1]
  <2>1. k \in 1 .. n + 1 /\ k + 1 \in 1 .. n + 1 /\ (k + 1) - 1 = k
    OBVIOUS
  <2>2. Bytes(recs, k) = Bytes(recs, k - 1) + Size(recs[k].rec)
    BY BytesFacts
  <2>3. Size(recs[k].rec) \in Nat
    <3>1. recs[k] \in Entries
      BY ElementOfSeq
    <3> QED  BY <3>1, EntryFacts, RecordFacts
  <2>4. at[k] = Bytes(recs, k - 1) /\ at[k + 1] = Bytes(recs, k) /\ at[k] \in Nat
    BY <1>2, <2>1
  <2> HIDE DEF at, n
  <2> QED  BY <2>2, <2>3, <2>4
<1>4. at \in [1 .. n + 1 -> Nat]
  BY <1>2
<1> HIDE DEF at
<1>5. \A x, y \in 1 .. n + 1 : x <= y => at[x] <= at[y]
  BY <1>1, <1>3, <1>4, Cumulative
<1>6. i + 1 \in 1 .. n + 1 /\ j + 1 \in 1 .. n + 1 /\ i + 1 <= j + 1
      /\ (i + 1) - 1 = i /\ (j + 1) - 1 = j
  OBVIOUS
<1>7. at[i + 1] = Bytes(recs, i) /\ at[j + 1] = Bytes(recs, j)
  BY <1>2, <1>6
<1> QED  BY <1>5, <1>6, <1>7

\* A record more at the end moves no other.
LEMMA BytesAppend ==
  ASSUME NEW recs \in Seq(Entries), NEW e \in Entries, NEW k \in 0 .. Len(recs)
  PROVE  Bytes(Append(recs, e), k) = Bytes(recs, k)
<1> DEFINE more == Append(recs, e)
           n == Len(recs)
           T == {i \in 0 .. n : Bytes(more, i) = Bytes(recs, i)}
<1>1. more \in Seq(Entries) /\ Len(more) = n + 1 /\ n \in Nat
      /\ \A i \in 1 .. n : more[i] = recs[i]
  BY AppendProperties
<1> HIDE DEF more
<1>2. 0 \in T
  BY <1>1, BytesFacts
<1>3. ASSUME NEW i \in 0 .. n - 1, i \in T PROVE i + 1 \in T
  <2>1. i + 1 \in 1 .. n /\ i + 1 \in 1 .. Len(more) /\ (i + 1) - 1 = i /\ i + 1 \in 0 .. n
    BY <1>1
  <2>2. /\ Bytes(more, i + 1) = Bytes(more, i) + Size(more[i + 1].rec)
        /\ Bytes(recs, i + 1) = Bytes(recs, i) + Size(recs[i + 1].rec)
    BY <1>1, <2>1, BytesFacts
  <2> QED  BY <1>1, <1>3, <2>1, <2>2
<1> HIDE DEF T
<1>4. \A i \in 0 .. n : i \in T
  BY <1>1, <1>2, <1>3, InductionTo
<1> QED  BY <1>4 DEF T, more

\* The index of a segment points to records of its file, and its length is
\* the end of the last one.
Points(i, recs) ==
    \E j \in 1 .. Len(recs) : i.off = recs[j].off /\ i.pos = Bytes(recs, j - 1)

Indexed(seg, recs) ==
    /\ seg \in Segment
    /\ seg.len = Bytes(recs, Len(recs))
    /\ \A i \in 1 .. Len(seg.index) : Points(seg.index[i], recs)

LEMMA IndexedNew ==
  ASSUME NEW b \in Nat
  PROVE  NewSegment(b).base = b /\ Indexed(NewSegment(b), << >>)
<1>1. << >> \in Seq(Entries) /\ Len(<< >>) = 0
  OBVIOUS
<1>2. Bytes(<< >>, 0) = 0
  BY <1>1, BytesFacts
<1> QED  BY <1>1, <1>2 DEF NewSegment, Indexed, Segment

LEMMA GrownType ==
  ASSUME NEW seg \in Segment, NEW e \in Entries
  PROVE  /\ Grown(seg, e) \in Segment /\ Grown(seg, e).base = seg.base
         /\ Grown(seg, e).len = seg.len + Size(e.rec)
         /\ \/ Grown(seg, e).index = seg.index
            \/ Grown(seg, e).index = Append(seg.index, [off |-> e.off, pos |-> seg.len])
<1> DEFINE new == [off |-> e.off, pos |-> seg.len]
           I == [off : Nat, pos : Nat]
           g == Grown(seg, e)
<1>1. seg.len \in Nat /\ seg.index \in Seq(I) /\ seg.base \in Nat
  BY DEF Segment
<1>2. Size(e.rec) \in Nat /\ e.off \in Nat
  BY EntryFacts, RecordFacts
<1>3. new \in I
  BY <1>1, <1>2
<1>4. /\ g.base = seg.base /\ g.len = seg.len + Size(e.rec)
      /\ g.index = seg.index \/ g.index = Append(seg.index, new)
      /\ g = [base |-> g.base, len |-> g.len, index |-> g.index]
  BY <1>1 DEF Grown
<1> HIDE DEF g, new, I
<1>5. Append(seg.index, new) \in Seq(I)
  BY <1>1, <1>3, AppendProperties
<1>6. g.index \in Seq(I)
  BY <1>1, <1>4, <1>5, Zenon
<1>7. g.len \in Nat /\ g.base \in Nat
  BY <1>1, <1>2, <1>4
<1>8. g \in [base : Nat, len : Nat, index : Seq(I)]
  BY <1>4, <1>6, <1>7
<1> QED  BY <1>4, <1>8 DEF Segment, I, g, new

LEMMA IndexedGrown ==
  ASSUME NEW recs \in Seq(Entries), NEW e \in Entries, NEW seg, Indexed(seg, recs)
  PROVE  /\ Indexed(Grown(seg, e), Append(recs, e))
         /\ Grown(seg, e).base = seg.base
<1> DEFINE more == Append(recs, e)
           n == Len(recs)
           new == [off |-> e.off, pos |-> seg.len]
           I == [off : Nat, pos : Nat]
           g == Grown(seg, e)
<1>1. /\ more \in Seq(Entries) /\ Len(more) = n + 1 /\ n \in Nat
      /\ \A i \in 1 .. n : more[i] = recs[i]
      /\ more[n + 1] = e
  BY AppendProperties
<1>2. /\ seg \in Segment /\ seg.len = Bytes(recs, n)
      /\ \A i \in 1 .. Len(seg.index) : Points(seg.index[i], recs)
  BY DEF Indexed
<1>3. seg.len \in Nat /\ seg.index \in Seq(I) /\ seg.base \in Nat
  BY <1>2 DEF Segment
<1>4. Size(e.rec) \in Nat /\ e.off \in Nat
  BY EntryFacts, RecordFacts
<1>5. new \in I
  BY <1>3, <1>4
<1>6. /\ g \in Segment /\ g.base = seg.base /\ g.len = seg.len + Size(e.rec)
      /\ g.index = seg.index \/ g.index = Append(seg.index, new)
  BY <1>2, GrownType
<1> HIDE DEF g, more, new
<1>9. g.len = Bytes(more, Len(more))
  <2>1. n + 1 \in 1 .. Len(more) /\ (n + 1) - 1 = n /\ n \in 0 .. n
    BY <1>1
  <2>2. Bytes(more, n + 1) = Bytes(more, n) + Size(e.rec)
    BY <1>1, <2>1, BytesFacts
  <2>3. Bytes(more, n) = Bytes(recs, n)
    BY <2>1, BytesAppend DEF more
  <2> QED  BY <1>1, <1>2, <1>6, <2>2, <2>3
<1>10. ASSUME NEW i, Points(i, recs) PROVE Points(i, more)
  <2>1. PICK j \in 1 .. n : i.off = recs[j].off /\ i.pos = Bytes(recs, j - 1)
    BY <1>10 DEF Points
  <2>2. j \in 1 .. Len(more) /\ j - 1 \in 0 .. n
    BY <1>1
  <2>3. Bytes(more, j - 1) = Bytes(recs, j - 1)
    BY <2>2, BytesAppend DEF more
  <2> QED  BY <1>1, <2>1, <2>2, <2>3 DEF Points
<1>11. Points(new, more)
  <2>1. n + 1 \in 1 .. Len(more) /\ (n + 1) - 1 = n /\ n \in 0 .. n
    BY <1>1
  <2>2. Bytes(more, n) = Bytes(recs, n)
    BY <2>1, BytesAppend DEF more
  <2>3. new.off = more[n + 1].off /\ new.pos = Bytes(more, (n + 1) - 1)
    BY <1>1, <1>2, <2>1, <2>2 DEF new
  <2> QED  BY <2>1, <2>3, Zenon DEF Points
<1>12. ASSUME NEW i \in 1 .. Len(g.index) PROVE Points(g.index[i], more)
  <2>1. CASE g.index = seg.index
    BY <1>2, <1>10, <2>1
  <2>2. CASE g.index = Append(seg.index, new)
    <3>1. /\ Len(g.index) = Len(seg.index) + 1 /\ Len(seg.index) \in Nat
          /\ \A k \in 1 .. Len(seg.index) : g.index[k] = seg.index[k]
          /\ g.index[Len(seg.index) + 1] = new
      BY <1>3, <1>5, <2>2, AppendProperties
    <3>2. i \in 1 .. Len(seg.index) \/ i = Len(seg.index) + 1
      BY <3>1
    <3>3. CASE i = Len(seg.index) + 1
      BY <1>11, <3>1, <3>3
    <3>4. CASE i \in 1 .. Len(seg.index)
      BY <1>2, <1>10, <3>1, <3>4
    <3> QED  BY <3>2, <3>3, <3>4
  <2> QED  BY <1>6, <2>1, <2>2
<1>13. Indexed(g, more)
  BY <1>6, <1>9, <1>12 DEF Indexed
<1> QED  BY <1>6, <1>13 DEF g, more

Recs(f, b) == f[b].recs

\* recover_segment builds the index of the records it finds.
LEMMA RecoveredDef ==
  ASSUME NEW b \in Nat, NEW recs, recs = Recs(files, b), recs \in Seq(Entries)
  PROVE  \E g : /\ g \in [0 .. Len(recs) -> Segment] /\ g[0] = NewSegment(b)
                /\ \A k \in 1 .. Len(recs) : g[k] = Grown(g[k - 1], recs[k])
                /\ Recovered(b) = g[Len(recs)]
<1> DEFINE n == Len(recs)
           step == [p \in (1 .. n) \X Segment |-> Grown(p[2], recs[p[1]])]
           Q(g) == g = [k \in 0 .. n |-> IF k = 0 THEN NewSegment(b)
                                                  ELSE Grown(g[k - 1], recs[k])]
           G == CHOOSE g : Q(g)
<1>0. n \in Nat
  OBVIOUS
<1>1. NewSegment(b) \in Segment
  BY IndexedNew DEF Indexed
<1>2. ASSUME NEW k \in 1 .. n, NEW seg \in Segment PROVE Grown(seg, recs[k]) \in Segment
  <2>1. recs[k] \in Entries
    BY ElementOfSeq
  <2> QED  BY <2>1, GrownType
<1>3. step \in [(1 .. n) \X Segment -> Segment]
  BY <1>2
<1>4. PICK f : Recursive(f, n, Segment, NewSegment(b), step)
  <2> HIDE DEF step, n
  <2> QED  BY <1>0, <1>1, <1>3, Recursion
<1>5. f \in [0 .. n -> Segment] /\ f[0] = NewSegment(b)
  BY <1>4 DEF Recursive
<1>6. ASSUME NEW k \in 1 .. n PROVE f[k] = Grown(f[k - 1], recs[k])
  <2>1. k - 1 \in 0 .. n /\ f[k - 1] \in Segment
    BY <1>5
  <2>2. f[k] = step[<<k, f[k - 1]>>]
    BY <1>4, Zenon DEF Recursive
  <2>3. step[<<k, f[k - 1]>>] = Grown(f[k - 1], recs[k])
    <3> HIDE DEF n
    <3> QED  BY <2>1
  <2> QED  BY <2>2, <2>3
<1>7. Q(f)
  <2> HIDE DEF n, step
  <2> QED  BY <1>0, <1>5, <1>6
<1> HIDE DEF Q, step
<1>8. Q(G)
  BY <1>7, Zenon
<1>9. Recovered(b) = G[n]
  BY DEF Recovered, Recs, Q
<1> HIDE DEF G
<1>10. \E g : Q(g) /\ Recovered(b) = g[n]
  BY <1>8, <1>9, Zenon
<1>11. PICK g : Q(g) /\ Recovered(b) = g[n]
  BY <1>10
<1> DEFINE T == {k \in 0 .. n : g[k] \in Segment}
<1> HIDE DEF n
<1>12. 0 \in T
  BY <1>0, <1>1, <1>11 DEF Q
<1>13. \A k \in 1 .. n : g[k] = Grown(g[k - 1], recs[k])
  BY <1>0, <1>11 DEF Q
<1>14. ASSUME NEW k \in 0 .. n - 1, k \in T PROVE k + 1 \in T
  <2>1. k + 1 \in 1 .. n /\ (k + 1) - 1 = k /\ k + 1 \in 0 .. n
    BY <1>0
  <2>2. g[k + 1] = Grown(g[k], recs[k + 1])
    BY <1>13, <2>1
  <2> QED  BY <1>2, <1>14, <2>1, <2>2
<1> HIDE DEF T
<1>15. \A k \in 0 .. n : k \in T
  BY <1>0, <1>12, <1>14, InductionTo
<1>16. g \in [0 .. n -> Segment] /\ g[0] = NewSegment(b)
  <2>1. \A k \in 0 .. n : g[k] \in Segment
    BY <1>15 DEF T
  <2>2. 0 \in 0 .. n
    BY <1>0
  <2> QED  BY <1>11, <2>1, <2>2 DEF Q
<1> QED  BY <1>11, <1>13, <1>16 DEF n

LEMMA IndexedRecovered ==
  ASSUME NEW b \in Nat, NEW recs, recs = Recs(files, b), recs \in Seq(Entries)
  PROVE  Recovered(b).base = b /\ Indexed(Recovered(b), recs)
<1> DEFINE n == Len(recs)
           T(g) == {k \in 0 .. n : g[k].base = b /\ Indexed(g[k], SubSeq(recs, 1, k))}
<1>0. n \in Nat
  OBVIOUS
<1>1. PICK g : /\ g \in [0 .. n -> Segment] /\ g[0] = NewSegment(b)
               /\ \A k \in 1 .. n : g[k] = Grown(g[k - 1], recs[k])
               /\ Recovered(b) = g[n]
  BY RecoveredDef
<1>2. 0 \in T(g)
  <2>1. SubSeq(recs, 1, 0) = << >> /\ 0 \in 0 .. n
    OBVIOUS
  <2> QED  BY <1>1, <2>1, IndexedNew
<1>3. ASSUME NEW k \in 0 .. n - 1, k \in T(g) PROVE k + 1 \in T(g)
  <2> DEFINE pre == SubSeq(recs, 1, k)
             e == recs[k + 1]
  <2>1. k + 1 \in 1 .. n /\ (k + 1) - 1 = k /\ k + 1 \in 0 .. n /\ k \in 0 .. n
    BY <1>0
  <2>2. e \in Entries /\ pre \in Seq(Entries)
    BY <2>1, ElementOfSeq
  <2>3. SubSeq(recs, 1, k + 1) = Append(pre, e)
    BY <2>1, <2>2
  <2>4. g[k + 1] = Grown(g[k], e)
    BY <1>1, <2>1
  <2>5. g[k].base = b /\ Indexed(g[k], pre)
    BY <1>3
  <2> HIDE DEF pre, e, n
  <2>6. Grown(g[k], e).base = b /\ Indexed(Grown(g[k], e), Append(pre, e))
    BY <2>2, <2>5, IndexedGrown
  <2> QED  BY <2>1, <2>3, <2>4, <2>6
<1> HIDE DEF T
<1>4. \A k \in 0 .. n : k \in T(g)
  BY <1>0, <1>2, <1>3, InductionTo
<1>5. n \in T(g)
  BY <1>0, <1>4
<1>6. SubSeq(recs, 1, n) = recs
  BY SubSeqFull
<1> QED  BY <1>1, <1>5, <1>6 DEF T

-----------------------------------------------------------------------------
(* A read of one segment.                                                  *)

\* The offsets of the records of a segment count from its base.
Placed(b, recs) ==
    recs \in Seq(Entries) /\ \A j \in 1 .. Len(recs) : recs[j].off = b + j - 1

\* The index never leads past the first record that is asked for.
LEMMA SeekBefore ==
  ASSUME NEW seg, NEW recs, Placed(seg.base, recs), Indexed(seg, recs), NEW o \in Nat,
         NEW j \in 1 .. Len(recs), recs[j].off >= o
  PROVE  Bytes(recs, j - 1) >= SeekPosition(seg, o)
<1> DEFINE before == {i \in DOMAIN seg.index : seg.index[i].off <= o}
           m == Len(seg.index)
<1>1. /\ seg \in Segment
      /\ \A i \in 1 .. m : Points(seg.index[i], recs)
  BY DEF Indexed
<1>2. seg.index \in Seq([off : Nat, pos : Nat]) /\ seg.base \in Nat
  BY <1>1 DEF Segment
<1>3. m \in Nat /\ DOMAIN seg.index = 1 .. m
  <2> DEFINE I == [off : Nat, pos : Nat]
  <2>1. seg.index \in Seq(I)
    BY <1>2
  <2> HIDE DEF I
  <2> QED  BY <2>1, LenProperties
<1>4. recs \in Seq(Entries) /\ \A h \in 1 .. Len(recs) : recs[h].off = seg.base + h - 1
  BY DEF Placed
<1>5. j - 1 \in 0 .. Len(recs) /\ Len(recs) \in Nat
  BY <1>4
<1>6. Bytes(recs, j - 1) \in Nat
  BY <1>4, <1>5, BytesFacts
<1>7. CASE before = {}
  <2>1. SeekPosition(seg, o) = 0
    BY <1>7 DEF SeekPosition
  <2> QED  BY <1>6, <2>1
<1>8. CASE before # {}
  <2>1. SeekPosition(seg, o) = seg.index[Max(before)].pos
    BY <1>8 DEF SeekPosition
  <2>2. before \in SUBSET (1 .. m)
    BY <1>3
  <2>3. Max(before) \in before
    <3> HIDE DEF before, m
    <3> QED  BY <1>3, <1>8, <2>2, Greatest
  <2>4. Max(before) \in 1 .. m /\ seg.index[Max(before)].off <= o
    BY <2>2, <2>3
  <2> DEFINE x == Max(before)
  <2> HIDE DEF x
  <2>5. PICK h \in 1 .. Len(recs) :
          seg.index[x].off = recs[h].off /\ seg.index[x].pos = Bytes(recs, h - 1)
    BY <1>1, <2>4 DEF Points, x
  <2>6. recs[h].off <= o /\ recs[h].off = seg.base + h - 1 /\ recs[j].off = seg.base + j - 1
    BY <1>4, <2>4, <2>5 DEF x
  <2>7. h <= j
    BY <1>2, <2>6
  <2>8. h - 1 \in 0 .. Len(recs) /\ j - 1 \in h - 1 .. Len(recs)
    BY <1>5, <2>7
  <2>9. Bytes(recs, h - 1) <= Bytes(recs, j - 1) /\ Bytes(recs, h - 1) \in Nat
    BY <1>4, <2>8, BytesGrow, BytesFacts
  <2> QED  BY <1>6, <2>1, <2>5, <2>9 DEF x
<1> QED  BY <1>7, <1>8

\* What a segment has from an offset on, found through its index.
LEMMA ReadSegmentIs ==
  ASSUME NEW seg, NEW recs, recs = Recs(files, seg.base),
         Placed(seg.base, recs), Indexed(seg, recs),
         NEW a \in 1 .. Len(recs) + 1, NEW o \in Nat,
         \A j \in 1 .. Len(recs) : seg.base + j - 1 >= o <=> j >= a
  PROVE  Slice(ReadSegment(seg, o), recs, a, Len(recs))
<1> DEFINE n == Len(recs)
           at == {i \in DOMAIN recs : /\ Bytes(recs, i - 1) >= SeekPosition(seg, o)
                                      /\ recs[i].off >= o}
<1>1. recs \in Seq(Entries) /\ \A j \in 1 .. n : recs[j].off = seg.base + j - 1
  BY DEF Placed
<1>2. n \in Nat /\ DOMAIN recs = 1 .. n
  BY <1>1, LenProperties
<1>3. ASSUME NEW j \in 1 .. n PROVE j \in at <=> j >= a
  <2>1. recs[j].off >= o <=> j >= a
    BY <1>1
  <2>2. recs[j].off >= o => Bytes(recs, j - 1) >= SeekPosition(seg, o)
    BY SeekBefore
  <2> QED  BY <1>2, <2>1, <2>2
<1>4. at = a .. n
  <2>1. at \subseteq 1 .. n /\ a \in 1 .. n + 1
    BY <1>2
  <2> HIDE DEF at, n
  <2>2. \A j \in 1 .. n : j >= a <=> j \in a .. n
    BY <1>2, <2>1
  <2>3. a .. n \subseteq 1 .. n
    BY <1>2, <2>1
  <2> QED  BY <1>3, <2>1, <2>2, <2>3, Zenon
<1>5. ReadSegment(seg, o) = Pick(recs, at)
  BY DEF ReadSegment, Recs
<1>6. a \in Nat /\ a >= 1 /\ a <= n + 1 /\ n <= Len(recs)
  BY <1>2
<1>7. Slice(Pick(recs, at), recs, a, n)
  <2> HIDE DEF n, at
  <2>1. /\ recs \in Seq(Entries) /\ n \in Nat /\ n <= Len(recs) /\ a \in Nat /\ a >= 1
        /\ a <= n + 1 /\ at = a .. n
    BY <1>1, <1>2, <1>4, <1>6
  <2> QED  BY <2>1, PickInterval
<1> QED  BY <1>5, <1>7

-----------------------------------------------------------------------------
(* The files of a log: n segments, at the bases s, that together hold the  *)
(* entries c.                                                              *)

\* Where the j-th record of the i-th segment is in the whole.
At(s, i, j) == s[i] - s[1] + j

Laid(f, n, s, c) ==
    /\ Increasing(s, n) /\ DOMAIN f = First(s, n) /\ c \in Seq(Entries)
    /\ \A i \in 1 .. n : Recs(f, s[i]) \in Seq(Entries)
    /\ \A i \in 1 .. n - 1 : s[i + 1] = s[i] + Len(Recs(f, s[i]))
    /\ s[1] + Len(c) = s[n] + Len(Recs(f, s[n]))
    /\ \A i \in 1 .. n : \A j \in 1 .. Len(Recs(f, s[i])) :
         c[At(s, i, j)] = Recs(f, s[i])[j]
    /\ \A k \in 1 .. Len(c) : c[k].off = s[1] + k - 1

BasesOf(f) == Sorted(DOMAIN f)

ContentsOf(f) ==
    LET bases == BasesOf(f) IN FlattenSeq([i \in DOMAIN bases |-> f[bases[i]].recs])

LEMMA LaidAt ==
  ASSUME NEW f, NEW n \in Nat, NEW s, NEW c, Laid(f, n, s, c), NEW i \in 1 .. n
  PROVE  /\ s[i] \in Nat /\ s[1] \in Nat /\ s[1] <= s[i] /\ s[n] \in Nat /\ s[i] <= s[n]
         /\ Recs(f, s[i]) \in Seq(Entries) /\ Len(Recs(f, s[i])) \in Nat
         /\ Len(c) \in Nat
         /\ i < n => s[i + 1] \in Nat /\ s[i + 1] = s[i] + Len(Recs(f, s[i])) /\ s[i] < s[i + 1]
         /\ s[i] + Len(Recs(f, s[i])) <= s[1] + Len(c)
         /\ s[i] \in DOMAIN f
<1>1. s \in [1 .. n -> Nat] /\ \A x, y \in 1 .. n : x < y => s[x] < s[y]
  BY DEF Laid, Increasing
<1>2. 1 \in 1 .. n /\ n \in 1 .. n /\ (1 < i \/ i = 1) /\ (i < n \/ i = n)
  OBVIOUS
<1>3. s[i] \in Nat /\ s[1] \in Nat /\ s[1] <= s[i] /\ s[n] \in Nat /\ s[i] <= s[n]
  BY <1>1, <1>2
<1>4. \A h \in 1 .. n : Recs(f, s[h]) \in Seq(Entries) /\ Len(Recs(f, s[h])) \in Nat
  BY LenProperties DEF Laid
<1>5. Len(c) \in Nat
  BY LenProperties DEF Laid
<1>6. ASSUME i < n
      PROVE  s[i + 1] \in Nat /\ s[i + 1] = s[i] + Len(Recs(f, s[i])) /\ s[i] < s[i + 1]
             /\ s[i + 1] <= s[n]
  <2>1. i \in 1 .. n - 1 /\ i + 1 \in 1 .. n /\ i < i + 1 /\ (i + 1 < n \/ i + 1 = n)
    BY <1>6
  <2>2. s[i + 1] = s[i] + Len(Recs(f, s[i]))
    BY <2>1 DEF Laid
  <2>3. s[i + 1] \in Nat /\ s[i] < s[i + 1] /\ s[i + 1] <= s[n]
    BY <1>1, <1>3, <2>1
  <2> QED  BY <2>2, <2>3
<1>7. s[1] + Len(c) = s[n] + Len(Recs(f, s[n]))
  BY DEF Laid
<1>8. s[i] + Len(Recs(f, s[i])) <= s[1] + Len(c)
  <2>1. CASE i = n
    BY <1>2, <1>3, <1>4, <1>5, <1>7, <2>1
  <2>2. CASE i < n
    <3>1. Len(Recs(f, s[n])) \in Nat
      BY <1>2, <1>4
    <3> QED  BY <1>3, <1>5, <1>6, <1>7, <2>2, <3>1
  <2> QED  BY <1>2, <2>1, <2>2
<1>9. s[i] \in DOMAIN f
  BY DEF Laid, First
<1> QED  BY <1>3, <1>4, <1>5, <1>6, <1>8, <1>9

\* The entries of a segment are the ones at its offsets.
LEMMA LaidEntry ==
  ASSUME NEW f, NEW n \in Nat, NEW s, NEW c, Laid(f, n, s, c),
         NEW i \in 1 .. n, NEW j \in 1 .. Len(Recs(f, s[i]))
  PROVE  /\ At(s, i, j) \in 1 .. Len(c)
         /\ c[At(s, i, j)] = Recs(f, s[i])[j]
         /\ Recs(f, s[i])[j].off = s[i] + j - 1
<1> DEFINE k == At(s, i, j)
           m == Len(Recs(f, s[i]))
<1>1. /\ s[i] \in Nat /\ s[1] \in Nat /\ s[1] <= s[i] /\ m \in Nat
      /\ Len(c) \in Nat /\ s[i] + m <= s[1] + Len(c)
  BY LaidAt
<1>2. j \in 1 .. m
  OBVIOUS
<1>3. c[k] = Recs(f, s[i])[j]
  BY DEF Laid
<1> HIDE DEF m
<1>4. k \in 1 .. Len(c) /\ s[1] + k - 1 = s[i] + j - 1
  <2>1. PICK x, y, l : x = s[i] /\ y = s[1] /\ l = Len(c)
    OBVIOUS
  <2>2. /\ x \in Nat /\ y \in Nat /\ l \in Nat /\ m \in Nat
        /\ y <= x /\ x + m <= y + l /\ j \in 1 .. m
    BY <1>1, <1>2, <2>1
  <2>3. k = x - y + j
    BY <2>1 DEF At
  <2> HIDE DEF k
  <2>4. k \in 1 .. l /\ y + k - 1 = x + j - 1
    BY ONLY <2>2, <2>3
  <2> QED  BY <2>1, <2>4
<1> HIDE DEF k
<1>5. c[k].off = s[1] + k - 1
  BY <1>4 DEF Laid
<1> QED  BY <1>3, <1>4, <1>5 DEF k

LEMMA LaidPlaced ==
  ASSUME NEW f, NEW n \in Nat, NEW s, NEW c, Laid(f, n, s, c), NEW i \in 1 .. n
  PROVE  Placed(s[i], Recs(f, s[i]))
<1>1. Recs(f, s[i]) \in Seq(Entries)
  BY LaidAt
<1>2. \A j \in 1 .. Len(Recs(f, s[i])) : Recs(f, s[i])[j].off = s[i] + j - 1
  <2> TAKE j \in 1 .. Len(Recs(f, s[i]))
  <2>1. /\ At(s, i, j) \in 1 .. Len(c)
        /\ c[At(s, i, j)] = Recs(f, s[i])[j]
        /\ Recs(f, s[i])[j].off = s[i] + j - 1
    BY LaidEntry
  <2> QED  BY <2>1
<1> QED  BY <1>1, <1>2 DEF Placed

LEMMA LaidIs ==
  ASSUME NEW f, NEW n \in Nat \ {0}, NEW s, NEW c, Laid(f, n, s, c)
  PROVE  /\ BasesOf(f) = s /\ ContentsOf(f) = c
         /\ s \in Seq(Nat) /\ Len(s) = n /\ DOMAIN s = 1 .. n
<1> DEFINE seqs == [i \in 1 .. n |-> Recs(f, s[i])]
           at == [i \in 1 .. n + 1 |-> IF i = n + 1 THEN Len(c) ELSE s[i] - s[1]]
           C == FlattenSeq(seqs)
<1>1. s \in [1 .. n -> Nat] /\ DOMAIN s = 1 .. n /\ s \in Seq(Nat) /\ Len(s) = n
  <2>1. s \in [1 .. n -> Nat]
    BY DEF Laid, Increasing
  <2> QED  BY <2>1
<1>2. BasesOf(f) = s
  <2>1. Increasing(s, n) /\ DOMAIN f = {s[i] : i \in 1 .. n}
    BY DEF Laid, First
  <2>2. n \in Nat
    OBVIOUS
  <2>3. Sorted(DOMAIN f) = s
    BY <2>1, <2>2, SortedIs
  <2> QED  BY <2>3 DEF BasesOf
<1>3. ContentsOf(f) = C
  BY <1>1, <1>2 DEF ContentsOf, Recs
<1>4. Parts(Entries, n, seqs, at)
  <2>1. seqs \in [1 .. n -> Seq(Entries)]
    BY LaidAt
  <2>2. ASSUME NEW i \in 1 .. n + 1 PROVE at[i] \in Nat
    <3>1. CASE i = n + 1
      <4>1. 1 \in 1 .. n
        OBVIOUS
      <4> QED  BY <3>1, <4>1, LaidAt
    <3>2. CASE i # n + 1
      <4>1. i \in 1 .. n
        BY <3>2
      <4>2. s[i] \in Nat /\ s[1] \in Nat /\ s[1] <= s[i] /\ at[i] = s[i] - s[1]
        BY <3>2, <4>1, LaidAt
      <4> QED  BY <4>2
    <3> QED  BY <3>1, <3>2
  <2>3. at[1] = 0
    <3>1. 1 \in 1 .. n /\ 1 # n + 1 /\ 1 \in 1 .. n + 1
      OBVIOUS
    <3>2. s[1] \in Nat
      BY <1>1, <3>1
    <3> QED  BY <3>1, <3>2
  <2>4. ASSUME NEW i \in 1 .. n PROVE at[i + 1] = at[i] + Len(seqs[i])
    <3>1. i \in 1 .. n + 1 /\ i # n + 1 /\ i + 1 \in 1 .. n + 1 /\ (i < n \/ i = n)
      OBVIOUS
    <3>2. at[i] = s[i] - s[1] /\ seqs[i] = Recs(f, s[i])
      BY <3>1
    <3>3. s[i] \in Nat /\ s[1] \in Nat /\ Len(Recs(f, s[i])) \in Nat /\ Len(c) \in Nat
      BY LaidAt
    <3>4. CASE i = n
      <4>1. at[i + 1] = Len(c)
        BY <3>1, <3>4
      <4>2. s[1] + Len(c) = s[i] + Len(Recs(f, s[i]))
        BY <3>4 DEF Laid
      <4> HIDE DEF at, seqs
      <4>3. Len(c) = (s[i] - s[1]) + Len(Recs(f, s[i]))
        BY <3>3, <4>2
      <4> QED  BY ONLY <3>2, <4>1, <4>3
    <3>5. CASE i < n
      <4>1. at[i + 1] = s[i + 1] - s[1]
        BY <3>1, <3>5
      <4>2. s[i + 1] = s[i] + Len(Recs(f, s[i])) /\ s[i + 1] \in Nat
        <5>1. n \in Nat
          OBVIOUS
        <5> HIDE DEF at, seqs
        <5>2. s[i + 1] = s[i] + Len(Recs(f, s[i]))
          <6>1. i \in 1 .. n - 1
            BY <3>5, <5>1
          <6> QED  BY <6>1 DEF Laid
        <5>3. s[i + 1] \in Nat
          BY <3>5, <5>1, LaidAt
        <5> QED  BY <5>2, <5>3
      <4> HIDE DEF at, seqs
      <4> QED  BY <3>2, <3>3, <4>1, <4>2
    <3> QED  BY <3>1, <3>4, <3>5, Zenon
  <2>5. at \in [1 .. n + 1 -> Nat]
    BY <2>2
  <2> HIDE DEF at, seqs
  <2> QED  BY <2>1, <2>3, <2>4, <2>5 DEF Parts
<1>5. Flat(C, Entries, n, seqs, at)
  <2> HIDE DEF at, seqs
  <2> QED  BY <1>4, FlattenIs
<1>6. at[n + 1] = Len(c) /\ Len(c) \in Nat /\ c \in Seq(Entries)
  BY LenProperties DEF Laid
<1>7. C \in Seq(Entries) /\ Len(C) = Len(c)
  BY <1>5, <1>6 DEF Flat
<1>8. ASSUME NEW k \in 1 .. Len(c) PROVE C[k] = c[k]
  <2>1. PICK i \in 1 .. n : \E j \in 1 .. Len(seqs[i]) : k = at[i] + j
    <3> HIDE DEF C, seqs, at
    <3> QED  BY <1>5, <1>6 DEF Flat
  <2>2. PICK j \in 1 .. Len(seqs[i]) : k = at[i] + j
    BY <2>1
  <2>3. C[at[i] + j] = seqs[i][j]
    <3> HIDE DEF C, seqs, at
    <3> QED  BY <1>5 DEF Flat
  <2>4. i \in 1 .. n + 1 /\ i # n + 1
    OBVIOUS
  <2>5. at[i] = s[i] - s[1] /\ seqs[i] = Recs(f, s[i])
    BY <2>4
  <2> HIDE DEF C, seqs, at
  <2>6. c[At(s, i, j)] = Recs(f, s[i])[j]
    <3>1. j \in 1 .. Len(Recs(f, s[i])) /\ n \in Nat
      BY <2>5
    <3> QED  BY <3>1 DEF Laid
  <2> QED  BY <2>2, <2>3, <2>5, <2>6 DEF At
<1>9. C = c
  <2> HIDE DEF C
  <2> QED  BY <1>6, <1>7, <1>8, SeqEqual
<1> QED  BY <1>1, <1>2, <1>3, <1>9

\* The same records, whatever else changes.
LEMMA LaidSame ==
  ASSUME NEW f, NEW n \in Nat \ {0}, NEW s, NEW c, Laid(f, n, s, c),
         NEW g, DOMAIN g = DOMAIN f, \A b \in DOMAIN f : Recs(g, b) = Recs(f, b)
  PROVE  Laid(g, n, s, c)
<1>1. \A i \in 1 .. n : Recs(g, s[i]) = Recs(f, s[i])
  BY DEF Laid, First
<1>2. n \in 1 .. n /\ \A i \in 1 .. n - 1 : i \in 1 .. n
  OBVIOUS
<1>3. Recs(g, s[n]) = Recs(f, s[n])
  BY <1>1, <1>2
<1> QED  BY <1>1, <1>2, <1>3 DEF Laid

\* The first segment of an empty log.
LEMMA LaidNew ==
  ASSUME NEW f, DOMAIN f = {0}, Recs(f, 0) = << >>
  PROVE  Laid(f, 1, <<0>>, << >>)
<1> DEFINE s == <<0>>
<1>1. s \in [1 .. 1 -> Nat] /\ s[1] = 0 /\ \A i \in 1 .. 1 : i = 1
  OBVIOUS
<1>2. Increasing(s, 1)
  BY <1>1 DEF Increasing
<1>3. First(s, 1) = {0}
  BY <1>1 DEF First
<1>4. << >> \in Seq(Entries) /\ Len(<< >>) = 0
  OBVIOUS
<1> HIDE DEF s
<1>5. /\ \A i \in 1 .. 1 : Recs(f, s[i]) \in Seq(Entries)
      /\ s[1] + Len(<< >>) = s[1] + Len(Recs(f, s[1]))
  BY <1>1, <1>4
<1>6. \A i \in 1 .. 1 : \A j \in 1 .. Len(Recs(f, s[i])) : FALSE
  BY <1>1, <1>4
<1>7. 1 .. 1 - 1 = {} /\ 1 .. Len(<< >>) = {}
  BY <1>4
<1>8. Laid(f, 1, s, << >>)
  BY <1>2, <1>3, <1>4, <1>5, <1>6, <1>7, Zenon DEF Laid
<1> QED  BY <1>8 DEF s

\* One more record in the last segment.
LEMMA LaidAppend ==
  ASSUME NEW f, NEW n \in Nat \ {0}, NEW s, NEW c, Laid(f, n, s, c),
         NEW g, DOMAIN g = DOMAIN f,
         \A i \in 1 .. n - 1 : Recs(g, s[i]) = Recs(f, s[i]),
         NEW e \in Entries, e.off = s[1] + Len(c),
         Recs(g, s[n]) = Append(Recs(f, s[n]), e)
  PROVE  Laid(g, n, s, Append(c, e))
<1> DEFINE d == Append(c, e)
           m == Len(c)
           q == Len(Recs(f, s[n]))
<1>0. n \in Nat /\ 1 \in 1 .. n /\ n \in 1 .. n
  OBVIOUS
<1>1. c \in Seq(Entries) /\ m \in Nat /\ d \in Seq(Entries) /\ Len(d) = m + 1
      /\ (\A k \in 1 .. m : d[k] = c[k]) /\ d[m + 1] = e
  BY AppendProperties DEF Laid
<1>2. /\ s[1] \in Nat /\ s[n] \in Nat /\ s[1] <= s[n] /\ q \in Nat
      /\ Recs(f, s[n]) \in Seq(Entries) /\ s[1] + m = s[n] + q
  <2>1. s[1] + m = s[n] + q
    BY DEF Laid
  <2>2. s[1] \in Nat /\ s[n] \in Nat /\ s[1] <= s[n] /\ q \in Nat
    BY <1>0, LaidAt
  <2>3. Recs(f, s[n]) \in Seq(Entries)
    BY <1>0 DEF Laid
  <2> QED  BY <2>1, <2>2, <2>3
<1>3. /\ Recs(g, s[n]) \in Seq(Entries) /\ Len(Recs(g, s[n])) = q + 1
      /\ \A j \in 1 .. q : Recs(g, s[n])[j] = Recs(f, s[n])[j]
      /\ Recs(g, s[n])[q + 1] = e
  BY <1>2, AppendProperties
<1> HIDE DEF d, m, q
<1>31. s[1] \in Nat /\ s[n] \in Nat /\ m \in Nat /\ q \in Nat /\ s[1] + m = s[n] + q
  BY <1>1, <1>2
<1>32. s[1] + (m + 1) = s[n] + (q + 1) /\ s[n] - s[1] + (q + 1) = m + 1
  BY ONLY <1>31
<1>4. \A i \in 1 .. n : Recs(g, s[i]) \in Seq(Entries)
  <2> TAKE i \in 1 .. n
  <2>1. CASE i = n
    BY <1>3, <2>1
  <2>2. CASE i # n
    <3>1. i \in 1 .. n - 1
      BY <2>2
    <3> QED  BY <3>1 DEF Laid
  <2> QED  BY <2>1, <2>2
<1>5. \A i \in 1 .. n - 1 : s[i + 1] = s[i] + Len(Recs(g, s[i]))
  BY DEF Laid
<1>6. s[1] + Len(d) = s[n] + Len(Recs(g, s[n]))
  <2>1. Len(d) = m + 1 /\ Len(Recs(g, s[n])) = q + 1
    BY <1>1, <1>3
  <2> QED  BY <1>32, <2>1, Zenon
<1>7. ASSUME NEW i \in 1 .. n, NEW j \in 1 .. Len(Recs(g, s[i]))
      PROVE  d[At(s, i, j)] = Recs(g, s[i])[j]
  <2>1. CASE i = n /\ j = q + 1
    <3> QED  BY <1>1, <1>3, <1>32, <2>1 DEF At
  <2>2. CASE j \in 1 .. Len(Recs(f, s[i])) /\ Recs(g, s[i])[j] = Recs(f, s[i])[j]
    <3>0. j \in 1 .. Len(Recs(f, s[i]))
      BY <2>2
    <3>1. At(s, i, j) \in 1 .. Len(c) /\ c[At(s, i, j)] = Recs(f, s[i])[j]
      BY <1>0, <3>0, LaidEntry
    <3> QED  BY <1>1, <2>2, <3>1 DEF m
  <2>3. CASE i # n
    <3>1. i \in 1 .. n - 1
      BY <2>3
    <3>2. Recs(g, s[i]) = Recs(f, s[i])
      BY <3>1
    <3> QED  BY <2>2, <3>2
  <2>4. CASE i = n /\ j # q + 1
    <3>1. j \in 1 .. q
      BY <1>2, <1>3, <2>4
    <3> QED  BY <1>3, <2>2, <2>4, <3>1 DEF q
  <2> QED  BY <2>1, <2>3, <2>4
<1>8. ASSUME NEW k \in 1 .. Len(d) PROVE d[k].off = s[1] + k - 1
  <2>1. CASE k = m + 1
    BY <1>1, <1>2, <2>1 DEF m
  <2>2. CASE k # m + 1
    <3>1. k \in 1 .. m
      BY <1>1, <2>2
    <3> QED  BY <1>1, <3>1 DEF Laid, m
  <2> QED  BY <2>1, <2>2
<1>9. Increasing(s, n) /\ DOMAIN g = First(s, n)
  BY DEF Laid
<1>10. Laid(g, n, s, d)
  BY <1>1, <1>4, <1>5, <1>6, <1>7, <1>8, <1>9 DEF Laid
<1> QED  BY <1>10 DEF d

\* A new segment after the last record.
LEMMA LaidRotate ==
  ASSUME NEW f, NEW n \in Nat \ {0}, NEW s, NEW c, Laid(f, n, s, c), Recs(f, s[n]) # << >>,
         NEW t, t = s[1] + Len(c),
         NEW g, DOMAIN g = DOMAIN f \cup {t}, Recs(g, t) = << >>,
         \A b \in DOMAIN f : b # t => Recs(g, b) = Recs(f, b)
  PROVE  Laid(g, n + 1, Append(s, t), c)
<1> DEFINE u == Append(s, t)
           q == Len(Recs(f, s[n]))
<1>0. n \in Nat /\ 1 \in 1 .. n /\ n \in 1 .. n /\ n + 1 \in Nat
  OBVIOUS
<1>1. s \in Seq(Nat) /\ Len(s) = n
  BY LaidIs
<1>2. /\ s[1] \in Nat /\ s[n] \in Nat /\ s[1] <= s[n] /\ q \in Nat /\ q # 0
      /\ c \in Seq(Entries) /\ Len(c) \in Nat /\ t = s[n] + q
  <2>1. t = s[n] + q
    BY DEF Laid
  <2>2. s[1] \in Nat /\ s[n] \in Nat /\ s[1] <= s[n] /\ q \in Nat /\ Len(c) \in Nat
    BY <1>0, LaidAt
  <2>3. Recs(f, s[n]) \in Seq(Entries) /\ c \in Seq(Entries)
    BY <1>0 DEF Laid
  <2>4. q # 0
    BY <2>3, EmptySeq
  <2> QED  BY <2>1, <2>2, <2>3, <2>4
<1> HIDE DEF q
<1>3. t \in Nat /\ s[n] < t
  BY <1>2
<1>4. /\ u \in Seq(Nat) /\ Len(u) = n + 1 /\ u[n + 1] = t
      /\ \A i \in 1 .. n : u[i] = s[i]
  BY <1>1, <1>3, AppendProperties
<1> HIDE DEF u
<1>5. \A i \in 1 .. n : s[i] \in Nat /\ s[i] < t /\ Recs(g, s[i]) = Recs(f, s[i])
  <2> TAKE i \in 1 .. n
  <2>1. s[i] \in Nat /\ s[i] <= s[n] /\ s[i] \in DOMAIN f
    BY <1>0, LaidAt
  <2>2. s[i] < t
    BY <1>2, <1>3, <2>1
  <2> QED  BY <2>1, <2>2
<1>6. Increasing(u, n + 1)
  <2>1. u \in [1 .. n + 1 -> Nat]
    BY <1>0, <1>4
  <2>2. ASSUME NEW i \in 1 .. n + 1, NEW j \in 1 .. n + 1, i < j PROVE u[i] < u[j]
    <3>1. i \in 1 .. n /\ (j \in 1 .. n \/ j = n + 1)
      BY <1>0, <2>2
    <3>2. CASE j = n + 1
      BY <1>4, <1>5, <3>1, <3>2
    <3>3. CASE j \in 1 .. n
      <4>1. s[i] < s[j]
        BY <2>2, <3>1, <3>3 DEF Laid, Increasing
      <4> QED  BY <1>4, <3>1, <3>3, <4>1
    <3> QED  BY <3>1, <3>2, <3>3
  <2> QED  BY <2>1, <2>2 DEF Increasing
<1>7. DOMAIN g = First(u, n + 1)
  <2>1. DOMAIN f = First(s, n)
    BY DEF Laid
  <2>2. First(u, n + 1) = First(s, n) \cup {t}
    <3>1. \A i \in 1 .. n + 1 : i \in 1 .. n \/ i = n + 1
      BY <1>0
    <3>2. \A i \in 1 .. n : i \in 1 .. n + 1
      BY <1>0
    <3>3. n + 1 \in 1 .. n + 1
      BY <1>0
    <3> QED  BY <1>4, <3>1, <3>2, <3>3 DEF First
  <2> QED  BY <2>1, <2>2
<1>8. << >> \in Seq(Entries) /\ Len(<< >>) = 0
  OBVIOUS
<1>9. ASSUME NEW i \in 1 .. n + 1
      PROVE  i = n + 1 \/ i \in 1 .. n
  BY <1>0
<1>10. \A i \in 1 .. n + 1 : Recs(g, u[i]) \in Seq(Entries)
  <2> TAKE i \in 1 .. n + 1
  <2>1. CASE i = n + 1
    BY <1>4, <1>8, <2>1
  <2>2. CASE i \in 1 .. n
    BY <1>4, <1>5, <2>2 DEF Laid
  <2> QED  BY <1>9, <2>1, <2>2
<1>11. ASSUME NEW i \in 1 .. (n + 1) - 1 PROVE u[i + 1] = u[i] + Len(Recs(g, u[i]))
  <2>0. i \in 1 .. n
    BY <1>0
  <2>1. CASE i = n
    <3>1. u[i + 1] = t /\ u[i] = s[n] /\ Recs(g, u[i]) = Recs(f, s[n])
      BY <1>0, <1>4, <1>5, <2>1
    <3> QED  BY <1>2, <3>1 DEF q
  <2>2. CASE i # n
    <3>1. i \in 1 .. n - 1 /\ i + 1 \in 1 .. n
      BY <2>0, <2>2
    <3>2. s[i + 1] = s[i] + Len(Recs(f, s[i]))
      BY <3>1 DEF Laid
    <3>3. u[i + 1] = s[i + 1] /\ u[i] = s[i] /\ Recs(g, u[i]) = Recs(f, s[i])
      BY <1>4, <1>5, <2>0, <3>1
    <3> QED  BY <3>2, <3>3
  <2> QED  BY <2>1, <2>2
<1>12. u[1] = s[1]
  BY <1>0, <1>4
<1>13. u[1] + Len(c) = u[n + 1] + Len(Recs(g, u[n + 1]))
  BY <1>2, <1>3, <1>4, <1>8, <1>12
<1>14. ASSUME NEW i \in 1 .. n + 1, NEW j \in 1 .. Len(Recs(g, u[i]))
       PROVE  c[At(u, i, j)] = Recs(g, u[i])[j]
  <2>1. i # n + 1
    BY <1>4, <1>8
  <2>2. i \in 1 .. n
    BY <1>9, <2>1
  <2>3. u[i] = s[i] /\ Recs(g, u[i]) = Recs(f, s[i]) /\ j \in 1 .. Len(Recs(f, s[i]))
    BY <1>4, <1>5, <2>2
  <2>4. c[At(s, i, j)] = Recs(f, s[i])[j]
    BY <2>2, <2>3 DEF Laid
  <2> QED  BY <1>12, <2>3, <2>4 DEF At
<1>15. \A k \in 1 .. Len(c) : c[k].off = u[1] + k - 1
  BY <1>12 DEF Laid
<1>16. Laid(g, n + 1, u, c)
  BY <1>2, <1>6, <1>7, <1>10, <1>11, <1>13, <1>14, <1>15 DEF Laid
<1> QED  BY <1>16 DEF u

\* The first segment is gone, and the entries it had.
LEMMA LaidRetain ==
  ASSUME NEW f, NEW n \in Nat, n > 1, NEW s, NEW c, Laid(f, n, s, c),
         NEW g, DOMAIN g = DOMAIN f \ {s[1]}, \A b \in DOMAIN g : Recs(g, b) = Recs(f, b),
         NEW u \in [1 .. n - 1 -> Nat], \A i \in 1 .. n - 1 : u[i] = s[i + 1],
         NEW q, q = Len(Recs(f, s[1])), NEW d, Slice(d, c, q + 1, Len(c))
  PROVE  Laid(g, n - 1, u, d)
<1> DEFINE m == Len(c)
<1>0. /\ 1 \in 1 .. n /\ n \in 1 .. n /\ 1 < n /\ n - 1 \in Nat /\ 1 \in 1 .. n - 1
      /\ n - 1 \in 1 .. n - 1 /\ (n - 1) + 1 = n /\ 1 + 1 = 2
  OBVIOUS
<1>1. s \in [1 .. n -> Nat] /\ \A x, y \in 1 .. n : x < y => s[x] < s[y]
  BY DEF Laid, Increasing
<1>2. /\ s[1] \in Nat /\ q \in Nat /\ m \in Nat /\ s[1] + q <= s[1] + m
  BY <1>0, LaidAt
<1>3. s[2] = s[1] + q
  <2>1. s[1 + 1] = s[1] + Len(Recs(f, s[1]))
    BY <1>0 DEF Laid
  <2> QED  BY <1>0, <2>1
<1>4. u[1] = s[1] + q
  BY <1>0, <1>3
<1>5. d \in Seq(Entries) /\ Len(d) = m - q /\ \A k \in 1 .. m - q : d[k] = c[q + k]
  <2>1. /\ d \in Seq(Entries) /\ Len(d) = m - (q + 1) + 1
        /\ \A k \in 1 .. m - (q + 1) + 1 : d[k] = c[(q + 1) + k - 1]
    BY DEF Slice
  <2>2. m - (q + 1) + 1 = m - q /\ \A k \in 1 .. m - q : (q + 1) + k - 1 = q + k
    BY <1>2
  <2> QED  BY <2>1, <2>2
<1> HIDE DEF m
<1>6. \A i \in 1 .. n - 1 : i + 1 \in 1 .. n /\ 1 < i + 1
  BY <1>0
<1>7. \A i \in 1 .. n - 1 : /\ s[i + 1] \in Nat /\ s[1] < s[i + 1] /\ s[i + 1] \in DOMAIN g
                            /\ u[i] = s[i + 1] /\ Recs(g, u[i]) = Recs(f, s[i + 1])
  <2> TAKE i \in 1 .. n - 1
  <2>1. s[i + 1] \in Nat /\ s[1] < s[i + 1]
    BY <1>0, <1>1, <1>6
  <2>2. s[i + 1] \in DOMAIN f
    BY <1>6 DEF Laid, First
  <2>3. s[i + 1] # s[1]
    BY <1>2, <2>1
  <2> QED  BY <2>1, <2>2, <2>3
<1>8. Increasing(u, n - 1)
  <2>1. ASSUME NEW i \in 1 .. n - 1, NEW j \in 1 .. n - 1, i < j PROVE u[i] < u[j]
    <3>1. i + 1 < j + 1
      BY <2>1
    <3>2. s[i + 1] < s[j + 1]
      BY <1>1, <1>6, <3>1
    <3> QED  BY <3>2
  <2> QED  BY <2>1 DEF Increasing
<1>9. DOMAIN g = First(u, n - 1)
  <2>1. \A i \in 1 .. n - 1 : u[i] \in DOMAIN g
    BY <1>7
  <2>2. ASSUME NEW b \in DOMAIN g PROVE \E i \in 1 .. n - 1 : b = u[i]
    <3>1. PICK i \in 1 .. n : b = s[i]
      BY DEF Laid, First
    <3>2. i # 1
      BY <3>1
    <3>3. i - 1 \in 1 .. n - 1 /\ (i - 1) + 1 = i
      BY <1>0, <3>2
    <3>4. b = u[i - 1]
      BY <3>1, <3>3
    <3> QED  BY <3>3, <3>4
  <2>3. \A b \in DOMAIN g : b \in First(u, n - 1)
    BY <2>2, Zenon DEF First
  <2>4. \A b \in First(u, n - 1) : b \in DOMAIN g
    BY <2>1, Zenon DEF First
  <2> QED  BY <2>3, <2>4, Zenon
<1>10. \A i \in 1 .. n - 1 : Recs(g, u[i]) \in Seq(Entries)
  BY <1>6, <1>7 DEF Laid
<1>11. ASSUME NEW i \in 1 .. (n - 1) - 1 PROVE u[i + 1] = u[i] + Len(Recs(g, u[i]))
  <2>1. i \in 1 .. n - 1 /\ i + 1 \in 1 .. n - 1
    BY <1>0
  <2>2. s[(i + 1) + 1] = s[i + 1] + Len(Recs(f, s[i + 1]))
    BY <2>1 DEF Laid
  <2>3. u[i + 1] = s[(i + 1) + 1] /\ u[i] = s[i + 1] /\ Recs(g, u[i]) = Recs(f, s[i + 1])
    BY <1>7, <2>1
  <2> QED  BY <2>2, <2>3
<1>12. u[1] + Len(d) = u[n - 1] + Len(Recs(g, u[n - 1]))
  <2>1. s[1] + m = s[n] + Len(Recs(f, s[n]))
    BY DEF Laid, m
  <2>2. u[n - 1] = s[n] /\ Recs(g, u[n - 1]) = Recs(f, s[n])
    BY <1>0, <1>7
  <2>3. (s[1] + q) + (m - q) = s[1] + m
    <3>1. s[1] \in Nat /\ q \in Nat /\ m \in Nat
      BY <1>2
    <3>2. PICK x : x = s[1]
      OBVIOUS
    <3>3. x \in Nat
      BY <3>1, <3>2
    <3>4. (x + q) + (m - q) = x + m
      BY ONLY <3>1, <3>3
    <3> QED  BY <3>2, <3>4
  <2> QED  BY <1>4, <1>5, <2>1, <2>2, <2>3
<1>13. ASSUME NEW i \in 1 .. n - 1, NEW j \in 1 .. Len(Recs(g, u[i]))
       PROVE  d[At(u, i, j)] = Recs(g, u[i])[j]
  <2> DEFINE h == i + 1
             k == At(u, i, j)
  <2>1. h \in 1 .. n /\ j \in 1 .. Len(Recs(f, s[h])) /\ u[i] = s[h]
        /\ Recs(g, u[i]) = Recs(f, s[h])
    BY <1>6, <1>7
  <2> HIDE DEF h
  <2>2. At(s, h, j) \in 1 .. m /\ c[At(s, h, j)] = Recs(f, s[h])[j]
    BY <2>1, LaidEntry DEF m
  <2>3. s[h] \in Nat /\ s[2] <= s[h] /\ j \in Nat /\ j >= 1
    <3>1. 2 \in 1 .. n /\ (2 < h \/ h = 2) /\ j \in Nat /\ j >= 1
      BY <1>0 DEF h
    <3> QED  BY <1>1, <2>1, <3>1
  <2>4. k \in 1 .. m - q /\ q + k = At(s, h, j)
    <3>1. k = s[h] - (s[1] + q) + j
      BY <1>4, <2>1 DEF At
    <3>2. At(s, h, j) = s[h] - s[1] + j
      BY DEF At
    <3> HIDE DEF k
    <3>3. /\ s[1] \in Nat /\ q \in Nat /\ m \in Nat /\ s[h] \in Nat /\ j \in Nat
          /\ s[1] + q <= s[h] /\ j >= 1 /\ At(s, h, j) <= m
      BY <1>2, <1>3, <2>2, <2>3
    <3>4. PICK x, y, a : x = s[h] /\ y = s[1] /\ a = At(s, h, j)
      OBVIOUS
    <3>5. /\ y \in Nat /\ q \in Nat /\ m \in Nat /\ x \in Nat /\ j \in Nat
          /\ y + q <= x /\ j >= 1 /\ a <= m
          /\ k = x - (y + q) + j /\ a = x - y + j
      BY ONLY <3>1, <3>2, <3>3, <3>4
    <3>6. k \in 1 .. m - q /\ q + k = a
      BY ONLY <3>5
    <3> QED  BY ONLY <3>4, <3>6
  <2> HIDE DEF k
  <2>5. d[k] = c[q + k]
    BY <1>5, <2>4
  <2> QED  BY <2>1, <2>2, <2>4, <2>5 DEF k
<1>14. ASSUME NEW k \in 1 .. Len(d) PROVE d[k].off = u[1] + k - 1
  <2>1. k \in 1 .. m - q /\ q + k \in 1 .. m
    BY <1>2, <1>5
  <2>2. d[k] = c[q + k] /\ c[q + k].off = s[1] + (q + k) - 1
    BY <1>5, <2>1 DEF Laid, m
  <2>3. s[1] + (q + k) - 1 = (s[1] + q) + k - 1
    <3>1. s[1] \in Nat /\ q \in Nat /\ k \in Nat
      BY <1>2, <2>1
    <3> QED  BY ONLY <3>1
  <2> QED  BY <1>4, <2>2, <2>3
<1>15. d \in Seq(Entries)
  BY <1>5
<1> QED  BY <1>8, <1>9, <1>10, <1>11, <1>12, <1>13, <1>14, <1>15 DEF Laid

\* Two sequences cut from the same places are the same.
LEMMA SliceEqual ==
  ASSUME NEW c \in Seq(Entries), NEW a \in Nat, NEW b \in Nat, NEW t, NEW u,
         Slice(t, c, a, b), Slice(u, c, a, b)
  PROVE  t = u
<1>1. t \in Seq(Entries) /\ u \in Seq(Entries) /\ Len(t) = b - a + 1 /\ Len(u) = b - a + 1
  BY DEF Slice
<1>2. \A i \in 1 .. b - a + 1 : t[i] = u[i]
  BY DEF Slice
<1>3. Len(t) = Len(u) /\ \A i \in 1 .. Len(t) : t[i] = u[i]
  BY <1>1, <1>2
<1> QED  BY <1>1, <1>3, SeqEqual

-----------------------------------------------------------------------------
(* PartitionLog::read of segments that are laid out.                       *)

\* The first position with an offset from o on in a segment of l records at
\* x, and how far x is above m.
From(x, l, o) == IF o <= x THEN 1 ELSE IF o >= x + l THEN l + 1 ELSE o - x + 1

Above(x, m) == IF x >= m THEN x - m ELSE 0

Windowed(x, l, o, m, a) ==
    /\ a \in 1 .. l + 1 /\ Above(x, m) \in Nat
    /\ Above(x + l, m) = Above(x, m) + (l - a + 1)
    /\ a <= l => x + a - 1 = m + Above(x, m)
    /\ \A j \in 1 .. l : x + j - 1 >= o <=> j >= a

LEMMA Window ==
  ASSUME NEW x \in Nat, NEW l \in Nat, NEW o \in Nat, NEW m \in Nat,
         m = o \/ (o <= m /\ m <= x)
  PROVE  Windowed(x, l, o, m, From(x, l, o))
BY DEF From, Above, Windowed

Piece(i, o) == IF Skipped(i, o) THEN << >> ELSE ReadSegment(segments[i], o)

LEMMA PieceIs ==
  ASSUME NEW n \in Nat, NEW s, NEW c, Laid(files, n, s, c), Len(segments) = n,
         NEW i \in 1 .. n, \A h \in 1 .. n : segments[h].base = s[h],
         Indexed(segments[i], Recs(files, s[i])), NEW o \in Nat
  PROVE  LET recs == Recs(files, s[i]) IN
         Slice(Piece(i, o), recs, From(s[i], Len(recs), o), Len(recs))
<1> DEFINE recs == Recs(files, s[i])
           l == Len(recs)
           a == From(s[i], l, o)
<1>1. s[i] \in Nat /\ l \in Nat /\ recs \in Seq(Entries)
  BY LaidAt
<1>2. a \in 1 .. l + 1 /\ \A j \in 1 .. l : s[i] + j - 1 >= o <=> j >= a
  <2> HIDE DEF l
  <2>1. Windowed(s[i], l, o, o, a)
    BY <1>1, Window
  <2> QED  BY <2>1 DEF Windowed
<1>3. CASE Skipped(i, o)
  <2>1. i < n /\ i \in 1 .. n - 1 /\ i + 1 \in 1 .. n /\ o >= s[i + 1]
    BY <1>3 DEF Skipped
  <2>2. s[i + 1] = s[i] + l
    BY <2>1 DEF Laid
  <2>3. l # 0
    <3>1. s[i] < s[i + 1]
      BY <2>1, LaidAt
    <3> HIDE DEF l
    <3> QED  BY <1>1, <2>2, <3>1
  <2>4. a = l + 1
    <3> HIDE DEF l
    <3> QED  BY <1>1, <2>1, <2>2, <2>3 DEF From
  <2>5. Piece(i, o) = << >>
    BY <1>3 DEF Piece
  <2>6. << >> \in Seq(Entries) /\ Len(<< >>) = 0 /\ l - (l + 1) + 1 = 0
    BY <1>1
  <2> HIDE DEF a, l, recs
  <2>7. Slice(<< >>, recs, a, l)
    BY <1>1, <2>4, <2>6 DEF Slice
  <2> QED  BY <2>5, <2>7 DEF a, l, recs
<1>4. CASE ~Skipped(i, o)
  <2>1. Piece(i, o) = ReadSegment(segments[i], o)
    BY <1>4 DEF Piece
  <2>2. segments[i].base = s[i] /\ Placed(s[i], recs)
    BY LaidPlaced
  <2> HIDE DEF a
  <2>3. Slice(ReadSegment(segments[i], o), recs, a, l)
    <3> DEFINE seg == segments[i]
    <3>1. /\ recs = Recs(files, seg.base) /\ Placed(seg.base, recs) /\ Indexed(seg, recs)
          /\ a \in 1 .. Len(recs) + 1
          /\ \A j \in 1 .. Len(recs) : seg.base + j - 1 >= o <=> j >= a
      BY <1>2, <2>2
    <3> HIDE DEF seg, recs
    <3>2. Slice(ReadSegment(seg, o), recs, a, Len(recs))
      BY <3>1, ReadSegmentIs
    <3> QED  BY <3>2 DEF seg
  <2> QED  BY <2>1, <2>3 DEF a
<1> QED  BY <1>3, <1>4

\* What is in memory about the segments agrees with the files.
Mirrors(segs, f, n, s) ==
    /\ segs \in Seq(Segment) /\ Len(segs) = n
    /\ \A i \in 1 .. n : segs[i].base = s[i] /\ Indexed(segs[i], Recs(f, s[i]))

LEMMA ReadIs ==
  ASSUME NEW n \in Nat \ {0}, NEW s, NEW c, Laid(files, n, s, c), Mirrors(segments, files, n, s),
         NEW o \in Nat, o <= s[1] + Len(c), NEW m, m = IF o <= s[1] THEN s[1] ELSE o
  PROVE  Slice(Read(o), c, m - s[1] + 1, Len(c))
<1> DEFINE L(i) == Len(Recs(files, s[i]))
           A(i) == From(s[i], L(i), o)
           end == s[1] + Len(c)
           seqs == [i \in 1 .. n |-> Piece(i, o)]
           at == [i \in 1 .. n + 1 |-> IF i = n + 1 THEN Above(end, m) ELSE Above(s[i], m)]
           R == FlattenSeq(seqs)
<1>0. n \in Nat /\ 1 \in 1 .. n /\ n \in 1 .. n /\ n + 1 \in 1 .. n + 1
  OBVIOUS
<1>1. s[1] \in Nat /\ Len(c) \in Nat /\ c \in Seq(Entries) /\ end \in Nat
  <2>1. s[1] \in Nat /\ Len(c) \in Nat
    BY <1>0, LaidAt
  <2>2. c \in Seq(Entries)
    BY DEF Laid
  <2> QED  BY <2>1, <2>2
<1>2. m \in Nat /\ s[1] <= m /\ m <= end /\ (m = o \/ (o <= m /\ m = s[1]))
  BY <1>1
<1>3. Read(o) = R
  <2>1. DOMAIN segments = 1 .. n
    BY LenProperties DEF Mirrors
  <2> QED  BY <2>1 DEF Read, Piece
<1>4. ASSUME NEW i \in 1 .. n
      PROVE  /\ s[i] \in Nat /\ L(i) \in Nat /\ s[1] <= s[i]
             /\ A(i) \in 1 .. L(i) + 1 /\ Above(s[i], m) \in Nat
             /\ Above(s[i] + L(i), m) = Above(s[i], m) + (L(i) - A(i) + 1)
             /\ A(i) <= L(i) => s[i] + A(i) - 1 = m + Above(s[i], m)
  <2>1. s[i] \in Nat /\ L(i) \in Nat /\ s[1] <= s[i]
    BY <1>0, LaidAt
  <2>2. m = o \/ (o <= m /\ m <= s[i])
    BY <1>2, <2>1
  <2> DEFINE x == s[i]
             l == L(i)
  <2>3. x \in Nat /\ l \in Nat /\ m \in Nat /\ (m = o \/ (o <= m /\ m <= x))
    BY <1>2, <2>1, <2>2
  <2> HIDE DEF x, l
  <2>4. Windowed(x, l, o, m, From(x, l, o))
    BY <2>3, Window
  <2> QED  BY <2>1, <2>4, Zenon DEF x, l, Windowed
<1>5. ASSUME NEW i \in 1 .. n PROVE Slice(Piece(i, o), Recs(files, s[i]), A(i), L(i))
  <2>1. /\ Len(segments) = n /\ \A h \in 1 .. n : segments[h].base = s[h]
        /\ Indexed(segments[i], Recs(files, s[i]))
    BY DEF Mirrors
  <2> QED  BY <1>0, <2>1, PieceIs
<1> HIDE DEF L, A
<1>6. ASSUME NEW i \in 1 .. n
      PROVE  /\ Piece(i, o) \in Seq(Entries) /\ Len(Piece(i, o)) = L(i) - A(i) + 1
             /\ \A j \in 1 .. Len(Piece(i, o)) :
                  Piece(i, o)[j] = Recs(files, s[i])[A(i) + j - 1]
  BY <1>5 DEF Slice
<1>7. ASSUME NEW i \in 1 .. n PROVE at[i] = Above(s[i], m) /\ at[i + 1] = Above(s[i] + L(i), m)
  <2>1. i \in 1 .. n + 1 /\ i # n + 1 /\ i + 1 \in 1 .. n + 1 /\ (i < n \/ i = n)
    BY <1>0
  <2>2. at[i] = Above(s[i], m)
    BY <2>1
  <2>3. CASE i = n
    <3>1. end = s[i] + L(i)
      BY <2>3 DEF Laid, L
    <3>2. at[i + 1] = Above(end, m)
      BY <2>1, <2>3
    <3> QED  BY <2>2, <3>1, <3>2
  <2>4. CASE i < n
    <3>1. i \in 1 .. n - 1 /\ i + 1 # n + 1
      BY <2>4
    <3>2. s[i + 1] = s[i] + L(i)
      BY <3>1 DEF Laid, L
    <3>3. at[i + 1] = Above(s[i + 1], m)
      BY <2>1, <3>1
    <3> QED  BY <2>2, <3>2, <3>3
  <2> QED  BY <2>1, <2>3, <2>4
<1>8. Parts(Entries, n, seqs, at)
  <2>1. seqs \in [1 .. n -> Seq(Entries)]
    BY <1>6
  <2>2. at \in [1 .. n + 1 -> Nat]
    <3>1. Above(end, m) \in Nat
      BY <1>1, <1>2 DEF Above
    <3>2. \A i \in 1 .. n + 1 : i # n + 1 => i \in 1 .. n
      BY <1>0
    <3>3. ASSUME NEW i \in 1 .. n + 1 PROVE at[i] \in Nat
      BY <1>4, <3>1, <3>2
    <3> QED  BY <3>3
  <2>3. at[1] = 0
    <3>1. at[1] = Above(s[1], m)
      BY <1>0, <1>7
    <3> HIDE DEF at
    <3> QED  BY <1>1, <1>2, <3>1 DEF Above
  <2>4. \A i \in 1 .. n : at[i + 1] = at[i] + Len(seqs[i])
    <3> TAKE i \in 1 .. n
    <3>1. seqs[i] = Piece(i, o)
      OBVIOUS
    <3> HIDE DEF at, seqs
    <3>2. at[i] = Above(s[i], m) /\ at[i + 1] = Above(s[i] + L(i), m)
      BY <1>7
    <3>3. Len(seqs[i]) = L(i) - A(i) + 1
      BY <1>6, <3>1
    <3>4. Above(s[i] + L(i), m) = Above(s[i], m) + (L(i) - A(i) + 1)
      BY <1>4
    <3> QED  BY ONLY <3>2, <3>3, <3>4
  <2> HIDE DEF at, seqs
  <2> QED  BY <2>1, <2>2, <2>3, <2>4 DEF Parts
<1>9. Flat(R, Entries, n, seqs, at)
  <2> HIDE DEF at, seqs
  <2> QED  BY <1>8, FlattenIs
<1> DEFINE a == m - s[1] + 1
           w == Len(c) - a + 1
<1>10. at[n + 1] = w /\ w \in Nat
  <2>1. at[n + 1] = Above(end, m)
    BY <1>0
  <2> HIDE DEF at
  <2> QED  BY <1>1, <1>2, <2>1 DEF Above
<1>11. R \in Seq(Entries) /\ Len(R) = w
  <2> HIDE DEF R, at, seqs, w
  <2> QED  BY <1>9, <1>10 DEF Flat
<1>12. ASSUME NEW k \in 1 .. w PROVE R[k] = c[a + k - 1]
  <2> HIDE DEF R, w
  <2>1. PICK i \in 1 .. n : \E j \in 1 .. Len(seqs[i]) : k = at[i] + j
    <3> HIDE DEF seqs, at
    <3> QED  BY <1>9, <1>10 DEF Flat
  <2>2. PICK j \in 1 .. Len(seqs[i]) : k = at[i] + j
    BY <2>1
  <2>3. seqs[i] = Piece(i, o)
    OBVIOUS
  <2> HIDE DEF seqs, at
  <2>4. R[k] = Piece(i, o)[j]
    BY <1>9, <2>2, <2>3 DEF Flat
  <2> DEFINE h == A(i) + j - 1
  <2>5. Piece(i, o)[j] = Recs(files, s[i])[h]
    BY <1>6, <2>3
  <2>6. /\ A(i) \in Nat /\ L(i) \in Nat /\ A(i) >= 1 /\ s[i] \in Nat /\ Above(s[i], m) \in Nat
        /\ A(i) <= L(i) => s[i] + A(i) - 1 = m + Above(s[i], m)
    <3>1. A(i) \in 1 .. L(i) + 1 /\ L(i) \in Nat /\ s[i] \in Nat /\ Above(s[i], m) \in Nat
      BY <1>4, Zenon
    <3>2. A(i) <= L(i) => s[i] + A(i) - 1 = m + Above(s[i], m)
      BY <1>4, Zenon
    <3>3. A(i) \in Nat /\ A(i) >= 1
      BY <3>1
    <3> QED  BY <3>1, <3>2, <3>3, Zenon
  <2>7. j \in Nat /\ j >= 1 /\ j <= L(i) - A(i) + 1 /\ k = Above(s[i], m) + j
    BY <1>6, <1>7, <2>2, <2>3
  <2>8. h \in 1 .. L(i) /\ s[i] - s[1] + h = a + k - 1
    <3>1. s[1] \in Nat /\ m \in Nat /\ s[1] <= m
      BY <1>1, <1>2
    <3>2. A(i) <= L(i)
      BY ONLY <2>6, <2>7
    <3>3. s[i] + A(i) - 1 = m + Above(s[i], m)
      BY <2>6, <3>2
    <3>4. A(i) + j - 1 \in 1 .. L(i)
      BY ONLY <2>6, <2>7
    <3>5. s[i] - s[1] + (A(i) + j - 1) = (m - s[1] + 1) + k - 1
      <4> DEFINE x == s[i]
                 y == s[1]
                 b == A(i)
                 z == Above(s[i], m)
      <4>1. /\ x \in Nat /\ y \in Nat /\ b \in Nat /\ z \in Nat /\ m \in Nat /\ j \in Nat
            /\ k = z + j /\ x + b - 1 = m + z
        BY <2>6, <2>7, <3>1, <3>3
      <4> HIDE DEF x, y, b, z
      <4>2. x - y + (b + j - 1) = (m - y + 1) + k - 1
        BY ONLY <4>1
      <4> QED  BY <4>2 DEF x, y, b, z
    <3> QED  BY <3>4, <3>5
  <2> HIDE DEF h, a
  <2>9. c[At(s, i, h)] = Recs(files, s[i])[h]
    BY <2>8 DEF Laid, L
  <2> QED  BY <2>4, <2>5, <2>8, <2>9 DEF At
<1>13. Slice(R, c, a, Len(c))
  <2> HIDE DEF R, a
  <2> QED  BY <1>11, <1>12 DEF Slice
<1> QED  BY <1>3, <1>13

\* The positions of the entries from an offset on.
Between(S, a, b) == S = a .. b

Positions(c, o) == {i \in DOMAIN c : c[i].off >= o}

LEMMA OffsetsFrom ==
  ASSUME NEW f, NEW n \in Nat \ {0}, NEW s, NEW c, Laid(f, n, s, c),
         NEW o \in Nat, o <= s[1] + Len(c), NEW a, a = IF o <= s[1] THEN 1 ELSE o - s[1] + 1
  PROVE  Between(Positions(c, o), a, Len(c))
<1>1. 1 \in 1 .. n
  OBVIOUS
<1>2. s[1] \in Nat /\ Len(c) \in Nat
  BY <1>1, LaidAt
<1>3. DOMAIN c = 1 .. Len(c)
  BY LenProperties DEF Laid
<1>4. ASSUME NEW i \in 1 .. Len(c) PROVE c[i].off >= o <=> i >= a
  <2>1. c[i].off = s[1] + i - 1
    BY DEF Laid
  <2>2. i \in Nat /\ i >= 1
    BY <1>2
  <2>3. s[1] + i - 1 >= o <=> i >= a
    BY <1>2, <2>2
  <2> QED  BY <2>1, <2>3
<1>5. \A i \in a .. Len(c) : i \in 1 .. Len(c) /\ i >= a
  BY <1>2
<1>6. \A i \in 1 .. Len(c) : i >= a => i \in a .. Len(c)
  BY <1>2
<1> QED  BY <1>3, <1>4, <1>5, <1>6 DEF Positions, Between

LEMMA ReadExactly ==
  ASSUME NEW n \in Nat \ {0}, NEW s, NEW c, Laid(files, n, s, c), Mirrors(segments, files, n, s),
         NEW o \in Nat, o <= s[1] + Len(c)
  PROVE  Read(o) = Pick(c, Positions(c, o))
<1> DEFINE m == IF o <= s[1] THEN s[1] ELSE o
           a == m - s[1] + 1
           at == Positions(c, o)
<1>1. 1 \in 1 .. n
  OBVIOUS
<1>2. s[1] \in Nat /\ Len(c) \in Nat /\ c \in Seq(Entries)
  <2>1. s[1] \in Nat /\ Len(c) \in Nat
    BY <1>1, LaidAt
  <2> QED  BY <2>1 DEF Laid
<1>3. at = a .. Len(c)
  <2>1. a = IF o <= s[1] THEN 1 ELSE o - s[1] + 1
    BY <1>2
  <2> HIDE DEF a
  <2>2. Between(Positions(c, o), a, Len(c))
    BY <2>1, OffsetsFrom
  <2> QED  BY <2>2 DEF Between
<1>4. a \in Nat /\ a >= 1 /\ a <= Len(c) + 1
  BY <1>2
<1>5. Slice(Read(o), c, a, Len(c))
  <2> HIDE DEF at
  <2> QED  BY ReadIs
<1> HIDE DEF a, at
<1>6. Slice(Pick(c, at), c, a, Len(c))
  <2>1. Len(c) <= Len(c)
    BY <1>2
  <2> QED  BY <1>2, <1>3, <1>4, <2>1, PickInterval
<1>7. Read(o) = Pick(c, at)
  BY <1>2, <1>4, <1>5, <1>6, SliceEqual
<1> QED  BY <1>7 DEF at

\* truncate_to keeps the records below the offset.
LEMMA KeptIs ==
  ASSUME NEW n \in Nat \ {0}, NEW s, NEW c, Laid(files, n, s, c), Mirrors(segments, files, n, s),
         s[1] = 0, NEW o \in Nat, o <= Len(c)
  PROVE  /\ Kept(o) \in Seq(AllRecords) /\ Len(Kept(o)) = o
         /\ \A i \in 1 .. o : Kept(o)[i] = c[i].rec
<1> DEFINE all == Read(0)
           at == {i \in DOMAIN all : all[i].off < o}
           before == Pick(all, at)
<1>1. c \in Seq(Entries) /\ Len(c) \in Nat /\ DOMAIN c = 1 .. Len(c)
  BY LenProperties DEF Laid
<1>2. all = c
  <2> DEFINE m == IF 0 <= s[1] THEN s[1] ELSE 0
  <2>1. 0 \in Nat /\ 0 <= s[1] + Len(c) /\ m - s[1] + 1 = 1
    BY <1>1
  <2>2. Slice(Read(0), c, m - s[1] + 1, Len(c))
    BY <2>1, ReadIs
  <2>3. Slice(Read(0), c, 1, Len(c))
    BY <2>1, <2>2
  <2>4. Slice(c, c, 1, Len(c))
    BY <1>1 DEF Slice
  <2> QED  BY <1>1, <2>3, <2>4, SliceEqual
<1> HIDE DEF all
<1>3. at = 1 .. o
  <2>1. \A i \in 1 .. Len(c) : c[i].off = i - 1
    BY DEF Laid
  <2>2. \A i \in 1 .. Len(c) : c[i].off < o <=> i \in 1 .. o
    BY <2>1
  <2>3. \A i \in 1 .. o : i \in 1 .. Len(c)
    BY <1>1
  <2> QED  BY <1>1, <1>2, <2>2, <2>3
<1>4. Slice(before, c, 1, o)
  <2> HIDE DEF at
  <2>1. 1 \in Nat /\ 1 >= 1 /\ 1 <= o + 1
    OBVIOUS
  <2> QED  BY <1>1, <1>2, <1>3, <2>1, PickInterval
<1> HIDE DEF before
<1>5. before \in Seq(Entries) /\ Len(before) = o /\ \A i \in 1 .. o : before[i] = c[i]
  BY <1>4 DEF Slice
<1>6. \A i \in 1 .. o : before[i].rec \in AllRecords
  <2> TAKE i \in 1 .. o
  <2>1. before[i] \in Entries
    BY <1>5, ElementOfSeq
  <2> QED  BY <2>1, EntryFacts
<1>7. Kept(o) = [i \in 1 .. o |-> before[i].rec]
  <2>1. DOMAIN before = 1 .. o
    BY <1>5, LenProperties
  <2> QED  BY <2>1 DEF Kept, before, all
<1> QED  BY <1>5, <1>6, <1>7

-----------------------------------------------------------------------------
(* The records of a producer and what is remembered of them.               *)

LEMMA RecordsFinite ==
  ASSUME NEW c \in Seq(Entries), NEW p
  PROVE  /\ RecordsOf(p, c) \in SUBSET (1 .. Len(c)) /\ IsFiniteSet(RecordsOf(p, c))
         /\ Cardinality(RecordsOf(p, c)) \in Nat /\ Len(c) \in Nat
         /\ \A i \in 1 .. Len(c) : i \in RecordsOf(p, c) <=> c[i].rec.who = p
<1>1. DOMAIN c = 1 .. Len(c) /\ Len(c) \in Nat
  BY LenProperties
<1>2. RecordsOf(p, c) \in SUBSET (1 .. Len(c))
  BY <1>1 DEF RecordsOf
<1>3. IsFiniteSet(1 .. Len(c))
  BY <1>1, FS_Interval
<1>4. IsFiniteSet(RecordsOf(p, c))
  BY <1>2, <1>3, FS_Subset
<1>5. Cardinality(RecordsOf(p, c)) \in Nat
  BY <1>4, FS_CardinalityType
<1>6. \A i \in 1 .. Len(c) : i \in RecordsOf(p, c) <=> c[i].rec.who = p
  BY <1>1 DEF RecordsOf
<1> QED  BY <1>1, <1>2, <1>4, <1>5, <1>6

LEMMA RecordsAppend ==
  ASSUME NEW c \in Seq(Entries), NEW e \in Entries, NEW p
  PROVE  /\ e.rec.who = p =>
              /\ RecordsOf(p, Append(c, e)) = RecordsOf(p, c) \cup {Len(c) + 1}
              /\ Cardinality(RecordsOf(p, Append(c, e))) = Cardinality(RecordsOf(p, c)) + 1
         /\ e.rec.who # p => RecordsOf(p, Append(c, e)) = RecordsOf(p, c)
<1> DEFINE d == Append(c, e)
           n == Len(c)
           A == RecordsOf(p, c)
           B == RecordsOf(p, d)
<1>1. d \in Seq(Entries) /\ Len(d) = n + 1 /\ n \in Nat /\ d[n + 1] = e
      /\ \A i \in 1 .. n : d[i] = c[i]
  BY AppendProperties
<1>2. A \in SUBSET (1 .. n) /\ IsFiniteSet(A) /\ \A i \in 1 .. n : i \in A <=> c[i].rec.who = p
  BY RecordsFinite
<1> HIDE DEF d
<1>3. B \in SUBSET (1 .. n + 1) /\ \A i \in 1 .. n + 1 : i \in B <=> d[i].rec.who = p
  <2>1. B \in SUBSET (1 .. Len(d)) /\ \A i \in 1 .. Len(d) : i \in B <=> d[i].rec.who = p
    BY <1>1, RecordsFinite
  <2> QED  BY <1>1, <2>1
<1> HIDE DEF A, B, n
<1>4. \A i \in 1 .. n + 1 : i \in 1 .. n \/ i = n + 1
  BY <1>1
<1>5. n + 1 \notin A /\ n + 1 \in 1 .. n + 1 /\ \A i \in 1 .. n : i \in 1 .. n + 1
  BY <1>1, <1>2
<1>6. \A i \in 1 .. n : i \in B <=> i \in A
  BY <1>1, <1>2, <1>3, <1>5
<1>7. n + 1 \in B <=> e.rec.who = p
  BY <1>1, <1>3, <1>5
<1>8. e.rec.who = p => B = A \cup {n + 1}
  BY <1>2, <1>3, <1>4, <1>6, <1>7
<1>9. e.rec.who # p => B = A
  BY <1>2, <1>3, <1>4, <1>6, <1>7
<1>10. e.rec.who = p => Cardinality(B) = Cardinality(A) + 1
  BY <1>2, <1>5, <1>8, FS_AddElement
<1> QED  BY <1>8, <1>9, <1>10 DEF A, B, n, d

\* What Recalled has of a producer.
LEMMA RecalledIs ==
  ASSUME NEW c \in Seq(Entries), NEW p \in Producers
  PROVE  /\ RecordsOf(p, c) = {} => Recalled(c)[p] = Unknown
         /\ RecordsOf(p, c) # {} =>
              \E k \in 1 .. Len(c) :
                /\ k \in RecordsOf(p, c) /\ \A i \in RecordsOf(p, c) : i <= k
                /\ c[k].rec.who = p
                /\ Recalled(c)[p] = [seq |-> c[k].rec.seq, off |-> c[k].off]
<1> DEFINE A == RecordsOf(p, c)
           k == Max(A)
<1>1. /\ A \in SUBSET (1 .. Len(c)) /\ Len(c) \in Nat
      /\ \A i \in 1 .. Len(c) : i \in A <=> c[i].rec.who = p
  BY RecordsFinite
<1>2. ASSUME A = {} PROVE Recalled(c)[p] = Unknown
  BY <1>2 DEF Recalled
<1>3. ASSUME A # {}
      PROVE  \E h \in 1 .. Len(c) :
                /\ h \in A /\ \A i \in A : i <= h
                /\ c[h].rec.who = p
                /\ Recalled(c)[p] = [seq |-> c[h].rec.seq, off |-> c[h].off]
  <2>1. Recalled(c)[p] = [seq |-> c[k].rec.seq, off |-> c[k].off]
    BY <1>3 DEF Recalled
  <2> HIDE DEF A
  <2>2. k \in A /\ \A i \in A : k >= i
    BY <1>1, <1>3, Greatest
  <2> HIDE DEF k
  <2>3. k \in 1 .. Len(c) /\ c[k].rec.who = p /\ \A i \in A : i <= k
    BY <1>1, <2>2
  <2> QED  BY <2>1, <2>2, <2>3
<1> QED  BY <1>2, <1>3

LEMMA RecalledType ==
  ASSUME NEW c \in Seq(Entries)
  PROVE  Recalled(c) \in [Producers -> [seq : Int, off : Nat]]
<1>1. ASSUME NEW p \in Producers PROVE Recalled(c)[p] \in [seq : Int, off : Nat]
  <2>1. CASE RecordsOf(p, c) = {}
    <3>1. Recalled(c)[p] = Unknown
      BY <2>1, RecalledIs
    <3> QED  BY <3>1 DEF Unknown
  <2>2. CASE RecordsOf(p, c) # {}
    <3>1. PICK k \in 1 .. Len(c) : Recalled(c)[p] = [seq |-> c[k].rec.seq, off |-> c[k].off]
      BY <2>2, RecalledIs
    <3>2. c[k] \in Entries
      BY ElementOfSeq
    <3>3. c[k].rec.seq \in Nat /\ c[k].off \in Nat
      BY <3>2, EntryFacts, RecordFacts
    <3> QED  BY <3>1, <3>3
  <2> QED  BY <2>1, <2>2
<1> QED  BY <1>1 DEF Recalled

LEMMA RecalledNothing == Recalled(<< >>) = NobodyKnown
<1>1. \A p : RecordsOf(p, << >>) = {}
  BY DEF RecordsOf
<1> QED  BY <1>1 DEF Recalled, NobodyKnown

\* recover_segment and append remember the same.
LEMMA RecalledAppend ==
  ASSUME NEW c \in Seq(Entries), NEW e \in Entries
  PROVE  Recalled(Append(c, e)) = Remember(Recalled(c), e)
<1> DEFINE d == Append(c, e)
           n == Len(c)
           K == Recalled(c)
           last == [seq |-> e.rec.seq, off |-> e.off]
<1>1. d \in Seq(Entries) /\ Len(d) = n + 1 /\ n \in Nat /\ d[n + 1] = e
      /\ \A i \in 1 .. n : d[i] = c[i]
  BY AppendProperties
<1>2. ASSUME NEW p \in Producers, e.rec.who # p PROVE Recalled(d)[p] = K[p]
  <2>1. RecordsOf(p, d) = RecordsOf(p, c)
    BY <1>2, RecordsAppend
  <2>2. CASE RecordsOf(p, c) = {}
    <3>1. K[p] = Unknown
      BY <2>2, RecalledIs
    <3>2. RecordsOf(p, d) = {}
      BY <2>1, <2>2
    <3> HIDE DEF d
    <3>3. Recalled(d)[p] = Unknown
      BY <1>1, <3>2, RecalledIs
    <3> QED  BY <3>1, <3>3
  <2>3. CASE RecordsOf(p, c) # {}
    <3>1. PICK k \in 1 .. n :
            /\ k \in RecordsOf(p, c) /\ \A i \in RecordsOf(p, c) : i <= k
            /\ K[p] = [seq |-> c[k].rec.seq, off |-> c[k].off]
      BY <2>3, RecalledIs
    <3>2. RecordsOf(p, d) # {}
      BY <2>1, <2>3
    <3> HIDE DEF d
    <3>3. PICK h \in 1 .. Len(d) :
            /\ h \in RecordsOf(p, d) /\ \A i \in RecordsOf(p, d) : i <= h
            /\ Recalled(d)[p] = [seq |-> d[h].rec.seq, off |-> d[h].off]
      BY <1>1, <3>2, RecalledIs
    <3>4. h <= k /\ k <= h
      BY <2>1, <3>1, <3>3
    <3>5. h = k
      BY <1>1, <3>4
    <3>6. d[h] = c[k]
      BY <1>1, <3>5
    <3> QED  BY <3>1, <3>3, <3>6
  <2> QED  BY <2>2, <2>3
<1>3. ASSUME NEW p \in Producers, e.rec.who = p PROVE Recalled(d)[p] = last
  <2>1. RecordsOf(p, d) = RecordsOf(p, c) \cup {n + 1}
    BY <1>3, RecordsAppend
  <2>2. RecordsOf(p, d) # {} /\ n + 1 \in RecordsOf(p, d)
    BY <2>1
  <2> HIDE DEF d
  <2>3. PICK h \in 1 .. Len(d) :
          /\ h \in RecordsOf(p, d) /\ \A i \in RecordsOf(p, d) : i <= h
          /\ Recalled(d)[p] = [seq |-> d[h].rec.seq, off |-> d[h].off]
    BY <1>1, <2>2, RecalledIs
  <2>4. h = n + 1
    <3>1. n + 1 <= h /\ h <= n + 1 /\ h \in Nat
      BY <1>1, <2>2, <2>3
    <3> QED  BY <1>1, <3>1
  <2> QED  BY <1>1, <2>3, <2>4
<1>4. Recalled(d) = [p \in Producers |-> Recalled(d)[p]] /\ K = [p \in Producers |-> K[p]]
  BY DEF Recalled
<1> HIDE DEF d, K, last
<1>5. CASE Identified(e.rec)
  <2>1. e.rec.who \in Producers
    BY <1>5, EntryFacts, RecordFacts
  <2>2. Remember(K, e) = [K EXCEPT ![e.rec.who] = last]
    BY <1>5 DEF Remember, last
  <2> DEFINE w == e.rec.who
  <2> HIDE DEF w
  <2>3. [K EXCEPT ![w] = last] = [p \in Producers |-> IF p = w THEN last ELSE K[p]]
    BY <1>4
  <2>4. \A p \in Producers : Recalled(d)[p] = IF p = w THEN last ELSE K[p]
    BY <1>2, <1>3 DEF w
  <2>5. Recalled(d) = [K EXCEPT ![w] = last]
    BY <1>4, <2>3, <2>4
  <2> QED  BY <2>2, <2>5 DEF d, K, w
<1>6. CASE ~Identified(e.rec)
  <2>1. \A p \in Producers : e.rec.who # p
    BY <1>6, LogAssumption DEF Identified
  <2>2. Recalled(d) = K
    BY <1>2, <1>4, <2>1
  <2>3. Remember(K, e) = K
    BY <1>6 DEF Remember
  <2> QED  BY <2>2, <2>3 DEF d, K
<1> QED  BY <1>5, <1>6

-----------------------------------------------------------------------------
(* Sequences of producers that count from zero.                            *)

Earlier(c, k, p) == {j \in 1 .. k - 1 : c[j].rec.who = p}

\* A record is the n-th of its producer, counting from zero.
LEMMA InOrderAt ==
  ASSUME NEW c \in Seq(Entries)
  PROVE  SequencesInOrder(c) <=>
           \A k \in 1 .. Len(c) : Identified(c[k].rec) =>
             c[k].rec.seq = Cardinality(Earlier(c, k, c[k].rec.who))
<1>1. DOMAIN c = 1 .. Len(c)
  BY LenProperties
<1> QED  BY <1>1, Zenon DEF SequencesInOrder, Earlier

LEMMA EarlierFinite ==
  ASSUME NEW c \in Seq(Entries), NEW k \in 1 .. Len(c), NEW p
  PROVE  /\ IsFiniteSet(Earlier(c, k, p)) /\ Cardinality(Earlier(c, k, p)) \in Nat
         /\ k \notin Earlier(c, k, p)
         /\ \A j \in 1 .. Len(c) : j \in Earlier(c, k, p) <=> j < k /\ c[j].rec.who = p
         /\ Earlier(c, k, p) \subseteq RecordsOf(p, c)
<1>1. Len(c) \in Nat
  OBVIOUS
<1>2. Earlier(c, k, p) \in SUBSET (1 .. k - 1)
  BY DEF Earlier
<1>3. IsFiniteSet(1 .. k - 1)
  BY <1>1, FS_Interval
<1>4. IsFiniteSet(Earlier(c, k, p)) /\ Cardinality(Earlier(c, k, p)) \in Nat
  BY <1>2, <1>3, FS_Subset, FS_CardinalityType
<1>5. \A j \in 1 .. Len(c) : j \in 1 .. k - 1 <=> j < k
  BY <1>1
<1>6. \A j \in 1 .. Len(c) : j \in Earlier(c, k, p) <=> j < k /\ c[j].rec.who = p
  BY <1>5 DEF Earlier
<1>7. k \notin Earlier(c, k, p)
  BY <1>1, <1>2
<1>8. \A j \in 1 .. k - 1 : j \in 1 .. Len(c)
  BY <1>1
<1>9. Earlier(c, k, p) \subseteq RecordsOf(p, c)
  <2>1. \A j \in 1 .. Len(c) : j \in RecordsOf(p, c) <=> c[j].rec.who = p
    BY RecordsFinite
  <2> QED  BY <1>2, <1>6, <1>8, <2>1
<1> QED  BY <1>4, <1>6, <1>7, <1>9

LEMMA InOrderAppend ==
  ASSUME NEW c \in Seq(Entries), SequencesInOrder(c), NEW e \in Entries,
         Identified(e.rec) => e.rec.seq = Cardinality(RecordsOf(e.rec.who, c))
  PROVE  SequencesInOrder(Append(c, e))
<1> DEFINE d == Append(c, e)
           n == Len(c)
<1>1. d \in Seq(Entries) /\ Len(d) = n + 1 /\ n \in Nat /\ d[n + 1] = e
      /\ \A i \in 1 .. n : d[i] = c[i]
  BY AppendProperties
<1>2. \A k \in 1 .. n : Identified(c[k].rec) =>
        c[k].rec.seq = Cardinality(Earlier(c, k, c[k].rec.who))
  BY InOrderAt
<1> HIDE DEF d
<1>3. ASSUME NEW k \in 1 .. n, NEW p PROVE Earlier(d, k, p) = Earlier(c, k, p)
  <2>1. \A j \in 1 .. k - 1 : j \in 1 .. n
    BY <1>1
  <2> QED  BY <1>1, <2>1 DEF Earlier
<1>4. ASSUME NEW p PROVE Earlier(d, n + 1, p) = RecordsOf(p, c)
  <2>1. RecordsOf(p, c) \in SUBSET (1 .. n)
        /\ \A i \in 1 .. n : i \in RecordsOf(p, c) <=> c[i].rec.who = p
    BY RecordsFinite
  <2>2. (n + 1) - 1 = n
    BY <1>1
  <2>3. \A i \in 1 .. n : i \in Earlier(d, n + 1, p) <=> c[i].rec.who = p
    BY <1>1, <2>2 DEF Earlier
  <2>4. Earlier(d, n + 1, p) \in SUBSET (1 .. n)
    BY <2>2 DEF Earlier
  <2> QED  BY <2>1, <2>3, <2>4
<1>5. ASSUME NEW k \in 1 .. Len(d), Identified(d[k].rec)
      PROVE  d[k].rec.seq = Cardinality(Earlier(d, k, d[k].rec.who))
  <2>1. CASE k = n + 1
    BY <1>1, <1>4, <1>5, <2>1
  <2>2. CASE k \in 1 .. n
    BY <1>1, <1>2, <1>3, <1>5, <2>2
  <2>3. k = n + 1 \/ k \in 1 .. n
    BY <1>1
  <2> QED  BY <2>1, <2>2, <2>3
<1>6. SequencesInOrder(d)
  BY <1>1, <1>5, InOrderAt
<1> QED  BY <1>6 DEF d

\* The sequence that is remembered is one less than the number of records.
LEMMA RecalledSeq ==
  ASSUME NEW c \in Seq(Entries), SequencesInOrder(c), NEW p \in Producers
  PROVE  Recalled(c)[p].seq = Cardinality(RecordsOf(p, c)) - 1
<1> DEFINE A == RecordsOf(p, c)
<1>0. /\ A \in SUBSET (1 .. Len(c)) /\ Len(c) \in Nat
      /\ \A i \in 1 .. Len(c) : i \in A <=> c[i].rec.who = p
  BY RecordsFinite
<1>1. CASE A = {}
  <2>1. Recalled(c)[p] = Unknown
    BY <1>1, RecalledIs
  <2>2. Cardinality(A) = 0
    BY <1>1, FS_EmptySet
  <2>3. Cardinality(A) - 1 = -1 /\ Unknown.seq = -1
    BY <2>2 DEF Unknown
  <2> QED  BY <2>1, <2>3
<1>2. CASE A # {}
  <2>1. PICK k \in 1 .. Len(c) :
          /\ k \in A /\ \A i \in A : i <= k
          /\ c[k].rec.who = p
          /\ Recalled(c)[p] = [seq |-> c[k].rec.seq, off |-> c[k].off]
    BY <1>2, RecalledIs
  <2> DEFINE B == Earlier(c, k, p)
  <2>2. /\ IsFiniteSet(B) /\ Cardinality(B) \in Nat /\ k \notin B /\ B \subseteq A
        /\ \A j \in 1 .. Len(c) : j \in B <=> j < k /\ c[j].rec.who = p
    BY EarlierFinite
  <2> HIDE DEF A, B
  <2>3. ASSUME NEW i \in A PROVE i \in B \cup {k}
    <3>1. i \in 1 .. Len(c) /\ i <= k /\ c[i].rec.who = p
      BY <1>0, <2>1
    <3>2. i = k \/ i < k
      BY <1>0, <3>1
    <3> QED  BY <2>2, <3>1, <3>2
  <2>4. A = B \cup {k}
    BY <2>1, <2>2, <2>3
  <2>5. Cardinality(A) = Cardinality(B) + 1
    BY <2>2, <2>4, FS_AddElement
  <2>6. Identified(c[k].rec)
    BY <2>1, LogAssumption DEF Identified
  <2>7. c[k].rec.seq = Cardinality(B)
    <3>1. \A h \in 1 .. Len(c) : Identified(c[h].rec) =>
            c[h].rec.seq = Cardinality(Earlier(c, h, c[h].rec.who))
      BY InOrderAt
    <3> QED  BY <2>1, <2>6, <3>1 DEF B
  <2>8. Recalled(c)[p].seq = c[k].rec.seq
    BY <2>1
  <2>9. Recalled(c)[p].seq = Cardinality(A) - 1
    <3>1. Cardinality(A) - 1 = Cardinality(B)
      BY <2>2, <2>5
    <3> QED  BY <2>5, <2>7, <2>8, <3>1
  <2> QED  BY <2>9 DEF A
<1> QED  BY <1>1, <1>2

\* No record has a later sequence than the one that is remembered.
LEMMA RecalledHighest ==
  ASSUME NEW c \in Seq(Entries), SequencesInOrder(c),
         NEW k \in 1 .. Len(c), Identified(c[k].rec)
  PROVE  c[k].rec.seq <= Recalled(c)[c[k].rec.who].seq
<1> DEFINE p == c[k].rec.who
           A == RecordsOf(p, c)
           B == Earlier(c, k, p)
<1>1. p \in Producers
  <2>1. c[k] \in Entries
    BY ElementOfSeq
  <2> QED  BY <2>1, EntryFacts, RecordFacts
<1>2. /\ IsFiniteSet(A) /\ Cardinality(A) \in Nat
      /\ \A i \in 1 .. Len(c) : i \in A <=> c[i].rec.who = p
  BY RecordsFinite
<1>3. IsFiniteSet(B) /\ Cardinality(B) \in Nat /\ k \notin B /\ B \subseteq A
  BY EarlierFinite
<1>4. k \in A
  BY <1>2
<1>5. c[k].rec.seq = Cardinality(B)
  <2>1. \A h \in 1 .. Len(c) : Identified(c[h].rec) =>
          c[h].rec.seq = Cardinality(Earlier(c, h, c[h].rec.who))
    BY InOrderAt
  <2> QED  BY <2>1
<1> HIDE DEF A, B, p
<1>6. Cardinality(B \cup {k}) = Cardinality(B) + 1
  BY <1>3, FS_AddElement
<1>7. B \cup {k} \in SUBSET A
  BY <1>3, <1>4
<1>8. Cardinality(B \cup {k}) <= Cardinality(A)
  BY <1>2, <1>7, FS_Subset
<1>9. Recalled(c)[p].seq = Cardinality(A) - 1
  BY <1>1, RecalledSeq DEF A
<1>10. c[k].rec.seq <= Recalled(c)[p].seq
  BY <1>2, <1>3, <1>5, <1>6, <1>8, <1>9
<1> QED  BY <1>10 DEF p

\* What is kept when a log is cut is in order, and so is what is rewritten.
KeptInOrder(kept) ==
    \A i \in 1 .. Len(kept) : Identified(kept[i]) =>
        kept[i].seq = Cardinality({j \in 1 .. i - 1 : kept[j].who = kept[i].who})

LEMMA KeptOrder ==
  ASSUME NEW c \in Seq(Entries), SequencesInOrder(c), NEW kept \in Seq(AllRecords),
         Len(kept) <= Len(c), \A i \in 1 .. Len(kept) : kept[i] = c[i].rec
  PROVE  KeptInOrder(kept)
<1>1. Len(c) \in Nat /\ Len(kept) \in Nat
  OBVIOUS
<1>2. \A h \in 1 .. Len(c) : Identified(c[h].rec) =>
        c[h].rec.seq = Cardinality(Earlier(c, h, c[h].rec.who))
  BY InOrderAt
<1>3. ASSUME NEW i \in 1 .. Len(kept), Identified(kept[i])
      PROVE  kept[i].seq = Cardinality({j \in 1 .. i - 1 : kept[j].who = kept[i].who})
  <2>1. i \in 1 .. Len(c) /\ kept[i] = c[i].rec
    BY <1>1
  <2>2. \A j \in 1 .. i - 1 : j \in 1 .. Len(kept)
    BY <1>1
  <2>3. \A j \in 1 .. i - 1 : kept[j] = c[j].rec
    BY <2>2
  <2>4. {j \in 1 .. i - 1 : kept[j].who = kept[i].who} = Earlier(c, i, c[i].rec.who)
    BY <2>1, <2>3 DEF Earlier
  <2>5. c[i].rec.seq = Cardinality(Earlier(c, i, c[i].rec.who))
    BY <1>2, <1>3, <2>1
  <2> QED  BY <2>1, <2>4, <2>5
<1> QED  BY <1>3 DEF KeptInOrder

LEMMA KeptNext ==
  ASSUME NEW c \in Seq(Entries), NEW kept \in Seq(AllRecords), KeptInOrder(kept),
         Len(c) < Len(kept), \A i \in 1 .. Len(c) : c[i].rec = kept[i],
         NEW r, r = kept[Len(c) + 1], Identified(r)
  PROVE  r.seq = Cardinality(RecordsOf(r.who, c))
<1> DEFINE n == Len(c)
           p == r.who
<1>1. n \in Nat /\ Len(kept) \in Nat /\ n + 1 \in 1 .. Len(kept) /\ (n + 1) - 1 = n
  OBVIOUS
<1>2. r.seq = Cardinality({j \in 1 .. (n + 1) - 1 : kept[j].who = p})
  BY <1>1 DEF KeptInOrder
<1>3. RecordsOf(p, c) \in SUBSET (1 .. n)
      /\ \A i \in 1 .. n : i \in RecordsOf(p, c) <=> c[i].rec.who = p
  BY RecordsFinite
<1>4. {j \in 1 .. n : kept[j].who = p} = RecordsOf(p, c)
  BY <1>3
<1> QED  BY <1>1, <1>2, <1>4
=============================================================================
