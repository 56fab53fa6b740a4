------------------------------ MODULE Lemmas -------------------------------
(***************************************************************************)
(* Facts of sequences and numbers that the proofs of several components    *)
(* rest on.  The sequences of the program are Go slices and stacks: what   *)
(* is said of them here is what append, slicing and assignment do.         *)
(***************************************************************************)
EXTENDS Integers, SequenceTheorems, FiniteSetTheorems, WellFoundedInduction, TLAPS

\* A function on 1..n is a sequence.
LEMMA FunctionIsSeq ==
    ASSUME NEW S, NEW n \in Nat, NEW f \in [1..n -> S]
    PROVE  f \in Seq(S) /\ Len(f) = n
OBVIOUS

\* A sequence with one element replaced.
LEMMA SeqExcept ==
    ASSUME NEW S, NEW q \in Seq(S), NEW c \in S, NEW k \in DOMAIN q
    PROVE  /\ [q EXCEPT ![k] = c] \in Seq(S) /\ Len([q EXCEPT ![k] = c]) = Len(q)
           /\ DOMAIN [q EXCEPT ![k] = c] = DOMAIN q
           /\ \A b \in DOMAIN q : [q EXCEPT ![k] = c][b] = IF b = k THEN c ELSE q[b]
OBVIOUS

\* A sequence with one element more.
LEMMA AppendSeq ==
    ASSUME NEW S, NEW q \in Seq(S), NEW c \in S
    PROVE  /\ Append(q, c) \in Seq(S) /\ DOMAIN Append(q, c) = 1..Len(q) + 1
           /\ \A b \in DOMAIN q : Append(q, c)[b] = q[b]
           /\ Append(q, c)[Len(q) + 1] = c
OBVIOUS

\* A part of a sequence, by its offset and length.
LEMMA PartOfSeq ==
    ASSUME NEW S, NEW a \in Nat, NEW b \in Nat, NEW q \in Seq(S), a + b <= Len(q)
    PROVE  /\ SubSeq(q, a + 1, a + b) \in Seq(S) /\ Len(SubSeq(q, a + 1, a + b)) = b
           /\ \A i \in 1..b : SubSeq(q, a + 1, a + b)[i] = q[a + i]
OBVIOUS

\* Sequence r is q without position n: its length, and where each of the
\* remaining elements comes from.
IsWithout(r, q, n) ==
    /\ Len(r) = Len(q) - 1
    /\ \A m \in 1..Len(q) - 1 : r[m] = IF m < n THEN q[m] ELSE q[m + 1]

\* Deleting in place, as Go programs do, is the sequence without one element.
LEMMA WithoutOne ==
    ASSUME NEW S, NEW q \in Seq(S), NEW n \in 1..Len(q)
    PROVE  /\ SubSeq(q, 1, n - 1) \o SubSeq(q, n + 1, Len(q)) \in Seq(S)
           /\ IsWithout(SubSeq(q, 1, n - 1) \o SubSeq(q, n + 1, Len(q)), q, n)
<1> DEFINE front == SubSeq(q, 1, n - 1)
           back == SubSeq(q, n + 1, Len(q))
<1>1. Len(q) \in Nat /\ n \in Nat /\ n <= Len(q) /\ n - 1 \in Nat
  OBVIOUS
<1>2. front \in Seq(S) /\ Len(front) = n - 1 /\ \A m \in 1..n - 1 : front[m] = q[m]
  <2>1. SubSeq(q, 0 + 1, 0 + (n - 1)) = front
    BY <1>1
  <2> QED
    BY <1>1, <2>1, PartOfSeq
<1>3. /\ back \in Seq(S) /\ Len(back) = Len(q) - n
      /\ \A m \in 1..Len(q) - n : back[m] = q[n + m]
  <2>1. SubSeq(q, n + 1, n + (Len(q) - n)) = back /\ Len(q) - n \in Nat
    BY <1>1
  <2> QED
    BY <1>1, <2>1, PartOfSeq
<1> HIDE DEF front, back
<1>4. PICK r : r = front \o back
  OBVIOUS
<1>5. /\ r \in Seq(S) /\ Len(r) = Len(front) + Len(back)
      /\ \A m \in 1..Len(front) + Len(back) :
            r[m] = IF m <= Len(front) THEN front[m] ELSE back[m - Len(front)]
  BY <1>2, <1>3, <1>4, ConcatProperties
<1>6. ASSUME NEW m \in 1..Len(q) - 1 PROVE r[m] = IF m < n THEN q[m] ELSE q[m + 1]
  <2>1. CASE m < n
    <3>1. m \in 1..n - 1 /\ m \in 1..Len(front) + Len(back) /\ m <= Len(front)
      BY <1>1, <1>2, <1>3, <2>1
    <3> QED
      BY <1>2, <1>5, <2>1, <3>1
  <2>2. CASE ~(m < n)
    <3>1. /\ m - (n - 1) \in 1..Len(q) - n /\ m \in 1..Len(front) + Len(back)
          /\ ~(m <= Len(front)) /\ n + (m - (n - 1)) = m + 1 /\ Len(front) = n - 1
      BY <1>1, <1>2, <1>3, <2>2
    <3> QED
      BY <1>3, <1>5, <2>2, <3>1
  <2> QED
    BY <2>1, <2>2
<1>7. Len(r) = Len(q) - 1
  <2>1. Len(front) = n - 1 /\ Len(back) = Len(q) - n /\ Len(r) = Len(front) + Len(back)
    BY <1>2, <1>3, <1>5
  <2> QED
    BY <1>1, <2>1
<1>8. r \in Seq(S) /\ IsWithout(r, q, n)
  BY <1>5, <1>6, <1>7 DEF IsWithout
<1> QED
  BY <1>4, <1>8 DEF front, back

\* Sequences of one length with the same members are the same.
LEMMA SameSeq ==
    ASSUME NEW S, NEW a \in Seq(S), NEW c \in Seq(S), Len(a) = Len(c),
           \A i \in 1..Len(a) : a[i] = c[i]
    PROVE  a = c
OBVIOUS

-----------------------------------------------------------------------------
(* Numbers *)

\* Every set of numbers has a least one: the intervals below its members are
\* finite sets, and strict inclusion of finite sets is well founded.
LEMMA Least ==
    ASSUME NEW T \in SUBSET Nat, T # {}
    PROVE  \E n \in T : \A m \in T : n <= m
<1> DEFINE Below == {1..n : n \in T}
<1>1. Below \subseteq FiniteSubsetsOf(Nat) /\ Below # {}
  <2>1. \A n \in T : 1..n \in SUBSET Nat /\ IsFiniteSet(1..n)
    BY FS_Interval
  <2> QED
    BY <2>1 DEF FiniteSubsetsOf
<1>2. \E x \in Below : \A y \in Below : ~(<<y, x>> \in StrictSubsetOrdering(Nat))
  <2> HIDE DEF Below
  <2> QED BY <1>1, FS_StrictSubsetOrderingWellFounded, WFMin
<1>3. PICK n \in T : \A m \in T : ~(<<1..m, 1..n>> \in StrictSubsetOrdering(Nat))
  BY <1>2
<1>4. ASSUME NEW m \in T, m < n PROVE FALSE
  <2>1. 1..m \subseteq 1..n /\ n \in 1..n /\ n \notin 1..m
    BY <1>4
  <2>2. 1..m \in SUBSET Nat /\ 1..n \in SUBSET Nat /\ 1..m # 1..n
    BY <2>1
  <2> QED
    BY <1>3, <2>1, <2>2 DEF StrictSubsetOrdering
<1> QED
  BY <1>3, <1>4

\* Induction, with the property to prove as the set of numbers that have it.
LEMMA Induction ==
    ASSUME NEW S \in SUBSET Nat, 0 \in S, \A n \in S : n + 1 \in S
    PROVE  S = Nat
<1> SUFFICES ASSUME Nat \ S # {} PROVE FALSE
  OBVIOUS
<1>1. PICK n \in Nat \ S : \A m \in Nat \ S : n <= m
  BY Least
<1>2. n # 0 /\ n - 1 \in Nat
  BY <1>1
<1>3. n - 1 \in S
  BY <1>1, <1>2
<1>4. (n - 1) + 1 \in S
  BY <1>3
<1> QED
  BY <1>1, <1>2, <1>4

\* A set of numbers that has an upper bound has a greatest one.
LEMMA Greatest ==
    ASSUME NEW n \in Nat, NEW T \in SUBSET (1..n), T # {}
    PROVE  \E k \in T : \A j \in T : j <= k
<1> DEFINE Under == {n - k : k \in T}
<1>1. Under \in SUBSET Nat /\ Under # {}
  <2>1. \A k \in T : n - k \in Nat
    OBVIOUS
  <2>2. PICK k \in T : TRUE
    OBVIOUS
  <2>3. n - k \in Under
    BY <2>2
  <2> QED
    BY <2>1, <2>3
<1>2. PICK u \in Under : \A v \in Under : u <= v
  <2> HIDE DEF Under
  <2> QED BY <1>1, Least
<1>3. PICK k \in T : u = n - k
  BY <1>2
<1>4. ASSUME NEW j \in T PROVE j <= k
  <2>1. n - j \in Under
    OBVIOUS
  <2>2. u <= n - j
    BY <1>2, <2>1
  <2> QED
    BY <2>2, <1>3
<1> QED
  BY <1>4

\* A function may be defined by steps to a smaller argument: rule[s] tells what
\* the value at s is, given the value at next[s].
IsDescent(h, N, V, z, next, rule) ==
    /\ h \in [0..N -> V]
    /\ h[0] = z
    /\ \A s \in 1..N : h[s] = rule[s][h[next[s]]]

\* A function that steps down among the numbers is defined.
LEMMA Descent ==
    ASSUME NEW N \in Nat, NEW V, NEW z \in V, NEW next \in [1..N -> Nat],
           \A s \in 1..N : next[s] < s, NEW rule \in [1..N -> [V -> V]]
    PROVE  \E h : IsDescent(h, N, V, z, next, rule)
<1> DEFINE Good(h, n) == /\ h \in [0..n -> V]
                         /\ h[0] = z
                         /\ \A s \in 1..n : h[s] = rule[s][h[next[s]]]
           S == {n \in Nat : n <= N => \E h : Good(h, n)}
<1>1. 0 \in S
  <2> DEFINE g == [s \in 0..0 |-> z]
  <2>1. g \in [0..0 -> V] /\ g[0] = z /\ 1..0 = {}
    OBVIOUS
  <2> HIDE DEF g
  <2>2. Good(g, 0)
    BY <2>1
  <2> QED BY <2>2
<1>2. ASSUME NEW n \in S PROVE n + 1 \in S
  <2>0. n \in Nat /\ n + 1 \in Nat
    <3> HIDE DEF Good
    <3> QED OBVIOUS
  <2> SUFFICES ASSUME n + 1 <= N PROVE \E h : Good(h, n + 1)
    <3> HIDE DEF Good
    <3> QED BY <2>0
  <2>1. n <= N
    BY <2>0
  <2>2. PICK g : Good(g, n)
    <3> HIDE DEF Good
    <3> QED BY <2>0, <2>1
  <2>3. next[n + 1] \in 0..n /\ n + 1 \in 1..N
    BY <2>0, <2>1
  <2> DEFINE v == rule[n + 1][g[next[n + 1]]]
             h == [s \in 0..n + 1 |-> IF s <= n THEN g[s] ELSE v]
  <2>4. v \in V
    <3>1. g[next[n + 1]] \in V
      BY <2>2, <2>3
    <3> QED BY <3>1, <2>3
  <2>5. h \in [0..n + 1 -> V] /\ h[0] = z
    <3> HIDE DEF v
    <3> QED BY <2>0, <2>1, <2>2, <2>4
  <2>6. \A s \in 0..n : h[s] = g[s]
    BY <2>0, <2>1
  <2>7. h[n + 1] = v
    <3> HIDE DEF v
    <3> QED BY <2>0, <2>1
  <2>8. ASSUME NEW s \in 1..n + 1 PROVE h[s] = rule[s][h[next[s]]]
    <3> HIDE DEF h
    <3>1. CASE s = n + 1
      <4>1. h[next[s]] = g[next[s]]
        BY <2>3, <2>6, <3>1
      <4> QED BY <4>1, <2>7, <3>1
    <3>2. CASE s \in 1..n
      <4>1. next[s] \in 0..n
        BY <2>1, <3>2
      <4>2. h[next[s]] = g[next[s]] /\ h[s] = g[s]
        BY <4>1, <3>2, <2>6, <2>0, <2>1
      <4> QED BY <4>2, <2>2, <3>2
    <3> QED BY <3>1, <3>2, <2>0, <2>1
  <2> HIDE DEF h
  <2> QED BY <2>5, <2>8
<1>3. S = Nat
  <2>1. S \in SUBSET Nat
    OBVIOUS
  <2> HIDE DEF S
  <2> QED BY <1>1, <1>2, <2>1, Induction
<1>4. \E h : Good(h, N)
  <2>1. N \in S
    BY <1>3
  <2> HIDE DEF Good
  <2> QED BY <2>1
<1> QED
  BY <1>4 DEF IsDescent
=============================================================================
