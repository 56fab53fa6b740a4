----------------------------- MODULE HashProofs -----------------------------
(***************************************************************************)
(* For every set of keys, every hash function and every notion of equality *)
(* that KeyAssumption allows: the hash keeps its types and the invariants  *)
(* of its buckets, and implements the dictionary of HashDict; and a loop   *)
(* over a hash that nothing was deleted from, or lost in decoding, yields  *)
(* each key once in insertion order, whatever its body sets, the body of a *)
(* Go-style loop never taking it to the panic of HashPairi.                *)
(*                                                                         *)
(* The inductive invariant of the hash joins its properties: that          *)
(* deletion, which drops only the first match, leaves a key absent needs   *)
(* OnePairPerKey, and OnePairPerKey needs BucketsByCode, because Compare   *)
(* is only known to be symmetric and transitive among the keys of one hash *)
(* code.  The count needs the set of places in use to be finite.           *)
(*                                                                         *)
(* The invariant of the loop rests on that of the hash.  While nothing is  *)
(* deleted, KeyOrder and the pairs are in one-to-one correspondence, so    *)
(* that position i of the loop is position i + 1 of KeyOrder, and KeyOrder *)
(* only grows at its end.                                                  *)
(***************************************************************************)
EXTENDS HashRange, Lemmas

IndInv ==
    /\ TypeOK
    /\ BucketsByCode
    /\ OnePairPerKey
    /\ OrderCoversLive
    /\ RecordWellTyped
    /\ IsFiniteSet(Live)
    /\ CountNotAbove

\* What a delete leaves of a bucket.
LEMMA RemoveAtProperties ==
    ASSUME NEW S, NEW s \in Seq(S), NEW t \in 1..Len(s)
    PROVE  /\ RemoveAt(s, t) \in Seq(S)
           /\ Len(RemoveAt(s, t)) = Len(s) - 1
           /\ \A m \in 1..(Len(s) - 1) :
                 RemoveAt(s, t)[m] = IF m < t THEN s[m] ELSE s[m + 1]
<1>1. PICK r : r = SubSeq(s, 1, t - 1) \o SubSeq(s, t + 1, Len(s))
  OBVIOUS
<1>2. r \in Seq(S) /\ IsWithout(r, s, t)
  BY <1>1, WithoutOne
<1>3. RemoveAt(s, t) = r
  BY <1>1 DEF RemoveAt
<1> QED
  BY <1>2, <1>3 DEF IsWithout

\* A lookup that matches one position finds that position.
LEMMA MinSingleton ==
    ASSUME NEW t \in Int PROVE Min({t}) = t
BY DEF Min

\* What IndInv says of one bucket.
GoodBucket(arr, c) ==
    /\ arr \in Seq(Pair)
    /\ \A u \in DOMAIN arr : HashCode[arr[u].Head] = c
    /\ \A u, j \in DOMAIN arr : <<arr[u].Head, arr[j].Head>> \in Equal => u = j

\* The invariant makes every bucket good.
LEMMA BucketsGood ==
    ASSUME IndInv PROVE \A c \in Code : GoodBucket(Map[c], c)
BY DEF IndInv, TypeOK, BucketsByCode, OnePairPerKey, GoodBucket

\* What a pair of a good bucket holds.
LEMMA HeadsOfBucket ==
    ASSUME NEW c, NEW arr, GoodBucket(arr, c), NEW t \in DOMAIN arr
    PROVE  arr[t] \in Pair /\ arr[t].Head \in Key /\ HashCode[arr[t].Head] = c
<1>1. arr[t] \in Pair
  BY DEF GoodBucket
<1> QED
  BY <1>1 DEF GoodBucket, Pair

\* Among the pairs of one bucket at most one matches a key of that code.
LEMMA HitsUnique ==
    ASSUME NEW c, NEW arr, GoodBucket(arr, c), NEW k \in Key, HashCode[k] = c,
           NEW m \in Hits(arr, k), NEW t \in Hits(arr, k)
    PROVE  m = t
<1>1. /\ m \in DOMAIN arr /\ <<arr[m].Head, k>> \in Equal
      /\ t \in DOMAIN arr /\ <<arr[t].Head, k>> \in Equal
  BY DEF Hits
<1>2. /\ arr[m].Head \in Key /\ HashCode[arr[m].Head] = c
      /\ arr[t].Head \in Key /\ HashCode[arr[t].Head] = c
  BY <1>1, HeadsOfBucket
<1>3. <<k, arr[t].Head>> \in Equal
  BY <1>1, <1>2, KeyAssumption
<1>4. <<arr[m].Head, arr[t].Head>> \in Equal
  BY <1>1, <1>2, <1>3, KeyAssumption
<1> QED
  BY <1>1, <1>4 DEF GoodBucket

\* So the first match is the match.
LEMMA OnlyHit ==
    ASSUME NEW c, NEW arr, GoodBucket(arr, c), NEW k \in Key, HashCode[k] = c,
           NEW t \in Hits(arr, k)
    PROVE  Hits(arr, k) = {t} /\ Min(Hits(arr, k)) = t
<1>1. Hits(arr, k) = {t}
  BY HitsUnique
<1>2. t \in Int
  BY DEF Hits, GoodBucket
<1> QED
  BY <1>1, <1>2, MinSingleton

\* The first match of a bucket is one of its positions, and it matches.
LEMMA FirstHit ==
    ASSUME IndInv, NEW k \in Key, Hits(Map[HashCode[k]], k) # {}
    PROVE  /\ Min(Hits(Map[HashCode[k]], k)) \in DOMAIN Map[HashCode[k]]
           /\ Hits(Map[HashCode[k]], k) = {Min(Hits(Map[HashCode[k]], k))}
<1>1. GoodBucket(Map[HashCode[k]], HashCode[k])
  BY BucketsGood, KeyAssumption
<1>2. PICK t : t \in Hits(Map[HashCode[k]], k)
  OBVIOUS
<1>3. t \in DOMAIN Map[HashCode[k]]
  BY <1>2 DEF Hits
<1> QED
  BY <1>1, <1>2, <1>3, OnlyHit

-----------------------------------------------------------------------------
(* HashSet *)

\* An empty hash satisfies the invariant.
LEMMA InitInv == Init => IndInv
<1> SUFFICES ASSUME Init PROVE IndInv
  OBVIOUS
<1>1. Live = {}
  BY DEF Init, Live
<1>2. IsFiniteSet(Live) /\ LiveCount = 0
  BY <1>1, FS_EmptySet DEF LiveCount
<1> QED
  BY <1>2 DEF Init, IndInv, TypeOK, BucketsByCode, OnePairPerKey, OrderCoversLive,
              RecordWellTyped, CountNotAbove

\* Overwriting: every pair of one bucket that matches the key is replaced.
LEMMA OverwriteInv ==
    ASSUME IndInv, NEW k \in Key, NEW val \in Val, <<k, val>> \in Accepts,
           Hits(Map[HashCode[k]], k) # {},
           ok' = ok \cup {HashCode[k]},
           Map' = [Map EXCEPT ![HashCode[k]] =
                     [u \in DOMAIN Map[HashCode[k]] |->
                        IF u \in Hits(Map[HashCode[k]], k)
                        THEN NewPair(k, val) ELSE Map[HashCode[k]][u]]],
           UNCHANGED <<KeyOrder, NumKeys>>
    PROVE  IndInv'
<1> DEFINE c   == HashCode[k]
           hit == Hits(Map[c], k)
           old == Map[c]
           new == [u \in DOMAIN old |-> IF u \in hit THEN NewPair(k, val) ELSE old[u]]
<1>1. /\ c \in Code /\ old \in Seq(Pair) /\ Len(old) \in Nat
      /\ DOMAIN old = 1..Len(old) /\ \A u \in DOMAIN old : old[u] \in Pair
  BY KeyAssumption DEF IndInv, TypeOK
<1>2. NewPair(k, val) \in Pair /\ NewPair(k, val).Head = k /\ NewPair(k, val).Tail = val
  BY DEF NewPair, Pair
<1>3. new \in Seq(Pair) /\ DOMAIN new = DOMAIN old
  <2>1. new \in [1..Len(old) -> Pair]
    BY <1>1, <1>2
  <2> QED
    BY <1>1, <2>1
<1>4. \A d \in Code : Map'[d] = IF d = c THEN new ELSE Map[d]
  BY <1>1 DEF IndInv, TypeOK
<1>5. \A u \in DOMAIN old :
         /\ u \in hit => /\ new[u].Head = k /\ new[u].Tail = val
                         /\ <<old[u].Head, k>> \in Equal
         /\ u \notin hit => new[u] = old[u]
  BY <1>2 DEF Hits
<1> HIDE DEF new
<1>6. TypeOK'
  <2>1. Map' \in [Code -> Seq(Pair)]
    BY <1>3 DEF IndInv, TypeOK, new
  <2> QED
    BY <1>1, <2>1 DEF IndInv, TypeOK
<1>7. BucketsByCode'
  <2> SUFFICES ASSUME NEW d \in Code, NEW u \in DOMAIN Map'[d]
               PROVE  d \in ok' /\ HashCode[Map'[d][u].Head] = d
    BY DEF BucketsByCode
  <2>1. u \in DOMAIN Map[d] /\ d \in ok /\ HashCode[Map[d][u].Head] = d
    BY <1>3, <1>4 DEF IndInv, BucketsByCode
  <2>2. Map'[d][u] = Map[d][u] \/ (d = c /\ Map'[d][u].Head = k)
    BY <1>4, <1>5, <2>1
  <2> QED
    BY <2>1, <2>2
<1>8. OnePairPerKey'
  <2> SUFFICES ASSUME NEW d \in Code, NEW u \in DOMAIN Map'[d], NEW j \in DOMAIN Map'[d],
                      <<Map'[d][u].Head, Map'[d][j].Head>> \in Equal
               PROVE  u = j
    BY DEF OnePairPerKey
  <2>1. CASE d # c
    BY <1>4, <2>1 DEF IndInv, OnePairPerKey
  <2>2. CASE d = c
    <3>1. u \in DOMAIN old /\ j \in DOMAIN old
      BY <1>3, <1>4, <2>2
    <3>2. /\ old[u].Head \in Key /\ HashCode[old[u].Head] = c
          /\ old[j].Head \in Key /\ HashCode[old[j].Head] = c
      BY <1>1, <3>1 DEF IndInv, BucketsByCode, Pair
    <3>3. <<old[u].Head, old[j].Head>> \in Equal => u = j
      BY <1>1, <3>1 DEF IndInv, OnePairPerKey
    <3>4. CASE u \in hit /\ j \in hit
      BY <1>1, <3>4, HitsUnique, BucketsGood
    <3>5. CASE u \in hit /\ j \notin hit
      <4>1. <<k, old[j].Head>> \in Equal /\ <<old[u].Head, k>> \in Equal
        BY <1>4, <1>5, <2>2, <3>1, <3>5
      <4> QED
        BY <3>2, <3>3, <4>1, KeyAssumption
    <3>6. CASE u \notin hit /\ j \in hit
      <4>1. <<old[u].Head, k>> \in Equal
        <5>1. new[u] = old[u] /\ new[j].Head = k
          BY <1>5, <3>1, <3>6
        <5>2. Map'[d] = new
          BY <1>4, <2>2
        <5> QED
          BY <5>1, <5>2
      <4>2. u \in hit
        BY <3>1, <4>1 DEF Hits
      <4> QED
        BY <3>6, <4>2
    <3>7. CASE u \notin hit /\ j \notin hit
      BY <1>4, <1>5, <2>2, <3>1, <3>3, <3>7
    <3> QED
      BY <3>4, <3>5, <3>6, <3>7
  <2> QED
    BY <2>1, <2>2
<1>9. OrderCoversLive'
  <2> SUFFICES ASSUME NEW d \in Code, NEW u \in DOMAIN Map'[d]
               PROVE  \E t \in DOMAIN KeyOrder :
                        /\ HashCode[KeyOrder[t]] = d
                        /\ \/ KeyOrder[t] = Map'[d][u].Head
                           \/ <<KeyOrder[t], Map'[d][u].Head>> \in Equal
    BY DEF OrderCoversLive
  <2>1. u \in DOMAIN Map[d]
    BY <1>3, <1>4
  <2>2. PICK t \in DOMAIN KeyOrder :
          /\ HashCode[KeyOrder[t]] = d
          /\ \/ KeyOrder[t] = Map[d][u].Head
             \/ <<KeyOrder[t], Map[d][u].Head>> \in Equal
    BY <2>1 DEF IndInv, OrderCoversLive
  <2>3. CASE d = c /\ u \in hit
    <3>1. Map'[d][u].Head = k /\ <<old[u].Head, k>> \in Equal
      BY <1>1, <1>4, <1>5, <2>1, <2>3
    <3>2. /\ old[u].Head \in Key /\ HashCode[old[u].Head] = c
          /\ KeyOrder[t] \in Key
      BY <1>1, <2>1, <2>3 DEF IndInv, BucketsByCode, Pair, TypeOK
    <3>3. <<KeyOrder[t], k>> \in Equal
      BY <2>2, <2>3, <3>1, <3>2, KeyAssumption
    <3> QED
      BY <2>2, <3>1, <3>3
  <2>4. CASE ~(d = c /\ u \in hit)
    <3>1. Map'[d][u] = Map[d][u]
      BY <1>1, <1>4, <1>5, <2>1, <2>4
    <3> QED
      BY <2>2, <3>1
  <2> QED
    BY <2>3, <2>4
<1>10. RecordWellTyped'
  <2> SUFFICES ASSUME NEW d \in Code, NEW u \in DOMAIN Map'[d]
               PROVE  <<Map'[d][u].Head, Map'[d][u].Tail>> \in Accepts
    BY DEF RecordWellTyped
  <2>1. u \in DOMAIN Map[d] /\ <<Map[d][u].Head, Map[d][u].Tail>> \in Accepts
    BY <1>3, <1>4 DEF IndInv, RecordWellTyped
  <2>2. \/ Map'[d][u] = Map[d][u]
        \/ Map'[d][u].Head = k /\ Map'[d][u].Tail = val
    BY <1>4, <1>5, <2>1
  <2> QED
    BY <2>1, <2>2
<1>11. Live' = Live
  BY <1>3, <1>4 DEF Live
<1>12. IsFiniteSet(Live)' /\ CountNotAbove'
  BY <1>11 DEF IndInv, CountNotAbove, LiveCount
<1> QED
  BY <1>6, <1>7, <1>8, <1>9, <1>10, <1>12 DEF IndInv

\* Inserting: the pair goes to the end of its bucket, the key to the end of
\* KeyOrder.
LEMMA InsertInv ==
    ASSUME IndInv, NEW k \in Key, NEW val \in Val, <<k, val>> \in Accepts,
           Hits(Map[HashCode[k]], k) = {},
           ok' = ok \cup {HashCode[k]},
           Map' = [Map EXCEPT ![HashCode[k]] =
                     Append(Map[HashCode[k]], NewPair(k, val))],
           KeyOrder' = Append(KeyOrder, k),
           NumKeys' = NumKeys + 1
    PROVE  IndInv'
<1> DEFINE c   == HashCode[k]
           old == Map[c]
           new == Append(old, NewPair(k, val))
<1>1. /\ c \in Code /\ old \in Seq(Pair) /\ Len(old) \in Nat
      /\ DOMAIN old = 1..Len(old) /\ \A u \in DOMAIN old : old[u] \in Pair
  BY KeyAssumption DEF IndInv, TypeOK
<1>2. NewPair(k, val) \in Pair /\ NewPair(k, val).Head = k /\ NewPair(k, val).Tail = val
  BY DEF NewPair, Pair
<1>3. /\ new \in Seq(Pair) /\ DOMAIN new = 1..(Len(old) + 1)
      /\ \A u \in DOMAIN old : new[u] = old[u]
      /\ new[Len(old) + 1].Head = k /\ new[Len(old) + 1].Tail = val
  BY <1>1, <1>2
<1>4. \A d \in Code : Map'[d] = IF d = c THEN new ELSE Map[d]
  BY <1>1 DEF IndInv, TypeOK
<1>5. \A u \in DOMAIN old : <<old[u].Head, k>> \notin Equal
  BY DEF Hits
<1>6. /\ KeyOrder' \in Seq(Key) /\ DOMAIN KeyOrder' = 1..(Len(KeyOrder) + 1)
      /\ DOMAIN KeyOrder = 1..Len(KeyOrder) /\ Len(KeyOrder) \in Nat
      /\ \A t \in DOMAIN KeyOrder : KeyOrder'[t] = KeyOrder[t]
      /\ KeyOrder'[Len(KeyOrder) + 1] = k
  BY DEF IndInv, TypeOK
<1> HIDE DEF new
<1>7. TypeOK'
  <2>1. Map' \in [Code -> Seq(Pair)]
    BY <1>3 DEF IndInv, TypeOK, new
  <2> QED
    BY <1>1, <1>6, <2>1 DEF IndInv, TypeOK
<1>8. ASSUME NEW d \in Code, NEW u \in DOMAIN Map'[d]
      PROVE  \/ u \in DOMAIN Map[d] /\ Map'[d][u] = Map[d][u]
             \/ /\ d = c /\ u = Len(old) + 1
                /\ Map'[d][u].Head = k /\ Map'[d][u].Tail = val
  <2>1. CASE d # c
    BY <1>4, <2>1
  <2>2. CASE d = c
    <3>1. Map'[d] = new /\ Map[d] = old /\ u \in 1..(Len(old) + 1)
      BY <1>3, <1>4, <2>2
    <3>2. u \in 1..Len(old) \/ u = Len(old) + 1
      BY <1>1, <3>1
    <3> QED
      BY <1>1, <1>3, <2>2, <3>1, <3>2
  <2> QED
    BY <2>1, <2>2
<1>9. BucketsByCode'
  <2> SUFFICES ASSUME NEW d \in Code, NEW u \in DOMAIN Map'[d]
               PROVE  d \in ok' /\ HashCode[Map'[d][u].Head] = d
    BY DEF BucketsByCode
  <2> QED
    BY <1>8 DEF IndInv, BucketsByCode
<1>10. OnePairPerKey'
  <2> SUFFICES ASSUME NEW d \in Code, NEW u \in DOMAIN Map'[d], NEW j \in DOMAIN Map'[d],
                      <<Map'[d][u].Head, Map'[d][j].Head>> \in Equal
               PROVE  u = j
    BY DEF OnePairPerKey
  <2>1. CASE u \in DOMAIN Map[d] /\ j \in DOMAIN Map[d]
    <3>1. Map'[d][u] = Map[d][u] /\ Map'[d][j] = Map[d][j]
      BY <1>1, <1>3, <1>4, <2>1
    <3> QED
      BY <2>1, <3>1 DEF IndInv, OnePairPerKey
  <2>2. CASE d = c /\ u \in DOMAIN old /\ j = Len(old) + 1
    BY <1>3, <1>4, <1>5, <2>2
  <2>3. CASE d = c /\ j \in DOMAIN old /\ u = Len(old) + 1
    <3>1. <<k, old[j].Head>> \in Equal
      BY <1>3, <1>4, <2>3
    <3>2. old[j].Head \in Key /\ HashCode[old[j].Head] = c
      BY <1>1, <2>3 DEF IndInv, BucketsByCode, Pair
    <3> QED
      BY <1>5, <2>3, <3>1, <3>2, KeyAssumption
  <2> QED
    BY <1>8, <2>1, <2>2, <2>3
<1>11. OrderCoversLive'
  <2> SUFFICES ASSUME NEW d \in Code, NEW u \in DOMAIN Map'[d]
               PROVE  \E t \in DOMAIN KeyOrder' :
                        /\ HashCode[KeyOrder'[t]] = d
                        /\ \/ KeyOrder'[t] = Map'[d][u].Head
                           \/ <<KeyOrder'[t], Map'[d][u].Head>> \in Equal
    BY DEF OrderCoversLive
  <2>1. CASE u \in DOMAIN Map[d] /\ Map'[d][u] = Map[d][u]
    <3>1. PICK t \in DOMAIN KeyOrder :
             /\ HashCode[KeyOrder[t]] = d
             /\ \/ KeyOrder[t] = Map[d][u].Head
                \/ <<KeyOrder[t], Map[d][u].Head>> \in Equal
      BY <2>1 DEF IndInv, OrderCoversLive
    <3>2. t \in DOMAIN KeyOrder' /\ KeyOrder'[t] = KeyOrder[t]
      BY <1>6
    <3> QED
      BY <2>1, <3>1, <3>2
  <2>2. CASE d = c /\ Map'[d][u].Head = k
    <3>1. Len(KeyOrder) + 1 \in DOMAIN KeyOrder'
      BY <1>6
    <3> QED
      BY <1>6, <2>2, <3>1
  <2> QED
    BY <1>8, <2>1, <2>2
<1>12. RecordWellTyped'
  <2> SUFFICES ASSUME NEW d \in Code, NEW u \in DOMAIN Map'[d]
               PROVE  <<Map'[d][u].Head, Map'[d][u].Tail>> \in Accepts
    BY DEF RecordWellTyped
  <2> QED
    BY <1>8 DEF IndInv, RecordWellTyped
<1>13. IsFiniteSet(Live)' /\ CountNotAbove'
  <2>1. Live' = Live \cup {<<c, Len(old) + 1>>}
    <3>1. DOMAIN new = DOMAIN old \cup {Len(old) + 1}
      BY <1>1, <1>3
    <3>2. \A d \in Code : DOMAIN Map'[d] = IF d = c THEN DOMAIN old \cup {Len(old) + 1}
                                            ELSE DOMAIN Map[d]
      BY <1>4, <3>1
    <3> QED
      BY <1>1, <3>2 DEF Live
  <2>2. <<c, Len(old) + 1>> \notin Live
    BY <1>1 DEF Live
  <2>3. IsFiniteSet(Live') /\ Cardinality(Live') = Cardinality(Live) + 1
    BY <2>1, <2>2, FS_AddElement DEF IndInv
  <2>4. NumKeys \in Int /\ Cardinality(Live) \in Nat
    BY FS_CardinalityType DEF IndInv, TypeOK
  <2> QED
    BY <2>3, <2>4 DEF IndInv, CountNotAbove, LiveCount
<1> QED
  BY <1>7, <1>9, <1>10, <1>11, <1>12, <1>13 DEF IndInv

\* HashSet keeps the invariant, whether it overwrites, inserts or refuses.
LEMMA HashSetInv ==
    ASSUME IndInv, NEW key \in Key, NEW val \in Val, HashSet(key, val)
    PROVE  IndInv'
<1>1. Elem[key] \in Key
  BY KeyAssumption
<1>2. CASE Hits(Map[HashCode[Elem[key]]], Elem[key]) # {}
  BY <1>1, <1>2, OverwriteInv DEF HashSet
<1>3. CASE Hits(Map[HashCode[Elem[key]]], Elem[key]) = {}
  BY <1>1, <1>3, InsertInv DEF HashSet
<1> QED
  BY <1>2, <1>3

-----------------------------------------------------------------------------
(* HashDelete and the msgpack round trip *)

\* What deleting leaves of a bucket: the other pairs, in their order.
LEMMA DeleteEffect ==
    ASSUME IndInv, NEW key \in Key, HashDelete(key), NEW d \in Code
    PROVE  /\ Map'[d] \in Seq(Pair)
           /\ \/ Map'[d] = Map[d]
              \/ \E t \in DOMAIN Map[d] :
                    /\ d = HashCode[key]
                    /\ Hits(Map[d], key) = {t}
                    /\ DOMAIN Map'[d] = 1..(Len(Map[d]) - 1)
                    /\ \A m \in DOMAIN Map'[d] :
                          Map'[d][m] = Map[d][IF m < t THEN m ELSE m + 1]
<1> DEFINE c == HashCode[key]
           t == Min(Hits(Map[c], key))
<1>1. c \in Code /\ Map \in [Code -> Seq(Pair)]
  BY KeyAssumption DEF IndInv, TypeOK
<1>2. CASE d # c \/ Hits(Map[c], key) = {}
  BY <1>1, <1>2 DEF HashDelete
<1>3. CASE d = c /\ Hits(Map[c], key) # {}
  <2>1. t \in DOMAIN Map[c] /\ Hits(Map[c], key) = {t}
    BY <1>3, FirstHit
  <2>2. Map'[c] = RemoveAt(Map[c], t)
    BY <1>1, <1>3 DEF HashDelete
  <2>3. t \in 1..Len(Map[c]) /\ Map[c] \in Seq(Pair)
    BY <1>1, <2>1
  <2> HIDE DEF t
  <2>4. /\ Map'[c] \in Seq(Pair) /\ Len(Map'[c]) = Len(Map[c]) - 1
        /\ \A m \in 1..(Len(Map[c]) - 1) :
              Map'[c][m] = IF m < t THEN Map[c][m] ELSE Map[c][m + 1]
    BY <2>2, <2>3, RemoveAtProperties, Zenon
  <2>5. DOMAIN Map'[c] = 1..(Len(Map[c]) - 1)
    BY <2>4
  <2> QED
    BY <1>3, <2>1, <2>4, <2>5
<1> QED
  BY <1>2, <1>3

\* Every pair left over was there before, in the same bucket, and two places
\* of the new bucket show two places of the old one.
LEMMA DeleteKeeps ==
    ASSUME IndInv, NEW key \in Key, HashDelete(key), NEW d \in Code,
           NEW u \in DOMAIN Map'[d], NEW j \in DOMAIN Map'[d]
    PROVE  \E m, t \in DOMAIN Map[d] :
              Map'[d][u] = Map[d][m] /\ Map'[d][j] = Map[d][t] /\ (m = t => u = j)
<1>1. CASE Map'[d] = Map[d]
  BY <1>1
<1>2. CASE \E r \in DOMAIN Map[d] :
             /\ DOMAIN Map'[d] = 1..(Len(Map[d]) - 1)
             /\ \A m \in DOMAIN Map'[d] : Map'[d][m] = Map[d][IF m < r THEN m ELSE m + 1]
  <2>1. PICK r \in DOMAIN Map[d] :
             /\ DOMAIN Map'[d] = 1..(Len(Map[d]) - 1)
             /\ \A m \in DOMAIN Map'[d] : Map'[d][m] = Map[d][IF m < r THEN m ELSE m + 1]
    BY <1>2
  <2>2. DOMAIN Map[d] = 1..Len(Map[d]) /\ Len(Map[d]) \in Nat
    BY DEF IndInv, TypeOK
  <2> DEFINE at(x) == IF x < r THEN x ELSE x + 1
  <2>3. /\ at(u) \in DOMAIN Map[d] /\ at(j) \in DOMAIN Map[d]
        /\ at(u) = at(j) => u = j
    BY <2>1, <2>2
  <2>4. Map'[d][u] = Map[d][at(u)] /\ Map'[d][j] = Map[d][at(j)]
    BY <2>1
  <2> QED
    BY <2>3, <2>4
<1> QED
  BY <1>1, <1>2, DeleteEffect

\* HashDelete keeps the invariant, whether or not the key is there.
LEMMA HashDeleteInv ==
    ASSUME IndInv, NEW key \in Key, HashDelete(key)
    PROVE  IndInv'
<1>1. ok' = ok /\ KeyOrder' = KeyOrder /\ NumKeys' = NumKeys - 1
  BY DEF HashDelete
<1>2. TypeOK'
  <2>1. Map' \in [Code -> Seq(Pair)]
    <3>1. \A d \in Code : Map'[d] \in Seq(Pair)
      BY DeleteEffect
    <3>2. Map' = [d \in Code |-> Map'[d]]
      BY DEF HashDelete, IndInv, TypeOK
    <3> QED
      BY <3>1, <3>2
  <2> QED
    BY <1>1, <2>1 DEF IndInv, TypeOK
<1>3. BucketsByCode'
  BY <1>1, DeleteKeeps DEF IndInv, BucketsByCode
<1>4. OnePairPerKey'
  <2> SUFFICES ASSUME NEW d \in Code, NEW u \in DOMAIN Map'[d], NEW j \in DOMAIN Map'[d],
                      <<Map'[d][u].Head, Map'[d][j].Head>> \in Equal
               PROVE  u = j
    BY DEF OnePairPerKey
  <2>1. PICK m, t \in DOMAIN Map[d] :
           Map'[d][u] = Map[d][m] /\ Map'[d][j] = Map[d][t] /\ (m = t => u = j)
    BY DeleteKeeps
  <2> QED
    BY <2>1 DEF IndInv, OnePairPerKey
<1>5. OrderCoversLive'
  <2> SUFFICES ASSUME NEW d \in Code, NEW u \in DOMAIN Map'[d]
               PROVE  \E t \in DOMAIN KeyOrder :
                        /\ HashCode[KeyOrder[t]] = d
                        /\ \/ KeyOrder[t] = Map'[d][u].Head
                           \/ <<KeyOrder[t], Map'[d][u].Head>> \in Equal
    BY <1>1 DEF OrderCoversLive
  <2>1. PICK m \in DOMAIN Map[d] : Map'[d][u] = Map[d][m]
    BY DeleteKeeps
  <2> QED
    BY <2>1 DEF IndInv, OrderCoversLive
<1>6. RecordWellTyped'
  BY DeleteKeeps DEF IndInv, RecordWellTyped
<1>7. IsFiniteSet(Live)' /\ CountNotAbove'
  <2> DEFINE c == HashCode[key]
             last == <<c, Len(Map[c])>>
  <2>1. Live' = Live \/ Live' = Live \ {last}
    <3>1. CASE Map' = Map
      BY <3>1 DEF Live
    <3>2. CASE Map' # Map
      <4>1. c \in Code /\ Map'[c] # Map[c] /\ \A d \in Code \ {c} : Map'[d] = Map[d]
        BY <3>2, KeyAssumption DEF HashDelete, IndInv, TypeOK
      <4>2. DOMAIN Map'[c] = 1..(Len(Map[c]) - 1)
        BY <4>1, DeleteEffect
      <4>3. DOMAIN Map[c] = 1..Len(Map[c]) /\ Len(Map[c]) \in Nat
        BY <4>1 DEF IndInv, TypeOK
      <4>4. DOMAIN Map'[c] = DOMAIN Map[c] \ {Len(Map[c])}
        BY <4>2, <4>3
      <4> QED
        BY <4>1, <4>4 DEF Live
    <3> QED
      BY <3>1, <3>2
  <2>2. /\ IsFiniteSet(Live')
        /\ Cardinality(Live') >= Cardinality(Live) - 1
        /\ Cardinality(Live) \in Nat
    <3>1. IsFiniteSet(Live) /\ Cardinality(Live) \in Nat
      BY FS_CardinalityType DEF IndInv
    <3>2. /\ IsFiniteSet(Live \ {last})
          /\ Cardinality(Live \ {last}) = IF last \in Live THEN Cardinality(Live) - 1
                                          ELSE Cardinality(Live)
      BY <3>1, FS_RemoveElement
    <3> HIDE DEF last
    <3> QED
      BY <2>1, <3>1, <3>2
  <2>3. Cardinality(Live') \in Nat /\ NumKeys \in Int
    BY <2>2, FS_CardinalityType DEF IndInv, TypeOK
  <2> QED
    BY <1>1, <2>2, <2>3 DEF IndInv, CountNotAbove, LiveCount
<1> QED
  BY <1>2, <1>3, <1>4, <1>5, <1>6, <1>7 DEF IndInv

-----------------------------------------------------------------------------
(* Msgpack *)

\* How many positions a list has.
LEMMA Positions ==
    ASSUME NEW l \in Nat
    PROVE  IsFiniteSet(1..l) /\ Cardinality(1..l) = l
<1>1. IsFiniteSet(1..l) /\ Cardinality(1..l) = IF 1 > l THEN 0 ELSE l - 1 + 1
  BY FS_Interval
<1> QED
  BY <1>1

\* The members of an encoded hash: symbols, told apart by their codes, each
\* with a value that is read through a listed key.
LEMMA MembersAre ==
    ASSUME IndInv, Encodable
    PROVE  /\ KeyOrder \in Seq(Key) /\ DOMAIN KeyOrder = 1..Len(KeyOrder)
           /\ Len(KeyOrder) \in Nat /\ IsFiniteSet(DOMAIN KeyOrder)
           /\ \A m \in DOMAIN KeyOrder :
                 /\ KeyOrder[m] \in DOMAIN Name /\ HashGet(KeyOrder[m]) \in DOMAIN Reread
           /\ \A s \in Members : /\ s \in Key /\ HashCode[s] \in Code
                                 /\ Elem[s] = s /\ <<s, s>> \in Equal
           /\ \A r, s \in Members : HashCode[r] = HashCode[s] => r = s
           /\ \A s \in Members : \E m \in DOMAIN KeyOrder :
                 Member(m) = s /\ Decoded(s) = Reread[HashGet(KeyOrder[m])]
           /\ \A s \in Members : Decoded(s) \in Val
<1>1. /\ KeyOrder \in Seq(Key) /\ DOMAIN KeyOrder = 1..Len(KeyOrder) /\ Len(KeyOrder) \in Nat
      /\ IsFiniteSet(DOMAIN KeyOrder)
  <2>1. KeyOrder \in Seq(Key)
    BY DEF IndInv, TypeOK
  <2>2. DOMAIN KeyOrder = 1..Len(KeyOrder) /\ Len(KeyOrder) \in Nat
    BY <2>1
  <2> QED
    BY <2>1, <2>2, FS_Interval
<1>2. \A m \in DOMAIN KeyOrder :
          KeyOrder[m] \in DOMAIN Name /\ HashGet(KeyOrder[m]) \in DOMAIN Reread
  BY DEF Encodable, ToSet
<1>3. \A s \in Members : \E j \in DOMAIN Name : s = Name[j]
  BY <1>2 DEF Members, Member
<1>4. \A s \in Members : s \in Key /\ HashCode[s] \in Code /\ Elem[s] = s /\ <<s, s>> \in Equal
  BY <1>3, KeyAssumption, JsonAssumption
<1>5. \A r, s \in Members : HashCode[r] = HashCode[s] => r = s
  BY <1>3, JsonAssumption
<1>6. ASSUME NEW s \in Members
      PROVE  /\ LastMember(s) \in DOMAIN KeyOrder /\ Member(LastMember(s)) = s
             /\ Decoded(s) = Reread[HashGet(KeyOrder[LastMember(s)])]
  <2> DEFINE T == {m \in DOMAIN KeyOrder : Member(m) = s}
  <2>1. T \in SUBSET (1..Len(KeyOrder)) /\ T # {}
    BY <1>1 DEF Members
  <2>2. \E x \in T : \A y \in T : y <= x
    BY <1>1, <2>1, Greatest
  <2>3. \E x \in T : \A y \in T : x >= y
    BY <1>1, <2>1, <2>2
  <2>4. Max(T) \in T
    <3> HIDE DEF T
    <3> QED BY <2>3 DEF Max
  <2>5. LastMember(s) = Max(T)
    BY DEF LastMember
  <2> QED
    BY <2>4, <2>5 DEF Decoded
<1>7. \A s \in Members : Decoded(s) \in Val
  BY <1>2, <1>6, JsonAssumption
<1> QED
  BY <1>1, <1>2, <1>4, <1>5, <1>6, <1>7

\* The decoded hash: a bucket for each member kept.
LEMMA DecodedBuckets ==
    ASSUME IndInv, MsgpackRoundTrip
    PROVE  /\ \A s \in Kept : s \in Members /\ <<s, Decoded(s)>> \in Accepts
           /\ \A s \in Kept : Map'[HashCode[s]] = <<NewPair(s, Decoded(s))>>
           /\ \A c \in Code : DOMAIN Map'[c] # {} => \E s \in Kept : HashCode[s] = c
           /\ Map' \in [Code -> Seq(Pair)]
           /\ IsFiniteSet(Live') /\ LiveCount' = Cardinality(Kept) /\ LiveCount' \in Nat
           /\ Kept \subseteq Members /\ IsFiniteSet(Members)
           /\ Cardinality(Members) <= Len(KeyOrder)
<1>1. Encodable
  BY DEF MsgpackRoundTrip
<1>2. ASSUME NEW s \in Kept PROVE s \in Members /\ <<s, Decoded(s)>> \in Accepts
  <2>1. s \in Members /\ (<<s, Decoded(s)>> \notin Accepts => Rank[s] < Rank[s])
    BY DEF Kept
  <2>2. Rank[s] \in Int
    BY <1>1, <2>1, MembersAre, JsonAssumption
  <2> QED
    BY <2>1, <2>2
<1>3. ASSUME NEW s \in Kept PROVE Map'[HashCode[s]] = <<NewPair(s, Decoded(s))>>
  <2>1. HashCode[s] \in Code
    BY <1>1, <1>2, MembersAre
  <2>2. {m \in Kept : HashCode[m] = HashCode[s]} = {s}
    BY <1>1, <1>2, MembersAre
  <2>3. (CHOOSE x \in {s} : TRUE) = s
    OBVIOUS
  <2> QED
    BY <2>1, <2>2, <2>3 DEF MsgpackRoundTrip
<1>4. \A c \in Code : (\A s \in Kept : HashCode[s] # c) => Map'[c] = <<>>
  BY DEF MsgpackRoundTrip
<1>5. \A s \in Kept : <<NewPair(s, Decoded(s))>> \in Seq(Pair)
  <2>1. \A s \in Members : s \in Key /\ Decoded(s) \in Val
    BY <1>1, MembersAre
  <2>2. \A s \in Kept : NewPair(s, Decoded(s)) \in Pair
    BY <1>2, <2>1 DEF NewPair, Pair
  <2> QED
    BY <2>2
<1>6. Map' \in [Code -> Seq(Pair)]
  <2>1. ASSUME NEW c \in Code PROVE Map'[c] \in Seq(Pair)
    <3>1. CASE \E s \in Kept : HashCode[s] = c
      BY <1>3, <1>5, <3>1
    <3>2. CASE \A s \in Kept : HashCode[s] # c
      <4>1. Map'[c] = <<>>
        BY <1>4, <3>2
      <4> QED
        BY <4>1
    <3> QED
      BY <3>1, <3>2
  <2>2. /\ DOMAIN Map' = Code
        /\ Map' = [c \in Code |-> Map'[c]]
    BY DEF MsgpackRoundTrip
  <2> QED
    BY <2>1, <2>2
<1>7. \A c \in Code : DOMAIN Map'[c] # {} => \E s \in Kept : HashCode[s] = c
  BY <1>4
<1>8. IsFiniteSet(Members) /\ Cardinality(Members) <= Len(KeyOrder)
  <2> DEFINE f == [m \in DOMAIN KeyOrder |-> Member(m)]
  <2>1. f \in Surjection(DOMAIN KeyOrder, Members)
    BY DEF Surjection, Members
  <2>2. /\ IsFiniteSet(DOMAIN KeyOrder)
        /\ Cardinality(DOMAIN KeyOrder) = Len(KeyOrder)
    BY <1>1, MembersAre, Positions
  <2> HIDE DEF f
  <2> QED
    BY <2>1, <2>2, FS_Surjection
<1>9. Kept \subseteq Members /\ IsFiniteSet(Kept)
  BY <1>2, <1>8, FS_Subset
<1>10. IsFiniteSet(Live') /\ LiveCount' = Cardinality(Kept)
  <2> DEFINE g == [s \in Kept |-> <<HashCode[s], 1>>]
  <2>1. \A s \in Kept : HashCode[s] \in Code /\ DOMAIN Map'[HashCode[s]] = {1}
    <3>1. \A s \in Kept : HashCode[s] \in Code
      BY <1>1, <1>2, MembersAre
    <3>2. \A x : DOMAIN <<x>> = {1}
      OBVIOUS
    <3> QED
      BY <1>3, <3>1, <3>2
  <2>2. \A p \in Live' : \E s \in Kept : p = <<HashCode[s], 1>>
    <3> SUFFICES ASSUME NEW c \in Code, NEW t \in DOMAIN Map'[c]
                 PROVE  \E s \in Kept : <<c, t>> = <<HashCode[s], 1>>
      BY DEF Live
    <3>1. PICK s \in Kept : HashCode[s] = c
      BY <1>7
    <3> QED
      BY <2>1, <3>1
  <2>3. \A s \in Kept : <<HashCode[s], 1>> \in Live'
    BY <2>1 DEF Live
  <2>4. g \in Bijection(Kept, Live')
    <3>1. g \in [Kept -> Live']
      BY <2>3
    <3>2. \A r, s \in Kept : g[r] = g[s] => r = s
      BY <1>1, <1>2, MembersAre
    <3>3. \A p \in Live' : \E s \in Kept : g[s] = p
      BY <2>2
    <3> HIDE DEF g
    <3> QED
      BY <3>1, <3>2, <3>3 DEF Bijection, Injection, Surjection, IsInjective
  <2>5. ExistsBijection(Kept, Live')
    <3> HIDE DEF g
    <3> QED BY <2>4 DEF ExistsBijection
  <2> QED
    BY <1>9, <2>5, FS_Bijection DEF LiveCount
<1>11. LiveCount' \in Nat
  BY <1>9, <1>10, FS_CardinalityType
<1> QED
  BY <1>2, <1>3, <1>6, <1>7, <1>8, <1>9, <1>10, <1>11

\* The decoded hash satisfies the invariant of the hash.
LEMMA RoundTripInv ==
    ASSUME IndInv, MsgpackRoundTrip
    PROVE  IndInv'
<1>1. Encodable
  BY DEF MsgpackRoundTrip
<1>2. ASSUME NEW c \in Code, NEW t \in DOMAIN Map'[c]
      PROVE  /\ t = 1
             /\ \E s \in Kept : HashCode[s] = c /\ Map'[c][t] = NewPair(s, Decoded(s))
  <2>1. PICK s \in Kept : HashCode[s] = c
    BY DecodedBuckets
  <2>2. Map'[c] = <<NewPair(s, Decoded(s))>>
    BY <2>1, DecodedBuckets
  <2> QED
    BY <2>1, <2>2
<1>3. \A s \in Kept : NewPair(s, Decoded(s)).Head = s /\ NewPair(s, Decoded(s)).Tail = Decoded(s)
  BY DEF NewPair
<1>4. BucketsByCode'
  <2>1. \A s \in Kept : HashCode[s] \in ok'
    BY DEF MsgpackRoundTrip
  <2> QED
    BY <1>2, <1>3, <2>1 DEF BucketsByCode
<1>5. OnePairPerKey'
  BY <1>2 DEF OnePairPerKey
<1>6. OrderCoversLive'
  <2> SUFFICES ASSUME NEW c \in Code, NEW t \in DOMAIN Map'[c]
               PROVE  \E m \in DOMAIN KeyOrder' :
                         HashCode[KeyOrder'[m]] = c /\ KeyOrder'[m] = Map'[c][t].Head
    BY DEF OrderCoversLive
  <2>1. PICK s \in Kept : HashCode[s] = c /\ Map'[c][t].Head = s
    BY <1>2, <1>3
  <2>2. PICK m \in DOMAIN KeyOrder : Member(m) = s
    BY <2>1, DecodedBuckets DEF Members
  <2>3. m \in DOMAIN KeyOrder' /\ KeyOrder'[m] = s
    BY <2>2 DEF MsgpackRoundTrip
  <2> QED
    BY <2>1, <2>3
<1>7. RecordWellTyped'
  <2> SUFFICES ASSUME NEW c \in Code, NEW t \in DOMAIN Map'[c]
               PROVE  <<Map'[c][t].Head, Map'[c][t].Tail>> \in Accepts
    BY DEF RecordWellTyped
  <2> QED
    BY <1>2, <1>3, DecodedBuckets
<1>8. TypeOK'
  <2>1. ok' \in SUBSET Code
    <3>1. \A s \in Members : HashCode[s] \in Code
      BY <1>1, MembersAre
    <3>2. Kept \subseteq Members
      BY DecodedBuckets
    <3> QED
      BY <3>1, <3>2 DEF MsgpackRoundTrip
  <2>2. KeyOrder' \in Seq(Key)
    <3>1. /\ DOMAIN KeyOrder = 1..Len(KeyOrder) /\ Len(KeyOrder) \in Nat
          /\ \A m \in DOMAIN KeyOrder : Member(m) \in Key
      BY <1>1, MembersAre DEF Members
    <3>2. KeyOrder' \in [1..Len(KeyOrder) -> Key]
      BY <3>1 DEF MsgpackRoundTrip
    <3> QED
      BY <3>1, <3>2, FunctionIsSeq
  <2>3. NumKeys' \in Int
    BY DecodedBuckets DEF MsgpackRoundTrip
  <2> QED
    BY <2>1, <2>2, <2>3, DecodedBuckets DEF TypeOK
<1>9. IsFiniteSet(Live)' /\ CountNotAbove'
  <2>1. IsFiniteSet(Live') /\ NumKeys' = LiveCount' /\ LiveCount' \in Nat
    BY DecodedBuckets DEF MsgpackRoundTrip
  <2> QED
    BY <2>1 DEF CountNotAbove
<1> QED
  BY <1>4, <1>5, <1>6, <1>7, <1>8, <1>9 DEF IndInv

-----------------------------------------------------------------------------
(* The theorems *)

\* So does a step that changes nothing.
LEMMA StutterInv == IndInv /\ UNCHANGED vars => IndInv'
BY DEF IndInv, vars, TypeOK, BucketsByCode, OnePairPerKey, OrderCoversLive,
       RecordWellTyped, CountNotAbove, Live, LiveCount

\* Every step keeps the invariant.
LEMMA NextInv == IndInv /\ [Next]_vars => IndInv'
<1> SUFFICES ASSUME IndInv, [Next]_vars PROVE IndInv'
  OBVIOUS
<1>1. CASE \E k \in Key : \E v \in Val : HashSet(k, v)
  BY <1>1, HashSetInv
<1>2. CASE \E k \in Key : HashDelete(k)
  BY <1>2, HashDeleteInv
<1>3. CASE MsgpackRoundTrip
  BY <1>3, RoundTripInv
<1>4. CASE UNCHANGED vars
  BY <1>4, StutterInv
<1> QED
  BY <1>1, <1>2, <1>3, <1>4 DEF Next

\* Every step of HashSet, HashDelete and the round trip keeps the invariant.
THEOREM Invariance == Spec => []IndInv
<1> QED
  BY InitInv, NextInv, PTL DEF Spec

\* The maps, lists and counts keep the types their Go declarations give them.
THEOREM TypeCorrect == Spec => []TypeOK
<1>1. IndInv => TypeOK
  BY DEF IndInv
<1> QED
  BY <1>1, Invariance, PTL

\* A key never has two pairs: overwriting replaces, it does not shadow.
THEOREM KeysAreUnique == Spec => []OnePairPerKey
<1>1. IndInv => OnePairPerKey
  BY DEF IndInv
<1> QED
  BY <1>1, Invariance, PTL

\* The readers that go through KeyOrder miss no pair.
THEOREM OrderIsComplete == Spec => []OrderCoversLive
<1>1. IndInv => OrderCoversLive
  BY DEF IndInv
<1> QED
  BY <1>1, Invariance, PTL

\* What HashCountKeys panics about can only be a count that is too low.
THEOREM CountIsLowerBound == Spec => []CountNotAbove
<1>1. IndInv => CountNotAbove
  BY DEF IndInv
<1> QED
  BY <1>1, Invariance, PTL

\* No pair of a typed record got past TypeCheckField.
THEOREM RecordsStayTyped == Spec => []RecordWellTyped
<1>1. IndInv => RecordWellTyped
  BY DEF IndInv
<1> QED
  BY <1>1, Invariance, PTL

-----------------------------------------------------------------------------
(* What the printers and the range loops reach *)

\* A listed key that lookups find as it is finds the pair listed under it.
LEMMA PlainFound ==
    ASSUME IndInv, NEW k \in Key, Plain(k), NEW u \in DOMAIN Map[HashCode[k]],
           k = Map[HashCode[k]][u].Head \/ <<k, Map[HashCode[k]][u].Head>> \in Equal
    PROVE  u \in Hits(Map[HashCode[k]], k) /\ Found(k)
<1> DEFINE arr == Map[HashCode[k]]
<1>1. GoodBucket(arr, HashCode[k]) /\ HashCode[k] \in Code
  BY BucketsGood, KeyAssumption
<1>2. arr[u].Head \in Key /\ HashCode[arr[u].Head] = HashCode[k]
  BY <1>1, HeadsOfBucket
<1>3. <<arr[u].Head, k>> \in Equal
  BY <1>2, KeyAssumption DEF Plain
<1>4. u \in Hits(arr, k)
  BY <1>3 DEF Hits
<1>5. Min(Hits(arr, k)) = u
  BY <1>1, <1>4, OnlyHit
<1>6. arr[u] \in Pair
  BY <1>1 DEF GoodBucket
<1>7. HashGet(k) = arr[u].Tail
  BY <1>4, <1>5 DEF HashGet, HashGetDefault, Plain
<1>8. HashGet(k) # NoValue
  BY <1>6, <1>7, ValueAssumption DEF Pair
<1> QED
  BY <1>4, <1>8 DEF Found

\* If the positions that HashPairi can still return are used up, the pairs
\* cannot outnumber the positions passed: distinct pairs have distinct places
\* in KeyOrder.
LEMMA PairiReaches ==
    ASSUME IndInv, \A k \in ToSet(KeyOrder) : Plain(k), NEW pos \in Nat, pos < LiveCount
    PROVE  Reach(pos) # {}
<1> SUFFICES ASSUME Reach(pos) = {} PROVE FALSE
  OBVIOUS
<1> DEFINE lists(p, t) ==
             /\ HashCode[KeyOrder[t]] = p[1]
             /\ \/ KeyOrder[t] = Map[p[1]][p[2]].Head
                \/ <<KeyOrder[t], Map[p[1]][p[2]].Head>> \in Equal
           place(p) == CHOOSE t \in DOMAIN KeyOrder : lists(p, t)
           f == [p \in Live |-> place(p)]
<1>1. /\ KeyOrder \in Seq(Key) /\ DOMAIN KeyOrder = 1..Len(KeyOrder) /\ Len(KeyOrder) \in Nat
      /\ \A t \in DOMAIN KeyOrder : KeyOrder[t] \in Key /\ Plain(KeyOrder[t])
  BY DEF IndInv, TypeOK, ToSet
<1>2. ASSUME NEW p \in Live
      PROVE  place(p) \in DOMAIN KeyOrder /\ lists(p, place(p))
  <2>1. p[1] \in Code /\ p[2] \in DOMAIN Map[p[1]]
    BY DEF Live
  <2>2. \E t \in DOMAIN KeyOrder : lists(p, t)
    BY <2>1 DEF IndInv, OrderCoversLive
  <2> HIDE DEF lists
  <2> QED
    BY <2>2
<1>3. ASSUME NEW p \in Live
      PROVE  /\ p = <<p[1], p[2]>>
             /\ HashCode[KeyOrder[place(p)]] = p[1]
             /\ p[2] \in Hits(Map[p[1]], KeyOrder[place(p)]) /\ Found(KeyOrder[place(p)])
  <2>1. PICK t : t = place(p)
    OBVIOUS
  <2>2. t \in DOMAIN KeyOrder /\ lists(p, t)
    BY <1>2, <2>1
  <2>3. PICK k \in Key : k = KeyOrder[t] /\ Plain(k)
    BY <1>1, <2>2
  <2>4. p[1] \in Code /\ p[2] \in DOMAIN Map[p[1]] /\ p = <<p[1], p[2]>>
    BY DEF Live
  <2>5. p[2] \in Hits(Map[p[1]], k) /\ Found(k)
    BY <2>2, <2>3, <2>4, PlainFound
  <2> QED
    BY <2>1, <2>2, <2>3, <2>4, <2>5
<1>4. ASSUME NEW p \in Live PROVE place(p) \in 1..pos
  <2>1. place(p) \notin Reach(pos)
    OBVIOUS
  <2>2. place(p) \in 1..Len(KeyOrder)
    BY <1>1, <1>2
  <2>3. ~(place(p) > pos)
    BY <1>2, <1>3, <2>1 DEF Reach
  <2> HIDE DEF place
  <2> QED
    BY <2>2, <2>3
<1>5. f \in [Live -> 1..pos]
  BY <1>4
<1>6. ASSUME NEW p \in Live, NEW q \in Live, f[p] = f[q] PROVE p = q
  <2>1. PICK k : k = KeyOrder[place(p)]
    OBVIOUS
  <2>2. place(p) = place(q)
    BY <1>6
  <2>3. /\ p = <<p[1], p[2]>> /\ q = <<q[1], q[2]>> /\ HashCode[k] = p[1] /\ HashCode[k] = q[1]
        /\ p[2] \in Hits(Map[p[1]], k) /\ q[2] \in Hits(Map[p[1]], k)
    BY <1>3, <2>1, <2>2, ZenonT(40)
  <2>4. k \in Key
    BY <1>1, <1>2, <2>1
  <2>5. GoodBucket(Map[p[1]], p[1])
    BY <2>3, <2>4, BucketsGood, KeyAssumption
  <2>6. p[2] = q[2]
    BY <2>3, <2>4, <2>5, HitsUnique
  <2> QED
    BY <2>3, <2>6
<1> HIDE DEF f
<1>7. /\ IsFiniteSet(Live) /\ IsFiniteSet(1..pos)
      /\ Cardinality(1..pos) = IF 1 > pos THEN 0 ELSE pos - 1 + 1
      /\ Cardinality(Live) \in Nat
  BY FS_Interval, FS_CardinalityType DEF IndInv
<1>8. Cardinality(1..pos) < Cardinality(Live)
  BY <1>7 DEF LiveCount
<1>9. \E p, q \in Live : p # q /\ f[p] = f[q]
  BY <1>5, <1>7, <1>8, FS_PigeonHole
<1> QED
  BY <1>6, <1>9

\* BucketsByCode: an alias never leaves a pair in a bucket of another code,
\* or in a bucket the Go map has no entry for (HashSet, hashutils.go).
THEOREM BucketsStaySorted == Spec => []BucketsByCode
<1>1. IndInv => BucketsByCode
  BY DEF IndInv
<1> QED
  BY <1>1, Invariance, PTL

\* PairiTotal: with a right count and plain keys HashPairi (hashutils.go)
\* finds a pair for every position below the count, however many keys of
\* deleted pairs KeyOrder lists.
THEOREM PairiIsTotal == Spec => []PairiTotal
<1>1. IndInv => PairiTotal
  <2> SUFFICES ASSUME IndInv, NumKeys = LiveCount, \A k \in ToSet(KeyOrder) : Plain(k),
                      NEW pos \in 0..(NumKeys - 1)
               PROVE  Reach(pos) # {}
    BY DEF PairiTotal
  <2>1. LiveCount \in Nat
    BY FS_CardinalityType DEF IndInv, LiveCount
  <2>2. pos \in Nat /\ pos < LiveCount
    BY <2>1
  <2> QED
    BY <2>2, PairiReaches
<1> QED
  BY <1>1, Invariance, PTL

-----------------------------------------------------------------------------
(* The hash implements the dictionary *)

\* What a lookup finds in one bucket, in terms of the pairs it holds.
LEMMA Lookup ==
    ASSUME NEW c, NEW arr, GoodBucket(arr, c), NEW k \in Key, HashCode[k] = c
    PROVE  /\ \A t \in DOMAIN arr : <<arr[t].Head, k>> \in Equal
                 => Hits(arr, k) # {} /\ arr[Min(Hits(arr, k))].Tail = arr[t].Tail
           /\ (\A t \in DOMAIN arr : <<arr[t].Head, k>> \notin Equal)
                 => Hits(arr, k) = {}
<1>1. ASSUME NEW t \in DOMAIN arr, <<arr[t].Head, k>> \in Equal
      PROVE  Hits(arr, k) # {} /\ arr[Min(Hits(arr, k))].Tail = arr[t].Tail
  <2>1. t \in Hits(arr, k)
    BY <1>1 DEF Hits
  <2> QED
    BY <2>1, OnlyHit
<1>2. (\A t \in DOMAIN arr : <<arr[t].Head, k>> \notin Equal) => Hits(arr, k) = {}
  BY DEF Hits
<1> QED
  BY <1>1, <1>2

\* Two buckets of one code give a key the same answer when they hold the same
\* pairs that match it.
LEMMA SameLookup ==
    ASSUME NEW c, NEW arr, NEW new, GoodBucket(arr, c), GoodBucket(new, c),
           NEW k \in Key, HashCode[k] = c,
           \A t \in DOMAIN arr : <<arr[t].Head, k>> \in Equal
              => \E m \in DOMAIN new : new[m] = arr[t],
           \A m \in DOMAIN new : <<new[m].Head, k>> \in Equal
              => \E t \in DOMAIN arr : new[m] = arr[t]
    PROVE  /\ Hits(new, k) = {} <=> Hits(arr, k) = {}
           /\ Hits(arr, k) # {} =>
                 new[Min(Hits(new, k))].Tail = arr[Min(Hits(arr, k))].Tail
<1>1. CASE \E t \in DOMAIN arr : <<arr[t].Head, k>> \in Equal
  <2>1. PICK t \in DOMAIN arr : <<arr[t].Head, k>> \in Equal
    BY <1>1
  <2>2. PICK m \in DOMAIN new : new[m] = arr[t]
    BY <2>1
  <2>3. Hits(arr, k) # {} /\ arr[Min(Hits(arr, k))].Tail = arr[t].Tail
    BY <2>1, Lookup
  <2>4. Hits(new, k) # {} /\ new[Min(Hits(new, k))].Tail = new[m].Tail
    BY <2>1, <2>2, Lookup
  <2> QED
    BY <2>2, <2>3, <2>4
<1>2. CASE \A t \in DOMAIN arr : <<arr[t].Head, k>> \notin Equal
  <2>1. \A m \in DOMAIN new : <<new[m].Head, k>> \notin Equal
    BY <1>2
  <2> QED
    BY <1>2, <2>1, Lookup
<1> QED
  BY <1>1, <1>2

\* Setting a key puts its value under that key and its aliases, no other.
LEMMA SetIsPut ==
    ASSUME IndInv, IndInv', NEW key \in Key, NEW val \in Val, HashSet(key, val),
           NEW j \in Key
    PROVE  HashGetDefault(j, NoValue)' =
              IF <<j, Elem[key]>> \in Ident THEN val ELSE HashGetDefault(j, NoValue)
<1> DEFINE k   == Elem[key]
           c   == HashCode[k]
           arr == Map[c]
           new == Map'[c]
<1>1. k \in Key /\ c \in Code /\ HashCode[j] \in Code /\ Map \in [Code -> Seq(Pair)]
  BY KeyAssumption DEF IndInv, TypeOK
<1>2. CASE HashCode[j] # c
  <2>1. Map'[HashCode[j]] = Map[HashCode[j]]
    BY <1>1, <1>2 DEF HashSet
  <2> QED
    BY <1>2, <2>1 DEF HashGetDefault, Ident
<1>3. CASE HashCode[j] = c
  <2>1. GoodBucket(arr, c) /\ GoodBucket(new, c)
    <3>1. GoodBucket(new, c)
      BY <1>1 DEF IndInv, TypeOK, BucketsByCode, OnePairPerKey, GoodBucket
    <3> QED
      BY <1>1, <3>1, BucketsGood
  <2>2. \A t \in DOMAIN arr : t \in Hits(arr, k) \/ (t \in DOMAIN new /\ new[t] = arr[t])
    <3>1. CASE Hits(arr, k) # {}
      BY <1>1, <3>1 DEF HashSet
    <3>2. CASE Hits(arr, k) = {}
      <4>1. new = Append(arr, NewPair(k, val)) /\ NewPair(k, val) \in Pair
        BY <1>1, <3>2 DEF HashSet, NewPair, Pair
      <4> QED
        BY <1>1, <4>1
    <3> QED
      BY <3>1, <3>2
  <2>3. \A m \in DOMAIN new : \/ new[m] = NewPair(k, val)
                              \/ m \in DOMAIN arr /\ m \notin Hits(arr, k) /\ new[m] = arr[m]
    <3>1. CASE Hits(arr, k) # {}
      BY <1>1, <3>1 DEF HashSet
    <3>2. CASE Hits(arr, k) = {}
      <4>1. new = Append(arr, NewPair(k, val)) /\ NewPair(k, val) \in Pair
        BY <1>1, <3>2 DEF HashSet, NewPair, Pair
      <4> QED
        BY <1>1, <3>2, <4>1
    <3> QED
      BY <3>1, <3>2
  <2>4. \E m \in DOMAIN new : new[m] = NewPair(k, val)
    <3>1. CASE Hits(arr, k) # {}
      BY <1>1, <3>1, ZenonT(40) DEF HashSet, Hits
    <3>2. CASE Hits(arr, k) = {}
      <4>1. new = Append(arr, NewPair(k, val)) /\ NewPair(k, val) \in Pair
        BY <1>1, <3>2 DEF HashSet, NewPair, Pair
      <4>2. Len(arr) + 1 \in DOMAIN new /\ new[Len(arr) + 1] = NewPair(k, val)
        BY <1>1, <4>1
      <4> QED
        BY <4>2
    <3> QED
      BY <3>1, <3>2
  <2>5. NewPair(k, val).Head = k /\ NewPair(k, val).Tail = val
    BY DEF NewPair
  <2>6. <<k, j>> \in Equal <=> <<j, k>> \in Equal
    BY <1>1, <1>3, KeyAssumption
  <2>7. HashGetDefault(j, NoValue)' =
           IF Hits(new, j) = {} THEN NoValue ELSE new[Min(Hits(new, j))].Tail
    BY <1>3 DEF HashGetDefault
  <2>8. HashGetDefault(j, NoValue) =
           IF Hits(arr, j) = {} THEN NoValue ELSE arr[Min(Hits(arr, j))].Tail
    BY <1>3 DEF HashGetDefault
  <2> HIDE DEF new
  <2>9. CASE <<j, k>> \in Equal
    <3>1. PICK m \in DOMAIN new : new[m] = NewPair(k, val)
      BY <2>4
    <3>2. Hits(new, j) # {} /\ new[Min(Hits(new, j))].Tail = val
      BY <1>3, <2>1, <2>5, <2>6, <2>9, <3>1, Lookup
    <3> QED
      BY <1>1, <1>3, <2>7, <2>9, <3>2 DEF Ident
  <2>10. CASE <<j, k>> \notin Equal
    <3>1. ASSUME NEW t \in DOMAIN arr, <<arr[t].Head, j>> \in Equal
          PROVE  \E m \in DOMAIN new : new[m] = arr[t]
      <4>1. arr[t].Head \in Key /\ HashCode[arr[t].Head] = c
        BY <2>1, HeadsOfBucket
      <4>2. <<j, arr[t].Head>> \in Equal
        BY <1>3, <3>1, <4>1, KeyAssumption
      <4>3. <<arr[t].Head, k>> \notin Equal
        BY <1>1, <1>3, <2>10, <4>1, <4>2, KeyAssumption
      <4> QED
        BY <2>2, <4>3 DEF Hits
    <3>2. ASSUME NEW m \in DOMAIN new, <<new[m].Head, j>> \in Equal
          PROVE  \E t \in DOMAIN arr : new[m] = arr[t]
      BY <2>3, <2>5, <2>6, <2>10, <3>2
    <3>3. /\ Hits(new, j) = {} <=> Hits(arr, j) = {}
          /\ Hits(arr, j) # {} =>
                new[Min(Hits(new, j))].Tail = arr[Min(Hits(arr, j))].Tail
      BY <1>3, <2>1, <3>1, <3>2, SameLookup
    <3> QED
      BY <2>7, <2>8, <2>10, <3>3 DEF Ident
  <2> QED
    BY <2>9, <2>10
<1> QED
  BY <1>2, <1>3

\* Deleting a key leaves nothing under it and its aliases, and the rest alone.
LEMMA DeleteIsRemove ==
    ASSUME IndInv, IndInv', NEW key \in Key, HashDelete(key), NEW j \in Key
    PROVE  HashGetDefault(j, NoValue)' =
              IF <<j, key>> \in Ident THEN NoValue ELSE HashGetDefault(j, NoValue)
<1> DEFINE c   == HashCode[j]
           arr == Map[c]
           new == Map'[c]
<1>1. c \in Code /\ HashCode[key] \in Code /\ Map \in [Code -> Seq(Pair)]
  BY KeyAssumption DEF IndInv, TypeOK
<1>2. GoodBucket(arr, c) /\ GoodBucket(new, c)
  <2>1. GoodBucket(new, c)
    BY <1>1 DEF IndInv, TypeOK, BucketsByCode, OnePairPerKey, GoodBucket
  <2> QED
    BY <1>1, <2>1, BucketsGood
<1>3. HashGetDefault(j, NoValue)' =
         IF Hits(new, j) = {} THEN NoValue ELSE new[Min(Hits(new, j))].Tail
  BY DEF HashGetDefault
<1>4. HashGetDefault(j, NoValue) =
         IF Hits(arr, j) = {} THEN NoValue ELSE arr[Min(Hits(arr, j))].Tail
  BY DEF HashGetDefault
<1>5. CASE HashCode[key] # c
  <2>1. new = arr
    BY <1>1, <1>5 DEF HashDelete
  <2> QED
    BY <1>3, <1>4, <1>5, <2>1 DEF Ident
<1>6. CASE HashCode[key] = c
  <2>0. \/ new = arr
        \/ \E r \in DOMAIN arr :
              /\ Hits(arr, key) = {r}
              /\ DOMAIN new = 1..(Len(arr) - 1)
              /\ \A m \in DOMAIN new : new[m] = arr[IF m < r THEN m ELSE m + 1]
    <3>1. \/ Map'[c] = Map[c]
          \/ \E t \in DOMAIN Map[c] :
                /\ c = HashCode[key]
                /\ Hits(Map[c], key) = {t}
                /\ DOMAIN Map'[c] = 1..(Len(Map[c]) - 1)
                /\ \A m \in DOMAIN Map'[c] :
                      Map'[c][m] = Map[c][IF m < t THEN m ELSE m + 1]
      <4> HIDE DEF c
      <4> QED
        BY <1>1, DeleteEffect
    <3> QED
      BY <3>1, Zenon
  <2>1. \A t \in DOMAIN arr : <<arr[t].Head, key>> \in Equal
                             \/ \E m \in DOMAIN new : new[m] = arr[t]
    <3>1. CASE new = arr
      BY <3>1
    <3>2. CASE \E r \in DOMAIN arr :
                  /\ Hits(arr, key) = {r}
                  /\ DOMAIN new = 1..(Len(arr) - 1)
                  /\ \A m \in DOMAIN new : new[m] = arr[IF m < r THEN m ELSE m + 1]
      <4>1. PICK r \in DOMAIN arr :
                  /\ Hits(arr, key) = {r}
                  /\ DOMAIN new = 1..(Len(arr) - 1)
                  /\ \A m \in DOMAIN new : new[m] = arr[IF m < r THEN m ELSE m + 1]
        BY <3>2
      <4>2. DOMAIN arr = 1..Len(arr) /\ Len(arr) \in Nat
        BY <1>1
      <4>3. ASSUME NEW t \in DOMAIN arr, t # r
            PROVE  \E m \in DOMAIN new : new[m] = arr[t]
        <5> DEFINE from == IF t < r THEN t ELSE t - 1
        <5>1. from \in DOMAIN new /\ (IF from < r THEN from ELSE from + 1) = t
          BY <4>1, <4>2, <4>3
        <5> QED
          BY <4>1, <5>1
      <4> QED
        BY <4>1, <4>3 DEF Hits
    <3> QED
      BY <2>0, <3>1, <3>2
  <2>2. \A m \in DOMAIN new : /\ <<new[m].Head, key>> \notin Equal
                              /\ \E t \in DOMAIN arr : new[m] = arr[t]
    <3>1. CASE Hits(arr, key) = {}
      <4>1. new = arr
        BY <1>1, <1>6, <3>1 DEF HashDelete
      <4> QED
        BY <3>1, <4>1 DEF Hits
    <3>2. CASE Hits(arr, key) # {}
      <4>1. PICK r \in DOMAIN arr : Hits(arr, key) = {r}
        BY <1>6, <3>2, FirstHit
      <4>2. new # arr => \A m \in DOMAIN new :
                           \E t \in DOMAIN arr \ {r} : new[m] = arr[t]
        <5>1. CASE new = arr
          BY <5>1
        <5>2. CASE /\ DOMAIN new = 1..(Len(arr) - 1)
                   /\ \A m \in DOMAIN new : new[m] = arr[IF m < r THEN m ELSE m + 1]
          <6>1. DOMAIN arr = 1..Len(arr) /\ Len(arr) \in Nat
            BY <1>1
          <6>2. \A m \in DOMAIN new : (IF m < r THEN m ELSE m + 1) \in DOMAIN arr \ {r}
            BY <4>1, <5>2, <6>1
          <6> QED
            BY <5>2, <6>2
        <5> QED
          BY <2>0, <4>1, <5>1, <5>2
      <4>3. new # arr
        <5>1. new = RemoveAt(arr, r) /\ r \in 1..Len(arr) /\ Len(arr) \in Nat
          <6>1. r \in Int /\ Min(Hits(arr, key)) = r
            BY <1>1, <4>1, MinSingleton
          <6> QED
            BY <1>1, <1>6, <3>2, <4>1, <6>1 DEF HashDelete
        <5>2. Len(new) = Len(arr) - 1
          BY <1>1, <5>1, RemoveAtProperties
        <5> QED
          BY <5>1, <5>2
      <4> QED
        BY <4>1, <4>2, <4>3 DEF Hits
    <3> QED
      BY <3>1, <3>2
  <2>3. \A h \in Key : HashCode[h] = c /\ <<j, key>> \in Equal
            => (<<h, j>> \in Equal <=> <<h, key>> \in Equal)
    BY <1>6, KeyAssumption
  <2>4. \A h \in Key : HashCode[h] = c /\ <<h, j>> \in Equal /\ <<h, key>> \in Equal
            => <<j, key>> \in Equal
    BY <1>6, KeyAssumption
  <2> HIDE DEF new
  <2>5. CASE <<j, key>> \in Equal
    <3>1. ASSUME NEW m \in DOMAIN new PROVE <<new[m].Head, j>> \notin Equal
      <4>1. new[m].Head \in Key /\ HashCode[new[m].Head] = c
        BY <1>2, HeadsOfBucket
      <4> QED
        BY <2>2, <2>3, <2>5, <4>1
    <3>2. Hits(new, j) = {}
      BY <3>1 DEF Hits
    <3> QED
      BY <1>3, <1>6, <2>5, <3>2 DEF Ident
  <2>6. CASE <<j, key>> \notin Equal
    <3>1. ASSUME NEW t \in DOMAIN arr, <<arr[t].Head, j>> \in Equal
          PROVE  \E m \in DOMAIN new : new[m] = arr[t]
      <4>1. arr[t].Head \in Key /\ HashCode[arr[t].Head] = c
        BY <1>2, HeadsOfBucket
      <4> QED
        BY <2>1, <2>4, <2>6, <3>1, <4>1
    <3>2. \A m \in DOMAIN new : \E t \in DOMAIN arr : new[m] = arr[t]
      BY <2>2
    <3>3. /\ Hits(new, j) = {} <=> Hits(arr, j) = {}
          /\ Hits(arr, j) # {} =>
                new[Min(Hits(new, j))].Tail = arr[Min(Hits(arr, j))].Tail
      BY <1>2, <3>1, <3>2, SameLookup
    <3> QED
      BY <1>3, <1>4, <2>6, <3>3 DEF Ident
  <2> QED
    BY <2>5, <2>6
<1> QED
  BY <1>5, <1>6

\* The answers of a decoded hash: each is the copy of a value read through a
\* listed key before, under the name that key was given.
LEMMA DecodedAnswers ==
    ASSUME IndInv, IndInv', MsgpackRoundTrip, NEW k \in Key,
           HashGetDefault(k, NoValue)' # NoValue
    PROVE  \E m \in DOMAIN KeyOrder :
              /\ KeyOrder[m] \in DOMAIN Name
              /\ HashGet(KeyOrder[m]) \in DOMAIN Reread
              /\ <<Name[KeyOrder[m]], k>> \in Ident
              /\ HashGetDefault(k, NoValue)' = Reread[HashGet(KeyOrder[m])]
<1> DEFINE c == HashCode[k]
           new == Map'[c]
<1>1. c \in Code /\ Encodable
  BY KeyAssumption DEF MsgpackRoundTrip
<1>2. HashGetDefault(k, NoValue)' = IF Hits(new, k) = {} THEN NoValue
                                    ELSE new[Min(Hits(new, k))].Tail
  BY DEF HashGetDefault, Hits
<1>3. Hits(new, k) # {}
  BY <1>2
<1>4. PICK s \in Kept : HashCode[s] = c
  BY <1>1, <1>3, DecodedBuckets DEF Hits
<1>5. new = <<NewPair(s, Decoded(s))>> /\ s \in Members
  BY <1>4, DecodedBuckets
<1>6. DOMAIN new = {1} /\ new[1].Head = s /\ new[1].Tail = Decoded(s)
  BY <1>5 DEF NewPair
<1> HIDE DEF new
<1>7. Hits(new, k) = {1} /\ <<s, k>> \in Equal
  BY <1>3, <1>6 DEF Hits
<1>8. HashGetDefault(k, NoValue)' = Decoded(s)
  BY <1>2, <1>6, <1>7, MinSingleton
<1>9. PICK m \in DOMAIN KeyOrder : Member(m) = s /\ Decoded(s) = Reread[HashGet(KeyOrder[m])]
  BY <1>1, <1>5, MembersAre
<1>10. <<s, k>> \in Ident
  BY <1>1, <1>4, <1>5, <1>7, MembersAre DEF Ident
<1>11. KeyOrder[m] \in DOMAIN Name /\ HashGet(KeyOrder[m]) \in DOMAIN Reread
  BY <1>1, <1>9, MembersAre
<1> QED
  BY <1>8, <1>9, <1>10, <1>11 DEF Member

\* A key the decoded hash does not know under its new name was not known, or
\* the type has refused a copy.
LEMMA NothingLost ==
    ASSUME IndInv, IndInv', MsgpackRoundTrip, \A s \in Members : s \in Kept,
           NEW k \in Key, HashGetDefault(k, NoValue) # NoValue
    PROVE  \E j \in DOMAIN Name :
              /\ Name[j] \in Key /\ <<j, k>> \in Ident
              /\ HashGetDefault(Name[j], NoValue)' # NoValue
<1> DEFINE c == HashCode[k]
<1>1. c \in Code /\ Encodable /\ GoodBucket(Map[c], c)
  BY KeyAssumption, BucketsGood DEF MsgpackRoundTrip
<1>2. PICK t \in DOMAIN Map[c] : <<Map[c][t].Head, k>> \in Equal
  <2>1. Hits(Map[c], k) # {}
    BY DEF HashGetDefault
  <2> QED
    BY <2>1 DEF Hits
<1>3. Map[c][t].Head \in Key /\ HashCode[Map[c][t].Head] = c
  BY <1>1, HeadsOfBucket
<1>4. PICK m \in DOMAIN KeyOrder :
          /\ HashCode[KeyOrder[m]] = c
          /\ KeyOrder[m] = Map[c][t].Head \/ <<KeyOrder[m], Map[c][t].Head>> \in Equal
  BY <1>1, <1>2 DEF IndInv, OrderCoversLive
<1>5. KeyOrder[m] \in Key /\ KeyOrder[m] \in DOMAIN Name
  BY <1>1, MembersAre
<1>6. <<KeyOrder[m], k>> \in Ident
  <2>1. <<KeyOrder[m], k>> \in Equal
    BY <1>2, <1>3, <1>4, <1>5, KeyAssumption
  <2> QED
    BY <1>4, <1>5, <2>1 DEF Ident
<1>7. PICK j \in DOMAIN Name, s \in Members : j = KeyOrder[m] /\ s = Name[j]
  BY <1>5 DEF Members, Member
<1>8. /\ s \in Members /\ s \in Kept /\ s \in Key /\ <<s, s>> \in Equal
      /\ Decoded(s) \in Val /\ HashCode[s] \in Code
  BY <1>1, MembersAre
<1>9. Map'[HashCode[s]] = <<NewPair(s, Decoded(s))>>
  BY <1>8, DecodedBuckets
<1>10. HashGetDefault(s, NoValue)' = Decoded(s)
  <2> DEFINE new == Map'[HashCode[s]]
  <2>1. DOMAIN new = {1} /\ new[1].Head = s /\ new[1].Tail = Decoded(s)
    BY <1>9 DEF NewPair
  <2>2. HashGetDefault(s, NoValue)' = IF Hits(new, s) = {} THEN NoValue
                                      ELSE new[Min(Hits(new, s))].Tail
    BY DEF HashGetDefault, Hits
  <2> HIDE DEF new
  <2>3. Hits(new, s) = {1}
    BY <1>8, <2>1 DEF Hits
  <2> QED
    BY <2>1, <2>2, <2>3, MinSingleton
<1>11. HashGetDefault(s, NoValue)' # NoValue
  BY <1>8, <1>10, ValueAssumption
<1> QED
  BY <1>6, <1>8, <1>11, <1>7

\* A round trip is a transcription of the dictionary.
LEMMA RoundTripIsTranscribe ==
    ASSUME IndInv, IndInv', MsgpackRoundTrip
    PROVE  Dict!Transcribe
<1> DEFINE dict == [k \in Key |-> HashGetDefault(k, NoValue)]
           Seen(m) == dict[Elem[KeyOrder[m]]]
<1>1. Encodable
  BY DEF MsgpackRoundTrip
<1>2. /\ \A k \in Key : dict[k] = HashGetDefault(k, NoValue)
      /\ \A k \in Key : dict'[k] = HashGetDefault(k, NoValue)'
  OBVIOUS
<1>3. \A m \in DOMAIN KeyOrder : KeyOrder[m] \in Key /\ Seen(m) = HashGet(KeyOrder[m])
  <2>1. \A m \in DOMAIN KeyOrder : KeyOrder[m] \in Key
    BY <1>1, MembersAre
  <2> QED
    BY <1>2, <2>1, KeyAssumption DEF HashGet
<1>4. ASSUME NEW k \in Key, dict'[k] # NoValue
      PROVE  \E j \in DOMAIN Name :
                /\ dict[Elem[j]] \in DOMAIN Reread
                /\ <<Name[j], k>> \in Ident /\ dict'[k] = Reread[dict[Elem[j]]]
  <2>1. HashGetDefault(k, NoValue)' # NoValue
    BY <1>2, <1>4
  <2>2. PICK m \in DOMAIN KeyOrder :
            /\ KeyOrder[m] \in DOMAIN Name
            /\ HashGet(KeyOrder[m]) \in DOMAIN Reread
            /\ <<Name[KeyOrder[m]], k>> \in Ident
            /\ HashGetDefault(k, NoValue)' = Reread[HashGet(KeyOrder[m])]
    BY <2>1, DecodedAnswers
  <2> HIDE DEF dict
  <2> QED
    BY <1>2, <1>3, <2>2
<1>5. CASE \A s \in Members : s \in Kept
  <2>1. ASSUME NEW k \in Key, dict[k] # NoValue
        PROVE  \E j \in DOMAIN Name : <<j, k>> \in Ident /\ dict'[Name[j]] # NoValue
    <3>1. HashGetDefault(k, NoValue) # NoValue
      BY <1>2, <2>1
    <3>2. PICK j \in DOMAIN Name :
              /\ Name[j] \in Key /\ <<j, k>> \in Ident
              /\ HashGetDefault(Name[j], NoValue)' # NoValue
      BY <1>5, <3>1, NothingLost
    <3>3. dict'[Name[j]] # NoValue
      BY <1>2, <3>2
    <3> HIDE DEF dict
    <3> QED
      BY <3>2, <3>3
  <2> QED
    BY <1>4, <2>1 DEF Dict!Transcribe, Dict!Readable, Dict!Copied
<1>6. CASE \E s \in Members : s \notin Kept
  <2>1. PICK r \in Members : <<r, Decoded(r)>> \notin Accepts
    BY <1>6 DEF Kept
  <2>2. PICK m \in DOMAIN KeyOrder : Member(m) = r /\ Decoded(r) = Reread[HashGet(KeyOrder[m])]
    BY <1>1, MembersAre
  <2>3. KeyOrder[m] \in DOMAIN Name /\ HashGet(KeyOrder[m]) \in DOMAIN Reread
    BY <1>1, MembersAre
  <2>4. \E j \in DOMAIN Name :
           /\ dict[Elem[j]] \in DOMAIN Reread
           /\ <<Name[j], Reread[dict[Elem[j]]]>> \notin Accepts
    <3> HIDE DEF dict
    <3> QED
      BY <1>3, <2>1, <2>2, <2>3 DEF Member
  <2> QED
    BY <1>4, <2>4 DEF Dict!Transcribe, Dict!Readable, Dict!Copied
<1> QED
  BY <1>5, <1>6

\* HashSet is Put, HashDelete is Remove and a msgpack round trip Transcribe: a
\* program that only looks keys up cannot tell the hash from a dictionary.
THEOREM HashImplementsDict == Spec => ImplementsDict
<1> DEFINE dict == [k \in Key |-> HashGetDefault(k, NoValue)]
           Matched ==
             /\ \A k \in Key : \A v \in Val : HashSet(k, v) => Dict!Put(Elem[k], v)
             /\ \A k \in Key : HashDelete(k) => Dict!Remove(k)
             /\ MsgpackRoundTrip => Dict!Transcribe
<1>1. Init => Dict!Init
  <2> SUFFICES ASSUME Init PROVE \A k \in Key : HashGetDefault(k, NoValue) = NoValue
    BY DEF Dict!Init
  <2>1. \A k \in Key : Map[HashCode[k]] = <<>>
    BY KeyAssumption DEF Init
  <2> QED
    BY <2>1 DEF HashGetDefault, Hits
<1>2. IndInv /\ IndInv' /\ [Next]_vars => [Dict!Next]_dict /\ [Matched]_vars
  <2> SUFFICES ASSUME IndInv, IndInv', [Next]_vars
               PROVE  [Dict!Next]_dict /\ [Matched]_vars
    OBVIOUS
  <2>1. ASSUME NEW k \in Key, NEW v \in Val, HashSet(k, v) PROVE Dict!Put(Elem[k], v)
    BY <2>1, SetIsPut DEF Dict!Put
  <2>2. ASSUME NEW k \in Key, HashDelete(k) PROVE Dict!Remove(k)
    BY <2>2, DeleteIsRemove DEF Dict!Remove
  <2>3. MsgpackRoundTrip => Dict!Transcribe
    BY RoundTripIsTranscribe
  <2>4. Matched
    BY <2>1, <2>2, <2>3
  <2>5. [Dict!Next]_dict
    <3>1. CASE \E k \in Key : \E v \in Val : HashSet(k, v)
      <4>1. PICK k \in Key, v \in Val : HashSet(k, v)
        BY <3>1
      <4>2. Elem[k] \in Key /\ Dict!Put(Elem[k], v)
        BY <2>1, <4>1, KeyAssumption
      <4> QED
        BY <4>2 DEF Dict!Next
    <3>2. CASE \E k \in Key : HashDelete(k)
      BY <2>2, <3>2 DEF Dict!Next
    <3>3. CASE MsgpackRoundTrip
      BY <2>3, <3>3 DEF Dict!Next
    <3>4. CASE UNCHANGED vars
      <4>1. \A k \in Key : HashGetDefault(k, NoValue)' = HashGetDefault(k, NoValue)
        BY <3>4 DEF vars, HashGetDefault, Hits
      <4> QED
        BY <4>1
    <3> QED
      BY <3>1, <3>2, <3>3, <3>4 DEF Next
  <2> QED
    BY <2>4, <2>5
<1> QED
  BY <1>1, <1>2, Invariance, PTL DEF Spec, ImplementsDict, Dict!Spec

-----------------------------------------------------------------------------
(* The range loop *)


\* The hash while nothing has been deleted from it: as many pairs as listed
\* keys, a pair for every listed key, and no key listed twice.
Pristine ==
    /\ NumKeys = Len(KeyOrder) /\ LiveCount = Len(KeyOrder)
    /\ \A m \in DOMAIN KeyOrder : \E j \in DOMAIN Map[HashCode[KeyOrder[m]]] :
          \/ Map[HashCode[KeyOrder[m]]][j].Head = KeyOrder[m]
          \/ <<Map[HashCode[KeyOrder[m]]][j].Head, KeyOrder[m]>> \in Equal
    /\ \A l, m \in DOMAIN KeyOrder :
          HashCode[KeyOrder[l]] = HashCode[KeyOrder[m]] /\ <<KeyOrder[l], KeyOrder[m]>> \in Equal
          => l = m

\* The keys live since the loop began are among the first n listed.
Covered == \A k \in kept : \E m \in 1..n : KeyOrder[m] = k \/ <<KeyOrder[m], k>> \in Equal

Counters ==
    /\ st \in {"idle", "running", "done"} \cup Errors
    /\ n \in Nat /\ i \in Nat /\ i <= n
    /\ st = "idle" => n = 0 /\ i = 0 /\ seen = <<>>
    /\ st = "done" => i = n

Exact ==
    ~lost => /\ Pristine
             /\ n <= Len(KeyOrder)
             /\ st # "idle" => Covered
             /\ Findable => st \notin Errors /\ seen = SubSeq(KeyOrder, 1, i)

RangeInv == IndInv /\ Counters /\ Exact /\ ForNeverInternal

-----------------------------------------------------------------------------
(* The hash *)

\* KeyOrder as a sequence of keys.
LEMMA OrderSeq ==
    ASSUME IndInv
    PROVE  /\ KeyOrder \in Seq(Key) /\ Len(KeyOrder) \in Nat
           /\ DOMAIN KeyOrder = 1..Len(KeyOrder)
           /\ \A m \in DOMAIN KeyOrder : KeyOrder[m] \in Key /\ HashCode[KeyOrder[m]] \in Code
           /\ Findable <=> \A m \in DOMAIN KeyOrder : Plain(KeyOrder[m])
BY KeyAssumption DEF IndInv, TypeOK, Findable, ToSet

\* KeyOrder only grows at its end.
Longer ==
    /\ KeyOrder \in Seq(Key) /\ KeyOrder' \in Seq(Key)
    /\ Len(KeyOrder) <= Len(KeyOrder')
    /\ \A m \in 1..Len(KeyOrder) : KeyOrder'[m] = KeyOrder[m]

\* What HashSet does to the hash, with k the unwrapped key.
LEMMA OverwriteShape ==
    ASSUME IndInv, NEW k \in Key, NEW val \in Val, NEW hit,
           Map' = [Map EXCEPT ![HashCode[k]] =
                      [j \in DOMAIN Map[HashCode[k]] |->
                          IF j \in hit THEN NewPair(k, val) ELSE Map[HashCode[k]][j]]]
    PROVE  /\ Live' = Live
           /\ \A d \in Code : \A j \in DOMAIN Map[d] :
                 /\ j \in DOMAIN Map'[d]
                 /\ Map'[d][j].Head = IF d = HashCode[k] /\ j \in hit THEN k ELSE Map[d][j].Head
<1>1. HashCode[k] \in Code /\ Map \in [Code -> Seq(Pair)]
  BY KeyAssumption DEF IndInv, TypeOK
<1>2. \A d \in Code : DOMAIN Map'[d] = DOMAIN Map[d]
  BY <1>1
<1>3. NewPair(k, val).Head = k
  BY DEF NewPair
<1>4. \A d \in Code : \A j \in DOMAIN Map[d] :
          Map'[d][j] = IF d = HashCode[k] /\ j \in hit THEN NewPair(k, val) ELSE Map[d][j]
  BY <1>1
<1> QED
  BY <1>2, <1>3, <1>4 DEF Live

\* An insert adds one live pair, and moves none.
LEMMA InsertShape ==
    ASSUME IndInv, NEW k \in Key, NEW val \in Val,
           Map' = [Map EXCEPT ![HashCode[k]] = Append(Map[HashCode[k]], NewPair(k, val))]
    PROVE  /\ LiveCount' = LiveCount + 1
           /\ \A d \in Code : \A j \in DOMAIN Map[d] :
                 j \in DOMAIN Map'[d] /\ Map'[d][j] = Map[d][j]
           /\ \E j \in DOMAIN Map'[HashCode[k]] : Map'[HashCode[k]][j].Head = k
<1> DEFINE c == HashCode[k]
           old == Map[c]
           new == Append(old, NewPair(k, val))
<1>1. /\ c \in Code /\ Map \in [Code -> Seq(Pair)] /\ old \in Seq(Pair) /\ Len(old) \in Nat
      /\ DOMAIN old = 1..Len(old)
  BY KeyAssumption DEF IndInv, TypeOK
<1>2. NewPair(k, val) \in Pair /\ NewPair(k, val).Head = k
  BY DEF NewPair, Pair
<1>3. \A d \in Code : Map'[d] = IF d = c THEN new ELSE Map[d]
  BY <1>1
<1>4. /\ DOMAIN new = DOMAIN old \cup {Len(old) + 1}
      /\ \A j \in DOMAIN old : new[j] = old[j]
      /\ new[Len(old) + 1].Head = k
  BY <1>1, <1>2
<1> HIDE DEF new
<1>5. Live' = Live \cup {<<c, Len(old) + 1>>}
  <2>1. \A d \in Code : DOMAIN Map'[d] = IF d = c THEN DOMAIN old \cup {Len(old) + 1}
                                          ELSE DOMAIN Map[d]
    BY <1>3, <1>4
  <2> QED
    BY <1>1, <2>1 DEF Live
<1>6. <<c, Len(old) + 1>> \notin Live
  BY <1>1 DEF Live
<1>7. LiveCount' = LiveCount + 1
  BY <1>5, <1>6, FS_AddElement DEF IndInv, LiveCount
<1>8. \A d \in Code : \A j \in DOMAIN Map[d] : j \in DOMAIN Map'[d] /\ Map'[d][j] = Map[d][j]
  BY <1>3, <1>4
<1>9. \E j \in DOMAIN Map'[c] : Map'[c][j].Head = k
  BY <1>1, <1>3, <1>4
<1> QED
  BY <1>7, <1>8, <1>9

\* Setting keeps a pristine hash pristine.
LEMMA SetPristine ==
    ASSUME IndInv, Pristine, NEW key \in Key, NEW val \in Val, HashSet(key, val)
    PROVE  Pristine' /\ Longer
<1> DEFINE k == Elem[key]
           c == HashCode[k]
           hit == Hits(Map[c], k)
<1>1. k \in Key /\ c \in Code
  BY KeyAssumption
<1>2. /\ KeyOrder \in Seq(Key) /\ Len(KeyOrder) \in Nat /\ DOMAIN KeyOrder = 1..Len(KeyOrder)
      /\ \A m \in DOMAIN KeyOrder : KeyOrder[m] \in Key /\ HashCode[KeyOrder[m]] \in Code
  BY OrderSeq
<1>3. \A d \in Code : \A j \in DOMAIN Map[d] : Map[d][j].Head \in Key /\ HashCode[Map[d][j].Head] = d
  BY BucketsGood, HeadsOfBucket
<1>4. LiveCount \in Nat
  BY FS_CardinalityType DEF IndInv, LiveCount
<1>5. CASE /\ hit # {}
           /\ Map' = [Map EXCEPT ![c] =
                 [j \in DOMAIN Map[c] |-> IF j \in hit THEN NewPair(k, val) ELSE Map[c][j]]]
           /\ UNCHANGED <<KeyOrder, NumKeys>>
  <2>1. \A j \in hit : j \in DOMAIN Map[c] /\ <<Map[c][j].Head, k>> \in Equal
    BY DEF Hits
  <2> HIDE DEF hit, k
  <2>2. /\ Live' = Live
        /\ \A d \in Code : \A j \in DOMAIN Map[d] :
              /\ j \in DOMAIN Map'[d]
              /\ Map'[d][j].Head = IF d = c /\ j \in hit THEN k ELSE Map[d][j].Head
    BY <1>1, <1>5, OverwriteShape
  <2>3. LiveCount' = LiveCount
    BY <2>2 DEF LiveCount
  <2>4. ASSUME NEW m \in DOMAIN KeyOrder
        PROVE  \E j \in DOMAIN Map'[HashCode[KeyOrder[m]]] :
                  \/ Map'[HashCode[KeyOrder[m]]][j].Head = KeyOrder[m]
                  \/ <<Map'[HashCode[KeyOrder[m]]][j].Head, KeyOrder[m]>> \in Equal
    <3>1. PICK x, d : x = KeyOrder[m] /\ d = HashCode[x]
      OBVIOUS
    <3>2. x \in Key /\ d \in Code
      BY <1>2, <3>1
    <3>3. PICK j \in DOMAIN Map[d] : Map[d][j].Head = x \/ <<Map[d][j].Head, x>> \in Equal
      BY <3>1 DEF Pristine
    <3>4. Map[d][j].Head \in Key /\ HashCode[Map[d][j].Head] = d
      BY <1>3, <3>2
    <3>5. j \in DOMAIN Map'[d] /\ (Map'[d][j].Head = x \/ <<Map'[d][j].Head, x>> \in Equal)
      <4>1. CASE ~(d = c /\ j \in hit)
        BY <2>2, <3>2, <3>3, <4>1
      <4>2. CASE d = c /\ j \in hit
        <5>1. Map'[d][j].Head = k /\ <<Map[d][j].Head, k>> \in Equal /\ j \in DOMAIN Map'[d]
          BY <2>1, <2>2, <3>2, <4>2
        <5>2. <<k, Map[d][j].Head>> \in Equal
          BY <1>1, <3>4, <4>2, <5>1, KeyAssumption
        <5>3. <<k, x>> \in Equal
          BY <1>1, <3>1, <3>2, <3>3, <3>4, <4>2, <5>2, KeyAssumption
        <5> QED
          BY <5>1, <5>3
      <4> QED
        BY <4>1, <4>2
    <3> QED
      BY <3>1, <3>5
  <2>5. Pristine'
    BY <1>5, <2>3, <2>4, ZenonT(40) DEF Pristine
  <2> QED
    BY <1>2, <1>5, <2>5 DEF Longer
<1>6. CASE /\ hit = {}
           /\ Map' = [Map EXCEPT ![c] = Append(Map[c], NewPair(k, val))]
           /\ KeyOrder' = Append(KeyOrder, k) /\ NumKeys' = NumKeys + 1
  <2>1. \A j \in DOMAIN Map[c] : <<Map[c][j].Head, k>> \notin Equal
    BY <1>6 DEF Hits
  <2> HIDE DEF hit, k
  <2>2. /\ LiveCount' = LiveCount + 1
        /\ \A d \in Code : \A j \in DOMAIN Map[d] :
              j \in DOMAIN Map'[d] /\ Map'[d][j] = Map[d][j]
        /\ \E j \in DOMAIN Map'[c] : Map'[c][j].Head = k
    BY <1>1, <1>6, InsertShape
  <2>3. /\ KeyOrder' \in Seq(Key) /\ DOMAIN KeyOrder' = 1..Len(KeyOrder) + 1
        /\ Len(KeyOrder') = Len(KeyOrder) + 1
        /\ \A m \in DOMAIN KeyOrder : KeyOrder'[m] = KeyOrder[m]
        /\ KeyOrder'[Len(KeyOrder) + 1] = k
    BY <1>1, <1>2, <1>6, AppendSeq
  <2>4. ASSUME NEW m \in DOMAIN KeyOrder
        PROVE  ~(HashCode[KeyOrder[m]] = c /\ <<KeyOrder[m], k>> \in Equal)
    <3> SUFFICES ASSUME HashCode[KeyOrder[m]] = c, <<KeyOrder[m], k>> \in Equal PROVE FALSE
      OBVIOUS
    <3>1. PICK x : x = KeyOrder[m]
      OBVIOUS
    <3>2. x \in Key /\ HashCode[x] = c /\ <<x, k>> \in Equal
      BY <1>2, <3>1
    <3>3. PICK j \in DOMAIN Map[c] : Map[c][j].Head = x \/ <<Map[c][j].Head, x>> \in Equal
      BY <3>1, <3>2 DEF Pristine
    <3>4. <<Map[c][j].Head, k>> \in Equal
      BY <1>1, <1>3, <3>2, <3>3, KeyAssumption
    <3> QED
      BY <2>1, <3>4
  <2>5. ASSUME NEW m \in DOMAIN KeyOrder'
        PROVE  \E j \in DOMAIN Map'[HashCode[KeyOrder'[m]]] :
                  \/ Map'[HashCode[KeyOrder'[m]]][j].Head = KeyOrder'[m]
                  \/ <<Map'[HashCode[KeyOrder'[m]]][j].Head, KeyOrder'[m]>> \in Equal
    <3>1. CASE m \in DOMAIN KeyOrder
      <4>1. PICK x, d : x = KeyOrder[m] /\ d = HashCode[x]
        OBVIOUS
      <4>2. x = KeyOrder'[m] /\ d \in Code
        BY <1>2, <2>3, <3>1, <4>1
      <4>3. PICK j \in DOMAIN Map[d] : Map[d][j].Head = x \/ <<Map[d][j].Head, x>> \in Equal
        BY <3>1, <4>1 DEF Pristine
      <4>4. j \in DOMAIN Map'[d] /\ Map'[d][j] = Map[d][j]
        BY <2>2, <4>2
      <4> QED
        BY <4>1, <4>2, <4>3, <4>4
    <3>2. CASE m = Len(KeyOrder) + 1
      BY <2>2, <2>3, <3>2
    <3> QED
      BY <1>2, <2>3, <3>1, <3>2
  <2>6. ASSUME NEW l \in DOMAIN KeyOrder', NEW m \in DOMAIN KeyOrder',
               HashCode[KeyOrder'[l]] = HashCode[KeyOrder'[m]],
               <<KeyOrder'[l], KeyOrder'[m]>> \in Equal
        PROVE  l = m
    <3>1. CASE l \in DOMAIN KeyOrder /\ m \in DOMAIN KeyOrder
      BY <2>3, <2>6, <3>1 DEF Pristine
    <3>2. CASE l \in DOMAIN KeyOrder /\ m = Len(KeyOrder) + 1
      BY <2>3, <2>4, <2>6, <3>2
    <3>3. CASE m \in DOMAIN KeyOrder /\ l = Len(KeyOrder) + 1
      <4>1. KeyOrder[m] \in Key /\ HashCode[KeyOrder[m]] = c /\ <<k, KeyOrder[m]>> \in Equal
        BY <1>2, <2>3, <2>6, <3>3
      <4>2. <<KeyOrder[m], k>> \in Equal
        BY <1>1, <4>1, KeyAssumption
      <4> QED
        BY <2>4, <3>3, <4>1, <4>2
    <3> QED
      BY <1>2, <2>3, <3>1, <3>2, <3>3
  <2>7. Pristine'
    <3>1. NumKeys' = Len(KeyOrder') /\ LiveCount' = Len(KeyOrder')
      BY <1>6, <2>2, <2>3 DEF Pristine
    <3> QED
      BY <2>5, <2>6, <3>1 DEF Pristine
  <2> QED
    BY <1>2, <2>3, <2>7 DEF Longer
<1> QED
  BY <1>5, <1>6 DEF HashSet

\* In a pristine hash whose keys can be looked up, the next position of
\* KeyOrder is the one HashPairi returns.
LEMMA PairiNext ==
    ASSUME IndInv, Pristine, Findable, NEW pos \in Nat, pos < Len(KeyOrder)
    PROVE  Reach(pos) # {} /\ HashPairi(pos) = KeyOrder[pos + 1]
<1>1. /\ DOMAIN KeyOrder = 1..Len(KeyOrder) /\ Len(KeyOrder) \in Nat
      /\ \A m \in DOMAIN KeyOrder : /\ KeyOrder[m] \in Key /\ Plain(KeyOrder[m])
                                    /\ HashCode[KeyOrder[m]] \in Code
  BY OrderSeq
<1>2. ASSUME NEW m \in DOMAIN KeyOrder PROVE Found(KeyOrder[m])
  <2>1. PICK k \in Key : k = KeyOrder[m] /\ Plain(k) /\ HashCode[k] \in Code
    BY <1>1
  <2>2. PICK j \in DOMAIN Map[HashCode[k]] :
           Map[HashCode[k]][j].Head = k \/ <<Map[HashCode[k]][j].Head, k>> \in Equal
    BY <2>1 DEF Pristine
  <2>3. Map[HashCode[k]][j].Head \in Key /\ HashCode[Map[HashCode[k]][j].Head] = HashCode[k]
    BY <2>1, BucketsGood, HeadsOfBucket
  <2>4. k = Map[HashCode[k]][j].Head \/ <<k, Map[HashCode[k]][j].Head>> \in Equal
    BY <2>2, <2>3, KeyAssumption
  <2> QED
    BY <2>1, <2>4, PlainFound
<1>3. Reach(pos) = {m \in 1..Len(KeyOrder) : m > pos}
  BY <1>1, <1>2 DEF Reach
<1>4. pos + 1 \in Reach(pos) /\ \A m \in Reach(pos) : pos + 1 <= m /\ m \in Nat
  BY <1>1, <1>3
<1>5. Min(Reach(pos)) = pos + 1
  <2>1. \A x \in Reach(pos) : (\A y \in Reach(pos) : x <= y) => x = pos + 1
    BY <1>4
  <2>2. \E x \in Reach(pos) : \A y \in Reach(pos) : x <= y
    BY <1>4
  <2> QED
    BY <2>1, <2>2 DEF Min
<1> QED
  BY <1>4, <1>5 DEF HashPairi

-----------------------------------------------------------------------------
(* The loop *)

\* No loop runs at first.
LEMMA InitRange == RangeInit => RangeInv
<1> SUFFICES ASSUME RangeInit PROVE RangeInv
  OBVIOUS
<1>1. IndInv
  BY InitInv DEF RangeInit
<1>2. KeyOrder = <<>> /\ NumKeys = 0 /\ n = 0 /\ i = 0 /\ seen = <<>> /\ st = "idle"
  BY DEF RangeInit, Init
<1>3. Live = {}
  BY DEF RangeInit, Init, Live
<1>4. LiveCount = 0
  BY <1>3, FS_EmptySet DEF LiveCount
<1>5. Pristine
  BY <1>2, <1>4 DEF Pristine
<1>6. Counters
  BY <1>2 DEF Counters
<1>7. Exact
  <2>1. seen = SubSeq(KeyOrder, 1, i) /\ n <= Len(KeyOrder)
    BY <1>2
  <2> QED
    BY <1>2, <1>5, <2>1 DEF Exact, Errors
<1>8. ForNeverInternal
  BY <1>2 DEF ForNeverInternal
<1> QED
  BY <1>1, <1>6, <1>7, <1>8 DEF RangeInv

\* What is said of the hash alone survives steps that leave it alone.
LEMMA HashKept ==
    ASSUME UNCHANGED vars
    PROVE  /\ KeyOrder' = KeyOrder /\ NumKeys' = NumKeys /\ Map' = Map
           /\ (Findable' <=> Findable) /\ (Pristine' <=> Pristine)
           /\ LiveCount' = LiveCount
BY DEF vars, Findable, Plain, Pristine, Live, LiveCount

\* A loop starts with nothing yielded.
LEMMA StartKeeps ==
    ASSUME RangeInv, IndInv', LoopStart
    PROVE  RangeInv'
<1>1. /\ st = "idle" /\ i = 0 /\ kept' = LiveKeys
      /\ UNCHANGED vars /\ i' = i /\ seen' = seen /\ lost' = lost
      /\ \/ NumKeys = LiveCount /\ st' = "running" /\ n' = NumKeys
         \/ NumKeys # LiveCount /\ st' = "count" /\ n' = 0
  BY DEF LoopStart, RangeInv, Counters
<1>2. LiveCount \in Nat
  BY FS_CardinalityType DEF RangeInv, IndInv, LiveCount
<1>3. Counters'
  BY <1>1, <1>2 DEF Counters, Errors
<1>4. Exact'
  <2> SUFFICES ASSUME ~lost
               PROVE  /\ Pristine' /\ n' <= Len(KeyOrder') /\ Covered'
                      /\ Findable' => st' \notin Errors /\ seen' = SubSeq(KeyOrder', 1, i')
    BY <1>1 DEF Exact
  <2>1. Pristine /\ (Findable => seen = SubSeq(KeyOrder, 1, i))
    BY DEF RangeInv, Exact
  <2>2. st' = "running" /\ n' = NumKeys /\ NumKeys = Len(KeyOrder)
    BY <1>1, <2>1 DEF Pristine
  <2>3. DOMAIN KeyOrder = 1..Len(KeyOrder) /\ Len(KeyOrder) \in Nat
    BY OrderSeq DEF RangeInv
  <2>4. Covered'
    <3>1. ASSUME NEW k \in LiveKeys
          PROVE  \E m \in 1..n' : KeyOrder[m] = k \/ <<KeyOrder[m], k>> \in Equal
      <4>1. PICK p \in Live : k = Map[p[1]][p[2]].Head
        BY DEF LiveKeys
      <4>2. p[1] \in Code /\ p[2] \in DOMAIN Map[p[1]]
        BY DEF Live
      <4>3. PICK m \in DOMAIN KeyOrder : KeyOrder[m] = k \/ <<KeyOrder[m], k>> \in Equal
        BY <4>1, <4>2 DEF RangeInv, IndInv, OrderCoversLive
      <4> QED
        BY <2>2, <2>3, <4>3
    <3> QED
      BY <1>1, <3>1, HashKept DEF Covered
  <2> QED
    BY <1>1, <2>1, <2>2, <2>3, <2>4, HashKept DEF Errors
<1>5. ForNeverInternal'
  BY <1>1 DEF ForNeverInternal
<1> QED
  BY <1>3, <1>4, <1>5 DEF RangeInv

\* One turn: of a hash nothing was deleted from, the next listed key.
LEMMA TurnKeeps ==
    ASSUME RangeInv, IndInv', LoopTurn
    PROVE  RangeInv'
<1>1. /\ st = "running" /\ i < n /\ UNCHANGED vars
      /\ kind' = kind /\ n' = n /\ kept' = kept /\ lost' = lost
      /\ \/ Refusal = "none" /\ seen' = Append(seen, HashPairi(i)) /\ i' = i + 1 /\ st' = st
         \/ Refusal # "none" /\ st' = Refusal /\ seen' = seen /\ i' = i
  BY DEF LoopTurn
<1>2. n \in Nat /\ i \in Nat
  BY DEF RangeInv, Counters
<1>3. Refusal \in {"none"} \cup Errors
  BY DEF Refusal, Errors
<1>4. Counters'
  <2>1. CASE Refusal = "none"
    BY <1>1, <1>2, <2>1 DEF Counters
  <2>2. CASE Refusal # "none"
    BY <1>1, <1>2, <1>3, <2>2 DEF Counters, Errors
  <2> QED
    BY <2>1, <2>2
<1>5. Exact'
  <2> SUFFICES ASSUME ~lost
               PROVE  /\ Pristine' /\ n' <= Len(KeyOrder') /\ Covered'
                      /\ Findable' => st' \notin Errors /\ seen' = SubSeq(KeyOrder', 1, i')
    BY <1>1 DEF Exact
  <2>1. /\ Pristine /\ n <= Len(KeyOrder) /\ Covered
        /\ Findable => seen = SubSeq(KeyOrder, 1, i)
    BY <1>1 DEF RangeInv, Exact
  <2>2. Covered'
    BY <1>1, <2>1, HashKept DEF Covered
  <2>3. ASSUME Findable PROVE st' \notin Errors /\ seen' = SubSeq(KeyOrder, 1, i')
    <3>1. KeyOrder \in Seq(Key) /\ Len(KeyOrder) \in Nat /\ i < Len(KeyOrder)
      BY <1>1, <1>2, <2>1, OrderSeq DEF RangeInv
    <3>2. Reach(i) # {} /\ HashPairi(i) = KeyOrder[i + 1]
      BY <1>2, <2>1, <2>3, <3>1, PairiNext DEF RangeInv
    <3>3. NumKeys = Len(KeyOrder) /\ LiveCount = Len(KeyOrder)
      BY <2>1 DEF Pristine
    <3>4. Refusal = "none"
      BY <1>2, <3>1, <3>2, <3>3 DEF Refusal
    <3>5. Append(SubSeq(KeyOrder, 1, i), KeyOrder[i + 1]) = SubSeq(KeyOrder, 1, i + 1)
      BY <1>2, <3>1
    <3> QED
      BY <1>1, <2>1, <2>3, <3>2, <3>4, <3>5 DEF Errors
  <2> QED
    BY <1>1, <2>1, <2>2, <2>3, HashKept
<1>6. ForNeverInternal'
  <2> SUFFICES ASSUME kind = "for", Findable, st' = "internal" PROVE FALSE
    BY <1>1, HashKept DEF ForNeverInternal
  <2>1. Refusal = "internal"
    BY <1>1
  <2>2. NumKeys = LiveCount /\ ~(i >= NumKeys) /\ Reach(i) = {}
    BY <2>1 DEF Refusal
  <2>3. LiveCount \in Nat
    BY FS_CardinalityType DEF RangeInv, IndInv, LiveCount
  <2>4. i < LiveCount
    BY <1>2, <2>2, <2>3
  <2> QED
    BY <1>2, <2>2, <2>4, PairiReaches DEF Findable, RangeInv
<1> QED
  BY <1>4, <1>5, <1>6 DEF RangeInv

\* The end of a loop changes no hash.
LEMMA EndKeeps ==
    ASSUME RangeInv, IndInv', LoopEnd
    PROVE  RangeInv'
<1>1. /\ st = "running" /\ i = n /\ st' = "done" /\ UNCHANGED vars
      /\ kind' = kind /\ n' = n /\ i' = i /\ seen' = seen /\ kept' = kept /\ lost' = lost
  BY DEF LoopEnd
<1>2. Counters'
  BY <1>1 DEF RangeInv, Counters
<1>3. Covered' <=> Covered
  BY <1>1, HashKept DEF Covered
<1>4. Exact'
  BY <1>1, <1>3, HashKept DEF RangeInv, Exact, Errors
<1>5. ForNeverInternal'
  BY <1>1 DEF ForNeverInternal
<1> QED
  BY <1>2, <1>4, <1>5 DEF RangeInv

\* Deleting ends what is said of a pristine hash.
LEMMA DeleteKeepsRange ==
    ASSUME RangeInv, IndInv', Update, lost'
    PROVE  RangeInv'
<1>1. st \in {"idle", "running"} /\ st' = st /\ n' = n /\ i' = i /\ seen' = seen
  BY DEF Update
<1> QED
  BY <1>1 DEF RangeInv, Counters, Exact, ForNeverInternal

\* Setting lengthens KeyOrder beyond what the loop has counted.
LEMMA SetKeepsRange ==
    ASSUME RangeInv, IndInv', Update, lost' = lost, ~lost,
           NEW key \in Key, NEW val \in Val, HashSet(key, val)
    PROVE  RangeInv'
<1>1. /\ st \in {"idle", "running"} /\ st' = st /\ n' = n /\ i' = i /\ seen' = seen
      /\ kept' \subseteq kept
  BY DEF Update
<1>2. /\ Pristine /\ n <= Len(KeyOrder) /\ (st # "idle" => Covered)
      /\ Findable => seen = SubSeq(KeyOrder, 1, i)
  BY DEF RangeInv, Exact
<1>3. Pristine' /\ Longer
  BY <1>2, SetPristine DEF RangeInv
<1>4. n \in Nat /\ i \in Nat /\ i <= n
  BY DEF RangeInv, Counters
<1>5. /\ KeyOrder \in Seq(Key) /\ KeyOrder' \in Seq(Key)
      /\ Len(KeyOrder) \in Nat /\ Len(KeyOrder') \in Nat
      /\ Len(KeyOrder) <= Len(KeyOrder')
      /\ \A m \in 1..Len(KeyOrder) : KeyOrder'[m] = KeyOrder[m]
  BY <1>3 DEF Longer
<1>6. Counters'
  BY <1>1 DEF RangeInv, Counters
<1>7. n' <= Len(KeyOrder')
  BY <1>1, <1>2, <1>4, <1>5
<1>8. ASSUME st # "idle" PROVE Covered'
  <2>1. \A m \in 1..n : KeyOrder'[m] = KeyOrder[m]
    BY <1>2, <1>4, <1>5
  <2> QED
    BY <1>1, <1>2, <1>8, <2>1 DEF Covered
<1>9. ASSUME Findable' PROVE seen' = SubSeq(KeyOrder', 1, i')
  <2>1. Findable
    <3>1. ASSUME NEW m \in DOMAIN KeyOrder PROVE Plain(KeyOrder[m])
      <4>1. m \in DOMAIN KeyOrder' /\ KeyOrder'[m] = KeyOrder[m]
        BY <1>5
      <4> QED
        BY <1>9, <4>1 DEF Findable, ToSet, Plain
    <3> QED
      BY <3>1 DEF Findable, ToSet
  <2>2. SubSeq(KeyOrder', 1, i) = SubSeq(KeyOrder, 1, i)
    BY <1>2, <1>4, <1>5
  <2> QED
    BY <1>1, <1>2, <2>1, <2>2
<1>10. Exact'
  BY <1>1, <1>3, <1>7, <1>8, <1>9 DEF Exact, Errors
<1>11. ForNeverInternal'
  BY <1>1 DEF ForNeverInternal
<1> QED
  BY <1>6, <1>10, <1>11 DEF RangeInv

\* When a decoded hash counts as many pairs as it lists keys, then no member
\* was refused and none has the name of another.
LEMMA DecodedPristine ==
    ASSUME IndInv, MsgpackRoundTrip, NumKeys' = Len(KeyOrder')
    PROVE  Pristine'
<1>1. Encodable
  BY DEF MsgpackRoundTrip
<1>2. /\ DOMAIN KeyOrder = 1..Len(KeyOrder) /\ Len(KeyOrder) \in Nat
      /\ \A m \in DOMAIN KeyOrder : Member(m) \in Members
  BY <1>1, MembersAre DEF Members
<1>3. /\ KeyOrder' \in [1..Len(KeyOrder) -> Members]
      /\ \A m \in DOMAIN KeyOrder : KeyOrder'[m] = Member(m)
  BY <1>2 DEF MsgpackRoundTrip
<1>4. DOMAIN KeyOrder' = DOMAIN KeyOrder /\ Len(KeyOrder') = Len(KeyOrder)
  BY <1>2, <1>3, FunctionIsSeq
<1>5. /\ NumKeys' = LiveCount' /\ LiveCount' = Cardinality(Kept)
      /\ Kept \subseteq Members /\ IsFiniteSet(Members) /\ IsFiniteSet(Kept)
      /\ Cardinality(Members) <= Len(KeyOrder)
      /\ Cardinality(Members) \in Nat /\ Cardinality(Kept) <= Cardinality(Members)
  BY DecodedBuckets, FS_Subset, FS_CardinalityType DEF MsgpackRoundTrip
<1>6. Cardinality(Kept) = Cardinality(Members) /\ Cardinality(Members) = Len(KeyOrder)
  BY <1>2, <1>4, <1>5, FS_CardinalityType
<1>7. Kept = Members
  BY <1>5, <1>6, FS_Subset
<1>8. ASSUME NEW l \in DOMAIN KeyOrder, NEW m \in DOMAIN KeyOrder, Member(l) = Member(m)
      PROVE  l = m
  <2> DEFINE f == [x \in DOMAIN KeyOrder |-> Member(x)]
  <2>1. f \in Surjection(DOMAIN KeyOrder, Members)
    BY DEF Surjection, Members
  <2>2. IsFiniteSet(DOMAIN KeyOrder) /\ Cardinality(DOMAIN KeyOrder) = Len(KeyOrder)
    BY <1>2, Positions
  <2>3. f[l] = f[m]
    BY <1>8
  <2> HIDE DEF f
  <2>4. f \in Injection(DOMAIN KeyOrder, Members)
    BY <1>6, <2>1, <2>2, FS_Surjection
  <2> QED
    BY <2>3, <2>4 DEF Injection, Surjection, IsInjective
<1>9. ASSUME NEW m \in DOMAIN KeyOrder
      PROVE  \E j \in DOMAIN Map'[HashCode[Member(m)]] :
                Map'[HashCode[Member(m)]][j].Head = Member(m)
  <2>1. Map'[HashCode[Member(m)]] = <<NewPair(Member(m), Decoded(Member(m)))>>
    BY <1>2, <1>7, <1>9, DecodedBuckets
  <2> QED
    BY <2>1 DEF NewPair
<1>10. \A l, m \in DOMAIN KeyOrder :
          HashCode[Member(l)] = HashCode[Member(m)] => l = m
  BY <1>1, <1>2, <1>8, MembersAre
<1> QED
  BY <1>3, <1>4, <1>5, <1>9, <1>10 DEF Pristine

\* A loop starts over the decoded hash, whole or known not to be.
LEMMA DecodeKeeps ==
    ASSUME RangeInv, IndInv', Decode
    PROVE  RangeInv'
<1>1. /\ st = "idle" /\ UNCHANGED <<kind, st, n, i, seen>>
      /\ MsgpackRoundTrip /\ (lost' <=> NumKeys' # Len(KeyOrder'))
  BY DEF Decode
<1>2. Counters'
  BY <1>1 DEF RangeInv, Counters
<1>3. Exact'
  <2> SUFFICES ASSUME ~lost'
               PROVE  /\ Pristine' /\ n' <= Len(KeyOrder')
                      /\ Findable' => st' \notin Errors /\ seen' = SubSeq(KeyOrder', 1, i')
    BY <1>1 DEF Exact
  <2>1. Pristine'
    BY <1>1, DecodedPristine DEF RangeInv
  <2>2. n = 0 /\ i = 0 /\ seen = <<>>
    BY <1>1 DEF RangeInv, Counters
  <2>3. KeyOrder' \in Seq(Key)
    BY DEF IndInv, TypeOK
  <2>4. SubSeq(KeyOrder', 1, 0) = <<>> /\ 0 <= Len(KeyOrder')
    BY <2>3
  <2> QED
    BY <1>1, <2>1, <2>2, <2>4 DEF Errors
<1>4. ForNeverInternal'
  BY <1>1 DEF ForNeverInternal
<1> QED
  BY <1>2, <1>3, <1>4 DEF RangeInv

\* Every step keeps the invariant.
LEMMA RangeNextInv == RangeInv /\ [RangeNext]_<<vars, loopVars>> => RangeInv'
<1> SUFFICES ASSUME RangeInv, [RangeNext]_<<vars, loopVars>> PROVE RangeInv'
  OBVIOUS
<1>1. [Next]_vars
  BY DEF RangeNext, LoopStart, LoopTurn, LoopEnd, Update, Decode, Next
<1>2. IndInv'
  BY <1>1, NextInv DEF RangeInv
<1>3. CASE UNCHANGED <<vars, loopVars>>
  <2>1. UNCHANGED vars /\ UNCHANGED <<kind, st, n, i, seen, kept, lost>>
    BY <1>3 DEF loopVars
  <2> QED
    BY <1>2, <2>1, HashKept DEF RangeInv, Counters, Exact, Covered, ForNeverInternal
<1>4. CASE Update
  <2>1. CASE lost'
    BY <1>2, <1>4, <2>1, DeleteKeepsRange
  <2>2. CASE ~lost'
    <3>1. lost' = lost /\ \E k \in Key : \E v \in Val : HashSet(k, v)
      BY <1>4, <2>2 DEF Update
    <3> QED
      BY <1>2, <1>4, <2>2, <3>1, SetKeepsRange
  <2> QED
    BY <2>1, <2>2
<1> QED
  BY <1>2, <1>3, <1>4, StartKeeps, TurnKeeps, EndKeeps, DecodeKeeps DEF RangeNext

\* The loop (lowerRangeFor, RangePairFunction) keeps its counters in step with
\* KeyOrder, and what it has yielded with what was listed.
THEOREM RangeInvariance == RangeSpec => []RangeInv
<1> QED
  BY InitRange, RangeNextInv, PTL DEF RangeSpec

\* PristineLoopExact, for every hash: overwriting and inserting in the body of
\* a loop (lowerRangeFor and RangePairFunction) costs it no key.
THEOREM LoopsAreExact == RangeSpec => []PristineLoopExact
<1>1. RangeInv => PristineLoopExact
  <2> SUFFICES ASSUME RangeInv, ~lost, Findable
               PROVE  /\ st \notin Errors
                      /\ seen = SubSeq(KeyOrder, 1, i)
                      /\ IsInjective(seen)
                      /\ st = "done" => \A k \in kept : \E m \in DOMAIN seen :
                                            <<seen[m], k>> \in Equal
    BY DEF PristineLoopExact
  <2>1. /\ st \notin Errors /\ seen = SubSeq(KeyOrder, 1, i) /\ Pristine /\ n <= Len(KeyOrder)
        /\ st # "idle" => Covered
    BY DEF RangeInv, Exact
  <2>2. n \in Nat /\ i \in Nat /\ i <= n /\ (st = "done" => i = n)
    BY DEF RangeInv, Counters
  <2>3. /\ KeyOrder \in Seq(Key) /\ Len(KeyOrder) \in Nat
        /\ DOMAIN KeyOrder = 1..Len(KeyOrder)
        /\ \A m \in DOMAIN KeyOrder : KeyOrder[m] \in Key /\ Plain(KeyOrder[m])
    BY OrderSeq DEF RangeInv
  <2>4. /\ DOMAIN seen = 1..i /\ \A m \in 1..i : seen[m] = KeyOrder[m]
        /\ \A m \in 1..i : m \in DOMAIN KeyOrder
    BY <2>1, <2>2, <2>3
  <2>5. IsInjective(seen)
    <3> SUFFICES ASSUME NEW l \in 1..i, NEW m \in 1..i, seen[l] = seen[m] PROVE l = m
      BY <2>4 DEF IsInjective
    <3>1. l \in DOMAIN KeyOrder /\ m \in DOMAIN KeyOrder /\ KeyOrder[l] = KeyOrder[m]
      BY <2>4
    <3>2. <<KeyOrder[l], KeyOrder[m]>> \in Equal
      BY <2>3, <3>1 DEF Plain
    <3> QED
      BY <2>1, <3>1, <3>2 DEF Pristine
  <2>6. ASSUME st = "done", NEW k \in kept
        PROVE  \E m \in DOMAIN seen : <<seen[m], k>> \in Equal
    <3>1. PICK m \in 1..n : KeyOrder[m] = k \/ <<KeyOrder[m], k>> \in Equal
      BY <2>1, <2>6 DEF Covered
    <3>2. m \in DOMAIN seen /\ seen[m] = KeyOrder[m] /\ m \in DOMAIN KeyOrder
      BY <2>2, <2>4, <2>6
    <3>3. <<KeyOrder[m], k>> \in Equal
      BY <2>3, <3>1, <3>2 DEF Plain
    <3> QED
      BY <3>2, <3>3
  <2> QED
    BY <2>1, <2>5, <2>6
<1> QED
  BY <1>1, RangeInvariance, PTL

\* ForNeverInternal, for every hash: __rangePair (functions.go) checks the
\* count and the position before it calls HashPairi, and that is enough.
THEOREM ForLoopsNeverPanic == RangeSpec => []ForNeverInternal
<1>1. RangeInv => ForNeverInternal
  BY DEF RangeInv
<1> QED
  BY <1>1, RangeInvariance, PTL
=============================================================================
