-------------------------- MODULE HashAliasProofs ---------------------------
(***************************************************************************)
(* For any number of hashes, keys and arrays: however the hashes come to   *)
(* share arrays by CloneFrom, no slice shows a nil pair, a change of one   *)
(* hash disturbs others in the lookups of one hash code only, and the hash *)
(* that changes does as SexpHash says.                                     *)
(*                                                                         *)
(* The inductive invariant adds that an array keeps its role: it serves    *)
(* the buckets of one code in whatever hashes, or it serves KeyOrders.     *)
(* CloneFrom copies slices from a role to the same role, and append takes  *)
(* an array that nobody has seen.                                          *)
(***************************************************************************)
EXTENDS HashAlias, Lemmas

Cell == [Head : Key \cup {NoValue}, Tail : Val \cup {NoValue}]

Slice == [at : Nat, len : Nat]

\* A slice lies in its array, and shows only pairs that were stored.
Sound(m, s) ==
    /\ s.at \in {0} \cup DOMAIN m
    /\ s.len <= Cap(m, s)
    /\ \A i \in 1..s.len : m[s.at][i].Head # NoValue

TypesOK ==
    /\ mem \in Seq(Seq(Cell))
    /\ ok \in [Hash -> SUBSET Code]
    /\ bucket \in [Hash -> [Code -> Slice]]
    /\ order \in [Hash -> Slice]
    /\ NumKeys \in [Hash -> Int]

AllSound ==
    \A h \in Hash : Sound(mem, order[h]) /\ \A c \in Code : Sound(mem, bucket[h][c])

Roles ==
    /\ \A h, g \in Hash : \A c, d \in Code :
          bucket[h][c].at = bucket[g][d].at /\ bucket[h][c].at # 0 => c = d
    /\ \A h, g \in Hash : \A c \in Code :
          order[h].at = bucket[g][c].at => order[h].at = 0

\* A code without an entry in the Go map has no bucket.
EntriesOnly == \A h \in Hash : \A c \in Code : c \notin ok[h] => bucket[h][c] = Empty

IndInv == TypesOK /\ AllSound /\ Roles /\ EntriesOnly

-----------------------------------------------------------------------------
(* Memory *)

\* Arrays stay as long as they are, and a stored pair is never unset.
Grows(m, n) ==
    /\ DOMAIN m \subseteq DOMAIN n
    /\ \A a \in DOMAIN m :
          /\ Len(n[a]) = Len(m[a])
          /\ \A i \in 1..Len(m[a]) : m[a][i].Head # NoValue => n[a][i].Head # NoValue

\* Growth of memory is transitive.
LEMMA GrowsTwice ==
    ASSUME NEW l, NEW m, NEW n, Grows(l, m), Grows(m, n)
    PROVE  Grows(l, n)
BY DEF Grows

\* The array of a slice that is not nil.
LEMMA ArrayOf ==
    ASSUME NEW m \in Seq(Seq(Cell)), NEW s \in Slice, Sound(m, s)
    PROVE  /\ s.at \in Nat /\ s.len \in Nat
           /\ s.at = 0 => s.len = 0 /\ s.at \notin DOMAIN m
           /\ s.at # 0 => /\ s.at \in DOMAIN m /\ m[s.at] \in Seq(Cell)
                          /\ Len(m[s.at]) \in Nat /\ s.len <= Len(m[s.at])
<1>1. s.at \in Nat /\ s.len \in Nat
  BY DEF Slice
<1>2. s.at = 0 => s.len = 0
  BY <1>1 DEF Sound, Cap
<1>3. DOMAIN m = 1..Len(m) /\ Len(m) \in Nat
  OBVIOUS
<1>4. ASSUME s.at # 0
      PROVE  /\ s.at \in DOMAIN m /\ m[s.at] \in Seq(Cell)
             /\ Len(m[s.at]) \in Nat /\ s.len <= Len(m[s.at])
  <2>1. s.at \in DOMAIN m /\ s.len <= Len(m[s.at])
    BY <1>4 DEF Sound, Cap
  <2>2. m[s.at] \in Seq(Cell)
    BY <2>1
  <2>3. Len(m[s.at]) \in Nat
    BY <2>2
  <2> QED
    BY <2>1, <2>2, <2>3
<1> QED
  BY <1>1, <1>2, <1>3, <1>4

\* Growth keeps every slice sound.
LEMMA StaysSound ==
    ASSUME NEW m \in Seq(Seq(Cell)), NEW n, Grows(m, n), NEW s \in Slice, Sound(m, s)
    PROVE  Sound(n, s)
<1>1. CASE s.at = 0
  <2>1. s.len = 0 /\ s.at \in {0} \cup DOMAIN n
    BY <1>1, ArrayOf, Zenon
  <2>2. Cap(n, s) = 0 /\ 1..s.len = {}
    BY <1>1, <2>1 DEF Cap
  <2> QED
    BY <2>1, <2>2 DEF Sound
<1>2. CASE s.at # 0
  <2>1. /\ s.at \in DOMAIN m /\ Len(m[s.at]) \in Nat /\ s.len <= Len(m[s.at]) /\ s.len \in Nat
    BY <1>2, ArrayOf
  <2>2. s.at \in DOMAIN n /\ Len(n[s.at]) = Len(m[s.at])
    BY <2>1 DEF Grows
  <2>3. ASSUME NEW i \in 1..s.len PROVE n[s.at][i].Head # NoValue
    <3>1. i \in 1..Len(m[s.at]) /\ m[s.at][i].Head # NoValue
      BY <2>1 DEF Sound
    <3> QED
      BY <2>1, <3>1 DEF Grows
  <2> QED
    BY <1>2, <2>1, <2>2, <2>3 DEF Sound, Cap
<1> QED
  BY <1>1, <1>2

\* What append leaves: r is the result of appending x to s in memory m.
Appends(m, s, x, r) ==
    /\ r.mem \in Seq(Seq(Cell)) /\ r.slice \in Slice /\ Sound(r.mem, r.slice)
    /\ Grows(m, r.mem)
    /\ \A a \in DOMAIN m : a # s.at => r.mem[a] = m[a]
    /\ r.slice.at \in DOMAIN r.mem
    /\ r.slice.at = s.at \/ r.slice.at \notin DOMAIN m
    /\ r.slice.len = s.len + 1
    /\ \A i \in 1..s.len : r.mem[r.slice.at][i] = m[s.at][i]
    /\ r.mem[r.slice.at][s.len + 1] = x

\* Go's append while the array has spare cells.
LEMMA AppendInPlace ==
    ASSUME NEW m \in Seq(Seq(Cell)), NEW s \in Slice, Sound(m, s), s.len < Cap(m, s),
           NEW x \in Cell, x.Head # NoValue
    PROVE  Appends(m, s, x, AppendTo(m, s, x))
<1> DEFINE old == m[s.at]
           new == [old EXCEPT ![s.len + 1] = x]
           n == [m EXCEPT ![s.at] = new]
           t == [s EXCEPT !.len = s.len + 1]
           r == AppendTo(m, s, x)
<1>1. /\ s.at # 0 /\ s.at \in DOMAIN m /\ old \in Seq(Cell) /\ Len(old) \in Nat
      /\ s.at \in Nat /\ s.len \in Nat /\ s.len < Len(old)
  <2>1. s.at # 0
    BY ArrayOf DEF Cap
  <2> QED
    BY <2>1, ArrayOf DEF Cap
<1>2. r.mem = n /\ r.slice = t
  BY DEF AppendTo
<1>3. /\ new \in Seq(Cell) /\ Len(new) = Len(old)
      /\ \A i \in DOMAIN old : new[i] = IF i = s.len + 1 THEN x ELSE old[i]
  <2>1. s.len + 1 \in DOMAIN old
    <3>1. s.len + 1 \in 1..Len(old)
      BY <1>1
    <3> QED BY <1>1, <3>1
  <2> HIDE DEF old
  <2> QED
    BY <1>1, <2>1, SeqExcept
<1> HIDE DEF new
<1>4. /\ n \in Seq(Seq(Cell)) /\ DOMAIN n = DOMAIN m
      /\ \A a \in DOMAIN m : n[a] = IF a = s.at THEN new ELSE m[a]
  BY <1>1, <1>3, SeqExcept
<1>5. t \in Slice /\ t.at = s.at /\ t.len = s.len + 1
  <2>1. s.len + 1 \in Nat
    BY <1>1
  <2> QED
    BY <2>1 DEF Slice
<1> HIDE DEF n, t, r
<1>6. n[s.at] = new /\ DOMAIN old = 1..Len(old)
  BY <1>1, <1>4
<1> HIDE DEF old
<1>7. ASSUME NEW i \in 1..s.len PROVE new[i] = old[i]
  <2>1. i \in 1..Len(old) /\ i # s.len + 1
    BY <1>1
  <2> QED
    BY <1>3, <1>6, <2>1
<1>8. new[s.len + 1] = x
  <2>1. s.len + 1 \in 1..Len(old)
    BY <1>1
  <2> QED
    BY <1>3, <1>6, <2>1
<1>9. Sound(n, t)
  <2>1. ASSUME NEW i \in 1..t.len PROVE n[t.at][i].Head # NoValue
    <3>1. CASE i = s.len + 1
      BY <1>5, <1>6, <1>8, <3>1
    <3>2. CASE i \in 1..s.len
      BY <1>5, <1>6, <1>7, <3>2 DEF Sound, old
    <3> QED
      BY <1>1, <1>5, <3>1, <3>2
  <2> QED
    BY <1>1, <1>3, <1>4, <1>5, <1>6, <2>1 DEF Sound, Cap
<1>10. Grows(m, n)
  <2>1. ASSUME NEW a \in DOMAIN m, NEW i \in 1..Len(m[a]), m[a][i].Head # NoValue
        PROVE  n[a][i].Head # NoValue
    <3>1. CASE a = s.at
      <4>1. i \in 1..Len(old) /\ old[i].Head # NoValue
        BY <2>1, <3>1 DEF old
      <4> QED
        BY <1>3, <1>6, <3>1, <4>1
    <3>2. CASE a # s.at
      BY <1>4, <2>1, <3>2
    <3> QED
      BY <3>1, <3>2
  <2>2. ASSUME NEW a \in DOMAIN m PROVE Len(n[a]) = Len(m[a])
    BY <1>3, <1>4 DEF old
  <2> QED
    BY <1>4, <2>1, <2>2 DEF Grows
<1>11. Appends(m, s, x, [mem |-> n, slice |-> t])
  BY <1>1, <1>4, <1>5, <1>6, <1>7, <1>8, <1>9, <1>10 DEF Appends, old
<1> QED
  BY <1>2, <1>11 DEF Appends, r

\* Go's append into a new array.
LEMMA AppendNew ==
    ASSUME NEW m \in Seq(Seq(Cell)), NEW s \in Slice, Sound(m, s), ~(s.len < Cap(m, s)),
           NEW x \in Cell, x.Head # NoValue
    PROVE  Appends(m, s, x, AppendTo(m, s, x))
<1> DEFINE size == IF s.len = 0 THEN 1 ELSE 2 * s.len
           cell(i) == CASE i <= s.len -> m[s.at][i]
                        [] i = s.len + 1 -> x
                        [] OTHER -> Nil
           copy == [i \in 1..size |-> cell(i)]
           n == Append(m, copy)
           t == [at |-> Len(m) + 1, len |-> s.len + 1]
           r == AppendTo(m, s, x)
<1>1. /\ s.len \in Nat /\ Len(m) \in Nat /\ DOMAIN m = 1..Len(m)
      /\ size \in Nat /\ s.len < size
  BY ArrayOf
<1> HIDE DEF size
<1>2. r.mem = n /\ r.slice = t
  BY DEF AppendTo, size
<1>3. Nil \in Cell
  BY DEF Nil, Cell
<1>4. ASSUME NEW i \in 1..s.len PROVE m[s.at][i] \in Cell /\ m[s.at][i].Head # NoValue
  <2>1. s.at # 0 /\ s.at \in DOMAIN m /\ m[s.at] \in Seq(Cell) /\ s.len <= Len(m[s.at])
        /\ Len(m[s.at]) \in Nat
    BY <1>1, ArrayOf
  <2>2. i \in 1..Len(m[s.at])
    BY <1>1, <2>1
  <2> QED
    BY <2>1, <2>2 DEF Sound
<1>5. ASSUME NEW i \in 1..size
      PROVE  cell(i) \in Cell
  BY <1>1, <1>3, <1>4
<1>6. copy \in Seq(Cell) /\ Len(copy) = size
  <2>1. copy \in [1..size -> Cell]
    BY <1>5
  <2> HIDE DEF copy
  <2> QED
    BY <1>1, <2>1, FunctionIsSeq
<1>7. ASSUME NEW i \in 1..s.len PROVE copy[i] = m[s.at][i]
  <2>1. i \in 1..size /\ i <= s.len /\ i # s.len + 1
    BY <1>1
  <2>2. cell(i) = m[s.at][i]
    BY <2>1
  <2> HIDE DEF cell
  <2> QED
    BY <2>1, <2>2
<1>8. copy[s.len + 1] = x
  <2>1. s.len + 1 \in 1..size /\ ~(s.len + 1 <= s.len)
    BY <1>1
  <2>2. PICK k : k = s.len + 1
    OBVIOUS
  <2>3. k \in 1..size /\ ~(k <= s.len) /\ k = s.len + 1
    BY <2>1, <2>2
  <2>4. cell(k) = x
    BY <2>3
  <2> HIDE DEF cell
  <2> QED
    BY <2>2, <2>3, <2>4
<1> HIDE DEF copy
<1>9. /\ n \in Seq(Seq(Cell)) /\ DOMAIN n = 1..Len(m) + 1
      /\ \A a \in DOMAIN m : n[a] = m[a]
      /\ n[Len(m) + 1] = copy
  BY <1>6, AppendSeq
<1>10. t \in Slice /\ t.at = Len(m) + 1 /\ t.len = s.len + 1
  BY <1>1 DEF Slice
<1> HIDE DEF n, t, r
<1>11. /\ t.at \in DOMAIN n /\ t.at \notin DOMAIN m /\ t.at # 0 /\ n[t.at] = copy
       /\ DOMAIN m \subseteq DOMAIN n
  BY <1>1, <1>9, <1>10
<1>12. Sound(n, t)
  <2>1. ASSUME NEW i \in 1..t.len PROVE n[t.at][i].Head # NoValue
    <3>1. CASE i = s.len + 1
      BY <1>8, <1>11, <3>1
    <3>2. CASE i \in 1..s.len
      BY <1>4, <1>7, <1>11, <3>2
    <3> QED
      BY <1>1, <1>10, <3>1, <3>2
  <2>2. t.len <= Len(copy)
    BY <1>1, <1>6, <1>10
  <2> QED
    BY <1>11, <2>1, <2>2 DEF Sound, Cap
<1>13. Grows(m, n)
  BY <1>9, <1>11 DEF Grows
<1>14. Appends(m, s, x, [mem |-> n, slice |-> t])
  BY <1>7, <1>8, <1>9, <1>10, <1>11, <1>12, <1>13 DEF Appends
<1> QED
  BY <1>2, <1>14 DEF Appends, r

\* Whichever of the two append does, the slice shows one cell more.
LEMMA AppendToAppends ==
    ASSUME NEW m \in Seq(Seq(Cell)), NEW s \in Slice, Sound(m, s),
           NEW x \in Cell, x.Head # NoValue
    PROVE  Appends(m, s, x, AppendTo(m, s, x))
BY AppendInPlace, AppendNew

\* Memory n differs from m in the array of slice s at most.
Touches(m, s, n) ==
    /\ n \in Seq(Seq(Cell)) /\ DOMAIN n = DOMAIN m /\ Grows(m, n)
    /\ s.at \in DOMAIN m /\ \A a \in DOMAIN m : a # s.at => n[a] = m[a]

\* Deleting position i of a slice moves stored pairs only.
LEMMA ShiftOutShifts ==
    ASSUME NEW m \in Seq(Seq(Cell)), NEW s \in Slice, Sound(m, s), NEW i \in 1..s.len,
           NEW n, n = ShiftOut(m, s, i)
    PROVE  /\ Touches(m, s, n)
           /\ \A j \in 1..s.len - 1 :
                 n[s.at][j] = IF j < i THEN m[s.at][j] ELSE m[s.at][j + 1]
<1> DEFINE old == m[s.at]
           cell(j) == IF j >= i /\ j < s.len THEN old[j + 1] ELSE old[j]
           new == [j \in DOMAIN old |-> cell(j)]
<1>1. /\ s.at # 0 /\ s.at \in DOMAIN m /\ old \in Seq(Cell) /\ Len(old) \in Nat
      /\ s.len \in Nat /\ s.len <= Len(old) /\ i \in Nat /\ i >= 1 /\ i <= s.len
  BY ArrayOf
<1>2. n = [m EXCEPT ![s.at] = new]
  BY DEF ShiftOut
<1>3. DOMAIN old = 1..Len(old)
  BY <1>1
<1>4. \A j \in 1..s.len : old[j].Head # NoValue
  BY DEF Sound
<1> HIDE DEF old
<1>5. ASSUME NEW j \in 1..Len(old)
      PROVE  cell(j) \in Cell /\ (old[j].Head # NoValue => cell(j).Head # NoValue)
  <2>1. CASE j >= i /\ j < s.len
    <3>1. j + 1 \in 1..s.len /\ j + 1 \in 1..Len(old)
      BY <1>1, <2>1
    <3> QED
      BY <1>1, <1>3, <1>4, <2>1, <3>1
  <2>2. CASE ~(j >= i /\ j < s.len)
    BY <1>1, <1>3, <2>2
  <2> QED
    BY <2>1, <2>2
<1>6. new \in Seq(Cell) /\ Len(new) = Len(old)
  <2>1. new \in [1..Len(old) -> Cell]
    BY <1>3, <1>5
  <2> HIDE DEF new
  <2> QED
    BY <1>1, <2>1, FunctionIsSeq
<1>7. \A j \in 1..Len(old) : old[j].Head # NoValue => new[j].Head # NoValue
  BY <1>3, <1>5
<1>8. ASSUME NEW j \in 1..s.len - 1
      PROVE  new[j] = IF j < i THEN old[j] ELSE old[j + 1]
  <2>1. j \in 1..Len(old) /\ j < s.len
    BY <1>1
  <2>2. (j >= i) <=> ~(j < i)
    BY <1>1
  <2> QED
    BY <1>3, <2>1, <2>2
<1> HIDE DEF new
<1>9. /\ n \in Seq(Seq(Cell)) /\ DOMAIN n = DOMAIN m
      /\ \A a \in DOMAIN m : n[a] = IF a = s.at THEN new ELSE m[a]
  BY <1>1, <1>2, <1>6, SeqExcept
<1>10. n[s.at] = new
  BY <1>1, <1>9
<1>11. Grows(m, n)
  <2>1. ASSUME NEW a \in DOMAIN m
        PROVE  /\ Len(n[a]) = Len(m[a])
               /\ \A j \in 1..Len(m[a]) : m[a][j].Head # NoValue => n[a][j].Head # NoValue
    BY <1>6, <1>7, <1>9 DEF old
  <2> QED
    BY <1>9, <2>1 DEF Grows
<1> QED
  BY <1>1, <1>8, <1>9, <1>10, <1>11 DEF old, Touches

\* Overwriting some of a slice's pairs.
Overwrite(m, s, hit, x) ==
    [m EXCEPT ![s.at] = [i \in DOMAIN m[s.at] |-> IF i \in hit THEN x ELSE m[s.at][i]]]

Overwrites(m, s, hit, x, n) ==
    \A i \in 1..s.len : n[s.at][i] = IF i \in hit THEN x ELSE m[s.at][i]

\* Assigning to a pair of a bucket changes cells inside its slice only.
LEMMA OverwriteKeeps ==
    ASSUME NEW m \in Seq(Seq(Cell)), NEW s \in Slice, Sound(m, s),
           NEW hit, hit # {}, \A i \in hit : i \in 1..s.len,
           NEW x \in Cell, x.Head # NoValue,
           NEW n, n = Overwrite(m, s, hit, x)
    PROVE  /\ Touches(m, s, n)
           /\ Overwrites(m, s, hit, x, n)
<1> DEFINE old == m[s.at]
           cell(i) == IF i \in hit THEN x ELSE old[i]
           new == [i \in DOMAIN old |-> cell(i)]
<1>1. /\ s.at # 0 /\ s.at \in DOMAIN m /\ old \in Seq(Cell) /\ Len(old) \in Nat
      /\ s.len \in Nat /\ s.len <= Len(old)
  <2>1. PICK j : j \in hit
    OBVIOUS
  <2>2. s.len # 0
    BY <2>1
  <2> QED
    BY <2>2, ArrayOf
<1>2. n = [m EXCEPT ![s.at] = new]
  BY DEF Overwrite
<1>3. DOMAIN old = 1..Len(old)
  BY <1>1
<1> HIDE DEF old
<1>4. ASSUME NEW j \in 1..Len(old)
      PROVE  cell(j) \in Cell /\ (old[j].Head # NoValue => cell(j).Head # NoValue)
  BY <1>1, <1>3
<1>5. new \in Seq(Cell) /\ Len(new) = Len(old)
  <2>1. new \in [1..Len(old) -> Cell]
    BY <1>3, <1>4
  <2> HIDE DEF new
  <2> QED
    BY <1>1, <2>1, FunctionIsSeq
<1>6. \A j \in 1..Len(old) : old[j].Head # NoValue => new[j].Head # NoValue
  BY <1>3, <1>4
<1>7. ASSUME NEW j \in 1..s.len
      PROVE  new[j] = IF j \in hit THEN x ELSE old[j]
  <2>1. j \in 1..Len(old)
    BY <1>1
  <2> QED
    BY <1>3, <2>1
<1> HIDE DEF new
<1>8. /\ n \in Seq(Seq(Cell)) /\ DOMAIN n = DOMAIN m
      /\ \A a \in DOMAIN m : n[a] = IF a = s.at THEN new ELSE m[a]
  <2>1. PICK l : l = [m EXCEPT ![s.at] = new]
    OBVIOUS
  <2>2. /\ l \in Seq(Seq(Cell)) /\ DOMAIN l = DOMAIN m
        /\ \A a \in DOMAIN m : l[a] = IF a = s.at THEN new ELSE m[a]
    BY <1>1, <1>5, <2>1, SeqExcept
  <2>3. n = l
    BY <1>2, <2>1
  <2> QED
    BY <2>2, <2>3
<1>9. n[s.at] = new
  BY <1>1, <1>8
<1>10. Grows(m, n)
  <2>1. ASSUME NEW a \in DOMAIN m
        PROVE  /\ Len(n[a]) = Len(m[a])
               /\ \A j \in 1..Len(m[a]) : m[a][j].Head # NoValue => n[a][j].Head # NoValue
    BY <1>5, <1>6, <1>8 DEF old
  <2> QED
    BY <1>8, <2>1 DEF Grows
<1> QED
  BY <1>1, <1>7, <1>8, <1>9, <1>10 DEF old, Touches, Overwrites

-----------------------------------------------------------------------------
(* Steps *)

\* A step of hash h that writes: to the arrays of one bucket and of KeyOrder,
\* whose slices it replaces by slices over the same or over new arrays.
WriteStep(h, c) ==
    /\ mem' \in Seq(Seq(Cell)) /\ Grows(mem, mem')
    /\ \A a \in DOMAIN mem : a # bucket[h][c].at /\ a # order[h].at => mem'[a] = mem[a]
    /\ \E s, t \in Slice :
          /\ Sound(mem', s) /\ Sound(mem', t)
          /\ s.at = bucket[h][c].at \/ s.at \notin DOMAIN mem \cup {0}
          /\ t.at = order[h].at \/ t.at \notin DOMAIN mem \cup {0}
          /\ s.at # t.at \/ s.at \in DOMAIN mem \cup {0}
          /\ bucket' = [bucket EXCEPT ![h][c] = s] /\ order' = [order EXCEPT ![h] = t]
    /\ ok' \in [Hash -> SUBSET Code] /\ c \in ok'[h] /\ \A g \in Hash : ok[g] \subseteq ok'[g]
    /\ \E z \in Int : NumKeys' = [NumKeys EXCEPT ![h] = z]

\* What IndInv says of the slices.
LEMMA Slices ==
    ASSUME IndInv
    PROVE  /\ mem \in Seq(Seq(Cell))
           /\ \A h \in Hash : order[h] \in Slice /\ Sound(mem, order[h])
           /\ \A h \in Hash, c \in Code : bucket[h][c] \in Slice /\ Sound(mem, bucket[h][c])
BY DEF IndInv, TypesOK, AllSound

\* Both appends of HashSet together: of the pair to a slice s that is nil or
\* the bucket's, and of the key to KeyOrder, which does not share its array.
LEMMA AppendBoth ==
    ASSUME NEW m \in Seq(Seq(Cell)), NEW s \in Slice, NEW o \in Slice,
           Sound(m, s), Sound(m, o), s.at = o.at => s.at = 0,
           NEW x \in Cell, NEW y \in Cell, x.Head # NoValue, y.Head # NoValue,
           NEW a, a = AppendTo(m, s, x), NEW l, l = AppendTo(a.mem, o, y)
    PROVE  /\ Appends(m, s, x, a) /\ Sound(a.mem, o) /\ Appends(a.mem, o, y, l)
           /\ Grows(m, l.mem) /\ Sound(l.mem, a.slice)
           /\ a.slice.at # l.slice.at
           /\ a.slice.at = s.at \/ a.slice.at \notin DOMAIN m \cup {0}
           /\ l.slice.at = o.at \/ l.slice.at \notin DOMAIN m \cup {0}
           /\ l.mem[a.slice.at] = a.mem[a.slice.at]
           /\ o.at \in DOMAIN m => a.mem[o.at] = m[o.at]
<1>1. Appends(m, s, x, a)
  BY AppendToAppends
<1>2. /\ a.mem \in Seq(Seq(Cell)) /\ a.slice \in Slice /\ Sound(a.mem, a.slice)
      /\ Grows(m, a.mem) /\ a.slice.at \in DOMAIN a.mem
  BY <1>1 DEF Appends
<1>3. Sound(a.mem, o)
  BY <1>2, StaysSound
<1>4. Appends(a.mem, o, y, l)
  BY <1>2, <1>3, AppendToAppends
<1>5. /\ l.mem \in Seq(Seq(Cell)) /\ Grows(a.mem, l.mem) /\ l.slice.at \in DOMAIN l.mem
  BY <1>4 DEF Appends
<1>6. Grows(m, l.mem) /\ Sound(l.mem, a.slice)
  BY <1>2, <1>5, GrowsTwice, StaysSound
<1>7. 0 \notin DOMAIN a.mem /\ 0 \notin DOMAIN l.mem /\ DOMAIN m \subseteq DOMAIN a.mem
  <2>1. PICK m1, m2 \in Seq(Seq(Cell)) : m1 = a.mem /\ m2 = l.mem
    BY <1>2, <1>5
  <2>2. 0 \notin DOMAIN m1 /\ 0 \notin DOMAIN m2
    OBVIOUS
  <2> QED
    BY <1>2, <2>1, <2>2 DEF Grows
<1>8. a.slice.at # o.at
  BY <1>1, <1>2, <1>7 DEF Appends, Sound
<1>9. a.slice.at # l.slice.at
  BY <1>2, <1>4, <1>8 DEF Appends
<1>10. a.slice.at = s.at \/ a.slice.at \notin DOMAIN m \cup {0}
  BY <1>1, <1>2, <1>7 DEF Appends
<1>11. l.slice.at = o.at \/ l.slice.at \notin DOMAIN m \cup {0}
  BY <1>4, <1>5, <1>7 DEF Appends
<1>12. l.mem[a.slice.at] = a.mem[a.slice.at]
  BY <1>2, <1>4, <1>8 DEF Appends
<1>13. o.at \in DOMAIN m => a.mem[o.at] = m[o.at]
  <2>1. o.at \in DOMAIN m => o.at # s.at
    BY <1>7
  <2> QED
    BY <1>1, <2>1 DEF Appends
<1> QED
  BY <1>1, <1>3, <1>4, <1>6, <1>9, <1>10, <1>11, <1>12, <1>13

\* The pairs and keys that HashSet writes.
LEMMA NewCells ==
    ASSUME NEW key \in Key, NEW val \in Val
    PROVE  /\ Elem[key] \in Key /\ HashCode[Elem[key]] \in Code
           /\ [Head |-> Elem[key], Tail |-> val] \in Cell
           /\ [Nil EXCEPT !.Head = Elem[key]] \in Cell
           /\ [Nil EXCEPT !.Head = Elem[key]].Head = Elem[key]
           /\ Elem[key] # NoValue
<1>1. Elem[key] \in Key /\ HashCode[Elem[key]] \in Code /\ Elem[key] # NoValue
  BY AliasAssumption
<1>2. [Nil EXCEPT !.Head = Elem[key]] = [Head |-> Elem[key], Tail |-> NoValue]
  BY DEF Nil
<1> QED
  BY <1>1, <1>2 DEF Cell

\* What HashSet does, with k the unwrapped key and c its code.
Sets(h, k, c, pair) ==
    \/ /\ Hits(h, c, k) # {}
       /\ mem' = Overwrite(mem, bucket[h][c], Hits(h, c, k), pair)
       /\ UNCHANGED <<bucket, order, NumKeys>>
    \/ \E a, l :
          /\ Hits(h, c, k) = {}
          /\ a = AppendTo(mem, bucket[h][c], pair)
          /\ l = AppendTo(a.mem, order[h], [Nil EXCEPT !.Head = k])
          /\ order[h].len < MaxOrder
          /\ mem' = l.mem
          /\ bucket' = [bucket EXCEPT ![h][c] = a.slice]
          /\ order' = [order EXCEPT ![h] = l.slice]
          /\ NumKeys' = [NumKeys EXCEPT ![h] = @ + 1]

\* HashSet overwrites a pair, adds one, or opens a bucket.
LEMMA HashSetCases ==
    ASSUME IndInv, NEW h \in Hash, NEW key \in Key, NEW val \in Val, HashSet(h, key, val)
    PROVE  Sets(h, Elem[key], HashCode[Elem[key]], [Head |-> Elem[key], Tail |-> val])
<1> DEFINE k == Elem[key]
           c == HashCode[k]
           pair == [Head |-> k, Tail |-> val]
<1>1. c \in Code
  BY NewCells
<1>2. (IF c \in ok[h] THEN AppendTo(mem, bucket[h][c], pair) ELSE AppendTo(mem, Empty, pair))
         = AppendTo(mem, bucket[h][c], pair)
  <2>1. CASE c \in ok[h]
    BY <2>1
  <2>2. CASE c \notin ok[h]
    BY <1>1, <2>2 DEF IndInv, EntriesOnly
  <2> QED
    BY <2>1, <2>2
<1> QED
  BY <1>2, Zenon DEF HashSet, Sets, Overwrite

\* Each of the three is a write to one bucket and perhaps the list.
LEMMA SetsWrites ==
    ASSUME IndInv, NEW h \in Hash, NEW k, NEW c \in Code, NEW pair \in Cell, pair.Head # NoValue,
           [Nil EXCEPT !.Head = k] \in Cell, [Nil EXCEPT !.Head = k].Head # NoValue,
           ok' = [ok EXCEPT ![h] = @ \cup {c}], Sets(h, k, c, pair)
    PROVE  WriteStep(h, c)
<1> DEFINE hit == Hits(h, c, k)
           listed == [Nil EXCEPT !.Head = k]
           s == bucket[h][c]
           o == order[h]
<1>1. listed \in Cell /\ listed.Head # NoValue
  OBVIOUS
<1>2. mem \in Seq(Seq(Cell)) /\ s \in Slice /\ Sound(mem, s) /\ o \in Slice /\ Sound(mem, o)
  BY Slices
<1>3. /\ ok' \in [Hash -> SUBSET Code] /\ c \in ok'[h] /\ \A g \in Hash : ok[g] \subseteq ok'[g]
  BY DEF IndInv, TypesOK
<1>4. NumKeys \in [Hash -> Int] /\ bucket \in [Hash -> [Code -> Slice]] /\ order \in [Hash -> Slice]
  BY DEF IndInv, TypesOK
<1>5. CASE /\ hit # {}
           /\ mem' = Overwrite(mem, s, hit, pair)
           /\ UNCHANGED <<bucket, order, NumKeys>>
  <2>1. \A i \in hit : i \in 1..s.len
    BY DEF Hits
  <2> HIDE DEF hit, s, o
  <2>2. Touches(mem, s, mem')
    <3>1. PICK m, t, hits, n : m = mem /\ t = s /\ hits = hit /\ n = mem'
      OBVIOUS
    <3>2. /\ m \in Seq(Seq(Cell)) /\ t \in Slice /\ Sound(m, t)
          /\ hits # {} /\ \A i \in hits : i \in 1..t.len
      BY <1>2, <1>5, <2>1, <3>1
    <3>3. n = Overwrite(m, t, hits, pair)
      BY <1>5, <3>1, Zenon
    <3>4. Touches(m, t, n)
      BY <3>2, <3>3, OverwriteKeeps, Zenon
    <3> QED
      BY <3>1, <3>4, Zenon
  <2>3. Sound(mem', s) /\ Sound(mem', o)
    BY <1>2, <2>2, StaysSound DEF Touches
  <2>4. s.at # o.at \/ s.at \in DOMAIN mem \cup {0}
    BY <1>2 DEF Sound
  <2>5. bucket' = [bucket EXCEPT ![h][c] = s] /\ order' = [order EXCEPT ![h] = o]
    BY <1>4, <1>5 DEF s, o
  <2>6. NumKeys[h] \in Int /\ NumKeys' = [NumKeys EXCEPT ![h] = NumKeys[h]]
    BY <1>4, <1>5
  <2> QED
    BY <1>2, <1>3, <2>2, <2>3, <2>4, <2>5, <2>6, Zenon DEF WriteStep, Touches, s, o
<1>6. ASSUME NEW a, NEW l, a = AppendTo(mem, s, pair), l = AppendTo(a.mem, o, listed),
             mem' = l.mem, bucket' = [bucket EXCEPT ![h][c] = a.slice],
             order' = [order EXCEPT ![h] = l.slice], NumKeys' = [NumKeys EXCEPT ![h] = @ + 1]
      PROVE  WriteStep(h, c)
  <2>1. s.at = o.at => s.at = 0
    BY DEF IndInv, Roles
  <2> HIDE DEF listed, s, o
  <2>2. /\ Appends(mem, s, pair, a) /\ Appends(a.mem, o, listed, l)
        /\ Grows(mem, l.mem) /\ Sound(l.mem, a.slice)
        /\ a.slice.at # l.slice.at
        /\ a.slice.at = s.at \/ a.slice.at \notin DOMAIN mem \cup {0}
        /\ l.slice.at = o.at \/ l.slice.at \notin DOMAIN mem \cup {0}
    BY <1>1, <1>2, <1>6, <2>1, AppendBoth
  <2>3. /\ l.mem \in Seq(Seq(Cell)) /\ a.slice \in Slice /\ l.slice \in Slice
        /\ Sound(l.mem, l.slice)
    BY <2>2 DEF Appends
  <2>4. ASSUME NEW b \in DOMAIN mem, b # s.at, b # o.at PROVE l.mem[b] = mem[b]
    BY <2>2, <2>4 DEF Appends, Grows
  <2>5. NumKeys[h] + 1 \in Int /\ NumKeys' = [NumKeys EXCEPT ![h] = NumKeys[h] + 1]
    BY <1>4, <1>6
  <2> QED
    BY <1>3, <1>6, <2>2, <2>3, <2>4, <2>5, Zenon DEF WriteStep, s, o
<1> QED
  BY <1>5, <1>6, Zenon DEF Sets

\* HashSet writes to the bucket of the key it opens.
LEMMA HashSetWrites ==
    ASSUME IndInv, NEW h \in Hash, NEW key \in Key, NEW val \in Val, HashSet(h, key, val)
    PROVE  WriteStep(h, HashCode[Elem[key]])
<1>1. PICK k, c, pair : k = Elem[key] /\ c = HashCode[k] /\ pair = [Head |-> k, Tail |-> val]
  OBVIOUS
<1>2. /\ c \in Code /\ pair \in Cell /\ pair.Head # NoValue
      /\ [Nil EXCEPT !.Head = k] \in Cell /\ [Nil EXCEPT !.Head = k].Head # NoValue
  BY <1>1, NewCells
<1>3. Sets(h, k, c, pair)
  BY <1>1, HashSetCases, Zenon
<1>4. ok' = [ok EXCEPT ![h] = @ \cup {c}]
  BY <1>1 DEF HashSet
<1>5. WriteStep(h, c)
  BY <1>2, <1>3, <1>4, SetsWrites
<1> QED
  BY <1>1, <1>5

\* The first match is one of the positions of the bucket.
LEMMA FirstHit ==
    ASSUME IndInv, NEW h \in Hash, NEW c \in Code, NEW k, Hits(h, c, k) # {}
    PROVE  First(Hits(h, c, k)) \in Hits(h, c, k) /\ First(Hits(h, c, k)) \in 1..bucket[h][c].len
<1> DEFINE hit == Hits(h, c, k)
<1>1. bucket[h][c].len \in Nat
  BY Slices DEF Slice
<1>2. hit \subseteq 1..bucket[h][c].len
  BY DEF Hits
<1> HIDE DEF hit
<1>3. hit \in SUBSET Nat /\ hit # {}
  BY <1>1, <1>2 DEF hit
<1>4. \E x \in hit : \A y \in hit : x <= y
  BY <1>3, Least
<1>5. First(hit) \in hit
  BY <1>4 DEF First
<1> QED
  BY <1>2, <1>5 DEF hit

\* HashDelete writes to the bucket of the key as it is given.
LEMMA HashDeleteWrites ==
    ASSUME IndInv, NEW h \in Hash, NEW key \in Key, HashDelete(h, key)
    PROVE  WriteStep(h, HashCode[key])
<1> DEFINE c == HashCode[key]
           hit == Hits(h, c, key)
           s == bucket[h][c]
           o == order[h]
           t == [s EXCEPT !.len = s.len - 1]
<1>1. c \in Code
  BY AliasAssumption
<1>2. mem \in Seq(Seq(Cell)) /\ s \in Slice /\ Sound(mem, s) /\ o \in Slice /\ Sound(mem, o)
  BY <1>1, Slices
<1>3. /\ NumKeys \in [Hash -> Int] /\ bucket \in [Hash -> [Code -> Slice]]
      /\ order \in [Hash -> Slice] /\ ok \in [Hash -> SUBSET Code]
  BY DEF IndInv, TypesOK
<1>4. /\ c \in ok[h] /\ ok' = ok /\ order' = order
      /\ NumKeys' = [NumKeys EXCEPT ![h] = @ - 1]
      /\ IF hit = {} THEN mem' = mem /\ bucket' = bucket
         ELSE /\ mem' = ShiftOut(mem, s, First(hit))
              /\ bucket' = [bucket EXCEPT ![h][c].len = @ - 1]
  BY DEF HashDelete
<1>5. /\ ok' \in [Hash -> SUBSET Code] /\ c \in ok'[h] /\ \A g \in Hash : ok[g] \subseteq ok'[g]
  BY <1>3, <1>4
<1>6. order' = [order EXCEPT ![h] = o]
  BY <1>3, <1>4
<1>7. NumKeys[h] - 1 \in Int /\ NumKeys' = [NumKeys EXCEPT ![h] = NumKeys[h] - 1]
  BY <1>3, <1>4
<1>8. s.at # o.at \/ s.at \in DOMAIN mem \cup {0}
  BY <1>2 DEF Sound
<1>9. CASE hit = {}
  <2>1. bucket' = [bucket EXCEPT ![h][c] = s] /\ mem' = mem
    BY <1>3, <1>4, <1>9
  <2>2. Grows(mem, mem)
    BY DEF Grows
  <2> HIDE DEF s, o, c
  <2> QED
    BY <1>2, <1>5, <1>6, <1>7, <1>8, <2>1, <2>2, Zenon DEF WriteStep, s, o, c
<1>10. CASE hit # {}
  <2>1. First(hit) \in 1..s.len
    BY <1>1, <1>10, FirstHit
  <2>2. mem' = ShiftOut(mem, s, First(hit)) /\ bucket' = [bucket EXCEPT ![h][c] = t]
    BY <1>3, <1>4, <1>10
  <2>3. s.len \in Nat /\ s.len >= 1
    BY <1>2, <2>1 DEF Slice
  <2>4. t \in Slice /\ t.at = s.at /\ t.len = s.len - 1
    <3>1. s.len - 1 \in Nat
      BY <2>3
    <3> QED
      BY <1>2, <3>1 DEF Slice
  <2> HIDE DEF s, o, c, hit, t
  <2>5. /\ mem' \in Seq(Seq(Cell)) /\ DOMAIN mem' = DOMAIN mem /\ Grows(mem, mem')
        /\ s.at \in DOMAIN mem /\ \A a \in DOMAIN mem : a # s.at => mem'[a] = mem[a]
    BY <1>2, <2>1, <2>2, ShiftOutShifts DEF Touches
  <2>6. Sound(mem', s) /\ Sound(mem', o)
    BY <1>2, <2>5, StaysSound
  <2>7. Sound(mem', t)
    <3>1. t.len <= s.len /\ \A i \in 1..t.len : i \in 1..s.len
      BY <2>3, <2>4
    <3>2. Cap(mem', t) = Cap(mem', s)
      BY <2>4 DEF Cap
    <3>3. Cap(mem', s) \in Nat
      BY <2>5 DEF Cap
    <3>4. t.len <= Cap(mem', t)
      BY <2>3, <2>4, <2>6, <3>1, <3>2, <3>3 DEF Sound
    <3> QED
      BY <2>4, <2>6, <3>1, <3>4 DEF Sound
  <2>8. t.at # o.at \/ t.at \in DOMAIN mem \cup {0}
    BY <1>8, <2>4
  <2> QED
    BY <1>2, <1>5, <1>6, <1>7, <2>2, <2>4, <2>5, <2>6, <2>7, <2>8, Zenon DEF WriteStep, s, o, c
<1> QED
  BY <1>9, <1>10

-----------------------------------------------------------------------------
(* The invariant *)

\* The slices and entries after a step that writes.
LEMMA AfterWrite ==
    ASSUME IndInv, NEW h \in Hash, NEW c \in Code, WriteStep(h, c)
    PROVE  \E s, t \in Slice :
              /\ Sound(mem', s) /\ Sound(mem', t)
              /\ s.at = bucket[h][c].at \/ s.at \notin DOMAIN mem \cup {0}
              /\ t.at = order[h].at \/ t.at \notin DOMAIN mem \cup {0}
              /\ s.at # t.at \/ s.at \in DOMAIN mem \cup {0}
              /\ bucket' \in [Hash -> [Code -> Slice]] /\ order' \in [Hash -> Slice]
              /\ \A g \in Hash : \A d \in Code :
                    bucket'[g][d] = IF g = h /\ d = c THEN s ELSE bucket[g][d]
              /\ \A g \in Hash : order'[g] = IF g = h THEN t ELSE order[g]
<1>1. bucket \in [Hash -> [Code -> Slice]] /\ order \in [Hash -> Slice]
  BY DEF IndInv, TypesOK
<1>2. PICK s, t \in Slice :
          /\ Sound(mem', s) /\ Sound(mem', t)
          /\ s.at = bucket[h][c].at \/ s.at \notin DOMAIN mem \cup {0}
          /\ t.at = order[h].at \/ t.at \notin DOMAIN mem \cup {0}
          /\ s.at # t.at \/ s.at \in DOMAIN mem \cup {0}
          /\ bucket' = [bucket EXCEPT ![h][c] = s] /\ order' = [order EXCEPT ![h] = t]
  BY DEF WriteStep
<1>3. /\ bucket' \in [Hash -> [Code -> Slice]]
      /\ \A g \in Hash : \A d \in Code :
            bucket'[g][d] = IF g = h /\ d = c THEN s ELSE bucket[g][d]
  BY <1>1, <1>2
<1>4. /\ order' \in [Hash -> Slice]
      /\ \A g \in Hash : order'[g] = IF g = h THEN t ELSE order[g]
  BY <1>1, <1>2
<1> QED
  BY <1>2, <1>3, <1>4

\* A write keeps the invariant.
LEMMA WritePreserves ==
    ASSUME IndInv, NEW h \in Hash, NEW c \in Code, WriteStep(h, c)
    PROVE  IndInv'
<1> DEFINE used == DOMAIN mem \cup {0}
<1>1. /\ mem \in Seq(Seq(Cell))
      /\ \A g \in Hash : order[g] \in Slice /\ Sound(mem, order[g]) /\ order[g].at \in used
      /\ \A g \in Hash, d \in Code : /\ bucket[g][d] \in Slice /\ Sound(mem, bucket[g][d])
                                     /\ bucket[g][d].at \in used
  BY Slices DEF Sound
<1>2. mem' \in Seq(Seq(Cell)) /\ Grows(mem, mem')
  BY DEF WriteStep
<1>3. /\ ok' \in [Hash -> SUBSET Code] /\ c \in ok'[h] /\ \A g \in Hash : ok[g] \subseteq ok'[g]
  BY DEF WriteStep
<1>4. NumKeys' \in [Hash -> Int]
  <2>1. NumKeys \in [Hash -> Int]
    BY DEF IndInv, TypesOK
  <2> QED
    BY <2>1 DEF WriteStep
<1>5. PICK s, t \in Slice :
          /\ Sound(mem', s) /\ Sound(mem', t)
          /\ s.at = bucket[h][c].at \/ s.at \notin used
          /\ t.at = order[h].at \/ t.at \notin used
          /\ s.at # t.at \/ s.at \in used
          /\ bucket' \in [Hash -> [Code -> Slice]] /\ order' \in [Hash -> Slice]
          /\ \A g \in Hash : \A d \in Code :
                bucket'[g][d] = IF g = h /\ d = c THEN s ELSE bucket[g][d]
          /\ \A g \in Hash : order'[g] = IF g = h THEN t ELSE order[g]
  BY AfterWrite
<1> HIDE DEF used
<1>6. TypesOK'
  BY <1>2, <1>3, <1>4, <1>5 DEF TypesOK
<1>7. AllSound'
  <2>1. ASSUME NEW g \in Hash PROVE Sound(mem', order'[g])
    BY <1>1, <1>2, <1>5, StaysSound
  <2>2. ASSUME NEW g \in Hash, NEW d \in Code PROVE Sound(mem', bucket'[g][d])
    BY <1>1, <1>2, <1>5, StaysSound
  <2> QED
    BY <2>1, <2>2 DEF AllSound, Sound, Cap
<1>8. Roles'
  <2>1. ASSUME NEW e \in Hash, NEW g \in Hash, NEW b \in Code, NEW d \in Code,
               bucket'[e][b].at = bucket'[g][d].at, bucket'[e][b].at # 0
        PROVE  b = d
    <3>1. /\ bucket'[e][b] = IF e = h /\ b = c THEN s ELSE bucket[e][b]
          /\ bucket'[g][d] = IF g = h /\ d = c THEN s ELSE bucket[g][d]
      BY <1>5
    <3>2. bucket[e][b].at = bucket[g][d].at => b = d \/ bucket[g][d].at = 0
      BY DEF IndInv, Roles
    <3>3. bucket[h][c].at = bucket[g][d].at => c = d \/ bucket[g][d].at = 0
      BY DEF IndInv, Roles
    <3>4. bucket[e][b].at = bucket[h][c].at => b = c \/ bucket[e][b].at = 0
      BY DEF IndInv, Roles
    <3> QED
      BY <1>1, <1>5, <2>1, <3>1, <3>2, <3>3, <3>4
  <2>2. ASSUME NEW e \in Hash, NEW g \in Hash, NEW d \in Code,
               order'[e].at = bucket'[g][d].at
        PROVE  order'[e].at = 0
    <3>1. /\ order'[e] = IF e = h THEN t ELSE order[e]
          /\ bucket'[g][d] = IF g = h /\ d = c THEN s ELSE bucket[g][d]
      BY <1>5
    <3>2. /\ order[e].at = bucket[g][d].at => order[e].at = 0
          /\ order[h].at = bucket[g][d].at => order[h].at = 0
          /\ order[e].at = bucket[h][c].at => order[e].at = 0
          /\ order[h].at = bucket[h][c].at => order[h].at = 0
      BY DEF IndInv, Roles
    <3>3. order[e].at \in used /\ bucket[g][d].at \in used
      BY <1>1
    <3> QED
      BY <1>5, <2>2, <3>1, <3>2, <3>3
  <2> QED
    BY <2>1, <2>2 DEF Roles
<1>9. EntriesOnly'
  <2>1. ASSUME NEW g \in Hash, NEW d \in Code, d \notin ok'[g] PROVE bucket'[g][d] = Empty
    <3>1. d \notin ok[g] /\ ~(g = h /\ d = c)
      BY <1>3, <2>1
    <3> QED
      BY <1>5, <3>1 DEF IndInv, EntriesOnly
  <2> QED
    BY <2>1 DEF EntriesOnly, Empty
<1> QED
  BY <1>6, <1>7, <1>8, <1>9 DEF IndInv

\* CloneFrom keeps the invariant: arrays gain slices, of the same kind.
LEMMA ClonePreserves ==
    ASSUME IndInv, NEW h \in Hash, NEW src \in Hash, CloneFrom(h, src)
    PROVE  IndInv'
<1>1. /\ mem \in Seq(Seq(Cell)) /\ ok \in [Hash -> SUBSET Code]
      /\ bucket \in [Hash -> [Code -> Slice]] /\ order \in [Hash -> Slice]
      /\ NumKeys \in [Hash -> Int]
  BY DEF IndInv, TypesOK
<1>2. /\ mem' = mem /\ ok' = [ok EXCEPT ![h] = ok[src]]
      /\ bucket' = [bucket EXCEPT ![h] = bucket[src]]
      /\ order' = [order EXCEPT ![h] = order[src]]
      /\ NumKeys' = [NumKeys EXCEPT ![h] = NumKeys[src]]
  BY DEF CloneFrom
<1>3. TypesOK'
  BY <1>1, <1>2 DEF TypesOK
<1>4. \A g \in Hash : \E e \in Hash :
          ok'[g] = ok[e] /\ bucket'[g] = bucket[e] /\ order'[g] = order[e]
  <2>1. ASSUME NEW g \in Hash
        PROVE  \E e \in Hash : ok'[g] = ok[e] /\ bucket'[g] = bucket[e] /\ order'[g] = order[e]
    <3>1. CASE g = h
      BY <1>1, <1>2, <3>1
    <3>2. CASE g # h
      BY <1>1, <1>2, <3>2
    <3> QED
      BY <3>1, <3>2
  <2> QED
    BY <2>1
<1>5. AllSound'
  <2>1. ASSUME NEW g \in Hash
        PROVE  Sound(mem', order'[g]) /\ \A c \in Code : Sound(mem', bucket'[g][c])
    BY <1>2, <1>4 DEF IndInv, AllSound
  <2> QED
    BY <2>1 DEF AllSound, Sound, Cap
<1>6. Roles'
  <2>1. ASSUME NEW e \in Hash, NEW g \in Hash, NEW b \in Code, NEW d \in Code
        PROVE  /\ bucket'[e][b].at = bucket'[g][d].at /\ bucket'[e][b].at # 0 => b = d
               /\ order'[e].at = bucket'[g][d].at => order'[e].at = 0
    <3>1. PICK i \in Hash : bucket'[e] = bucket[i] /\ order'[e] = order[i]
      BY <1>4
    <3>2. PICK j \in Hash : bucket'[g] = bucket[j]
      BY <1>4
    <3> QED
      BY <3>1, <3>2 DEF IndInv, Roles
  <2> QED
    BY <2>1 DEF Roles
<1>7. EntriesOnly'
  BY <1>4 DEF IndInv, EntriesOnly, Empty
<1> QED
  BY <1>3, <1>5, <1>6, <1>7 DEF IndInv

\* Hashes start empty.
LEMMA InitIndInv == Init => IndInv
<1> SUFFICES ASSUME Init PROVE IndInv
  OBVIOUS
<1>1. Empty \in Slice /\ Sound(mem, Empty) /\ Empty.at = 0
  BY DEF Empty, Slice, Sound, Cap
<1>2. TypesOK
  BY <1>1 DEF Init, TypesOK
<1>3. AllSound /\ Roles /\ EntriesOnly
  BY <1>1 DEF Init, AllSound, Roles, EntriesOnly
<1> QED
  BY <1>2, <1>3 DEF IndInv

\* A step clones, writes the arrays of one code, or does nothing.
LEMMA StepCases ==
    ASSUME IndInv, [Next]_vars
    PROVE  \/ \E h, src \in Hash : CloneFrom(h, src)
           \/ \E h \in Hash, c \in Code : WriteStep(h, c)
           \/ UNCHANGED vars
<1>1. ASSUME NEW h \in Hash, NEW k \in Key, NEW v \in Val, HashSet(h, k, v)
      PROVE  \E c \in Code : WriteStep(h, c)
  <2>1. HashCode[Elem[k]] \in Code
    BY AliasAssumption
  <2>2. WriteStep(h, HashCode[Elem[k]])
    BY <1>1, HashSetWrites
  <2> QED
    BY <2>1, <2>2
<1>2. ASSUME NEW h \in Hash, NEW k \in Key, HashDelete(h, k)
      PROVE  \E c \in Code : WriteStep(h, c)
  <2>1. HashCode[k] \in Code
    BY AliasAssumption
  <2>2. WriteStep(h, HashCode[k])
    BY <1>2, HashDeleteWrites
  <2> QED
    BY <2>1, <2>2
<1> QED
  BY <1>1, <1>2, Zenon DEF Next

\* Every step keeps the invariant.
LEMMA NextIndInv == IndInv /\ [Next]_vars => IndInv'
<1> SUFFICES ASSUME IndInv, [Next]_vars PROVE IndInv'
  OBVIOUS
<1>1. CASE UNCHANGED vars
  BY <1>1 DEF vars, IndInv, TypesOK, AllSound, Roles, EntriesOnly, Sound, Cap, Empty
<1> QED
  BY <1>1, StepCases, WritePreserves, ClonePreserves, Zenon

\* The memory, slices, entries and counts of all hashes (hashutils.go) have
\* their types, the slices lie in their arrays, and arrays keep their roles.
THEOREM Invariance == Spec => []IndInv
<1> QED
  BY InitIndInv, NextIndInv, PTL DEF Spec

\* SlicesInBounds, for all hashes, keys and bounds: no sequence of sets,
\* deletes and clones makes a slice reach past its array or show a nil pair.
THEOREM SlicesInBoundsAlways == Spec => []SlicesInBounds
<1>1. IndInv => SlicesInBounds
  BY DEF IndInv, AllSound, Sound, SlicesInBounds
<1> QED
  BY <1>1, Invariance, PTL

-----------------------------------------------------------------------------
(* What a writing step disturbs *)

\* The buckets of the other codes show what they showed.
LEMMA OthersKept ==
    ASSUME IndInv, NEW h \in Hash, NEW c \in Code, WriteStep(h, c),
           NEW g \in Hash, NEW d \in Code, d # c
    PROVE  /\ bucket'[g][d] = bucket[g][d]
           /\ \A i \in 1..bucket[g][d].len : mem'[bucket[g][d].at] = mem[bucket[g][d].at]
<1> DEFINE b == bucket[g][d]
<1>1. bucket'[g][d] = b
  BY AfterWrite
<1>2. mem \in Seq(Seq(Cell)) /\ b \in Slice /\ Sound(mem, b)
  BY Slices
<1>3. b.at = bucket[h][c].at => b.at = 0
  BY DEF IndInv, Roles
<1>4. order[h].at = b.at => b.at = 0
  BY DEF IndInv, Roles
<1> HIDE DEF b
<1>5. ASSUME NEW i \in 1..b.len PROVE mem'[b.at] = mem[b.at]
  <2>1. b.len # 0
    BY <1>5
  <2>2. b.at # 0 /\ b.at \in DOMAIN mem
    BY <1>2, <2>1, ArrayOf
  <2> QED
    BY <1>3, <1>4, <2>2 DEF WriteStep
<1> QED
  BY <1>1, <1>5 DEF b

\* A write changes what no other code's keys find, in any hash.
LEMMA GetKept ==
    ASSUME IndInv, NEW h \in Hash, NEW c \in Code, WriteStep(h, c),
           NEW g \in Hash, NEW k \in Key, Changed(g, k)
    PROVE  HashCode[k] = c
<1> SUFFICES ASSUME HashCode[k] # c PROVE FALSE
  OBVIOUS
<1> DEFINE d == HashCode[k]
           a == bucket[g][d].at
           len == bucket[g][d].len
<1>1. d \in Code
  BY AliasAssumption
<1>2. bucket'[g][d] = bucket[g][d] /\ \A i \in 1..len : mem'[a] = mem[a]
  BY <1>1, OthersKept
<1>3. len \in Nat
  BY <1>1, Slices DEF Slice
<1>4. Hits(g, d, k)' = {i \in 1..len : <<mem'[a][i].Head, k>> \in Equal}
  BY <1>2 DEF Hits
<1>5. Hits(g, d, k) = {i \in 1..len : <<mem[a][i].Head, k>> \in Equal}
  BY DEF Hits
<1> HIDE DEF len, a
<1>6. Hits(g, d, k)' = Hits(g, d, k)
  BY <1>2, <1>4, <1>5
<1>7. Hits(g, d, k) # {} => mem'[a] = mem[a]
  <2>1. \A i \in Hits(g, d, k) : i \in 1..len
    BY <1>5
  <2> QED
    BY <1>2, <2>1
<1>8. Get(g, k) = IF Hits(g, d, k) = {} THEN NoValue ELSE mem[a][First(Hits(g, d, k))].Tail
  BY DEF Get, a
<1>9. Get(g, k)' = IF Hits(g, d, k)' = {} THEN NoValue ELSE mem'[a][First(Hits(g, d, k)')].Tail
  BY <1>2 DEF Get, First, a
<1>10. Get(g, k)' = Get(g, k)
  BY <1>6, <1>7, <1>8, <1>9
<1> QED
  BY <1>10 DEF Changed

\* DisturbanceConfined, for all hashes, keys and bounds: whatever arrays the
\* hashes share, a set or delete changes the lookups of one code only.
THEOREM DisturbanceConfinedAlways == Spec => DisturbanceConfined
<1> DEFINE Quiet ==
             mem' # mem =>
               /\ Cardinality({h \in Hash : NumKeys'[h] # NumKeys[h]}) <= 1
               /\ \A h, g \in Hash : \A j, k \in Key :
                     Changed(h, j) /\ Changed(g, k) => HashCode[j] = HashCode[k]
<1>1. IndInv /\ [Next]_vars => Quiet
  <2> SUFFICES ASSUME IndInv, [Next]_vars, mem' # mem PROVE Quiet
    OBVIOUS
  <2>1. \A h, src \in Hash : ~CloneFrom(h, src)
    BY DEF CloneFrom
  <2>2. ~UNCHANGED vars
    BY DEF vars
  <2>3. PICK h \in Hash, c \in Code : WriteStep(h, c)
    BY <2>1, <2>2, StepCases, Zenon
  <2>4. \A g \in Hash : \A k \in Key : Changed(g, k) => HashCode[k] = c
    BY <2>3, GetKept, Zenon
  <2>5. Cardinality({g \in Hash : NumKeys'[g] # NumKeys[g]}) <= 1
    <3> DEFINE moved == {g \in Hash : NumKeys'[g] # NumKeys[g]}
    <3>1. moved \subseteq {h}
      <4>1. NumKeys \in [Hash -> Int]
        BY DEF IndInv, TypesOK
      <4> QED
        BY <2>3, <4>1 DEF WriteStep
    <3>2. IsFiniteSet({h}) /\ Cardinality({h}) = 1
      BY FS_Singleton
    <3> HIDE DEF moved
    <3>3. Cardinality(moved) <= Cardinality({h})
      BY <3>1, <3>2, FS_Subset
    <3> QED
      BY <3>2, <3>3 DEF moved
  <2> QED
    BY <2>4, <2>5
<1> QED
  BY <1>1, Invariance, PTL DEF Spec, DisturbanceConfined

-----------------------------------------------------------------------------
(* What the slices show: Contents, for any memory *)

Shows(m, s) == [i \in 1..s.len |-> m[s.at][i]]

\* A sound slice shows as many cells as it is long.
LEMMA ShowsSeq ==
    ASSUME NEW m \in Seq(Seq(Cell)), NEW s \in Slice, Sound(m, s)
    PROVE  /\ Shows(m, s) \in Seq(Cell) /\ Len(Shows(m, s)) = s.len
           /\ DOMAIN Shows(m, s) = 1..s.len
           /\ \A i \in 1..s.len : Shows(m, s)[i] = m[s.at][i]
<1>1. s.len \in Nat
  BY DEF Slice
<1>2. ASSUME NEW i \in 1..s.len PROVE m[s.at][i] \in Cell
  <2>1. /\ s.at # 0 => /\ m[s.at] \in Seq(Cell) /\ Len(m[s.at]) \in Nat
                       /\ s.len <= Len(m[s.at])
        /\ s.at = 0 => s.len = 0
    BY ArrayOf
  <2>2. m[s.at] \in Seq(Cell) /\ i \in 1..Len(m[s.at])
    BY <1>1, <2>1
  <2> QED
    BY <2>2
<1>3. Shows(m, s) \in [1..s.len -> Cell]
  BY <1>2 DEF Shows
<1>4. \A i \in 1..s.len : Shows(m, s)[i] = m[s.at][i]
  BY DEF Shows
<1> QED
  BY <1>1, <1>3, <1>4, FunctionIsSeq

\* append on slices is Append on what they show.
LEMMA AppendShows ==
    ASSUME NEW m \in Seq(Seq(Cell)), NEW s \in Slice, Sound(m, s),
           NEW x \in Cell, NEW r, Appends(m, s, x, r)
    PROVE  Shows(r.mem, r.slice) = Append(Shows(m, s), x)
<1>1. /\ Shows(m, s) \in Seq(Cell) /\ Len(Shows(m, s)) = s.len
      /\ DOMAIN Shows(m, s) = 1..s.len /\ s.len \in Nat
      /\ \A i \in 1..s.len : Shows(m, s)[i] = m[s.at][i]
  BY ShowsSeq DEF Slice
<1>2. PICK p : p = Append(Shows(m, s), x)
  OBVIOUS
<1>3. /\ p \in Seq(Cell) /\ DOMAIN p = 1..s.len + 1 /\ Len(p) = s.len + 1
      /\ \A i \in 1..s.len : p[i] = m[s.at][i]
      /\ p[s.len + 1] = x
  <2>1. /\ p \in Seq(Cell) /\ DOMAIN p = 1..Len(Shows(m, s)) + 1
        /\ \A i \in DOMAIN Shows(m, s) : p[i] = Shows(m, s)[i]
        /\ p[Len(Shows(m, s)) + 1] = x
    BY <1>1, <1>2, AppendSeq
  <2>2. Len(p) = s.len + 1
    BY <1>1, <2>1
  <2> QED
    BY <1>1, <2>1, <2>2
<1>4. PICK q : q = Shows(r.mem, r.slice)
  OBVIOUS
<1>5. /\ q \in Seq(Cell) /\ Len(q) = s.len + 1
      /\ \A i \in 1..s.len + 1 : q[i] = r.mem[r.slice.at][i]
  <2>1. /\ r.mem \in Seq(Seq(Cell)) /\ r.slice \in Slice /\ Sound(r.mem, r.slice)
        /\ r.slice.len = s.len + 1
    BY Zenon DEF Appends
  <2>2. /\ q \in Seq(Cell) /\ Len(q) = r.slice.len
        /\ \A i \in 1..r.slice.len : q[i] = r.mem[r.slice.at][i]
    BY <1>4, <2>1, ShowsSeq, Zenon
  <2> QED
    BY <2>1, <2>2, Zenon
<1>6. ASSUME NEW i \in 1..s.len + 1 PROVE q[i] = p[i]
  <2>1. CASE i \in 1..s.len
    BY <1>3, <1>5, <2>1 DEF Appends
  <2>2. CASE i = s.len + 1
    BY <1>3, <1>5, <2>2 DEF Appends
  <2> QED
    BY <1>1, <2>1, <2>2
<1>7. q = p
  BY <1>3, <1>5, <1>6, SameSeq
<1> QED
  BY <1>2, <1>4, <1>7

\* Moving the tail down and shortening the slice removes one element.
LEMMA ShiftOutShows ==
    ASSUME NEW m \in Seq(Seq(Cell)), NEW s \in Slice, Sound(m, s), NEW i \in 1..s.len,
           NEW n, n = ShiftOut(m, s, i), NEW t \in Slice, Sound(n, t),
           t.at = s.at, t.len = s.len - 1
    PROVE  Shows(n, t) = SubSeq(Shows(m, s), 1, i - 1) \o SubSeq(Shows(m, s), i + 1, Len(Shows(m, s)))
<1>1. PICK a : a = Shows(m, s)
  OBVIOUS
<1>2. /\ a \in Seq(Cell) /\ Len(a) = s.len /\ s.len \in Nat
      /\ \A j \in 1..s.len : a[j] = m[s.at][j]
  BY <1>1, ShowsSeq DEF Slice
<1>3. PICK q : q = SubSeq(a, 1, i - 1) \o SubSeq(a, i + 1, Len(a))
  OBVIOUS
<1>4. /\ q \in Seq(Cell) /\ Len(q) = s.len - 1
      /\ \A j \in 1..s.len - 1 : q[j] = IF j < i THEN a[j] ELSE a[j + 1]
  <2>1. /\ q \in Seq(Cell) /\ Len(q) = Len(a) - 1
        /\ \A j \in 1..Len(a) - 1 : q[j] = IF j < i THEN a[j] ELSE a[j + 1]
    <3>1. i \in 1..Len(a)
      BY <1>2
    <3>2. q \in Seq(Cell)
      BY <1>2, <1>3, <3>1, WithoutOne, Zenon
    <3>3. IsWithout(q, a, i)
      BY <1>2, <1>3, <3>1, WithoutOne, Zenon
    <3> QED
      BY <3>2, <3>3 DEF IsWithout
  <2> QED
    BY <1>2, <2>1
<1>5. PICK p : p = Shows(n, t)
  OBVIOUS
<1>6. Touches(m, s, n) /\ \A j \in 1..s.len - 1 :
          n[s.at][j] = IF j < i THEN m[s.at][j] ELSE m[s.at][j + 1]
  BY ShiftOutShifts
<1>7. p \in Seq(Cell) /\ Len(p) = s.len - 1 /\ \A j \in 1..s.len - 1 : p[j] = n[s.at][j]
  <2>1. n \in Seq(Seq(Cell))
    BY <1>6 DEF Touches
  <2>2. p \in Seq(Cell) /\ Len(p) = t.len /\ \A j \in 1..t.len : p[j] = n[t.at][j]
    BY <1>5, <2>1, ShowsSeq, Zenon
  <2> QED
    BY <2>2, Zenon
<1>8. ASSUME NEW j \in 1..s.len - 1 PROVE p[j] = q[j]
  <2>1. j \in 1..s.len /\ j + 1 \in 1..s.len
    BY <1>2
  <2> QED
    BY <1>2, <1>4, <1>6, <1>7, <2>1
<1>9. p = q
  BY <1>4, <1>7, <1>8, SameSeq
<1> QED
  BY <1>1, <1>3, <1>5, <1>9

\* A slice shows the same in two memories that agree on its array.
LEMMA SameShows ==
    ASSUME NEW m, NEW n, NEW s, \A i \in 1..s.len : n[s.at] = m[s.at]
    PROVE  Shows(n, s) = Shows(m, s)
BY DEF Shows

\* Contents names the memory it is read from.
LEMMA ContentsShow == \A s : Contents(s) = Shows(mem, s)
BY DEF Contents, Shows

-----------------------------------------------------------------------------
(* Hash one is a SexpHash *)

\* A bucket and KeyOrder of one hash have no array in common.
LEMMA OrderApart ==
    ASSUME IndInv, NEW h \in Hash, NEW c \in Code
    PROVE  /\ order[h].at = bucket[h][c].at => order[h].at = 0
           /\ \A i \in 1..order[h].len : order[h].at # 0 /\ order[h].at \in DOMAIN mem
<1>1. mem \in Seq(Seq(Cell)) /\ order[h] \in Slice /\ Sound(mem, order[h])
  BY Slices
<1>2. ASSUME NEW i \in 1..order[h].len PROVE order[h].at # 0 /\ order[h].at \in DOMAIN mem
  <2>1. order[h].len # 0
    BY <1>2
  <2> QED
    BY <1>1, <2>1, ArrayOf
<1> QED
  BY <1>2 DEF IndInv, Roles

\* What the slices that HashSet replaces show afterwards.
SetShows(h, k, c, pair) ==
    \/ /\ Hits(h, c, k) # {}
       /\ Contents(bucket[h][c])' =
             [i \in 1..bucket[h][c].len |->
                 IF i \in Hits(h, c, k) THEN pair ELSE Contents(bucket[h][c])[i]]
       /\ Contents(order[h])' = Contents(order[h])
       /\ order' = order /\ NumKeys' = NumKeys
    \/ /\ Hits(h, c, k) = {}
       /\ order[h].len < MaxOrder
       /\ Contents(bucket[h][c])' = Append(Contents(bucket[h][c]), pair)
       /\ Contents(order[h])' = Append(Contents(order[h]), [Nil EXCEPT !.Head = k])
       /\ order'[h].len = order[h].len + 1
       /\ NumKeys' = [NumKeys EXCEPT ![h] = @ + 1]

\* What HashSet does to the cells, read through the slices of the hash.
LEMMA SetsShow ==
    ASSUME IndInv, NEW h \in Hash, NEW k, NEW c \in Code, NEW pair \in Cell, pair.Head # NoValue,
           [Nil EXCEPT !.Head = k] \in Cell, [Nil EXCEPT !.Head = k].Head # NoValue,
           Sets(h, k, c, pair)
    PROVE  SetShows(h, k, c, pair)
<1> DEFINE hit == Hits(h, c, k)
           listed == [Nil EXCEPT !.Head = k]
           s == bucket[h][c]
           o == order[h]
<1>1. listed \in Cell /\ listed.Head # NoValue
  OBVIOUS
<1>2. mem \in Seq(Seq(Cell)) /\ s \in Slice /\ Sound(mem, s) /\ o \in Slice /\ Sound(mem, o)
  BY Slices
<1>3. bucket \in [Hash -> [Code -> Slice]] /\ order \in [Hash -> Slice]
  BY DEF IndInv, TypesOK
<1>4. /\ o.at = s.at => o.at = 0
      /\ \A i \in 1..o.len : o.at # 0 /\ o.at \in DOMAIN mem
  BY OrderApart
<1>5. /\ Contents(s) = Shows(mem, s) /\ Contents(o) = Shows(mem, o)
      /\ Contents(bucket[h][c])' = Shows(mem', bucket'[h][c])
      /\ Contents(order[h])' = Shows(mem', order'[h])
  BY DEF Contents, Shows
<1>6. CASE /\ hit # {}
           /\ mem' = Overwrite(mem, s, hit, pair)
           /\ UNCHANGED <<bucket, order, NumKeys>>
  <2>1. \A i \in hit : i \in 1..s.len
    BY DEF Hits
  <2> HIDE DEF hit, s, o
  <2>2. PICK m, t, hits, n : m = mem /\ t = s /\ hits = hit /\ n = mem'
    OBVIOUS
  <2>3. /\ m \in Seq(Seq(Cell)) /\ t \in Slice /\ Sound(m, t)
        /\ hits # {} /\ \A i \in hits : i \in 1..t.len
    BY <1>2, <1>6, <2>1, <2>2
  <2>4. n = Overwrite(m, t, hits, pair)
    BY <1>6, <2>2, Zenon
  <2>5. Touches(m, t, n)
    BY <2>3, <2>4, OverwriteKeeps, Zenon
  <2>6. Overwrites(m, t, hits, pair, n)
    BY <2>3, <2>4, OverwriteKeeps, Zenon
  <2>7. Shows(n, t) = [i \in 1..t.len |-> IF i \in hits THEN pair ELSE Shows(m, t)[i]]
    BY <2>6 DEF Shows, Overwrites
  <2>8. Shows(mem', o) = Shows(mem, o)
    <3>1. \A i \in 1..o.len : mem'[o.at] = mem[o.at]
      BY <1>4, <2>2, <2>5 DEF Touches
    <3> QED
      BY <3>1 DEF Shows
  <2>9. bucket'[h][c] = s /\ order'[h] = o
    BY <1>6 DEF s, o
  <2>10. Contents(bucket[h][c])' =
            [i \in 1..s.len |-> IF i \in hit THEN pair ELSE Contents(s)[i]]
    BY <1>5, <2>2, <2>7, <2>9
  <2>11. Contents(order[h])' = Contents(o)
    BY <1>5, <2>8, <2>9
  <2> QED
    BY <1>6, <2>10, <2>11 DEF SetShows, hit, s, o
<1>7. ASSUME NEW a, NEW l, hit = {}, a = AppendTo(mem, s, pair), l = AppendTo(a.mem, o, listed),
             order[h].len < MaxOrder,
             mem' = l.mem, bucket' = [bucket EXCEPT ![h][c] = a.slice],
             order' = [order EXCEPT ![h] = l.slice], NumKeys' = [NumKeys EXCEPT ![h] = @ + 1]
      PROVE  SetShows(h, k, c, pair)
  <2>1. s.at = o.at => s.at = 0
    BY <1>4
  <2>2. bucket'[h][c] = a.slice /\ order'[h] = l.slice
    BY <1>3, <1>7
  <2> HIDE DEF listed, s, o
  <2>3. /\ Appends(mem, s, pair, a) /\ Appends(a.mem, o, listed, l) /\ Sound(a.mem, o)
        /\ l.mem[a.slice.at] = a.mem[a.slice.at]
        /\ o.at \in DOMAIN mem => a.mem[o.at] = mem[o.at]
    BY <1>1, <1>2, <1>7, <2>1, AppendBoth
  <2>4. /\ a.mem \in Seq(Seq(Cell)) /\ a.slice \in Slice /\ l.slice.len = o.len + 1
    BY <2>3 DEF Appends
  <2>5. Shows(a.mem, a.slice) = Append(Shows(mem, s), pair)
    BY <1>2, <2>3, AppendShows
  <2>6. Shows(l.mem, a.slice) = Shows(a.mem, a.slice)
    BY <2>3 DEF Shows
  <2>7. Shows(l.mem, l.slice) = Append(Shows(a.mem, o), listed)
    BY <1>1, <1>2, <2>3, <2>4, AppendShows
  <2>8. Shows(a.mem, o) = Shows(mem, o)
    BY <1>4, <2>3 DEF Shows
  <2>9. Contents(bucket[h][c])' = Append(Contents(s), pair)
    BY <1>5, <1>7, <2>2, <2>5, <2>6
  <2>10. Contents(order[h])' = Append(Contents(o), listed)
    BY <1>5, <1>7, <2>2, <2>7, <2>8
  <2>11. order'[h].len = o.len + 1
    BY <2>2, <2>4
  <2> QED
    BY <1>7, <2>9, <2>10, <2>11 DEF SetShows, s, o, listed
<1> QED
  BY <1>6, <1>7, Zenon DEF Sets

\* The same for HashDelete.
LEMMA DeleteShows ==
    ASSUME IndInv, NEW h \in Hash, NEW key \in Key, HashDelete(h, key),
           NEW c, c = HashCode[key], Hits(h, c, key) # {}
    PROVE  /\ First(Hits(h, c, key)) \in 1..bucket[h][c].len
           /\ Contents(bucket[h][c])' =
                 SubSeq(Contents(bucket[h][c]), 1, First(Hits(h, c, key)) - 1)
                 \o SubSeq(Contents(bucket[h][c]), First(Hits(h, c, key)) + 1,
                           Len(Contents(bucket[h][c])))
<1> DEFINE s == bucket[h][c]
<1>1. PICK i : i = First(Hits(h, c, key))
  OBVIOUS
<1>2. c \in Code
  BY AliasAssumption
<1>3. i \in 1..s.len
  BY <1>1, <1>2, FirstHit
<1>4. mem \in Seq(Seq(Cell)) /\ s \in Slice /\ Sound(mem, s)
  BY <1>2, Slices
<1>5. bucket \in [Hash -> [Code -> Slice]]
  BY DEF IndInv, TypesOK
<1>6. mem' = ShiftOut(mem, s, i) /\ bucket' = [bucket EXCEPT ![h][c].len = @ - 1]
  BY <1>1 DEF HashDelete
<1>7. PICK t : t = bucket'[h][c]
  OBVIOUS
<1>8. t.at = s.at /\ t.len = s.len - 1 /\ s.len \in Nat /\ s.at \in Nat
  BY <1>2, <1>4, <1>5, <1>6, <1>7 DEF Slice
<1>9. t \in Slice /\ Sound(mem', t)
  <2>1. WriteStep(h, c)
    BY HashDeleteWrites
  <2>2. IndInv'
    BY <1>2, <2>1, WritePreserves
  <2>3. /\ bucket' \in [Hash -> [Code -> Slice]]
        /\ \A d \in Code : Sound(mem', bucket'[h][d])
    BY <2>2, Zenon DEF IndInv, TypesOK, AllSound, Sound, Cap
  <2> QED
    BY <1>2, <1>7, <2>3
<1>10. /\ Contents(s) = Shows(mem, s)
       /\ Contents(bucket[h][c])' = Shows(mem', t)
  BY <1>7 DEF Contents, Shows
<1> HIDE DEF s
<1>11. Shows(mem', t) = SubSeq(Shows(mem, s), 1, i - 1)
                           \o SubSeq(Shows(mem, s), i + 1, Len(Shows(mem, s)))
  BY <1>3, <1>4, <1>6, <1>8, <1>9, ShiftOutShows, ZenonT(40)
<1> QED
  BY <1>1, <1>3, <1>10, <1>11 DEF s

\* The other buckets of hash h show what they showed.
LEMMA OthersShow ==
    ASSUME IndInv, NEW h \in Hash, NEW c \in Code, WriteStep(h, c),
           NEW d \in Code, d # c
    PROVE  Contents(bucket[h][d])' = Contents(bucket[h][d])
<1>1. /\ bucket'[h][d] = bucket[h][d]
      /\ \A i \in 1..bucket[h][d].len : mem'[bucket[h][d].at] = mem[bucket[h][d].at]
  BY OthersKept
<1> QED
  BY <1>1 DEF Contents

\* Contents as sequences.
LEMMA ContentsSeq ==
    ASSUME IndInv, NEW h \in Hash
    PROVE  /\ \A c \in Code : /\ Contents(bucket[h][c]) \in Seq(Cell)
                              /\ Len(Contents(bucket[h][c])) = bucket[h][c].len
                              /\ DOMAIN Contents(bucket[h][c]) = 1..bucket[h][c].len
           /\ Contents(order[h]) \in Seq(Cell) /\ Len(Contents(order[h])) = order[h].len
           /\ order[h].len \in Nat /\ DOMAIN Contents(order[h]) = 1..order[h].len
BY Slices, ShowsSeq DEF Contents, Shows, Slice

\* SexpHash finds a key where the slices have it.
LEMMA SameHits ==
    ASSUME IndInv, NEW h \in Hash, NEW c \in Code, NEW k
    PROVE  Abs!Hits(Contents(bucket[h][c]), k) = Hits(h, c, k)
<1>1. DOMAIN Contents(bucket[h][c]) = 1..bucket[h][c].len
  BY ContentsSeq
<1>2. \A i \in 1..bucket[h][c].len :
          Contents(bucket[h][c])[i].Head = mem[bucket[h][c].at][i].Head
  BY DEF Contents
<1> QED
  BY <1>1, <1>2 DEF Hits, Abs!Hits

\* The listing is as long as the list's slice.
LEMMA ListingSeq ==
    ASSUME IndInv
    PROVE  Len(Listing(one)) = order[one].len
<1>1. order[one].len \in Nat
  BY AliasAssumption, ContentsSeq
<1> QED
  BY <1>1 DEF Listing

\* A cell appended to the list is a key appended to the listing.
LEMMA ListingAppended ==
    ASSUME IndInv, NEW h \in Hash, NEW k, [Nil EXCEPT !.Head = k] \in Cell,
           Contents(order[h])' = Append(Contents(order[h]), [Nil EXCEPT !.Head = k]),
           order'[h].len = order[h].len + 1
    PROVE  Listing(h)' = Append(Listing(h), k)
<1> DEFINE listed == [Nil EXCEPT !.Head = k]
<1>1. PICK p, n : p = Contents(order[h]) /\ n = order[h].len
  OBVIOUS
<1>2. p \in Seq(Cell) /\ Len(p) = n /\ n \in Nat
  BY <1>1, ContentsSeq
<1>3. PICK q : q = Append(p, listed)
  OBVIOUS
<1>4. listed.Head = k
  BY DEF Nil
<1> HIDE DEF listed
<1>5. (\A i \in 1..n : q[i] = p[i]) /\ q[n + 1] = listed
  BY <1>2, <1>3, AppendSeq DEF listed
<1>6. Listing(h) = [i \in 1..n |-> p[i].Head]
  BY <1>1 DEF Listing
<1>7. Listing(h)' = [i \in 1..n + 1 |-> q[i].Head]
  BY <1>1, <1>3 DEF Listing, listed
<1>8. Append([i \in 1..n |-> p[i].Head], k) = [i \in 1..n + 1 |-> q[i].Head]
  BY <1>2, <1>4, <1>5
<1> QED
  BY <1>6, <1>7, <1>8

\* HashSet of hash one is that of SexpHash.
LEMMA SetRefines ==
    ASSUME IndInv, NEW key \in Key, NEW val \in Val, HashSet(one, key, val)
    PROVE  Abs!HashSet(key, val)
<1>1. PICK k, c, pair : k = Elem[key] /\ c = HashCode[k] /\ pair = [Head |-> k, Tail |-> val]
  OBVIOUS
<1>2. /\ c \in Code /\ pair \in Cell /\ pair.Head # NoValue /\ k \in Key /\ one \in Hash
      /\ [Nil EXCEPT !.Head = k] \in Cell /\ [Nil EXCEPT !.Head = k].Head # NoValue
  BY <1>1, NewCells, AliasAssumption
<1>3. Sets(one, k, c, pair)
  BY <1>1, <1>2, HashSetCases, Zenon
<1>4. ok'[one] = ok[one] \cup {c}
  <2>1. ok' = [ok EXCEPT ![one] = @ \cup {c}]
    BY <1>1 DEF HashSet
  <2> QED
    BY <1>2, <2>1 DEF IndInv, TypesOK
<1>5. WriteStep(one, c)
  BY <1>1, <1>2, HashSetWrites
<1>6. SetShows(one, k, c, pair)
  BY <1>2, <1>3, SetsShow
<1>7. \A d \in Code \ {c} : Contents(bucket[one][d])' = Contents(bucket[one][d])
  BY <1>2, <1>5, OthersShow
<1> DEFINE Map == [d \in Code |-> Contents(bucket[one][d])]
<1>8. Abs!Hits(Map[c], k) = Hits(one, c, k) /\ DOMAIN Map[c] = 1..bucket[one][c].len
  BY <1>2, SameHits, ContentsSeq
<1>9. CASE /\ Hits(one, c, k) # {}
           /\ Contents(bucket[one][c])' =
                 [i \in 1..bucket[one][c].len |->
                     IF i \in Hits(one, c, k) THEN pair ELSE Contents(bucket[one][c])[i]]
           /\ Contents(order[one])' = Contents(order[one])
           /\ order' = order /\ NumKeys' = NumKeys
  <2>1. Map' = [Map EXCEPT ![c] = [i \in DOMAIN Map[c] |->
                   IF i \in Abs!Hits(Map[c], k) THEN Abs!NewPair(k, val) ELSE Map[c][i]]]
    <3>1. Map[c] = Contents(bucket[one][c]) /\ Abs!NewPair(k, val) = pair
      BY <1>1, <1>2 DEF Abs!NewPair
    <3>2. [i \in DOMAIN Map[c] |->
              IF i \in Abs!Hits(Map[c], k) THEN Abs!NewPair(k, val) ELSE Map[c][i]]
            = Contents(bucket[one][c])'
      BY <1>8, <1>9, <3>1
    <3>3. Map' = [d \in Code |-> Contents(bucket[one][d])']
      OBVIOUS
    <3> QED
      BY <1>2, <1>7, <3>2, <3>3
  <2>2. Listing(one)' = Listing(one)
    BY <1>9 DEF Listing
  <2> QED
    BY <1>1, <1>2, <1>4, <1>8, <1>9, <2>1, <2>2, ZenonT(40) DEF Abs!HashSet
<1>10. CASE /\ Hits(one, c, k) = {}
            /\ order[one].len < MaxOrder
            /\ Contents(bucket[one][c])' = Append(Contents(bucket[one][c]), pair)
            /\ Contents(order[one])' = Append(Contents(order[one]), [Nil EXCEPT !.Head = k])
            /\ order'[one].len = order[one].len + 1
            /\ NumKeys' = [NumKeys EXCEPT ![one] = @ + 1]
  <2>1. Map' = [Map EXCEPT ![c] = Append(Map[c], Abs!NewPair(k, val))]
    BY <1>1, <1>2, <1>7, <1>10 DEF Abs!NewPair
  <2>2. Listing(one)' = Append(Listing(one), k)
    BY <1>2, <1>10, ListingAppended
  <2>3. NumKeys'[one] = NumKeys[one] + 1
    BY <1>2, <1>10 DEF IndInv, TypesOK
  <2> QED
    BY <1>1, <1>2, <1>4, <1>8, <1>10, <2>1, <2>2, <2>3, ListingSeq DEF Abs!HashSet
<1> QED
  BY <1>6, <1>9, <1>10 DEF SetShows

\* HashDelete of hash one is that of SexpHash.
LEMMA DeleteRefines ==
    ASSUME IndInv, NEW key \in Key, HashDelete(one, key)
    PROVE  Abs!HashDelete(key)
<1>1. PICK c : c = HashCode[key]
  OBVIOUS
<1>2. c \in Code /\ one \in Hash
  BY <1>1, AliasAssumption
<1>3. WriteStep(one, c)
  BY <1>1, <1>2, HashDeleteWrites
<1>4. \A d \in Code \ {c} : Contents(bucket[one][d])' = Contents(bucket[one][d])
  BY <1>2, <1>3, OthersShow
<1> DEFINE Map == [d \in Code |-> Contents(bucket[one][d])]
<1>5. Abs!Hits(Map[c], key) = Hits(one, c, key) /\ Map[c] = Contents(bucket[one][c])
  BY <1>2, SameHits
<1>6. /\ c \in ok[one] /\ NumKeys[one] > -MaxLoss /\ ok' = ok /\ order' = order
      /\ NumKeys'[one] = NumKeys[one] - 1
      /\ Hits(one, c, key) = {} => mem' = mem /\ bucket' = bucket
      /\ Hits(one, c, key) # {} => mem' = ShiftOut(mem, bucket[one][c], First(Hits(one, c, key)))
  <2>1. NumKeys \in [Hash -> Int]
    BY DEF IndInv, TypesOK
  <2> QED
    BY <1>1, <1>2, <2>1 DEF HashDelete
<1>7. Listing(one)' = Listing(one)
  <2>1. \A i \in 1..order[one].len : mem'[order[one].at] = mem[order[one].at]
    <3>1. CASE Hits(one, c, key) = {}
      BY <1>6, <3>1
    <3>2. CASE Hits(one, c, key) # {}
      <4>1. \A a \in DOMAIN mem : a # bucket[one][c].at => mem'[a] = mem[a]
        <5>1. PICK m, s, i, n : m = mem /\ s = bucket[one][c] /\ i = First(Hits(one, c, key))
                                /\ n = mem'
          OBVIOUS
        <5>2. m \in Seq(Seq(Cell)) /\ s \in Slice /\ Sound(m, s) /\ i \in 1..s.len
          BY <1>2, <3>2, <5>1, Slices, FirstHit
        <5>3. n = ShiftOut(m, s, i)
          BY <1>6, <3>2, <5>1, Zenon
        <5>4. Touches(m, s, n)
          BY <5>2, <5>3, ShiftOutShifts, Zenon
        <5> QED
          BY <5>1, <5>4 DEF Touches
      <4> QED
        BY <1>2, <4>1, OrderApart
    <3> QED
      BY <3>1, <3>2
  <2> QED
    BY <1>6, <2>1 DEF Listing, Contents
<1>8. CASE Hits(one, c, key) = {}
  <2>1. Map' = Map
    BY <1>6, <1>8 DEF Contents
  <2> QED
    BY <1>1, <1>5, <1>6, <1>7, <1>8, <2>1 DEF Abs!HashDelete
<1>9. CASE Hits(one, c, key) # {}
  <2>1. First(Hits(one, c, key)) = Abs!Min(Abs!Hits(Map[c], key))
    BY <1>5 DEF First, Abs!Min
  <2>2. Contents(bucket[one][c])' = Abs!RemoveAt(Map[c], Abs!Min(Abs!Hits(Map[c], key)))
    BY <1>1, <1>2, <1>5, <1>9, <2>1, DeleteShows DEF Abs!RemoveAt
  <2>3. Map' = [d \in Code |-> Contents(bucket[one][d])']
    OBVIOUS
  <2>4. Map' = [Map EXCEPT ![c] = Abs!RemoveAt(Map[c], Abs!Min(Abs!Hits(Map[c], key)))]
    BY <1>2, <1>4, <2>2, <2>3
  <2> QED
    BY <1>1, <1>5, <1>6, <1>7, <1>9, <2>4 DEF Abs!HashDelete
<1> QED
  BY <1>8, <1>9

\* A hash that shares no array with hash one does not change what it shows.
LEMMA OthersLeaveAlone ==
    ASSUME IndInv, Separate, NEW h \in Hash \ {one}, NEW k \in Key,
           (\E v \in Val : HashSet(h, k, v)) \/ HashDelete(h, k)
    PROVE  UNCHANGED Abs!vars
<1>1. one \in Hash /\ h \in Hash /\ h # one
  BY AliasAssumption
<1>2. PICK c \in Code : WriteStep(h, c) /\ ok'[one] = ok[one]
  <2>1. ok \in [Hash -> SUBSET Code]
    BY DEF IndInv, TypesOK
  <2>2. ASSUME NEW v \in Val, HashSet(h, k, v)
        PROVE  \E c \in Code : WriteStep(h, c) /\ ok'[one] = ok[one]
    <3>1. HashCode[Elem[k]] \in Code /\ WriteStep(h, HashCode[Elem[k]])
      BY <1>1, <2>2, HashSetWrites, AliasAssumption
    <3>2. ok' = [ok EXCEPT ![h] = @ \cup {HashCode[Elem[k]]}]
      BY <2>2 DEF HashSet
    <3> QED
      BY <1>1, <2>1, <3>1, <3>2
  <2>3. ASSUME HashDelete(h, k)
        PROVE  \E c \in Code : WriteStep(h, c) /\ ok'[one] = ok[one]
    <3>1. HashCode[k] \in Code /\ WriteStep(h, HashCode[k])
      BY <1>1, <2>3, HashDeleteWrites, AliasAssumption
    <3> QED
      BY <2>3, <3>1 DEF HashDelete
  <2> QED
    BY <2>2, <2>3
<1>3. /\ \A d \in Code : bucket'[one][d] = bucket[one][d]
      /\ order'[one] = order[one]
  BY <1>1, <1>2, AfterWrite
<1>4. NumKeys'[one] = NumKeys[one]
  <2>1. NumKeys \in [Hash -> Int]
    BY DEF IndInv, TypesOK
  <2> QED
    BY <1>1, <1>2, <2>1 DEF WriteStep
<1>5. \A s \in {order[one]} \cup {bucket[one][d] : d \in Code} :
          s.at # 0 => s.at # bucket[h][c].at /\ s.at # order[h].at
  <2>1. Arrays(one) \cap Arrays(h) = {}
    BY <1>1 DEF Separate
  <2> QED
    BY <2>1 DEF Arrays
<1>6. ASSUME NEW s \in Slice, Sound(mem, s), s.at # 0 => s.at # bucket[h][c].at /\ s.at # order[h].at
      PROVE  \A i \in 1..s.len : mem'[s.at] = mem[s.at]
  <2>1. ASSUME NEW i \in 1..s.len PROVE mem'[s.at] = mem[s.at]
    <3>1. s.len # 0 /\ mem \in Seq(Seq(Cell))
      BY Slices
    <3>2. s.at # 0 /\ s.at \in DOMAIN mem
      BY <1>6, <3>1, ArrayOf
    <3> QED
      BY <1>2, <1>6, <3>2 DEF WriteStep
  <2> QED
    BY <2>1
<1>7. ASSUME NEW d \in Code PROVE Contents(bucket[one][d])' = Contents(bucket[one][d])
  <2>1. bucket[one][d] \in Slice /\ Sound(mem, bucket[one][d])
    BY <1>1, Slices
  <2>2. \A i \in 1..bucket[one][d].len : mem'[bucket[one][d].at] = mem[bucket[one][d].at]
    BY <1>5, <1>6, <2>1
  <2> QED
    BY <1>3, <2>2 DEF Contents
<1>8. Listing(one)' = Listing(one)
  <2>1. order[one] \in Slice /\ Sound(mem, order[one])
    BY <1>1, Slices
  <2>2. \A i \in 1..order[one].len : mem'[order[one].at] = mem[order[one].at]
    BY <1>5, <1>6, <2>1
  <2> QED
    BY <1>3, <2>2 DEF Listing, Contents
<1> QED
  BY <1>2, <1>4, <1>7, <1>8 DEF Abs!vars

\* An empty hash over slices is an empty SexpHash.
LEMMA InitRefines == Init => Abs!Init
<1> SUFFICES ASSUME Init PROVE Abs!Init
  OBVIOUS
<1>1. \A c \in Code : Contents(bucket[one][c]) = <<>>
  BY AliasAssumption DEF Init, Empty, Contents
<1>2. Listing(one) = <<>>
  BY AliasAssumption DEF Init, Empty, Listing
<1> QED
  BY <1>1, <1>2, AliasAssumption DEF Init, Abs!Init

\* AliasFreeIsSexpHash, for any number of hashes and any keys: sets and
\* deletes over slices and arrays implement those of SexpHash.
THEOREM ImplementsSexpHash == Spec => AliasFreeIsSexpHash
<1> DEFINE Implements ==
             \A k \in Key :
               /\ \A v \in Val : HashSet(one, k, v) => Abs!HashSet(k, v)
               /\ HashDelete(one, k) => Abs!HashDelete(k)
               /\ \A h \in Hash \ {one} :
                     /\ Separate
                     /\ (\E v \in Val : HashSet(h, k, v)) \/ HashDelete(h, k)
                     => UNCHANGED Abs!vars
<1>1. IndInv => Implements
  BY SetRefines, DeleteRefines, OthersLeaveAlone, Zenon
<1> QED
  BY <1>1, InitRefines, Invariance, PTL DEF Spec, AliasFreeIsSexpHash
=============================================================================
