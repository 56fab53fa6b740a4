---------------------------- MODULE ArraysProofs ----------------------------
(***************************************************************************)
(* For any number of variables, arrays and cells: the windows of a program *)
(* stay inside their arrays, append and concat build what they promise and *)
(* write nothing that another array's elements depend on unless those lie  *)
(* behind the end of the array extended, and a program that takes no slice *)
(* beyond a length never reads a cell that was left empty.                 *)
(*                                                                         *)
(* The inductive invariant is that every window lies in its array and,     *)
(* until past, holds elements only.  ConcatJoins needs only the first half *)
(* and the fact that append changes no cell but those behind the end.      *)
(***************************************************************************)
EXTENDS Arrays, Lemmas, TLAPS

Cell == Elem \cup {NilCell}

Slice == [at : Nat, off : Nat, len : Nat]

\* A slice is a window of an array of a memory.
Inside(m, s) == s.at \in DOMAIN m /\ End(s) <= Len(m[s.at])

Holds(m, s) == \A p \in s.off + 1..End(s) : m[s.at][p] \in Elem

WindowsInside ==
    /\ mem \in Seq(Seq(Cell))
    /\ arr \in [Var -> Slice]
    /\ \A v \in Var : Inside(mem, arr[v])
    /\ past \in BOOLEAN

WindowsHold == ~past => \A v \in Var : Holds(mem, arr[v])

IndInv == WindowsInside /\ WindowsHold

-----------------------------------------------------------------------------
(* Slices *)

\* One sequence of cells after another.
LEMMA ConcatCells ==
    ASSUME NEW a \in Seq(Cell), NEW c \in Seq(Cell)
    PROVE  /\ a \o c \in Seq(Cell) /\ Len(a \o c) = Len(a) + Len(c)
           /\ \A i \in 1..Len(a) : (a \o c)[i] = a[i]
           /\ \A i \in 1..Len(c) : (a \o c)[Len(a) + i] = c[i]
OBVIOUS

\* The array a slice looks at, and where in it.
LEMMA ArrayOf ==
    ASSUME NEW m \in Seq(Seq(Cell)), NEW s \in Slice, Inside(m, s)
    PROVE  /\ s.at \in DOMAIN m /\ m[s.at] \in Seq(Cell) /\ Len(m[s.at]) \in Nat
           /\ s.at \in Nat /\ s.off \in Nat /\ s.len \in Nat /\ End(s) = s.off + s.len
           /\ s.off + s.len <= Len(m[s.at])
<1>1. s.at \in DOMAIN m /\ End(s) = s.off + s.len /\ End(s) <= Len(m[s.at])
  BY DEF Inside, End
<1>2. m[s.at] \in Seq(Cell)
  BY <1>1
<1>3. Len(m[s.at]) \in Nat
  BY <1>2
<1>4. s.at \in Nat /\ s.off \in Nat /\ s.len \in Nat
  BY DEF Slice
<1> QED
  BY <1>1, <1>2, <1>3, <1>4

\* A fresh array holds what it is filled with.
LEMMA NewCellsType ==
    ASSUME NEW size \in Nat, NEW fill \in Cell
    PROVE  /\ NewCells(size, fill) \in Seq(Cell) /\ Len(NewCells(size, fill)) = size
           /\ \A i \in 1..size : NewCells(size, fill)[i] = fill
BY DEF NewCells

\* The elements a slice shows, cell by cell.
LEMMA ElementsOf ==
    ASSUME NEW m \in Seq(Seq(Cell)), NEW s \in Slice, Inside(m, s)
    PROVE  /\ Elements(m, s) \in Seq(Cell) /\ Len(Elements(m, s)) = s.len
           /\ \A i \in 1..s.len : Elements(m, s)[i] = m[s.at][s.off + i]
<1>1. m[s.at] \in Seq(Cell) /\ s.off \in Nat /\ s.len \in Nat /\ End(s) = s.off + s.len
      /\ s.off + s.len <= Len(m[s.at])
  BY ArrayOf, Zenon
<1>2. Elements(m, s) = SubSeq(m[s.at], s.off + 1, s.off + s.len)
  BY <1>1, Zenon DEF Elements
<1>3. PICK q \in Seq(Cell), a \in Nat, b \in Nat : q = m[s.at] /\ a = s.off /\ b = s.len
  BY <1>1
<1>4. PICK e : e = SubSeq(q, a + 1, a + b)
  OBVIOUS
<1>5. e \in Seq(Cell) /\ Len(e) = b /\ \A i \in 1..b : e[i] = q[a + i]
  <2>1. a + b <= Len(q)
    BY <1>1, <1>3
  <2> QED
    BY <1>4, <2>1, PartOfSeq
<1>6. Elements(m, s) = e
  BY <1>2, <1>3, <1>4, Zenon
<1> QED
  BY <1>3, <1>5, <1>6, Zenon

\* Writing behind a position leaves everything up to it as it was.
LEMMA OverwriteCells ==
    ASSUME NEW old \in Seq(Cell), NEW from \in Nat, NEW xs \in Seq(Cell),
           from + Len(xs) <= Len(old)
    PROVE  /\ Overwrite(old, from, xs) \in Seq(Cell)
           /\ Len(Overwrite(old, from, xs)) = Len(old)
           /\ \A p \in 1..from : Overwrite(old, from, xs)[p] = old[p]
           /\ \A i \in 1..Len(xs) : Overwrite(old, from, xs)[from + i] = xs[i]
           /\ \A p \in 1..Len(old) :
                 \/ Overwrite(old, from, xs)[p] = old[p]
                 \/ p > from /\ \E i \in 1..Len(xs) : xs[i] = Overwrite(old, from, xs)[p]
<1> DEFINE cell(p) == IF p - from \in 1..Len(xs) THEN xs[p - from] ELSE old[p]
           new == [p \in 1..Len(old) |-> cell(p)]
<1>1. Overwrite(old, from, xs) = new
  BY DEF Overwrite
<1>2. Len(old) \in Nat /\ Len(xs) \in Nat
  OBVIOUS
<1>3. \A p \in 1..Len(old) : cell(p) \in Cell
  OBVIOUS
<1>4. new \in [1..Len(old) -> Cell]
  BY <1>3
<1>5. new \in Seq(Cell) /\ Len(new) = Len(old)
  <2> HIDE DEF new
  <2> QED BY <1>2, <1>4, FunctionIsSeq
<1>6. ASSUME NEW p \in 1..from PROVE new[p] = old[p]
  <2>1. p \in 1..Len(old) /\ p - from \notin 1..Len(xs)
    BY <1>2
  <2> QED BY <2>1
<1>7. ASSUME NEW i \in 1..Len(xs) PROVE new[from + i] = xs[i]
  <2>1. from + i \in 1..Len(old) /\ from + i - from = i
    BY <1>2
  <2> QED BY <2>1
<1>8. ASSUME NEW p \in 1..Len(old)
      PROVE  new[p] = old[p] \/ (p > from /\ \E i \in 1..Len(xs) : xs[i] = new[p])
  <2>1. CASE p - from \in 1..Len(xs)
    <3>1. p > from /\ new[p] = xs[p - from]
      BY <1>2, <2>1
    <3> QED BY <2>1, <3>1
  <2>2. CASE p - from \notin 1..Len(xs)
    BY <2>2
  <2> QED BY <2>1, <2>2
<1> HIDE DEF new
<1> QED
  BY <1>1, <1>5, <1>6, <1>7, <1>8

Member(xs, x) == \E i \in 1..Len(xs) : xs[i] = x

\* What an append leaves: r is the result of appending xs to s in memory m.
Extends(m, s, xs, r) ==
    /\ r.mem \in Seq(Seq(Cell)) /\ r.slice \in Slice /\ Inside(r.mem, r.slice)
    /\ r.slice.len = s.len + Len(xs)
    /\ DOMAIN m \subseteq DOMAIN r.mem
    /\ \A b \in DOMAIN m :
          /\ Len(r.mem[b]) = Len(m[b])
          /\ \A p \in 1..Len(m[b]) :
                r.mem[b][p] = m[b][p] \/ (b = s.at /\ p > End(s) /\ Member(xs, r.mem[b][p]))
    /\ \/ r.slice.at = s.at /\ r.slice.off = s.off
       \/ r.slice.at \notin DOMAIN m
    /\ \A i \in 1..s.len : r.mem[r.slice.at][r.slice.off + i] = m[s.at][s.off + i]
    /\ \A i \in 1..Len(xs) : r.mem[r.slice.at][r.slice.off + s.len + i] = xs[i]

\* Go's append in place, while there is capacity.
LEMMA InPlaceExtends ==
    ASSUME NEW m \in Seq(Seq(Cell)), NEW s \in Slice, Inside(m, s), NEW xs \in Seq(Cell),
           s.len + Len(xs) <= Capacity(m, s)
    PROVE  Extends(m, s, xs, InPlace(m, s, xs))
<1> DEFINE old == m[s.at]
           end == s.off + s.len
           new == Overwrite(old, end, xs)
           mm  == [m EXCEPT ![s.at] = new]
           t   == [s EXCEPT !.len = s.len + Len(xs)]
           r   == InPlace(m, s, xs)
<1>1. /\ s.at \in DOMAIN m /\ old \in Seq(Cell) /\ Len(old) \in Nat /\ Len(xs) \in Nat
      /\ s.at \in Nat /\ s.off \in Nat /\ s.len \in Nat /\ End(s) = end
      /\ end \in Nat /\ end + Len(xs) <= Len(old)
  <2>1. Len(xs) \in Nat
    OBVIOUS
  <2>2. s.len + Len(xs) <= Len(old) - s.off
    BY DEF Capacity
  <2> HIDE DEF old
  <2> QED BY <2>1, <2>2, ArrayOf, SMTT(30) DEF old
<1>2. /\ new \in Seq(Cell) /\ Len(new) = Len(old)
      /\ \A p \in 1..end : new[p] = old[p]
      /\ \A i \in 1..Len(xs) : new[end + i] = xs[i]
      /\ \A p \in 1..Len(old) :
            new[p] = old[p] \/ (p > end /\ Member(xs, new[p]))
  <2> HIDE DEF old, end
  <2>1. /\ new \in Seq(Cell) /\ Len(new) = Len(old)
        /\ \A p \in 1..end : new[p] = old[p]
        /\ \A i \in 1..Len(xs) : new[end + i] = xs[i]
        /\ \A p \in 1..Len(old) :
              new[p] = old[p] \/ (p > end /\ \E i \in 1..Len(xs) : xs[i] = new[p])
    BY <1>1, OverwriteCells, ZenonT(40)
  <2> QED
    BY <2>1, Zenon DEF Member
<1>3. r.mem = mm /\ r.slice = t
  BY <1>1 DEF InPlace
<1>4. t \in Slice /\ t.at = s.at /\ t.off = s.off /\ t.len = s.len + Len(xs)
  <2>1. s.len \in Nat /\ Len(xs) \in Nat
    BY <1>1, Zenon
  <2>2. s.len + Len(xs) \in Nat
    BY <2>1
  <2> QED
    BY <2>2 DEF Slice
<1> HIDE DEF new, t
<1>5. /\ mm \in Seq(Seq(Cell)) /\ DOMAIN mm = DOMAIN m
      /\ \A b \in DOMAIN m : mm[b] = IF b = s.at THEN new ELSE m[b]
  BY <1>1, <1>2, SeqExcept
<1> HIDE DEF mm, r, old
<1>6. mm[t.at] = new /\ mm[s.at] = new
  BY <1>1, <1>4, <1>5, Zenon
<1>7. Inside(mm, t)
  <2>1. Len(new) = Len(old) /\ t.at \in DOMAIN mm
    BY <1>1, <1>2, <1>4, <1>5, Zenon
  <2>2. t.off + t.len <= Len(old)
    BY <1>1, <1>4, SMTT(30)
  <2> QED
    BY <2>1, <2>2, <1>6 DEF Inside, End
<1>8. ASSUME NEW b \in DOMAIN m
      PROVE  /\ Len(mm[b]) = Len(m[b])
             /\ \A p \in 1..Len(m[b]) :
                   mm[b][p] = m[b][p] \/ (b = s.at /\ p > End(s) /\ Member(xs, mm[b][p]))
  <2>1. CASE b # s.at
    BY <1>5, <2>1
  <2>2. CASE b = s.at
    <3>1. m[b] = old /\ mm[b] = new
      BY <2>2, <1>6 DEF old
    <3> QED
      BY <1>1, <1>2, <2>2, <3>1
  <2> QED
    BY <2>1, <2>2
<1>9. ASSUME NEW i \in 1..s.len
      PROVE  mm[t.at][t.off + i] = m[s.at][s.off + i]
  <2>1. s.off \in Nat /\ s.len \in Nat
    BY <1>1
  <2>2. s.off + i \in 1..end
    BY <2>1
  <2> QED
    BY <1>2, <1>4, <1>6, <2>2 DEF old
<1>10. ASSUME NEW i \in 1..Len(xs)
       PROVE  mm[t.at][t.off + s.len + i] = xs[i]
  BY <1>2, <1>4, <1>6
<1> QED
  <2>1. DOMAIN m \subseteq DOMAIN mm /\ t.at = s.at /\ t.off = s.off
    BY <1>4, <1>5
  <2> QED
    BY <1>3, <1>4, <1>5, <1>7, <1>8, <1>9, <1>10, <2>1, Zenon DEF Extends, r

\* Go's append into a new array, the old one untouched.
LEMMA ReallocationExtends ==
    ASSUME NEW m \in Seq(Seq(Cell)), NEW s \in Slice, Inside(m, s), NEW xs \in Seq(Cell),
           NEW spare \in Nat, NEW r,
           r = [mem |-> Append(m, Elements(m, s) \o xs \o NewCells(spare, NilCell)),
                slice |-> [at |-> Len(m) + 1, off |-> 0, len |-> s.len + Len(xs)]]
    PROVE  Extends(m, s, xs, r)
<1> DEFINE own == Elements(m, s)
           both == own \o xs
           unused == NewCells(spare, NilCell)
           cells == both \o unused
           mm == Append(m, cells)
           t == [at |-> Len(m) + 1, off |-> 0, len |-> s.len + Len(xs)]
<1>1. /\ own \in Seq(Cell) /\ Len(own) = s.len
      /\ \A i \in 1..s.len : own[i] = m[s.at][s.off + i]
  BY ElementsOf
<1>2. unused \in Seq(Cell) /\ Len(unused) = spare
  BY NewCellsType DEF Cell
<1>3. s.len \in Nat /\ Len(xs) \in Nat /\ Len(m) \in Nat /\ DOMAIN m = 1..Len(m)
  BY DEF Slice
<1> HIDE DEF own, unused
<1>4. /\ both \in Seq(Cell) /\ Len(both) = s.len + Len(xs)
      /\ \A i \in 1..s.len : both[i] = own[i]
      /\ \A i \in 1..Len(xs) : both[s.len + i] = xs[i]
  <2>1. /\ own \o xs \in Seq(Cell) /\ Len(own \o xs) = Len(own) + Len(xs)
        /\ \A i \in 1..Len(own) : (own \o xs)[i] = own[i]
        /\ \A i \in 1..Len(xs) : (own \o xs)[Len(own) + i] = xs[i]
    BY <1>1, ConcatCells, Zenon
  <2> QED
    BY <1>1, <2>1
<1> HIDE DEF both
<1>5. /\ cells \in Seq(Cell) /\ Len(cells) = s.len + Len(xs) + spare
      /\ \A i \in 1..s.len + Len(xs) : cells[i] = both[i]
  <2>1. /\ both \o unused \in Seq(Cell) /\ Len(both \o unused) = Len(both) + Len(unused)
        /\ \A i \in 1..Len(both) : (both \o unused)[i] = both[i]
    BY <1>2, <1>4, ConcatCells, Zenon
  <2> QED
    BY <1>2, <1>4, <2>1
<1> HIDE DEF cells
<1>6. /\ mm \in Seq(Seq(Cell)) /\ DOMAIN mm = 1..Len(m) + 1
      /\ \A b \in DOMAIN m : mm[b] = m[b]
      /\ mm[Len(m) + 1] = cells
  BY <1>5, AppendSeq
<1>7. t \in Slice /\ t.at = Len(m) + 1 /\ t.off = 0 /\ t.len = s.len + Len(xs)
  BY <1>3 DEF Slice
<1>8. r.mem = mm /\ r.slice = t
  BY DEF mm, t, cells, both, own, unused
<1> HIDE DEF mm, t
<1>9. t.at \in DOMAIN mm /\ t.at \notin DOMAIN m /\ DOMAIN m \subseteq DOMAIN mm
  BY <1>3, <1>6, <1>7
<1>10. mm[t.at] = cells
  BY <1>6, <1>7
<1>11. Inside(mm, t)
  <2>1. t.off + t.len <= Len(cells)
    BY <1>3, <1>5, <1>7
  <2> QED
    BY <1>9, <1>10, <2>1 DEF Inside, End
<1>12. ASSUME NEW i \in 1..s.len PROVE mm[t.at][t.off + i] = m[s.at][s.off + i]
  <2>1. i \in 1..s.len + Len(xs) /\ t.off + i = i
    BY <1>3, <1>7
  <2> QED
    BY <1>1, <1>4, <1>5, <1>10, <2>1
<1>13. ASSUME NEW i \in 1..Len(xs) PROVE mm[t.at][t.off + s.len + i] = xs[i]
  <2>1. s.len + i \in 1..s.len + Len(xs) /\ t.off + s.len + i = s.len + i
    BY <1>3, <1>7
  <2> QED
    BY <1>4, <1>5, <1>10, <2>1
<1>14. \A b \in DOMAIN m :
          /\ Len(mm[b]) = Len(m[b])
          /\ \A p \in 1..Len(m[b]) : mm[b][p] = m[b][p]
  BY <1>6
<1> QED
  <2>1. Extends(m, s, xs, [mem |-> mm, slice |-> t])
    BY <1>6, <1>7, <1>9, <1>11, <1>12, <1>13, <1>14 DEF Extends
  <2> QED
    BY <1>8, <2>1 DEF Extends

\* Whichever of the two Go's append chooses, it extends.
LEMMA GoAppendExtends ==
    ASSUME NEW m \in Seq(Seq(Cell)), NEW s \in Slice, Inside(m, s), NEW xs \in Seq(Cell)
    PROVE  Extends(m, s, xs, GoAppend(m, s, xs))
<1> DEFINE len == s.len + Len(xs)
           cap == IF len > 2 * Capacity(m, s) THEN len ELSE 2 * Capacity(m, s)
<1>1. len \in Nat /\ Capacity(m, s) \in Nat
  <2>1. Len(xs) \in Nat
    OBVIOUS
  <2>2. /\ s.off \in Nat /\ s.len \in Nat /\ Len(m[s.at]) \in Nat
        /\ s.off + s.len <= Len(m[s.at])
    BY ArrayOf, Zenon
  <2>3. Capacity(m, s) \in Nat
    BY <2>2 DEF Capacity
  <2> QED
    BY <2>1, <2>2, <2>3
<1>2. CASE len <= Capacity(m, s)
  BY <1>2, InPlaceExtends DEF GoAppend
<1>3. CASE ~(len <= Capacity(m, s))
  <2>1. GoAppend(m, s, xs) =
          [mem |-> Append(m, Elements(m, s) \o xs \o NewCells(cap - len, NilCell)),
           slice |-> [at |-> Len(m) + 1, off |-> 0, len |-> len]]
    BY <1>3 DEF GoAppend
  <2>2. cap - len \in Nat
    <3> HIDE DEF len
    <3> QED BY <1>1, <1>3
  <2> QED
    BY <2>1, <2>2, ReallocationExtends
<1> QED
  BY <1>2, <1>3

\* Appending xs, and ys to what that gave, is appending both.
LEMMA ExtendsTwice ==
    ASSUME NEW m \in Seq(Seq(Cell)), NEW s \in Slice, Inside(m, s),
           NEW xs \in Seq(Cell), NEW ys \in Seq(Cell), NEW r, NEW q,
           Extends(m, s, xs, r), Extends(r.mem, r.slice, ys, q)
    PROVE  Extends(m, s, xs \o ys, q)
<1> DEFINE zs == xs \o ys
<1>1. /\ s.off \in Nat /\ s.len \in Nat /\ End(s) = s.off + s.len
      /\ Len(xs) \in Nat /\ Len(ys) \in Nat
      /\ r.slice.off \in Nat /\ r.slice.len = s.len + Len(xs)
      /\ q.slice.len = r.slice.len + Len(ys)
      /\ End(r.slice) = r.slice.off + r.slice.len
      /\ q.slice.off \in Nat
  <2>1. r.slice \in Slice /\ q.slice \in Slice /\ r.slice.len = s.len + Len(xs)
        /\ q.slice.len = r.slice.len + Len(ys)
    BY DEF Extends
  <2>2. Len(xs) \in Nat /\ Len(ys) \in Nat
    OBVIOUS
  <2> QED
    BY <2>1, <2>2 DEF Slice, End
<1>2. /\ zs \in Seq(Cell) /\ Len(zs) = Len(xs) + Len(ys)
      /\ \A i \in 1..Len(xs) : zs[i] = xs[i]
      /\ \A i \in 1..Len(ys) : zs[Len(xs) + i] = ys[i]
  BY ConcatCells
<1> HIDE DEF zs
<1>3. ASSUME NEW x, Member(xs, x) \/ Member(ys, x) PROVE Member(zs, x)
  <2>1. ASSUME NEW i \in 1..Len(xs) PROVE i \in 1..Len(zs)
    BY <1>1, <1>2
  <2>2. ASSUME NEW i \in 1..Len(ys) PROVE Len(xs) + i \in 1..Len(zs)
    BY <1>1, <1>2
  <2> QED
    BY <1>2, <1>3, <2>1, <2>2 DEF Member
<1>4. q.slice.len = s.len + Len(zs)
  BY <1>1, <1>2
<1>5. DOMAIN m \subseteq DOMAIN r.mem /\ DOMAIN r.mem \subseteq DOMAIN q.mem
  BY DEF Extends
<1>6. \/ q.slice.at = s.at /\ q.slice.off = s.off
      \/ q.slice.at \notin DOMAIN m
  BY <1>5 DEF Extends
<1>7. ASSUME NEW b \in DOMAIN m
      PROVE  /\ Len(q.mem[b]) = Len(m[b])
             /\ \A p \in 1..Len(m[b]) :
                   q.mem[b][p] = m[b][p] \/ (b = s.at /\ p > End(s) /\ Member(zs, q.mem[b][p]))
  <2>1. b \in DOMAIN r.mem /\ Len(r.mem[b]) = Len(m[b]) /\ Len(q.mem[b]) = Len(r.mem[b])
    BY <1>5 DEF Extends
  <2>2. ASSUME NEW p \in 1..Len(m[b])
        PROVE  q.mem[b][p] = m[b][p] \/ (b = s.at /\ p > End(s) /\ Member(zs, q.mem[b][p]))
    <3>1. r.mem[b][p] = m[b][p] \/ (b = s.at /\ p > End(s) /\ Member(xs, r.mem[b][p]))
      BY DEF Extends
    <3>2. \/ q.mem[b][p] = r.mem[b][p]
          \/ b = r.slice.at /\ p > End(r.slice) /\ Member(ys, q.mem[b][p])
      BY <2>1 DEF Extends
    <3>3. CASE q.mem[b][p] = r.mem[b][p]
      BY <1>3, <3>1, <3>3
    <3>4. CASE b = r.slice.at /\ p > End(r.slice) /\ Member(ys, q.mem[b][p])
      <4>1. b = s.at /\ r.slice.off = s.off
        BY <3>4 DEF Extends
      <4>2. p > End(s)
        BY <1>1, <3>4, <4>1
      <4> QED
        BY <1>3, <3>4, <4>1, <4>2
    <3> QED
      BY <3>2, <3>3, <3>4
  <2> QED
    BY <2>1, <2>2
<1>8. /\ \A i \in 1..s.len : r.mem[r.slice.at][r.slice.off + i] = m[s.at][s.off + i]
      /\ \A i \in 1..Len(xs) : r.mem[r.slice.at][r.slice.off + s.len + i] = xs[i]
      /\ \A i \in 1..r.slice.len :
            q.mem[q.slice.at][q.slice.off + i] = r.mem[r.slice.at][r.slice.off + i]
      /\ \A i \in 1..Len(ys) : q.mem[q.slice.at][q.slice.off + r.slice.len + i] = ys[i]
  BY Zenon DEF Extends
<1>9. ASSUME NEW i \in 1..s.len
      PROVE  q.mem[q.slice.at][q.slice.off + i] = m[s.at][s.off + i]
  <2>1. i \in 1..r.slice.len
    BY <1>1
  <2>2. r.mem[r.slice.at][r.slice.off + i] = m[s.at][s.off + i]
    BY <1>8
  <2> QED
    BY <1>8, <2>1, <2>2, Zenon
<1>10. ASSUME NEW i \in 1..Len(zs)
       PROVE  q.mem[q.slice.at][q.slice.off + s.len + i] = zs[i]
  <2>1. CASE i \in 1..Len(xs)
    <3>1. s.len + i \in 1..r.slice.len
      BY <1>1, <2>1, SMTT(30)
    <3>2. q.mem[q.slice.at][q.slice.off + (s.len + i)] = r.mem[r.slice.at][r.slice.off + (s.len + i)]
      BY <1>8, <3>1, Zenon
    <3>3. r.mem[r.slice.at][r.slice.off + s.len + i] = xs[i]
      BY <1>8, <2>1, Zenon
    <3>4. /\ q.slice.off + (s.len + i) = q.slice.off + s.len + i
          /\ r.slice.off + (s.len + i) = r.slice.off + s.len + i
      BY <1>1, <2>1, SMTT(30)
    <3>5. zs[i] = xs[i]
      BY <1>2, <2>1, Zenon
    <3> QED
      BY <3>2, <3>3, <3>4, <3>5, Zenon
  <2>2. CASE i \notin 1..Len(xs)
    <3>1. i - Len(xs) \in 1..Len(ys) /\ Len(xs) + (i - Len(xs)) = i
      BY <1>1, <1>2, <2>2
    <3>2. q.mem[q.slice.at][q.slice.off + r.slice.len + (i - Len(xs))] = ys[i - Len(xs)]
      BY <1>8, <3>1, Zenon
    <3>3. q.slice.off + r.slice.len + (i - Len(xs)) = q.slice.off + s.len + i
      BY <1>1, <1>2
    <3>4. zs[i] = ys[i - Len(xs)]
      BY <1>2, <3>1, Zenon
    <3> QED
      BY <3>2, <3>3, <3>4, Zenon
  <2> QED
    BY <2>1, <2>2, Zenon
<1>11. q.mem \in Seq(Seq(Cell)) /\ q.slice \in Slice /\ Inside(q.mem, q.slice)
  BY DEF Extends
<1>12. DOMAIN m \subseteq DOMAIN q.mem
  BY <1>5
<1>13. Extends(m, s, zs, q)
  BY <1>4, <1>6, <1>7, <1>9, <1>10, <1>11, <1>12 DEF Extends
<1> QED
  BY <1>13 DEF zs

-----------------------------------------------------------------------------
(* What an append leaves of the other slices *)

\* Other slices stay inside their arrays when one is extended.
LEMMA StaysInside ==
    ASSUME NEW m \in Seq(Seq(Cell)), NEW s \in Slice, NEW xs \in Seq(Cell), NEW r,
           Extends(m, s, xs, r), NEW t \in Slice, Inside(m, t)
    PROVE  Inside(r.mem, t)
BY DEF Extends, Inside

\* Only what lies behind the end of the extended slice can change.
LEMMA StaysTheSame ==
    ASSUME NEW m \in Seq(Seq(Cell)), NEW s \in Slice, NEW xs \in Seq(Cell), NEW r,
           Extends(m, s, xs, r), NEW t \in Slice, Inside(m, t),
           t.at # s.at \/ End(t) <= End(s)
    PROVE  Elements(r.mem, t) = Elements(m, t)
<1>1. Inside(r.mem, t) /\ r.mem \in Seq(Seq(Cell))
  <2>1. r.mem \in Seq(Seq(Cell))
    BY DEF Extends
  <2> QED
    BY <2>1, StaysInside, Zenon
<1>2. /\ t.at \in DOMAIN m /\ Len(m[t.at]) \in Nat
      /\ t.off \in Nat /\ t.len \in Nat /\ End(t) = t.off + t.len
      /\ t.off + t.len <= Len(m[t.at])
  BY ArrayOf
<1>3. ASSUME NEW i \in 1..t.len PROVE r.mem[t.at][t.off + i] = m[t.at][t.off + i]
  <2>1. t.off + i \in 1..Len(m[t.at]) /\ t.off + i <= End(t)
    BY <1>2
  <2>2. ~(t.at = s.at /\ t.off + i > End(s))
    <3>1. End(s) \in Nat
      BY DEF Slice, End
    <3> QED
      BY <1>2, <2>1, <3>1
  <2> QED
    BY <1>2, <2>1, <2>2 DEF Extends
<1> DEFINE a == Elements(r.mem, t)
           c == Elements(m, t)
<1>4. a \in Seq(Cell) /\ Len(a) = t.len /\ \A i \in 1..t.len : a[i] = r.mem[t.at][t.off + i]
  BY <1>1, ElementsOf
<1>5. c \in Seq(Cell) /\ Len(c) = t.len /\ \A i \in 1..t.len : c[i] = m[t.at][t.off + i]
  BY ElementsOf
<1> HIDE DEF a, c
<1>6. Len(a) = Len(c) /\ \A i \in 1..Len(a) : a[i] = c[i]
  BY <1>3, <1>4, <1>5
<1>7. a = c
  BY <1>4, <1>5, <1>6, SameSeq
<1> QED
  BY <1>7 DEF a, c

\* The slice an append returns shows the old elements and then the new ones.
LEMMA Joins ==
    ASSUME NEW m \in Seq(Seq(Cell)), NEW s \in Slice, Inside(m, s), NEW xs \in Seq(Cell),
           NEW r, Extends(m, s, xs, r)
    PROVE  Elements(r.mem, r.slice) = Elements(m, s) \o xs
<1> DEFINE a == Elements(r.mem, r.slice)
           own == Elements(m, s)
           c == own \o xs
<1>1. /\ r.mem \in Seq(Seq(Cell)) /\ r.slice \in Slice /\ Inside(r.mem, r.slice)
      /\ r.slice.len = s.len + Len(xs)
  BY DEF Extends
<1>2. /\ a \in Seq(Cell) /\ Len(a) = r.slice.len
      /\ \A i \in 1..r.slice.len : a[i] = r.mem[r.slice.at][r.slice.off + i]
  <2>1. PICK m2, s2 : m2 = r.mem /\ s2 = r.slice
    OBVIOUS
  <2>2. Elements(m2, s2) \in Seq(Cell) /\ Len(Elements(m2, s2)) = s2.len
        /\ \A i \in 1..s2.len : Elements(m2, s2)[i] = m2[s2.at][s2.off + i]
    BY <1>1, <2>1, ElementsOf
  <2> QED
    BY <2>1, <2>2
<1>3. /\ own \in Seq(Cell) /\ Len(own) = s.len /\ \A i \in 1..s.len : own[i] = m[s.at][s.off + i]
  BY ElementsOf
<1>4. s.len \in Nat /\ Len(xs) \in Nat /\ r.slice.off \in Nat
  BY <1>1 DEF Slice
<1> HIDE DEF a, own
<1>5. /\ c \in Seq(Cell) /\ Len(c) = Len(own) + Len(xs)
      /\ \A i \in 1..Len(own) : c[i] = own[i]
      /\ \A i \in 1..Len(xs) : c[Len(own) + i] = xs[i]
  BY <1>3, ConcatCells
<1> HIDE DEF c
<1>6. ASSUME NEW i \in 1..Len(a) PROVE a[i] = c[i]
  <2>1. CASE i \in 1..s.len
    <3>1. r.mem[r.slice.at][r.slice.off + i] = m[s.at][s.off + i]
      BY <2>1 DEF Extends
    <3> QED
      BY <1>2, <1>3, <1>5, <2>1, <3>1
  <2>2. CASE i \notin 1..s.len
    <3>1. i - s.len \in 1..Len(xs) /\ s.len + (i - s.len) = i
      BY <1>1, <1>2, <1>4, <2>2
    <3>2. r.mem[r.slice.at][r.slice.off + s.len + (i - s.len)] = xs[i - s.len]
      BY <3>1 DEF Extends
    <3>3. r.slice.off + s.len + (i - s.len) = r.slice.off + i
      BY <1>4, <3>1
    <3>4. c[s.len + (i - s.len)] = xs[i - s.len]
      BY <1>3, <1>5, <3>1
    <3> QED
      BY <1>2, <3>1, <3>2, <3>3, <3>4
  <2> QED
    BY <2>1, <2>2
<1>7. Len(a) = Len(c)
  BY <1>1, <1>2, <1>3, <1>5
<1>8. a = c
  BY <1>2, <1>5, <1>6, <1>7, SameSeq
<1> QED
  BY <1>8 DEF a, c, own

\* An append of elements to elements leaves elements everywhere.
LEMMA StaysFilled ==
    ASSUME NEW m \in Seq(Seq(Cell)), NEW s \in Slice, NEW xs \in Seq(Cell), NEW r,
           Extends(m, s, xs, r), \A i \in 1..Len(xs) : xs[i] \in Elem,
           NEW t \in Slice, Inside(m, t), Holds(m, t)
    PROVE  Holds(r.mem, t)
<1>1. /\ t.at \in DOMAIN m /\ Len(m[t.at]) \in Nat
      /\ t.off \in Nat /\ t.len \in Nat /\ End(t) = t.off + t.len
      /\ t.off + t.len <= Len(m[t.at])
  BY ArrayOf
<1>2. ASSUME NEW p \in t.off + 1..End(t) PROVE r.mem[t.at][p] \in Elem
  <2>1. p \in 1..Len(m[t.at])
    BY <1>1
  <2>2. r.mem[t.at][p] = m[t.at][p] \/ Member(xs, r.mem[t.at][p])
    BY <1>1, <2>1 DEF Extends
  <2> QED
    BY <2>2 DEF Holds, Member
<1> QED
  BY <1>2 DEF Holds

\* An extension by elements of a filled slice is filled.
LEMMA ResultFilled ==
    ASSUME NEW m \in Seq(Seq(Cell)), NEW s \in Slice, Inside(m, s), NEW xs \in Seq(Cell),
           NEW r, Extends(m, s, xs, r), \A i \in 1..Len(xs) : xs[i] \in Elem, Holds(m, s)
    PROVE  Holds(r.mem, r.slice)
<1>1. /\ s.off \in Nat /\ s.len \in Nat /\ End(s) = s.off + s.len /\ Len(xs) \in Nat
      /\ r.slice.off \in Nat /\ r.slice.len = s.len + Len(xs)
      /\ End(r.slice) = r.slice.off + r.slice.len
  BY DEF Extends, Slice, End
<1>2. ASSUME NEW p \in r.slice.off + 1..End(r.slice) PROVE r.mem[r.slice.at][p] \in Elem
  <2> DEFINE i == p - r.slice.off
  <2>1. i \in 1..s.len + Len(xs) /\ r.slice.off + i = p
    <3>1. p \in r.slice.off + 1..r.slice.off + (s.len + Len(xs))
      BY <1>1
    <3>2. \A o, l \in Nat : \A k \in o + 1..o + l : k - o \in 1..l /\ o + (k - o) = k
      OBVIOUS
    <3>3. s.len + Len(xs) \in Nat
      BY <1>1
    <3> QED
      BY <1>1, <3>1, <3>2, <3>3
  <2> HIDE DEF i
  <2>2. CASE i \in 1..s.len
    <3>1. r.mem[r.slice.at][r.slice.off + i] = m[s.at][s.off + i]
      BY <2>2 DEF Extends
    <3>2. s.off + i \in s.off + 1..End(s)
      BY <1>1, <2>2
    <3> QED
      BY <2>1, <3>1, <3>2 DEF Holds
  <2>3. CASE i \notin 1..s.len
    <3>1. i - s.len \in 1..Len(xs)
      BY <1>1, <2>1, <2>3, SMTT(30)
    <3>2. r.mem[r.slice.at][r.slice.off + s.len + (i - s.len)] = xs[i - s.len]
      BY <3>1 DEF Extends
    <3>3. r.slice.off + s.len + (i - s.len) = p
      BY <1>1, <2>1, SMTT(30)
    <3> QED
      BY <3>1, <3>2, <3>3
  <2> QED
    BY <2>2, <2>3
<1> QED
  BY <1>2 DEF Holds

-----------------------------------------------------------------------------
(* concat *)

\* One turn of concat's loop extends the result by one array.
LEMMA ConcatOneExtends ==
    ASSUME NEW r, NEW w \in Var, r.mem \in Seq(Seq(Cell)), r.slice \in Slice,
           Inside(r.mem, r.slice), arr[w] \in Slice, Inside(r.mem, arr[w])
    PROVE  /\ Elements(r.mem, arr[w]) \in Seq(Cell)
           /\ Extends(r.mem, r.slice, Elements(r.mem, arr[w]), ConcatOne(r, w))
<1>1. Elements(r.mem, arr[w]) \in Seq(Cell)
  BY ElementsOf, Zenon
<1> QED
  BY <1>1, GoAppendExtends, Zenon DEF ConcatOne

\* The first operand appended, and the second to what that gave.
LEMMA ConcatExtends ==
    ASSUME WindowsInside, NEW u \in Var, NEW w1 \in Var, NEW w2 \in Var,
           NEW r, r = ConcatArray(u, w1)
    PROVE  /\ Elements(mem, arr[w1]) \in Seq(Cell)
           /\ Extends(mem, arr[u], Elements(mem, arr[w1]), r)
           /\ Inside(r.mem, arr[w2])
           /\ Elements(r.mem, arr[w2]) \in Seq(Cell)
           /\ Extends(r.mem, r.slice, Elements(r.mem, arr[w2]), ConcatArrays(u, w1, w2))
<1>1. /\ mem \in Seq(Seq(Cell)) /\ \A v \in Var : arr[v] \in Slice /\ Inside(mem, arr[v])
  BY DEF WindowsInside
<1>2. /\ Elements(mem, arr[w1]) \in Seq(Cell)
      /\ Extends(mem, arr[u], Elements(mem, arr[w1]), r)
  <2> DEFINE r0 == [mem |-> mem, slice |-> arr[u]]
  <2>1. r0.mem = mem /\ r0.slice = arr[u] /\ r = ConcatOne(r0, w1)
    BY DEF ConcatArray
  <2> HIDE DEF r0
  <2>2. /\ Elements(r0.mem, arr[w1]) \in Seq(Cell)
        /\ Extends(r0.mem, r0.slice, Elements(r0.mem, arr[w1]), ConcatOne(r0, w1))
    <3>1. /\ r0.mem \in Seq(Seq(Cell)) /\ r0.slice \in Slice /\ Inside(r0.mem, r0.slice)
          /\ arr[w1] \in Slice /\ Inside(r0.mem, arr[w1])
      BY <1>1, <2>1, Zenon
    <3> QED
      BY <3>1, ConcatOneExtends, Zenon
  <2> QED
    BY <2>1, <2>2, Zenon
<1>3. r.mem \in Seq(Seq(Cell)) /\ r.slice \in Slice /\ Inside(r.mem, r.slice)
  BY <1>2 DEF Extends
<1>4. Inside(r.mem, arr[w2])
  BY <1>1, <1>2, StaysInside, Zenon
<1>5. /\ Elements(r.mem, arr[w2]) \in Seq(Cell)
      /\ Extends(r.mem, r.slice, Elements(r.mem, arr[w2]), ConcatOne(r, w2))
  BY <1>1, <1>3, <1>4, ConcatOneExtends, Zenon
<1> QED
  BY <1>2, <1>4, <1>5 DEF ConcatArrays

\* What append and concat do: xs is appended to the slice of u, and some
\* variable may get what that gives.
ExtensionStep(u, xs, r) ==
    /\ Extends(mem, arr[u], xs, r)
    /\ ~past => \A i \in 1..Len(xs) : xs[i] \in Elem
    /\ mem' = r.mem
    /\ arr' = arr \/ \E v \in Var : arr' = [arr EXCEPT ![v] = r.slice]
    /\ past' = past

\* The elements of a slice that holds elements only.
LEMMA FilledElements ==
    ASSUME NEW m \in Seq(Seq(Cell)), NEW s \in Slice, Inside(m, s), Holds(m, s)
    PROVE  \A i \in 1..Len(Elements(m, s)) : Elements(m, s)[i] \in Elem
<1>1. /\ Len(Elements(m, s)) = s.len
      /\ \A i \in 1..s.len : Elements(m, s)[i] = m[s.at][s.off + i]
  BY ElementsOf
<1>2. s.off \in Nat /\ s.len \in Nat /\ End(s) = s.off + s.len
  BY DEF Slice, End
<1>3. \A i \in 1..s.len : s.off + i \in s.off + 1..End(s)
  BY <1>2
<1> QED
  BY <1>1, <1>3 DEF Holds

\* append and concat are extensions of the array they are called on.
LEMMA ExtendIsExtension ==
    ASSUME IndInv, Extend
    PROVE  \E u \in Var, xs \in Seq(Cell) : \E r : ExtensionStep(u, xs, r)
<1> USE DEF IndInv
<1>1. /\ mem \in Seq(Seq(Cell)) /\ \A v \in Var : arr[v] \in Slice /\ Inside(mem, arr[v])
  BY DEF WindowsInside
<1>2. ~past => \A v \in Var : Holds(mem, arr[v])
  BY DEF WindowsHold
<1>3. \A w \in Var : /\ Elements(mem, arr[w]) \in Seq(Cell)
                     /\ ~past => \A i \in 1..Len(Elements(mem, arr[w])) :
                                    Elements(mem, arr[w])[i] \in Elem
  BY <1>1, <1>2, ElementsOf, FilledElements, Zenon
<1>4. ASSUME NEW u \in Var, NEW w \in Var, NEW r, r = ConcatArray(u, w),
             mem' = r.mem, arr' = arr, past' = past
      PROVE  ExtensionStep(u, Elements(mem, arr[w]), r)
  BY <1>3, <1>4, ConcatExtends, Zenon DEF ExtensionStep
<1>5. CASE ConcatFails
  <2>1. PICK u, w \in Var : /\ mem' = ConcatArray(u, w).mem
                            /\ arr' = arr /\ past' = past
    BY <1>5, Zenon DEF ConcatFails
  <2>2. ExtensionStep(u, Elements(mem, arr[w]), ConcatArray(u, w))
    BY <1>4, <2>1, Zenon
  <2> QED
    BY <1>3, <2>2, Zenon
<1>6. ASSUME NEW v \in Var, AppendElem(v)
      PROVE  \E u \in Var, xs \in Seq(Cell) : \E r : ExtensionStep(u, xs, r)
  <2>1. PICK u \in Var, x \in Elem : Becomes(v, GoAppend(mem, arr[u], <<x>>))
    BY <1>6 DEF AppendElem
  <2>2. <<x>> \in Seq(Cell) /\ \A i \in 1..Len(<<x>>) : <<x>>[i] \in Elem
    BY DEF Cell
  <2>3. Extends(mem, arr[u], <<x>>, GoAppend(mem, arr[u], <<x>>))
    BY <1>1, <2>2, GoAppendExtends, Zenon
  <2>4. ExtensionStep(u, <<x>>, GoAppend(mem, arr[u], <<x>>))
    BY <2>1, <2>2, <2>3, Zenon DEF ExtensionStep, Becomes
  <2> QED
    BY <2>2, <2>4, Zenon
<1>7. ASSUME NEW v \in Var, AppendSlice(v)
      PROVE  \E u \in Var, xs \in Seq(Cell) : \E r : ExtensionStep(u, xs, r)
  <2>1. PICK u, w \in Var : Becomes(v, GoAppend(mem, arr[u], Elements(mem, arr[w])))
    BY <1>7, Zenon DEF AppendSlice
  <2>2. PICK xs \in Seq(Cell) : /\ xs = Elements(mem, arr[w])
                                /\ ~past => \A i \in 1..Len(xs) : xs[i] \in Elem
    BY <1>3, Zenon
  <2>3. Extends(mem, arr[u], xs, GoAppend(mem, arr[u], xs))
    BY <1>1, GoAppendExtends, Zenon
  <2>4. ExtensionStep(u, xs, GoAppend(mem, arr[u], xs))
    BY <2>1, <2>2, <2>3, Zenon DEF ExtensionStep, Becomes
  <2> QED
    BY <2>4, Zenon
<1>8. ASSUME NEW v \in Var, Concat(v)
      PROVE  \E u \in Var, xs \in Seq(Cell) : \E r : ExtensionStep(u, xs, r)
  <2>1. PICK u, w1, w2 \in Var : Becomes(v, ConcatArrays(u, w1, w2))
    BY <1>8, Zenon DEF Concat
  <2>2. PICK r1 : r1 = ConcatArray(u, w1)
    OBVIOUS
  <2> DEFINE xs == Elements(mem, arr[w1])
             ys == Elements(r1.mem, arr[w2])
             q == ConcatArrays(u, w1, w2)
  <2>3. /\ xs \in Seq(Cell) /\ Extends(mem, arr[u], xs, r1)
        /\ Inside(r1.mem, arr[w2])
        /\ ys \in Seq(Cell) /\ Extends(r1.mem, r1.slice, ys, q)
    BY <2>2, ConcatExtends, Zenon
  <2>4. ~past => \A i \in 1..Len(ys) : ys[i] \in Elem
    <3>1. SUFFICES ASSUME ~past PROVE \A i \in 1..Len(ys) : ys[i] \in Elem
      OBVIOUS
    <3>2. Holds(r1.mem, arr[w2])
      BY <1>1, <1>2, <1>3, <2>3, <3>1, StaysFilled, Zenon
    <3>3. r1.mem \in Seq(Seq(Cell))
      BY <2>3 DEF Extends
    <3> QED
      BY <1>1, <2>3, <3>2, <3>3, FilledElements, Zenon
  <2>5. ~past => \A i \in 1..Len(xs) : xs[i] \in Elem
    BY <1>3, Zenon
  <2> HIDE DEF xs, ys, q
  <2>6. Extends(mem, arr[u], xs \o ys, q)
    BY <1>1, <2>3, ExtendsTwice, Zenon
  <2>7. /\ xs \o ys \in Seq(Cell) /\ Len(xs \o ys) = Len(xs) + Len(ys)
        /\ \A i \in 1..Len(xs) : (xs \o ys)[i] = xs[i]
        /\ \A i \in 1..Len(ys) : (xs \o ys)[Len(xs) + i] = ys[i]
    BY <2>3, ConcatCells
  <2>8. ~past => \A i \in 1..Len(xs \o ys) : (xs \o ys)[i] \in Elem
    <3>1. SUFFICES ASSUME ~past, NEW i \in 1..Len(xs \o ys) PROVE (xs \o ys)[i] \in Elem
      OBVIOUS
    <3>2. Len(xs) \in Nat /\ Len(ys) \in Nat
      BY <2>3
    <3>3. i \in 1..Len(xs) \/ (i - Len(xs) \in 1..Len(ys) /\ Len(xs) + (i - Len(xs)) = i)
      BY <2>7, <3>2
    <3> QED
      BY <2>4, <2>5, <2>7, <3>1, <3>3
  <2>9. ExtensionStep(u, xs \o ys, q)
    BY <2>1, <2>6, <2>8, Zenon DEF ExtensionStep, Becomes, q
  <2> QED
    BY <2>7, <2>9, Zenon
<1> QED
  BY <1>5, <1>6, <1>7, <1>8 DEF Extend

-----------------------------------------------------------------------------
(* The inductive invariant *)

\* No variable refers to memory when a program starts.
LEMMA InitIndInv == Init => IndInv
<1> SUFFICES ASSUME Init PROVE IndInv
  OBVIOUS
<1>1. PICK size \in 0..MaxSize, fill \in Elem :
        /\ mem = <<NewCells(size, fill)>>
        /\ arr = [v \in Var |-> [at |-> 1, off |-> 0, len |-> size]]
  BY Zenon DEF Init
<1>2. size \in Nat /\ fill \in Cell
  BY ArraysAssumption DEF Cell
<1> DEFINE cells == NewCells(size, fill)
<1>3. cells \in Seq(Cell) /\ Len(cells) = size /\ \A i \in 1..size : cells[i] = fill
  BY <1>2, NewCellsType
<1> HIDE DEF cells
<1>4. mem \in Seq(Seq(Cell)) /\ 1 \in DOMAIN mem /\ mem[1] = cells
  BY <1>1, <1>3 DEF cells
<1>5. ASSUME NEW v \in Var
      PROVE  /\ arr[v] \in Slice /\ arr[v].at = 1 /\ arr[v].off = 0 /\ arr[v].len = size
  BY <1>1, <1>2 DEF Slice
<1>6. \A v \in Var : Inside(mem, arr[v])
  BY <1>2, <1>3, <1>4, <1>5 DEF Inside, End
<1>7. \A v \in Var : Holds(mem, arr[v])
  BY <1>2, <1>3, <1>4, <1>5 DEF Holds, End
<1>8. arr \in [Var -> Slice]
  BY <1>1, <1>5
<1> QED
  BY <1>4, <1>6, <1>7, <1>8 DEF IndInv, WindowsInside, WindowsHold, Init

\* A step that binds v to slice t and leaves the other variables where they are.
LEMMA Binds ==
    ASSUME arr \in [Var -> Slice], NEW v \in Var, NEW t \in Slice, arr' = [arr EXCEPT ![v] = t]
    PROVE  /\ arr' \in [Var -> Slice]
           /\ \A w \in Var : arr'[w] = IF w = v THEN t ELSE arr[w]
OBVIOUS

\* A new array is made of new cells.
LEMMA MakeArrayStep ==
    ASSUME IndInv, NEW v \in Var, MakeArray(v)
    PROVE  /\ IndInv'
           /\ \A b \in DOMAIN mem : mem'[b] = mem[b]
<1>1. PICK size \in 0..MaxSize, fill \in Elem :
        /\ mem' = Append(mem, NewCells(size, fill))
        /\ arr' = [arr EXCEPT ![v] = [at |-> Len(mem) + 1, off |-> 0, len |-> size]]
        /\ past' = past
  BY Zenon DEF MakeArray
<1>2. size \in Nat /\ fill \in Cell
  BY ArraysAssumption DEF Cell
<1> DEFINE cells == NewCells(size, fill)
           t == [at |-> Len(mem) + 1, off |-> 0, len |-> size]
<1>3. cells \in Seq(Cell) /\ Len(cells) = size /\ \A i \in 1..size : cells[i] = fill
  BY <1>2, NewCellsType
<1> HIDE DEF cells
<1>4. mem \in Seq(Seq(Cell)) /\ arr \in [Var -> Slice] /\ past \in BOOLEAN
      /\ Len(mem) \in Nat /\ DOMAIN mem = 1..Len(mem)
  BY DEF IndInv, WindowsInside
<1>5. /\ mem' \in Seq(Seq(Cell)) /\ DOMAIN mem' = 1..Len(mem) + 1
      /\ \A b \in DOMAIN mem : mem'[b] = mem[b]
      /\ mem'[Len(mem) + 1] = cells
  BY <1>1, <1>3, <1>4, AppendSeq DEF cells
<1>6. t \in Slice /\ t.at = Len(mem) + 1 /\ t.off = 0 /\ t.len = size
  BY <1>2, <1>4 DEF Slice
<1> HIDE DEF t
<1>7. arr' \in [Var -> Slice] /\ \A w \in Var : arr'[w] = IF w = v THEN t ELSE arr[w]
  BY <1>1, <1>4, <1>6, Binds, Zenon DEF t
<1>8. t.at \in DOMAIN mem' /\ mem'[t.at] = cells
  BY <1>4, <1>5, <1>6
<1>9. Inside(mem', t) /\ Holds(mem', t)
  BY <1>2, <1>3, <1>6, <1>8 DEF Inside, Holds, End
<1>10. ASSUME NEW w \in Var
       PROVE  Inside(mem', arr[w]) /\ (Holds(mem, arr[w]) => Holds(mem', arr[w]))
  <2>1. Inside(mem, arr[w])
    BY DEF IndInv, WindowsInside
  <2>2. arr[w].at \in DOMAIN mem' /\ mem'[arr[w].at] = mem[arr[w].at]
    BY <1>4, <1>5, <2>1 DEF Inside
  <2> QED
    BY <2>1, <2>2 DEF Inside, Holds
<1>11. WindowsInside'
  BY <1>1, <1>4, <1>5, <1>7, <1>9, <1>10, Zenon DEF WindowsInside
<1>12. WindowsHold'
  BY <1>1, <1>7, <1>9, <1>10, Zenon DEF IndInv, WindowsHold
<1> QED
  BY <1>5, <1>11, <1>12 DEF IndInv

\* append and concat keep the invariant.
LEMMA ExtendStep ==
    ASSUME IndInv, Extend
    PROVE  IndInv'
<1>1. PICK u \in Var, xs \in Seq(Cell) : \E r : ExtensionStep(u, xs, r)
  BY ExtendIsExtension, Zenon
<1>2. PICK r : ExtensionStep(u, xs, r)
  BY <1>1
<1>3. /\ mem \in Seq(Seq(Cell)) /\ arr \in [Var -> Slice] /\ past \in BOOLEAN
      /\ \A w \in Var : arr[w] \in Slice /\ Inside(mem, arr[w])
  BY DEF IndInv, WindowsInside
<1>4. Extends(mem, arr[u], xs, r) /\ mem' = r.mem /\ past' = past
  BY <1>2, Zenon DEF ExtensionStep
<1>5. /\ r.mem \in Seq(Seq(Cell)) /\ r.slice \in Slice /\ Inside(r.mem, r.slice)
  BY <1>4 DEF Extends
<1>6. \A w \in Var : Inside(r.mem, arr[w])
  BY <1>3, <1>4, StaysInside, Zenon
<1>7. ASSUME ~past PROVE Holds(r.mem, r.slice) /\ \A w \in Var : Holds(r.mem, arr[w])
  <2>1. \A w \in Var : Holds(mem, arr[w])
    BY <1>7, Zenon DEF IndInv, WindowsHold
  <2>2. \A i \in 1..Len(xs) : xs[i] \in Elem
    BY <1>2, <1>7, Zenon DEF ExtensionStep
  <2>3. Holds(r.mem, r.slice)
    BY <1>3, <1>4, <2>1, <2>2, ResultFilled, Zenon
  <2>4. \A w \in Var : Holds(r.mem, arr[w])
    BY <1>3, <1>4, <2>1, <2>2, StaysFilled, Zenon
  <2> QED
    BY <2>3, <2>4
<1>8. CASE arr' = arr
  BY <1>3, <1>4, <1>5, <1>6, <1>7, <1>8, Zenon DEF IndInv, WindowsInside, WindowsHold
<1>9. ASSUME NEW v \in Var, arr' = [arr EXCEPT ![v] = r.slice] PROVE IndInv'
  <2>1. arr' \in [Var -> Slice] /\ \A w \in Var : arr'[w] = r.slice \/ arr'[w] = arr[w]
    BY <1>3, <1>5, <1>9, Binds, Zenon
  <2> QED
    BY <1>3, <1>4, <1>5, <1>6, <1>7, <2>1, Zenon DEF IndInv, WindowsInside, WindowsHold
<1> QED
  BY <1>2, <1>8, <1>9, Zenon DEF ExtensionStep

\* A window of a window, which shows no more than it unless past is set.
LEMMA LookStep ==
    ASSUME IndInv, Look
    PROVE  IndInv' /\ mem' = mem
<1>1. /\ mem \in Seq(Seq(Cell)) /\ arr \in [Var -> Slice] /\ past \in BOOLEAN
      /\ \A w \in Var : arr[w] \in Slice /\ Inside(mem, arr[w])
  BY DEF IndInv, WindowsInside
<1>2. ~past => \A w \in Var : Holds(mem, arr[w])
  BY DEF IndInv, WindowsHold
<1>3. ASSUME mem' = mem, NEW v \in Var, NEW u \in Var, NEW start \in Nat, NEW end \in Nat,
             start <= end, end <= Capacity(mem, arr[u]), past' \in BOOLEAN,
             ~past' => ~past /\ end <= arr[u].len,
             Window(v, arr[u], start, end)
      PROVE  IndInv'
  <2> DEFINE s == arr[u]
             t == [at |-> s.at, off |-> s.off + start, len |-> end - start]
  <2>1. /\ s.at \in DOMAIN mem /\ Len(mem[s.at]) \in Nat /\ s.at \in Nat
        /\ s.off \in Nat /\ s.len \in Nat /\ End(s) = s.off + s.len
    BY <1>1, ArrayOf
  <2>2. end <= Len(mem[s.at]) - s.off
    BY <1>3 DEF Capacity
  <2> HIDE DEF s
  <2>3. t \in Slice /\ t.at = s.at /\ t.off = s.off + start /\ t.len = end - start
    BY <1>3, <2>1 DEF Slice
  <2>4. arr' = [arr EXCEPT ![v] = t]
    BY <1>3 DEF Window, s
  <2> HIDE DEF t
  <2>5. arr' \in [Var -> Slice] /\ \A w \in Var : arr'[w] = t \/ arr'[w] = arr[w]
    BY <1>1, <2>3, <2>4, Binds, Zenon
  <2>6. End(t) = s.off + end
    BY <2>1, <2>3 DEF End
  <2>7. Inside(mem, t)
    BY <2>1, <2>2, <2>3, <2>6 DEF Inside
  <2>8. ASSUME ~past' PROVE Holds(mem, t)
    <3>1. Holds(mem, s) /\ end <= s.len
      BY <1>2, <1>3, <2>8 DEF s
    <3>2. ASSUME NEW p \in t.off + 1..End(t) PROVE p \in s.off + 1..End(s)
      BY <1>3, <2>1, <2>3, <2>6, <3>1
    <3> QED
      BY <2>3, <3>1, <3>2 DEF Holds
  <2>9. WindowsInside'
    BY <1>1, <1>3, <2>5, <2>7, Zenon DEF WindowsInside
  <2>10. WindowsHold'
    BY <1>2, <1>3, <2>5, <2>8, Zenon DEF WindowsHold
  <2> QED
    BY <2>9, <2>10 DEF IndInv
<1>4. \A u \in Var : arr[u].len \in Nat /\ arr[u].len <= Capacity(mem, arr[u])
  BY <1>1, ArrayOf DEF Capacity
<1>5. ASSUME NEW v \in Var, Rest(v) PROVE IndInv' /\ mem' = mem
  <2>1. PICK u \in Var :
          /\ \/ arr[u].len = 0 /\ arr' = [arr EXCEPT ![v] = arr[u]]
             \/ arr[u].len > 0 /\ Window(v, arr[u], 1, arr[u].len)
          /\ mem' = mem /\ past' = past
    BY <1>5, Zenon DEF Rest
  <2>2. CASE arr[u].len = 0 /\ arr' = [arr EXCEPT ![v] = arr[u]]
    <3>1. arr' \in [Var -> Slice] /\ \A w \in Var : arr'[w] = arr[u] \/ arr'[w] = arr[w]
      BY <1>1, <2>2, Binds, Zenon
    <3> QED
      BY <1>1, <1>2, <2>1, <3>1, Zenon DEF IndInv, WindowsInside, WindowsHold
  <2>3. CASE arr[u].len > 0 /\ Window(v, arr[u], 1, arr[u].len)
    <3>1. 1 \in Nat /\ 1 <= arr[u].len /\ arr[u].len <= arr[u].len
      BY <1>4, <2>3
    <3> QED
      BY <1>1, <1>3, <1>4, <2>1, <2>3, <3>1, Zenon
  <2> QED
    BY <2>1, <2>2, <2>3
<1>6. ASSUME NEW v \in Var, SliceFunction(v) PROVE IndInv' /\ mem' = mem
  <2>1. PICK u \in Var, start \in 0..MaxCells, end \in 0..MaxCells :
          /\ start <= end /\ end <= Capacity(mem, arr[u])
          /\ Window(v, arr[u], start, end)
          /\ past' = (past \/ end > arr[u].len)
          /\ mem' = mem
    BY <1>6, Zenon DEF SliceFunction
  <2>2. start \in Nat /\ end \in Nat
    BY ArraysAssumption
  <2>3. past' \in BOOLEAN /\ (~past' => ~past /\ ~(end > arr[u].len))
    BY <2>1, Zenon
  <2>4. ~(end > arr[u].len) => end <= arr[u].len
    BY <1>4, <2>2
  <2> QED
    BY <1>3, <2>1, <2>2, <2>3, <2>4, Zenon
<1>7. ASSUME NEW v \in Var, SliceSelector(v) PROVE IndInv' /\ mem' = mem
  <2>1. PICK u \in Var, start \in 0..MaxCells, end \in 0..MaxCells :
          /\ SliceBounds(arr[u], start, end)
          /\ Window(v, arr[u], start, end)
          /\ mem' = mem /\ past' = past
    BY <1>7, Zenon DEF SliceSelector
  <2>2. /\ start \in Nat /\ end \in Nat /\ start <= end /\ end <= arr[u].len
        /\ end <= Capacity(mem, arr[u])
    <3>1. start \in Nat /\ end \in Nat /\ start <= end /\ end <= arr[u].len
      BY <2>1, ArraysAssumption DEF SliceBounds
    <3>2. Capacity(mem, arr[u]) \in Int
      BY <1>1, ArrayOf DEF Capacity
    <3> QED
      BY <1>4, <3>1, <3>2
  <2> QED
    BY <1>1, <1>3, <2>1, <2>2, Zenon
<1> QED
  BY <1>5, <1>6, <1>7, Zenon DEF Look

\* aset writes one cell inside a slice.
LEMMA AsetStep ==
    ASSUME IndInv, Aset
    PROVE  IndInv'
<1>1. /\ mem \in Seq(Seq(Cell)) /\ arr \in [Var -> Slice] /\ past \in BOOLEAN
      /\ \A w \in Var : arr[w] \in Slice /\ Inside(mem, arr[w])
  BY DEF IndInv, WindowsInside
<1>2. PICK u \in Var, i \in 0..MaxCells - 1, x \in Elem :
        /\ i < arr[u].len
        /\ mem' = [mem EXCEPT ![arr[u].at][arr[u].off + i + 1] = x]
        /\ arr' = arr /\ past' = past
  BY Zenon DEF Aset
<1> DEFINE s == arr[u]
           old == mem[s.at]
           k == s.off + i + 1
           new == [old EXCEPT ![k] = x]
<1>3. /\ s.at \in DOMAIN mem /\ old \in Seq(Cell) /\ Len(old) \in Nat
      /\ s.off \in Nat /\ s.len \in Nat /\ s.off + s.len <= Len(old)
  BY <1>1, ArrayOf
<1>4. i \in Nat /\ x \in Cell
  BY ArraysAssumption DEF Cell
<1>5. k \in DOMAIN old
  <2>1. k \in 1..Len(old)
    <3> HIDE DEF old, s
    <3>1. i < s.len
      BY <1>2 DEF s
    <3> QED BY <1>3, <1>4, <3>1
  <2> QED BY <1>3, <2>1
<1>6. mem' = [mem EXCEPT ![s.at] = new]
  BY <1>2
<1> HIDE DEF s, old, k
<1>7. /\ new \in Seq(Cell) /\ Len(new) = Len(old)
      /\ \A p \in DOMAIN old : new[p] = IF p = k THEN x ELSE old[p]
  BY <1>3, <1>4, <1>5, SeqExcept
<1> HIDE DEF new
<1>8. /\ mem' \in Seq(Seq(Cell)) /\ DOMAIN mem' = DOMAIN mem
      /\ \A b \in DOMAIN mem : mem'[b] = IF b = s.at THEN new ELSE mem[b]
  BY <1>1, <1>3, <1>6, <1>7, SeqExcept
<1>9. ASSUME NEW w \in Var
      PROVE  Inside(mem', arr[w]) /\ (Holds(mem, arr[w]) => Holds(mem', arr[w]))
  <2> DEFINE t == arr[w]
  <2>1. /\ t.at \in DOMAIN mem /\ mem[t.at] \in Seq(Cell) /\ Len(mem[t.at]) \in Nat
        /\ t.off \in Nat /\ t.len \in Nat /\ End(t) = t.off + t.len
        /\ t.off + t.len <= Len(mem[t.at])
    BY <1>1, ArrayOf
  <2> HIDE DEF t
  <2>2. Len(mem'[t.at]) = Len(mem[t.at])
    BY <1>7, <1>8, <2>1 DEF old
  <2>3. Inside(mem', t)
    BY <1>8, <2>1, <2>2 DEF Inside
  <2>4. ASSUME Holds(mem, t), NEW p \in t.off + 1..End(t) PROVE mem'[t.at][p] \in Elem
    <3>1. p \in DOMAIN mem[t.at]
      BY <2>1
    <3>2. mem'[t.at][p] = mem[t.at][p] \/ mem'[t.at][p] = x
      BY <1>7, <1>8, <2>1, <3>1 DEF old
    <3>3. mem[t.at][p] \in Elem
      BY <2>4 DEF Holds
    <3> QED
      BY <3>2, <3>3
  <2> QED
    BY <2>3, <2>4 DEF Holds, t
<1>10. WindowsInside'
  BY <1>1, <1>2, <1>8, <1>9, Zenon DEF WindowsInside
<1>11. WindowsHold'
  BY <1>2, <1>9, Zenon DEF IndInv, WindowsHold
<1> QED
  BY <1>10, <1>11 DEF IndInv

\* Every step of a program keeps the invariant.
LEMMA NextIndInv == IndInv /\ [Next]_vars => IndInv'
<1> SUFFICES ASSUME IndInv, [Next]_vars PROVE IndInv'
  OBVIOUS
<1>1. ASSUME NEW v \in Var, MakeArray(v) PROVE IndInv'
  BY <1>1, MakeArrayStep
<1>2. CASE Extend
  BY <1>2, ExtendStep
<1>3. CASE Look
  BY <1>3, LookStep
<1>4. CASE Aset
  BY <1>4, AsetStep
<1>5. CASE UNCHANGED vars
  BY <1>5, Zenon DEF vars, IndInv, WindowsInside, WindowsHold
<1> QED
  BY <1>1, <1>2, <1>3, <1>4, <1>5 DEF Next

-----------------------------------------------------------------------------
(* Theorems *)

\* Every window lies in its array, and shows elements until past.
THEOREM Invariance == Spec => []IndInv
<1>1. IndInv /\ [Next]_vars => IndInv'
  BY NextIndInv
<1> QED
  BY InitIndInv, <1>1, PTL DEF Spec

\* AgetArray and ArraySelector.RHS never return a cell that append left empty,
\* so long as no slice reached beyond the length of its array.
THEOREM ReadsElementsAlways == Spec => []ReadsElements
<1>1. IndInv => ReadsElements
  <2> SUFFICES ASSUME IndInv, ~past, NEW v \in Var, NEW i \in -1..MaxCells
               PROVE  Aget(arr[v], i) \in Elem \cup {Error}
    BY DEF ReadsElements
  <2>1. arr[v].off \in Nat /\ arr[v].len \in Nat /\ End(arr[v]) = arr[v].off + arr[v].len
    BY DEF IndInv, WindowsInside, Slice, End
  <2>2. Holds(mem, arr[v])
    BY Zenon DEF IndInv, WindowsHold
  <2>3. CASE i < 0 \/ i >= arr[v].len
    BY <2>3 DEF Aget
  <2>4. CASE ~(i < 0 \/ i >= arr[v].len)
    <3>1. i \in Int
      BY ArraysAssumption
    <3>2. arr[v].off + i + 1 \in arr[v].off + 1..End(arr[v])
      BY <2>1, <2>4, <3>1
    <3>3. mem[arr[v].at][arr[v].off + i + 1] \in Elem
      BY <2>2, <3>2 DEF Holds
    <3> QED
      BY <2>4, <3>3 DEF Aget
  <2> QED
    BY <2>3, <2>4
<1> QED
  BY Invariance, <1>1, PTL

\* ConcatArray gives the arrays it was given one after the other, whatever
\* cells they share, but for an operand that lies behind the first.
THEOREM ConcatJoinsAlways == Spec => []ConcatJoins
<1>1. IndInv => ConcatJoins
  <2> SUFFICES ASSUME IndInv, NEW u \in Var, NEW w1 \in Var, NEW w2 \in Var
               PROVE  LET r == ConcatArrays(u, w1, w2)
                      IN  ~(arr[w2].at = arr[u].at /\ End(arr[w2]) > End(arr[u])) =>
                            /\ Elements(r.mem, r.slice)
                                 = Elements(mem, arr[u]) \o Elements(mem, arr[w1])
                                                        \o Elements(mem, arr[w2])
                            /\ Elements(r.mem, arr[u]) = Elements(mem, arr[u])
    BY Zenon DEF ConcatJoins
  <2> DEFINE r == ConcatArrays(u, w1, w2)
  <2> HIDE DEF r
  <2> SUFFICES ASSUME ~(arr[w2].at = arr[u].at /\ End(arr[w2]) > End(arr[u]))
               PROVE  /\ Elements(r.mem, r.slice)
                           = Elements(mem, arr[u]) \o Elements(mem, arr[w1])
                                                  \o Elements(mem, arr[w2])
                      /\ Elements(r.mem, arr[u]) = Elements(mem, arr[u])
    BY Zenon DEF r
  <2>1. /\ WindowsInside /\ mem \in Seq(Seq(Cell))
        /\ \A v \in Var : arr[v] \in Slice /\ Inside(mem, arr[v])
    BY DEF IndInv, WindowsInside
  <2>2. PICK r1 : r1 = ConcatArray(u, w1)
    OBVIOUS
  <2> DEFINE xs == Elements(mem, arr[w1])
             ys == Elements(r1.mem, arr[w2])
  <2>3. /\ xs \in Seq(Cell) /\ Extends(mem, arr[u], xs, r1)
        /\ ys \in Seq(Cell) /\ Extends(r1.mem, r1.slice, ys, r)
    BY <2>1, <2>2, ConcatExtends, Zenon DEF r
  <2>4. End(arr[u]) \in Nat /\ End(arr[w2]) \in Nat
    BY <2>1, SMTT(30) DEF Slice, End
  <2>5. ys = Elements(mem, arr[w2])
    <3>1. arr[w2].at # arr[u].at \/ End(arr[w2]) <= End(arr[u])
      BY <2>4
    <3> QED
      BY <2>1, <2>3, <3>1, StaysTheSame
  <2> HIDE DEF xs, ys
  <2>6. Elements(r1.mem, r1.slice) = Elements(mem, arr[u]) \o xs
    BY <2>1, <2>3, Joins, Zenon
  <2>7. Elements(r.mem, r.slice) = Elements(r1.mem, r1.slice) \o ys
    <3>1. r1.mem \in Seq(Seq(Cell)) /\ r1.slice \in Slice /\ Inside(r1.mem, r1.slice)
      BY <2>3, Zenon DEF Extends
    <3> QED
      BY <2>3, <3>1, Joins, Zenon
  <2>8. Elements(r.mem, arr[u]) = Elements(mem, arr[u])
    <3>1. Extends(mem, arr[u], xs \o ys, r)
      BY <2>1, <2>3, ExtendsTwice, Zenon
    <3>2. xs \o ys \in Seq(Cell)
      BY <2>3, ConcatCells, Zenon
    <3>3. PICK zs \in Seq(Cell) : Extends(mem, arr[u], zs, r)
      BY <3>1, <3>2
    <3>4. arr[u] \in Slice /\ Inside(mem, arr[u]) /\ End(arr[u]) <= End(arr[u])
      BY <2>1, <2>4
    <3> QED
      BY <2>1, <3>3, <3>4, StaysTheSame
  <2> QED
    BY <2>5, <2>6, <2>7, <2>8, Zenon DEF xs
<1> QED
  BY Invariance, <1>1, PTL

\* append, appendslice and concat change an element a variable shows only
\* behind the end of an array of the program: the one they extend.
THEOREM WritesBeyondEndsAlways == Spec => WritesBeyondEnds
<1> DEFINE Beyond ==
        \A v \in Var :
            LET changed == Changed(arr[v])
            IN  \/ changed = {} \/ Aset
                \/ \E u \in Var : /\ arr[u].at = arr[v].at
                                  /\ \A p \in changed : p > End(arr[u])
<1>1. IndInv /\ [Next]_vars => [Beyond]_vars
  <2> SUFFICES ASSUME IndInv, Next, ~Aset, NEW v \in Var
               PROVE  \/ Changed(arr[v]) = {}
                      \/ \E u \in Var : /\ arr[u].at = arr[v].at
                                        /\ \A p \in Changed(arr[v]) : p > End(arr[u])
    BY Zenon
  <2>1. /\ mem \in Seq(Seq(Cell)) /\ \A w \in Var : arr[w] \in Slice /\ Inside(mem, arr[w])
    BY DEF IndInv, WindowsInside
  <2>2. /\ arr[v].at \in DOMAIN mem /\ arr[v].off \in Nat /\ Len(mem[arr[v].at]) \in Nat
        /\ End(arr[v]) <= Len(mem[arr[v].at]) /\ End(arr[v]) \in Nat
    <3>1. /\ arr[v].at \in DOMAIN mem /\ arr[v].off \in Nat /\ Len(mem[arr[v].at]) \in Nat
          /\ arr[v].len \in Nat /\ End(arr[v]) = arr[v].off + arr[v].len
          /\ arr[v].off + arr[v].len <= Len(mem[arr[v].at])
      BY <2>1, ArrayOf, Zenon
    <3> QED
      BY <3>1
  <2>3. ASSUME NEW w \in Var, MakeArray(w) PROVE Changed(arr[v]) = {}
    BY <2>2, <2>3, MakeArrayStep DEF Changed
  <2>4. CASE Look
    BY <2>4, LookStep DEF Changed
  <2>5. CASE Extend
    <3>1. PICK u \in Var, xs \in Seq(Cell) : \E r : ExtensionStep(u, xs, r)
      BY <2>5, ExtendIsExtension, Zenon
    <3>2. PICK r : Extends(mem, arr[u], xs, r) /\ mem' = r.mem
      BY <3>1, Zenon DEF ExtensionStep
    <3>3. ASSUME NEW p \in Changed(arr[v]) PROVE arr[v].at = arr[u].at /\ p > End(arr[u])
      <4>1. /\ p \in arr[v].off + 1..End(arr[v])
            /\ mem'[arr[v].at][p] # mem[arr[v].at][p]
        BY DEF Changed
      <4>2. p \in 1..Len(mem[arr[v].at])
        BY <2>2, <4>1
      <4> QED
        BY <2>2, <3>2, <4>1, <4>2 DEF Extends
    <3> QED
      BY <3>3
  <2> QED
    BY <2>3, <2>4, <2>5 DEF Next
<1> QED
  BY Invariance, <1>1, PTL DEF Spec, WritesBeyondEnds
=============================================================================
