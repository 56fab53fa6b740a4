------------------------------- MODULE Arrays -------------------------------
(***************************************************************************)
(* The arrays of a program, as arrayutils.go and functions.go make them:   *)
(* an array is a Go slice, a window of len cells from off on over a        *)
(* backing array.  (rest a), (slice a i j) and (arrayidx a [i : j]) are    *)
(* further windows over the same cells, and (append a x), (appendslice a   *)
(* b) and (concat a b ...) write into the backing array as long as its     *)
(* capacity lasts, so that a program's arrays share cells.                 *)
(***************************************************************************)
EXTENDS Integers, Sequences, FiniteSets

CONSTANTS
    Var,         \* the program's variables, each bound to an array
    Elem,        \* elements
    NilCell,     \* Go's nil interface, the content of a cell never written
    Error,       \* an error, or a panic that the caller turns into one
    MaxArrays,   \* bound: backing arrays ever made
    MaxSize,     \* bound: the cells makeArray is asked for
    MaxCells     \* bound: cells of a backing array

ASSUME ArraysAssumption ==
    /\ NilCell \notin Elem /\ Error \notin Elem \cup {NilCell}
    /\ MaxArrays \in Nat \ {0} /\ MaxSize \in 0..MaxCells /\ MaxCells \in Nat

VARIABLES
    mem,   \* mem[b]: the cells of backing array b, as many as its capacity
    arr,   \* arr[v]: the slice variable v is bound to
    past   \* history: a slice was taken beyond the length of its array

vars == <<mem, arr, past>>

End(s) == s.off + s.len
Capacity(m, s) == Len(m[s.at]) - s.off
Elements(m, s) == SubSeq(m[s.at], s.off + 1, End(s))

-----------------------------------------------------------------------------
\* make([]Sexp, size) and the loop that fills it.
NewCells(size, fill) == [i \in 1..size |-> fill]

MakeArray(v) ==
    \E size \in 0..MaxSize, fill \in Elem :
        /\ Len(mem) < MaxArrays
        /\ mem' = Append(mem, NewCells(size, fill))
        /\ arr' = [arr EXCEPT ![v] = [at |-> Len(mem) + 1, off |-> 0, len |-> size]]
        /\ UNCHANGED past

Overwrite(cells, from, xs) ==
    [i \in DOMAIN cells |-> IF i - from \in DOMAIN xs THEN xs[i - from] ELSE cells[i]]

\* Mutant of InPlace: the new elements start on the last old one.
InPlaceEarly(m, s, xs) ==
    [mem |-> [m EXCEPT ![s.at] = Overwrite(@, End(s) - 1, xs)],
     slice |-> [s EXCEPT !.len = @ + Len(xs)]]

InPlace(m, s, xs) ==
    [mem |-> [m EXCEPT ![s.at] = Overwrite(@, End(s), xs)],
     slice |-> [s EXCEPT !.len = @ + Len(xs)]]

\* Go's append(s, xs...): in place when the capacity suffices, otherwise in
\* an array of twice the capacity, or as large as it must be.
GoAppend(m, s, xs) ==
    LET len == s.len + Len(xs)
        cap == IF len > 2 * Capacity(m, s) THEN len ELSE 2 * Capacity(m, s)
    IN  IF len <= Capacity(m, s)
        THEN InPlace(m, s, xs)
        ELSE [mem |-> Append(m, Elements(m, s) \o xs \o NewCells(cap - len, NilCell)),
              slice |-> [at |-> Len(m) + 1, off |-> 0, len |-> len]]

Fits(r) ==
    /\ Len(r.mem) <= MaxArrays
    /\ \A b \in DOMAIN r.mem : Len(r.mem[b]) <= MaxCells

Becomes(v, r) ==
    /\ Fits(r)
    /\ mem' = r.mem
    /\ arr' = [arr EXCEPT ![v] = r.slice]
    /\ UNCHANGED past

\* (def v (append u x))
AppendElem(v) ==
    \E u \in Var, x \in Elem : Becomes(v, GoAppend(mem, arr[u], <<x>>))

\* (def v (appendslice u w)): w's cells are read before any is written.
AppendSlice(v) ==
    \E u, w \in Var : Becomes(v, GoAppend(mem, arr[u], Elements(mem, arr[w])))

\* (concat u w ...): each operand is appended to what the ones before it gave,
\* and is read when its turn comes.
ConcatOne(r, w) == GoAppend(r.mem, r.slice, Elements(r.mem, arr[w]))
ConcatArray(u, w) == ConcatOne([mem |-> mem, slice |-> arr[u]], w)
ConcatArrays(u, w1, w2) == ConcatOne(ConcatArray(u, w1), w2)

\* (def v (concat u w1 w2))
Concat(v) == \E u, w1, w2 \in Var : Becomes(v, ConcatArrays(u, w1, w2))

\* (concat u w 5): the operand that is no array makes concat fail, when the
\* operands before it have been written.
ConcatFails ==
    \E u, w \in Var :
        LET r == ConcatArray(u, w)
        IN  /\ Fits(r)
            /\ mem' = r.mem
            /\ UNCHANGED <<arr, past>>

Window(v, s, start, end) ==
    arr' = [arr EXCEPT ![v] = [at |-> s.at, off |-> s.off + start, len |-> end - start]]

\* (def v (rest u)): the rest of an empty array is that array.
Rest(v) ==
    \E u \in Var :
        /\ \/ arr[u].len = 0 /\ arr' = [arr EXCEPT ![v] = arr[u]]
           \/ arr[u].len > 0 /\ Window(v, arr[u], 1, arr[u].len)
        /\ UNCHANGED <<mem, past>>

\* (def v (slice u start end)) is Go's slice expression, which may reach up
\* to the capacity; beyond it, it panics.
SliceFunction(v) ==
    \E u \in Var : \E start, end \in 0..MaxCells :
        /\ start <= end /\ end <= Capacity(mem, arr[u])
        /\ Window(v, arr[u], start, end)
        /\ past' = (past \/ end > arr[u].len)
        /\ UNCHANGED mem

\* Mutant of SliceBounds: the selector reaches to the capacity, too.
SliceBoundsToCapacity(s, start, end) ==
    0 <= start /\ start <= end /\ end <= Capacity(mem, s)

\* The bounds of a selector, as RHS checks them.
SliceBounds(s, start, end) == 0 <= start /\ start <= end /\ end <= s.len

\* (def v (arrayidx u [start : end])), either bound of which may be left out;
\* with both left out v holds the array of u.
SliceSelector(v) ==
    \E u \in Var : \E start, end \in 0..MaxCells :
        /\ SliceBounds(arr[u], start, end)
        /\ Window(v, arr[u], start, end)
        /\ UNCHANGED <<mem, past>>

\* (aset u i x), and u[i] = x through AssignToSelection: an index that is
\* out of bounds changes nothing.
Aset ==
    \E u \in Var, i \in 0..MaxCells - 1, x \in Elem :
        /\ i < arr[u].len
        /\ mem' = [mem EXCEPT ![arr[u].at][arr[u].off + i + 1] = x]
        /\ UNCHANGED <<arr, past>>

\* (aget u i) and the RHS of u[i].
Aget(s, i) == IF i < 0 \/ i >= s.len THEN Error ELSE mem[s.at][s.off + i + 1]

-----------------------------------------------------------------------------
\* The program's first array, held by all its variables.
Init ==
    /\ \E size \in 0..MaxSize, fill \in Elem :
          /\ mem = <<NewCells(size, fill)>>
          /\ arr = [v \in Var |-> [at |-> 1, off |-> 0, len |-> size]]
    /\ past = FALSE

Extend == ConcatFails \/ \E v \in Var : AppendElem(v) \/ AppendSlice(v) \/ Concat(v)

Look == \E v \in Var : Rest(v) \/ SliceFunction(v) \/ SliceSelector(v)

Next == (\E v \in Var : MakeArray(v)) \/ Extend \/ Look \/ Aset

Spec == Init /\ [][Next]_vars

-----------------------------------------------------------------------------
\* As long as no slice was taken beyond the length of its array, a program
\* reads elements or gets an error, and never comes upon a cell of the spare
\* capacity that append left empty.
ReadsElements ==
    ~past => \A v \in Var, i \in -1..MaxCells : Aget(arr[v], i) \in Elem \cup {Error}

\* (concat u w1 w2) is u, w1 and w2 one after the other, and u keeps its
\* elements, unless w2 looks at cells behind u: those w1 has overwritten by
\* the time w2 is read.
ConcatJoins ==
    \A u, w1, w2 \in Var :
        LET r == ConcatArrays(u, w1, w2)
            behind == arr[w2].at = arr[u].at /\ End(arr[w2]) > End(arr[u])
        IN  ~behind =>
              /\ Elements(r.mem, r.slice)
                   = Elements(mem, arr[u]) \o Elements(mem, arr[w1]) \o Elements(mem, arr[w2])
              /\ Elements(r.mem, arr[u]) = Elements(mem, arr[u])

\* What append and concat may do to the arrays a program still holds: but for
\* an aset, an element changes under a variable only where it lies beyond the
\* end of an array that was extended in place.
Changed(s) == {p \in s.off + 1..End(s) : mem[s.at][p] # mem'[s.at][p]}

WritesBeyondEnds ==
    [][\A v \in Var :
          LET changed == Changed(arr[v])
          IN  \/ changed = {} \/ Aset
              \/ \E u \in Var : /\ arr[u].at = arr[v].at
                                /\ \A p \in changed : p > End(arr[u])]_vars
=============================================================================
