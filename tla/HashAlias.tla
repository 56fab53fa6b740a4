----------------------------- MODULE HashAlias ------------------------------
(***************************************************************************)
(* Hashes as Go holds them: the buckets and KeyOrder are slices, that is,  *)
(* lengths over backing arrays in memory.  (derefSet p src) makes one hash *)
(* a copy of another with CloneFrom (hashutils.go), which copies the Go    *)
(* map and the slices but not the arrays under them.                       *)
(*                                                                         *)
(* As long as no array has two owners each hash is a SexpHash.             *)
(***************************************************************************)
EXTENDS Integers, Sequences, FiniteSets

CONSTANTS
    Hash,                                           \* the hash objects
    one,                                            \* any one of them
    Key, Val, NoValue, Code, HashCode, Elem, Equal, \* as in SexpHash
    MaxOrder, MaxLoss,                              \* bounds, as in SexpHash
    MaxArrays    \* bound: backing arrays ever allocated

\* What SexpHash assumes of keys and values; the nil pair has no key.
ASSUME AliasAssumption ==
    /\ HashCode \in [Key -> Code] /\ Elem \in [Key -> Key]
    /\ NoValue \notin Key /\ NoValue \notin Val
    /\ one \in Hash /\ MaxArrays \in Nat

VARIABLES
    mem,        \* mem[a]: backing array a, as long as its capacity
    ok,         \* ok[h]: the codes of h's Go map
    bucket,     \* bucket[h][c]: the slice of code c
    order,      \* order[h]: the slice KeyOrder
    NumKeys     \* NumKeys[h]

vars == <<mem, ok, bucket, order, NumKeys>>

\* Go's zero Sexp and the nil slice.
Nil == [Head |-> NoValue, Tail |-> NoValue]
Empty == [at |-> 0, len |-> 0]

Cap(m, s) == IF s.at = 0 THEN 0 ELSE Len(m[s.at])

Contents(s) == [i \in 1..s.len |-> mem[s.at][i]]

\* append(s, x): in place while the capacity lasts, otherwise into a new
\* array of twice the capacity.  Yields the memory and the slice.
AppendTo(m, s, x) ==
    IF s.len < Cap(m, s)
    THEN [mem |-> [m EXCEPT ![s.at][s.len + 1] = x],
          slice |-> [s EXCEPT !.len = @ + 1]]
    ELSE LET size == IF s.len = 0 THEN 1 ELSE 2 * s.len
             copy == [i \in 1..size |->
                        CASE i <= s.len -> m[s.at][i]
                          [] i = s.len + 1 -> x
                          [] OTHER -> Nil]
         IN  [mem |-> Append(m, copy),
              slice |-> [at |-> Len(m) + 1, len |-> s.len + 1]]

\* Mutants of ShiftOut: the pair after the one to delete is lost, and the
\* cell that falls vacant is cleared.
ShiftOutLate(m, s, i) ==
    [m EXCEPT ![s.at] =
        [j \in DOMAIN @ |-> IF j > i /\ j < s.len THEN @[j + 1] ELSE @[j]]]
ShiftOutClears(m, s, i) ==
    [m EXCEPT ![s.at] =
        [j \in DOMAIN @ |-> CASE j >= i /\ j < s.len -> @[j + 1]
                              [] j = s.len -> Nil
                              [] OTHER -> @[j]]]

\* append(s[0:i-1], s[i+1:]...): the tail moves down inside the same array,
\* whose last used cell keeps its old contents.
ShiftOut(m, s, i) ==
    [m EXCEPT ![s.at] =
        [j \in DOMAIN @ |-> IF j >= i /\ j < s.len THEN @[j + 1] ELSE @[j]]]

Hits(h, c, k) ==
    {i \in 1..bucket[h][c].len :
        <<mem[bucket[h][c].at][i].Head, k>> \in Equal}

First(S) == CHOOSE x \in S : \A y \in S : x <= y

Get(h, k) ==
    LET hit == Hits(h, HashCode[k], k)
    IN  IF hit = {} THEN NoValue
        ELSE mem[bucket[h][HashCode[k]].at][First(hit)].Tail

-----------------------------------------------------------------------------
HashSet(h, key, val) ==
    LET k    == Elem[key]
        c    == HashCode[k]
        hit  == Hits(h, c, k)
        pair == [Head |-> k, Tail |-> val]
    IN  /\ ok' = [ok EXCEPT ![h] = @ \cup {c}]
        /\ \/ /\ hit # {}
              /\ mem' = [mem EXCEPT ![bucket[h][c].at] =
                    [i \in DOMAIN @ |-> IF i \in hit THEN pair ELSE @[i]]]
              /\ UNCHANGED <<bucket, order, NumKeys>>
           \/ LET added  == IF c \in ok[h] THEN AppendTo(mem, bucket[h][c], pair)
                            ELSE AppendTo(mem, Empty, pair)
                  listed == AppendTo(added.mem, order[h], [Nil EXCEPT !.Head = k])
              IN  /\ hit = {}
                  /\ order[h].len < MaxOrder /\ Len(listed.mem) <= MaxArrays
                  /\ mem' = listed.mem
                  /\ bucket' = [bucket EXCEPT ![h][c] = added.slice]
                  /\ order' = [order EXCEPT ![h] = listed.slice]
                  /\ NumKeys' = [NumKeys EXCEPT ![h] = @ + 1]

\* Mutant of HashDelete: clones share the count as they share the arrays.
HashDeleteSharedCount(h, key) ==
    LET c   == HashCode[key]
        hit == Hits(h, c, key)
    IN  /\ c \in ok[h] /\ hit # {}
        /\ NumKeys[h] > -MaxLoss
        /\ NumKeys' = [g \in Hash |-> IF order[g] = order[h] THEN NumKeys[h] - 1
                                      ELSE NumKeys[g]]
        /\ mem' = ShiftOut(mem, bucket[h][c], First(hit))
        /\ bucket' = [bucket EXCEPT ![h][c].len = @ - 1]
        /\ UNCHANGED <<ok, order>>

HashDelete(h, key) ==
    LET c   == HashCode[key]
        hit == Hits(h, c, key)
    IN  /\ c \in ok[h]
        /\ NumKeys[h] > -MaxLoss
        /\ NumKeys' = [NumKeys EXCEPT ![h] = @ - 1]
        /\ IF hit = {} THEN UNCHANGED <<mem, bucket>>
           ELSE /\ mem' = ShiftOut(mem, bucket[h][c], First(hit))
                /\ bucket' = [bucket EXCEPT ![h][c].len = @ - 1]
        /\ UNCHANGED <<ok, order>>

\* CopyMap and CloneFrom: the slices are copied, the arrays are shared.
CloneFrom(h, src) ==
    /\ ok' = [ok EXCEPT ![h] = ok[src]]
    /\ bucket' = [bucket EXCEPT ![h] = bucket[src]]
    /\ order' = [order EXCEPT ![h] = order[src]]
    /\ NumKeys' = [NumKeys EXCEPT ![h] = NumKeys[src]]
    /\ UNCHANGED mem

-----------------------------------------------------------------------------
Init ==
    /\ mem = <<>>
    /\ ok = [h \in Hash |-> {}]
    /\ bucket = [h \in Hash |-> [c \in Code |-> Empty]]
    /\ order = [h \in Hash |-> Empty]
    /\ NumKeys = [h \in Hash |-> 0]

Next ==
    \/ \E h \in Hash : \E k \in Key : \E v \in Val : HashSet(h, k, v)
    \/ \E h \in Hash : \E k \in Key : HashDelete(h, k)
    \/ \E h, src \in Hash : CloneFrom(h, src)

Spec == Init /\ [][Next]_vars

-----------------------------------------------------------------------------
\* No slice reaches past its array, and no cell within its length is unset:
\* sharing never makes HashGet read a nil pair.
SlicesInBounds ==
    \A h \in Hash : \A s \in {order[h]} \cup {bucket[h][c] : c \in Code} :
        s.len <= Cap(mem, s) /\ \A i \in 1..s.len : mem[s.at][i].Head # NoValue

\* The keys that KeyOrder of a hash lists.
Listing(h) == [i \in 1..order[h].len |-> Contents(order[h])[i].Head]

\* Sharing goes no further than one bucket: a step that writes memory changes
\* the lookups of one hash code only, in however many hashes, and one count.
Changed(h, k) == Get(h, k)' # Get(h, k)

DisturbanceConfined ==
    [][mem' # mem =>
          /\ Cardinality({h \in Hash : NumKeys'[h] # NumKeys[h]}) <= 1
          /\ \A h, g \in Hash : \A j, k \in Key :
                Changed(h, j) /\ Changed(g, k) => HashCode[j] = HashCode[k]]_vars

\* The two hashes write to no array that the other reads: every array belongs
\* to one slice of one hash.
Arrays(h) == {s.at : s \in {order[h]} \cup {bucket[h][c] : c \in Code}} \ {0}
Separate == \A h, g \in Hash : h = g \/ Arrays(h) \cap Arrays(g) = {}

\* Hash one without its arrays: the sequences that its slices show.
Abs == INSTANCE SexpHash WITH
    ok <- ok[one], Map <- [c \in Code |-> Contents(bucket[one][c])],
    KeyOrder <- Listing(one), NumKeys <- NumKeys[one],
    Accepts <- Key \X Val,
    Name <- <<>>, Rank <- [k \in Key |-> 0], Reread <- <<>>

\* A hash that is set or deleted from does as the SexpHash of its contents,
\* whoever shares its arrays: appending to and shifting inside slices over
\* arrays (hashutils.go) is what SexpHash says of sequences.  While no two
\* hashes share an array, the others do not notice.
AliasFreeIsSexpHash ==
    /\ Abs!Init
    /\ [][\A k \in Key :
            /\ \A v \in Val : HashSet(one, k, v) => Abs!HashSet(k, v)
            /\ HashDelete(one, k) => Abs!HashDelete(k)
            /\ \A h \in Hash \ {one} :
                  /\ Separate
                  /\ (\E v \in Val : HashSet(h, k, v)) \/ HashDelete(h, k)
                  => UNCHANGED Abs!vars
       ]_vars
=============================================================================
