------------------------------ MODULE SexpHash ------------------------------
(***************************************************************************)
(* The insertion-ordered hash of zygo/hashutils.go, type SexpHash: a Go map *)
(* from hash codes to buckets of key/value pairs, a separate list of the    *)
(* keys in the order they were first set, and a separate count of the keys. *)
(* The three are updated by different lines of HashSet and HashDelete and   *)
(* are read together by the printers, by len and by the range loops.        *)
(***************************************************************************)
EXTENDS Integers, FiniteSets, SequencesExt

CONSTANTS
    Key,        \* hashable keys: integers, characters, symbols, strings, arrays
    Val,        \* the values a program stores
    NoValue,    \* the sentinel SexpEnd, which no program can create
    Code,       \* hash codes
    HashCode,   \* HashCode[k]: what hashHelper computes for k
    Elem,       \* Elem[k]: the element of a one-element array, k itself otherwise
    Equal,      \* the pairs of keys whose Compare is 0 without an error
    Accepts,    \* the key/value pairs the record's type lets in
    Name,       \* Name[k]: the symbol k comes back as from JSON, where its text can go
    Rank,       \* Rank[n]: the place of a symbol in the byte order of the names
    Reread,     \* Reread[v]: what the JSON text of v is read back as, where it is JSON
    MaxOrder,   \* bound: longest KeyOrder
    MaxLoss     \* bound: how far below zero NumKeys may go

(***************************************************************************)
(* Within one hash code Compare == 0 is symmetric and transitive.  It need  *)
(* not be reflexive: an array that holds NaN differs from itself.           *)
(***************************************************************************)
ASSUME KeyAssumption ==
    /\ HashCode \in [Key -> Code]
    /\ Elem \in [Key -> Key]
    /\ Equal \subseteq Key \X Key
    /\ \A j, k \in Key :
          HashCode[j] = HashCode[k] /\ <<j, k>> \in Equal => <<k, j>> \in Equal
    /\ \A i, j, k \in Key :
          /\ HashCode[i] = HashCode[j] /\ HashCode[j] = HashCode[k]
          /\ <<i, j>> \in Equal /\ <<j, k>> \in Equal
          => <<i, k>> \in Equal
    /\ Accepts \subseteq Key \X Val

\* The symbols that names come back as: each has a number of its own for a
\* hash code and equals itself.
ASSUME JsonAssumption ==
    /\ DOMAIN Name \subseteq Key /\ Name \in [DOMAIN Name -> Key]
    /\ DOMAIN Reread \subseteq Val /\ Reread \in [DOMAIN Reread -> Val]
    /\ Rank \in [Key -> Int]
    /\ \A j \in DOMAIN Name : Elem[Name[j]] = Name[j] /\ <<Name[j], Name[j]>> \in Equal
    /\ \A j, k \in DOMAIN Name : HashCode[Name[j]] = HashCode[Name[k]] => Name[j] = Name[k]

ASSUME ValueAssumption == NoValue \notin Val

ASSUME BoundAssumption == MaxOrder \in Nat /\ MaxLoss \in Nat

VARIABLES
    ok,         \* the hash codes the Go map has an entry for, empty or not
    Map,        \* Map[c]: the bucket of code c, <<>> when there is no entry
    KeyOrder,   \* keys in insertion order; deletion leaves them there
    NumKeys     \* the running count

vars == <<ok, Map, KeyOrder, NumKeys>>

Pair == [Head : Key, Tail : Val]

NewPair(k, v) == [Head |-> k, Tail |-> v]

-----------------------------------------------------------------------------
(* Lookups *)

\* The positions of a bucket whose key compares equal to k.
Hits(arr, k) == {i \in DOMAIN arr : <<arr[i].Head, k>> \in Equal}

HashGetDefault(k, default) ==
    LET arr == Map[HashCode[k]]
    IN  IF Hits(arr, k) = {} THEN default ELSE arr[Min(Hits(arr, k))].Tail

\* HashGet looks inside a one-element array, HashGetDefault does not.
HashGet(k) == HashGetDefault(Elem[k], NoValue)

Found(k) == HashGet(k) # NoValue

\* The pairs stored, each by its place.
Live == UNION {{c} \X DOMAIN Map[c] : c \in Code}

LiveCount == Cardinality(Live)

\* Mutant of Reach: the scan starts one position late.
ReachLate(pos) == {i \in DOMAIN KeyOrder : i > pos + 1 /\ Found(KeyOrder[i])}

\* The positions HashPairi(pos) can return: it skips the deleted keys.
Reach(pos) == {i \in DOMAIN KeyOrder : i > pos /\ Found(KeyOrder[i])}

\* The key of the pair HashPairi(pos) returns; it panics when Reach is empty.
HashPairi(pos) == KeyOrder[Min(Reach(pos))]

-----------------------------------------------------------------------------
(* Updates *)

\* What the mutants of HashSet have in common: a pair stored in bucket c.
LOCAL Overwrite(c, hit, pair) ==
    Map' = [Map EXCEPT ![c] = [i \in DOMAIN @ |-> IF i \in hit THEN pair ELSE @[i]]]
LOCAL Insert(c, pair) ==
    /\ Len(KeyOrder) < MaxOrder
    /\ Map' = [Map EXCEPT ![c] = Append(@, pair)]

\* Mutant of HashSet: the code is taken before a one-element array is opened.
HashSetOuterCode(key, val) ==
    LET k == Elem[key]
        c == HashCode[key]
    IN  /\ <<k, val>> \in Accepts
        /\ Hits(Map[c], k) = {}
        /\ Insert(c, NewPair(k, val))
        /\ ok' = ok \cup {c} /\ KeyOrder' = Append(KeyOrder, k) /\ NumKeys' = NumKeys + 1

\* Mutant of HashSet: the bucket is not searched for the key.
HashSetAppends(key, val) ==
    LET k == Elem[key]
        c == HashCode[k]
    IN  /\ <<k, val>> \in Accepts
        /\ Insert(c, NewPair(k, val))
        /\ ok' = ok \cup {c} /\ KeyOrder' = Append(KeyOrder, k) /\ NumKeys' = NumKeys + 1

\* Mutant of HashSet: the key is listed only when its bucket is new.
HashSetListsBuckets(key, val) ==
    LET k == Elem[key]
        c == HashCode[k]
    IN  /\ <<k, val>> \in Accepts
        /\ Hits(Map[c], k) = {}
        /\ Insert(c, NewPair(k, val))
        /\ ok' = ok \cup {c} /\ NumKeys' = NumKeys + 1
        /\ KeyOrder' = IF c \in ok THEN KeyOrder ELSE Append(KeyOrder, k)

\* Mutant of HashSet: overwriting counts as inserting.
HashSetCountsTwice(key, val) ==
    LET k   == Elem[key]
        c   == HashCode[k]
        hit == Hits(Map[c], k)
    IN  /\ <<k, val>> \in Accepts
        /\ IF hit # {} THEN Overwrite(c, hit, NewPair(k, val)) /\ UNCHANGED KeyOrder
           ELSE Insert(c, NewPair(k, val)) /\ KeyOrder' = Append(KeyOrder, k)
        /\ ok' = ok \cup {c} /\ NumKeys' = NumKeys + 1

\* Mutant of HashSet: the type is checked only when the key is new.
HashSetChecksOnce(key, val) ==
    LET k   == Elem[key]
        c   == HashCode[k]
        hit == Hits(Map[c], k)
    IN  /\ ok' = ok \cup {c}
        /\ IF hit # {}
           THEN Overwrite(c, hit, NewPair(k, val)) /\ UNCHANGED <<KeyOrder, NumKeys>>
           ELSE /\ <<k, val>> \in Accepts
                /\ Insert(c, NewPair(k, val))
                /\ KeyOrder' = Append(KeyOrder, k) /\ NumKeys' = NumKeys + 1

HashSet(key, val) ==
    LET k   == Elem[key]
        c   == HashCode[k]
        hit == Hits(Map[c], k)
    IN  /\ <<k, val>> \in Accepts
        /\ ok' = ok \cup {c}
        /\ \/ /\ hit # {}
              /\ Map' = [Map EXCEPT ![c] =
                    [i \in DOMAIN Map[c] |->
                        IF i \in hit THEN NewPair(k, val) ELSE Map[c][i]]]
              /\ UNCHANGED <<KeyOrder, NumKeys>>
           \/ /\ hit = {}
              /\ Len(KeyOrder) < MaxOrder
              /\ Map' = [Map EXCEPT ![c] = Append(Map[c], NewPair(k, val))]
              /\ KeyOrder' = Append(KeyOrder, k)
              /\ NumKeys' = NumKeys + 1

\* Mutant of HashDelete: the value is cleared and the pair left in place.
HashDeleteClears(key) ==
    LET c == HashCode[key]
    IN  /\ c \in ok /\ NumKeys > -MaxLoss
        /\ NumKeys' = NumKeys - 1
        /\ Map' = [Map EXCEPT ![c] = [i \in DOMAIN @ |->
                IF i \in Hits(Map[c], key) THEN NewPair(key, NoValue) ELSE @[i]]]
        /\ UNCHANGED <<ok, KeyOrder>>

\* Mutant of HashDelete: the first pair of the bucket goes, whatever its key.
HashDeleteFirst(key) ==
    LET c == HashCode[key]
    IN  /\ c \in ok /\ NumKeys > -MaxLoss
        /\ NumKeys' = NumKeys - 1
        /\ Map' = IF Hits(Map[c], key) = {} THEN Map
                  ELSE [Map EXCEPT ![c] = RemoveAt(@, 1)]
        /\ UNCHANGED <<ok, KeyOrder>>

\* The count goes down as soon as the code has an entry, key found or not;
\* the key is not taken out of a one-element array, nor out of KeyOrder.
HashDelete(key) ==
    LET c   == HashCode[key]
        hit == Hits(Map[c], key)
    IN  /\ c \in ok
        /\ NumKeys > -MaxLoss
        /\ NumKeys' = NumKeys - 1
        /\ Map' = IF hit = {} THEN Map
                  ELSE [Map EXCEPT ![c] = RemoveAt(Map[c], Min(hit))]
        /\ UNCHANGED <<ok, KeyOrder>>

-----------------------------------------------------------------------------
(* Msgpack, by way of JSON *)

\* The encoder panics on a listed key that has been deleted, and on text that
\* is no JSON; the builtin then fails, and the program still has its hash.
Encodable ==
    \A k \in ToSet(KeyOrder) : k \in DOMAIN Name /\ HashGet(k) \in DOMAIN Reread

\* Member i of the JSON object, and all the members' names.
Member(i) == Name[KeyOrder[i]]
Members == {Member(i) : i \in DOMAIN KeyOrder}

\* Of several members with one name the last one counts.
LastMember(m) == Max({i \in DOMAIN KeyOrder : Member(i) = m})
Decoded(m) == Reread[HashGet(KeyOrder[LastMember(m)])]

\* MakeHash sets the members in the order of their names and gives up at the
\* first that the record's type refuses: these come before it.
Kept ==
    {m \in Members : \A r \in Members :
        <<r, Decoded(r)>> \notin Accepts => Rank[m] < Rank[r]}

\* The program goes on with what decoding gives back.  SetHashKeyOrder lists
\* every member in the new hash, those left out too, and its error, none, is
\* the one that counts.
MsgpackRoundTrip ==
    /\ Encodable
    /\ ok' = {HashCode[m] : m \in Kept}
    /\ Map' = [c \in Code |->
          LET here == {m \in Kept : HashCode[m] = c}
          IN  IF here = {} THEN <<>>
              ELSE LET m == CHOOSE x \in here : TRUE IN <<NewPair(m, Decoded(m))>>]
    /\ KeyOrder' = [i \in DOMAIN KeyOrder |-> Member(i)]
    /\ NumKeys' = Cardinality(Kept)

-----------------------------------------------------------------------------
Init ==
    /\ ok = {}
    /\ Map = [c \in Code |-> <<>>]
    /\ KeyOrder = <<>>
    /\ NumKeys = 0

Next ==
    \/ \E k \in Key : \E v \in Val : HashSet(k, v)
    \/ \E k \in Key : HashDelete(k)
    \/ MsgpackRoundTrip

Spec == Init /\ [][Next]_vars

-----------------------------------------------------------------------------
(* Invariants *)

\* The maps, lists and counts hold what their Go types say.
TypeOK ==
    /\ ok \in SUBSET Code
    /\ Map \in [Code -> Seq(Pair)]
    /\ KeyOrder \in Seq(Key)
    /\ NumKeys \in Int

\* A pair lies in the bucket its key hashes to, of a code with an entry,
\* whatever alias of the key wrote it last.
BucketsByCode ==
    \A c \in Code : \A i \in DOMAIN Map[c] :
        c \in ok /\ HashCode[Map[c][i].Head] = c

\* No bucket holds two pairs for the same key: if it did, deleting the key
\* would uncover the older value.
OnePairPerKey ==
    \A c \in Code : \A i, j \in DOMAIN Map[c] :
        <<Map[c][i].Head, Map[c][j].Head>> \in Equal => i = j

\* Every stored pair is announced by KeyOrder, under an equal key: the
\* printers, keys, the JSON encoder and the range loops see only KeyOrder.
OrderCoversLive ==
    \A c \in Code : \A i \in DOMAIN Map[c] :
        \E n \in DOMAIN KeyOrder :
            /\ HashCode[KeyOrder[n]] = c
            /\ \/ KeyOrder[n] = Map[c][i].Head
               \/ <<KeyOrder[n], Map[c][i].Head>> \in Equal

\* The count never exceeds the pairs there are: deleting a key twice, or a
\* missing key that shares a bucket, loses count downwards only.
CountNotAbove == NumKeys <= LiveCount

\* No pair enters a record that its declared type refuses, whichever alias
\* of a key it is stored under.
RecordWellTyped ==
    \A c \in Code : \A i \in DOMAIN Map[c] :
        <<Map[c][i].Head, Map[c][i].Tail>> \in Accepts

\* The keys a program can look up again under the key it finds in KeyOrder.
Plain(k) == Elem[k] = k /\ <<k, k>> \in Equal

\* When the count is right and the listed keys are plain, every position
\* below the count leads HashPairi to a pair, however many deleted keys
\* KeyOrder still lists: the panic "could not get element" is unreachable.
PairiTotal ==
    /\ NumKeys = LiveCount
    /\ \A k \in ToSet(KeyOrder) : Plain(k)
    => \A pos \in 0..(NumKeys - 1) : Reach(pos) # {}

-----------------------------------------------------------------------------
(* The hash implements a dictionary, operation by operation.                *)

Ident == {p \in Key \X Key : HashCode[p[1]] = HashCode[p[2]] /\ p \in Equal}

Dict == INSTANCE HashDict WITH
    dict <- [k \in Key |-> HashGetDefault(k, NoValue)]

\* A program that only looks keys up cannot tell the hash (hashutils.go) from
\* a dictionary: setting puts the unwrapped key, deleting removes the key as
\* given and no other, and a msgpack round trip (jsonmsgp.go) gives a copy
\* with converted keys and values that makes nothing up, and that lacks a key
\* only where the record's type refuses a converted value.
ImplementsDict ==
    /\ Dict!Spec
    /\ [][/\ \A k \in Key : \A v \in Val : HashSet(k, v) => Dict!Put(Elem[k], v)
          /\ \A k \in Key : HashDelete(k) => Dict!Remove(k)
          /\ MsgpackRoundTrip => Dict!Transcribe]_vars
=============================================================================
