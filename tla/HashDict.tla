------------------------------ MODULE HashDict ------------------------------
(***************************************************************************)
(* What a zygomys hash promises its user: a dictionary.  A key is looked    *)
(* up by identity, Ident, and not by the object it was stored under: the    *)
(* integer 97 and the character 'a' name the same entry.  A key that is     *)
(* not even identical to itself (an array that holds NaN) names no entry.   *)
(***************************************************************************)
CONSTANTS
    Key,      \* the keys a program can use
    Val,      \* the values it can store
    NoValue,  \* the answer of a lookup that finds nothing
    Ident,    \* the pairs of keys that name the same entry
    Elem,     \* Elem[k]: the key that reading through k looks up
    Name,     \* Name[k]: the key that k is written down as, where it can be
    Reread,   \* Reread[v]: what a written value is read back as, where it can be
    Accepts   \* the pairs that the dictionary's type lets in

VARIABLE
    dict      \* dict[k] is the value found under k, or NoValue

Init == dict = [k \in Key |-> NoValue]

Put(k, v) == dict' = [j \in Key |-> IF <<j, k>> \in Ident THEN v ELSE dict[j]]

Remove(k) ==
    dict' = [j \in Key |-> IF <<j, k>> \in Ident THEN NoValue ELSE dict[j]]

\* What is read through j, as it was before and comes back.
Copied(j) == Reread[dict[Elem[j]]]
Readable(j) == dict[Elem[j]] \in DOMAIN Reread

\* The dictionary is written down and read back.  No entry is made up: each
\* is the copy of one that has its name.  No entry is lost, unless the type
\* refuses a copy.
Transcribe ==
    /\ \A k \in Key : dict'[k] # NoValue =>
          \E j \in DOMAIN Name :
              Readable(j) /\ <<Name[j], k>> \in Ident /\ dict'[k] = Copied(j)
    /\ \/ \A k \in Key : dict[k] # NoValue =>
             \E j \in DOMAIN Name : <<j, k>> \in Ident /\ dict'[Name[j]] # NoValue
       \/ \E j \in DOMAIN Name : Readable(j) /\ <<Name[j], Copied(j)>> \notin Accepts

Next ==
    \/ \E k \in Key : Remove(k) \/ \E v \in Val : Put(k, v)
    \/ Transcribe

Spec == Init /\ [][Next]_dict
=============================================================================
