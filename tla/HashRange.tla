----------------------------- MODULE HashRange ------------------------------
(***************************************************************************)
(* A range loop over a hash whose body may change that same hash.  The     *)
(* Pratt parser lowers "for k, v := range h" (pratt.go, lowerRangeFor) to  *)
(* a counting loop: the length is taken once, then every turn asks         *)
(* __rangePair for the pair at the next position.  The range macro of      *)
(* StandardSetup does the same with len and hpair, whose bounds differ.    *)
(* The one interpreter thread runs either a turn of the loop or its body.  *)
(***************************************************************************)
EXTENDS SexpHash

VARIABLES
    kind,     \* "for" (Go-style loop) or "range" (macro)
    st,       \* "idle", "running", "done", or what stopped the loop
    n,        \* the length taken before the first turn
    i,        \* the loop counter
    seen,     \* the keys yielded so far, in order
    kept,     \* history: keys live since the loop began
    lost      \* history: the hash lists keys that it may have no pairs for

loopVars == <<kind, st, n, i, seen, kept, lost>>

Errors == {"count", "bounds", "internal"}

LiveKeys == {Map[p[1]][p[2]].Head : p \in Live}

\* No listed key is one that no lookup finds: an array that holds NaN, or an
\* array of one element that came out of another such array.
Findable == \A k \in ToSet(KeyOrder) : Plain(k)

-----------------------------------------------------------------------------
\* (len h) and (__rangeLen h): HashCountKeys panics on a wrong count.
LoopStart ==
    /\ st = "idle"
    /\ kind' \in {"for", "range"}
    /\ IF NumKeys = LiveCount THEN st' = "running" /\ n' = NumKeys
                              ELSE st' = "count"   /\ n' = 0
    /\ kept' = LiveKeys
    /\ UNCHANGED <<vars, i, seen, lost>>

\* Mutants of Refusal: the last position is refused, and the bounds of a
\* Go-style loop are those of the macro.
RefusalEarly ==
    IF kind = "for" /\ i >= NumKeys - 1 THEN "bounds"
    ELSE IF Reach(i) = {} THEN "internal" ELSE "none"
RefusalByOrder ==
    IF i >= Len(KeyOrder) THEN "bounds"
    ELSE IF Reach(i) = {} THEN "internal" ELSE "none"

\* What RangePairFunction or hpair finds wrong with position i.
Refusal ==
    CASE kind = "for" /\ NumKeys # LiveCount  -> "count"
      [] kind = "for" /\ i >= NumKeys         -> "bounds"
      [] kind = "range" /\ i >= Len(KeyOrder) -> "bounds"
      [] kind = "range" /\ i > NumKeys        -> "bounds"
      [] OTHER -> IF Reach(i) = {} THEN "internal" ELSE "none"

\* Mutant of LoopTurn: a key met again is passed over without counting.
LoopTurnStuck ==
    /\ st = "running" /\ i < n
    /\ IF Refusal = "none"
       THEN /\ HashPairi(i) \notin ToSet(seen)
            /\ seen' = Append(seen, HashPairi(i)) /\ i' = i + 1 /\ UNCHANGED st
       ELSE st' = Refusal /\ UNCHANGED <<seen, i>>
    /\ UNCHANGED <<vars, kind, n, kept, lost>>

\* One turn: bind the pair at position i, or stop with its error.
LoopTurn ==
    /\ st = "running" /\ i < n
    /\ IF Refusal = "none"
       THEN /\ seen' = Append(seen, HashPairi(i))
            /\ i' = i + 1
            /\ UNCHANGED st
       ELSE st' = Refusal /\ UNCHANGED <<seen, i>>
    /\ UNCHANGED <<vars, kind, n, kept, lost>>

LoopEnd ==
    /\ st = "running" /\ i = n
    /\ st' = "done"
    /\ UNCHANGED <<vars, kind, n, i, seen, kept, lost>>

\* Before the loop, or in its body.
Update ==
    /\ st \in {"idle", "running"}
    /\ \/ /\ \E k \in Key : \E v \in Val : HashSet(k, v)
          /\ UNCHANGED lost
       \/ /\ \E k \in Key : HashDelete(k)
          /\ lost' = TRUE
    /\ kept' = kept \cap LiveKeys'
    /\ UNCHANGED <<kind, st, n, i, seen>>

RangeInit ==
    /\ Init
    /\ kind = "for" /\ st = "idle" /\ n = 0 /\ i = 0
    /\ seen = <<>> /\ kept = {} /\ lost = FALSE

\* A decoded hash is a new one, so only a loop yet to start runs over it.  It
\* lists members it does not hold when a field was refused, or when two keys
\* were read back as one symbol.
Decode ==
    /\ st = "idle" /\ MsgpackRoundTrip
    /\ lost' = (NumKeys' # Len(KeyOrder'))
    /\ kept' = LiveKeys'
    /\ UNCHANGED <<kind, st, n, i, seen>>

RangeNext == LoopStart \/ LoopTurn \/ LoopEnd \/ Update \/ Decode

\* The body ends and the loop goes on: the thread does not stop on its own.
RangeSpec ==
    /\ RangeInit /\ [][RangeNext]_<<vars, loopVars>>
    /\ WF_<<vars, loopVars>>(LoopTurn) /\ WF_<<vars, loopVars>>(LoopEnd)

-----------------------------------------------------------------------------
\* A hash nothing was deleted from, nor lost in decoding, is ranged over
\* exactly: never an error, and the keys it had when the loop began, each once, in insertion order,
\* whatever the body overwrites or inserts meanwhile.
PristineLoopExact ==
    ~lost /\ Findable =>
        /\ st \notin Errors
        /\ seen = SubSeq(KeyOrder, 1, i)
        /\ IsInjective(seen)
        /\ st = "done" => \A k \in kept : \E m \in DOMAIN seen :
                              <<seen[m], k>> \in Equal

\* A Go-style loop may be stopped by what its body deletes, but never by the
\* internal panic of HashPairi, unless a key is one that no lookup finds.
ForNeverInternal == kind = "for" /\ Findable => st # "internal"

\* Every loop ends, even one whose body inserts a key on every turn.
LoopTerminates == st = "running" ~> st \in {"done"} \cup Errors
=============================================================================
