------------------------------- MODULE Numbers ------------------------------
(***************************************************************************)
(* Comparison and arithmetic of zygo/comparisons.go, numerictower.go and   *)
(* the functions of functions.go that call them.  Integers are W bits and  *)
(* a char R bits wide, as Go's int64 and rune are 64 and 32; a float has a *)
(* mantissa of P bits and is a multiple of 2^-S, rounded to even, with the *)
(* infinities and NaN but neither a negative zero nor overflow.  The power *)
(* operator is Go's math.Pow and left out.                                 *)
(*                                                                         *)
(* A value is a pair of its kind and an integer: the number itself; for a  *)
(* float, the number times 2^S; for a symbol, its number in the symbol     *)
(* table; for the other kinds, which of them it is.  Pairs and arrays hold *)
(* values.                                                                 *)
(***************************************************************************)
EXTENDS Integers, Sequences, SequencesExt

CONSTANTS
    W, R,   \* width of an integer and of a char
    P, S,   \* bits of a mantissa, bits behind the point
    Nanos   \* nanoseconds of a second

ASSUME NumbersAssumption ==
    /\ W \in Nat /\ R \in 1..W /\ P \in Nat \ {0} /\ S \in Nat
    /\ Nanos \in Nat \ {0}

Wrap(x, w) == ((x + 2^(w - 1)) % 2^w) - 2^(w - 1)

Int64(x) == <<"int", Wrap(x, W)>>
Uint64(x) == <<"uint", x % 2^W>>
Char(x) == <<"char", Wrap(x, R)>>
Integer(kind, x) == IF kind = "uint" THEN Uint64(x) ELSE Int64(x)
NaN == <<"nan", 0>>
Inf(sign) == <<"inf", sign>>
Time(x) == <<"time", Wrap(x, W)>>
Null == <<"sentinel", 0>>
Error == <<"error", 0>>
Panic == <<"panic", 0>>   \* a Go panic, which the caller turns into an error

FloatKinds == {"float", "nan", "inf"}
IntKinds == {"int", "char"}
Numeric == FloatKinds \cup IntKinds \cup {"uint"}

Abs(x) == IF x < 0 THEN -x ELSE x

signum(x) == CASE x > 0 -> 1 [] x < 0 -> -1 [] OTHER -> 0

\* Go's quotient and remainder truncate toward zero.
Quotient(a, b) == signum(a) * signum(b) * (Abs(a) \div Abs(b))
Remainder(a, b) == a - b * Quotient(a, b)

RoundEven(p, q) ==
    LET d == p \div q
        r == p % q
    IN  IF 2 * r < q \/ (2 * r = q /\ d % 2 = 0) THEN d ELSE d + 1

\* The float next to p / q, for q > 0.
Float(p, q) ==
    LET scaled == Abs(p) * 2^S
        k == CHOOSE i \in 0..4 * W :
                /\ RoundEven(scaled, q * 2^i) <= 2^P
                /\ i > 0 => RoundEven(scaled, q * 2^(i - 1)) > 2^P
    IN  <<"float", signum(p) * RoundEven(scaled, q * 2^k) * 2^k>>

FloatOf(v) == IF v[1] \in FloatKinds THEN v ELSE Float(v[2], 1)

-----------------------------------------------------------------------------
(* comparisons.go *)

\* What Compare yields beside -1, 0, 1, 2 and 3: an error.
Incomparable == 4

\* signumFloat(a - b): NaN has no sign, and Inf - Inf is NaN.
signumFloat(a, b) ==
    LET Rank(f) == IF f[1] = "inf" THEN f[2] * 2^(4 * W) ELSE f[2]
    IN  IF NaN \in {a, b} THEN 0 ELSE signum(Rank(a) - Rank(b))

\* 2 for one NaN and 3 for two.
compareFloat(f, e) ==
    LET nanCount == Len(SelectSeq(<<f, e>>, LAMBDA x : x = NaN))
    IN  IF e[1] \notin FloatKinds \cup IntKinds THEN Incomparable
        ELSE IF nanCount > 0 THEN 1 + nanCount
        ELSE signumFloat(f, FloatOf(e))

\* Mutant of compareInt: the operands are swapped in the mixed case.
compareIntSwapped(i, e) ==
    CASE e[1] \in IntKinds -> signum(Wrap(i[2] - e[2], W))
      [] e[1] \in FloatKinds -> signumFloat(e, FloatOf(i))
      [] OTHER -> Incomparable

\* compareInt and compareChar subtract and look at the sign.  An integer has
\* no case for NaN.
compareInt(i, e) ==
    CASE e[1] \in IntKinds -> signum(Wrap(i[2] - e[2], W))
      [] e[1] \in FloatKinds -> signumFloat(FloatOf(i), e)
      [] OTHER -> Incomparable

\* The difference of two uint64 is never below zero.
compareUint64(i, e) ==
    IF e[1] = "uint" THEN signum((i[2] - e[2]) % 2^W) ELSE Incomparable

RECURSIVE Compare(_, _)

compareArray(a, b) ==
    LET length == Min({Len(a), Len(b)})
        deciding == {i \in 1..length : Compare(a[i], b[i]) # 0}
    IN  IF deciding = {} THEN signum(Len(a) - Len(b))
        ELSE Compare(a[Min(deciding)], b[Min(deciding)])

comparePair(a, b) ==
    LET head == Compare(a[2], b[2])
    IN  IF head # 0 THEN head ELSE Compare(a[3], b[3])

\* Two hashes of one type are equal whatever they hold; times are compared
\* by the second.
CompareAlike(a, b) ==
    CASE a[1] \in {"bool", "str", "sym"} -> signum(a[2] - b[2])
      [] a[1] = "pair" -> comparePair(a, b)
      [] a[1] = "array" -> compareArray(a[2], b[2])
      [] a[1] \in {"hash", "type", "pointer"} -> IF a = b THEN 0 ELSE 1
      [] a[1] = "time" -> IF a[2] \div Nanos = b[2] \div Nanos THEN 0 ELSE -1

Compare(a, b) ==
    CASE a[1] \in IntKinds -> compareInt(a, b)
      [] a[1] = "uint" -> compareUint64(a, b)
      [] a[1] \in FloatKinds -> compareFloat(a, b)
      [] a[1] = "sentinel" -> IF a = Null /\ b = Null THEN 0 ELSE -1
      [] OTHER -> IF a[1] = b[1] THEN CompareAlike(a, b) ELSE Incomparable

\* (== a b), (< a b) and the others, as sets of the results they accept.
Accepts(name) ==
    CASE name = "<" -> {-1}
      [] name = "<=" -> {-1, 0}
      [] name = "==" -> {0}
      [] name = "!=" -> {-1, 1, 2, 3}
      [] name = ">=" -> {0, 1}
      [] name = ">" -> {1}

CompareFunction(name, a, b) ==
    LET res == Compare(a, b)
    IN  IF res = Incomparable THEN Error
        ELSE <<"bool", IF res \in Accepts(name) THEN 1 ELSE 0>>

-----------------------------------------------------------------------------
(* numerictower.go *)

Bits(x) == {i \in 0..W - 1 : (x \div 2^i) % 2 = 1}
OfBits(T) == MapThenSumSet(LAMBDA i : 2^i, T)

\* A shift by W or more leaves nothing, or the sign.
IntegerOp(op, kind, a, b) ==
    LET n == Min({b % 2^W, W})
        A == Bits(a)
        B == Bits(b)
    IN  CASE op = "sll" -> Integer(kind, a * 2^n)
          [] op = "sra" -> Integer(kind, a \div 2^n)
          [] op = "srl" -> Integer(kind, (a % 2^W) \div 2^n)
          [] op = "mod" -> IF b = 0 THEN Panic ELSE Integer(kind, Remainder(a, b))
          [] op = "bitAnd" -> Integer(kind, OfBits(A \cap B))
          [] op = "bitOr" -> Integer(kind, OfBits(A \cup B))
          [] op = "bitXor" -> Integer(kind, OfBits((A \cup B) \ (A \cap B)))

Integral == IntKinds \cup {"uint"}

\* Mutant of IntegerDo: an unsigned second operand is taken as signed.
IntegerDoSigned(op, a, b) ==
    IF ~({a[1], b[1]} \subseteq Integral) THEN Error
    ELSE IF a[1] = "uint" THEN IntegerOp(op, "uint", a[2], b[2] % 2^W)
    ELSE IntegerOp(op, "int", a[2], b[2])

\* UintegerDo takes over as soon as one operand is unsigned.
IntegerDo(op, a, b) ==
    IF ~({a[1], b[1]} \subseteq Integral) THEN Error
    ELSE IF "uint" \in {a[1], b[1]} THEN IntegerOp(op, "uint", a[2] % 2^W, b[2] % 2^W)
    ELSE IntegerOp(op, "int", a[2], b[2])

ComplementFunction(v) ==
    CASE v[1] = "int" -> Int64(-v[2] - 1)
      [] v[1] = "char" -> Char(-v[2] - 1)
      [] OTHER -> Error

FloatAdd(a, b) ==
    IF NaN \in {a, b} \/ (a[1] = "inf" /\ b[1] = "inf" /\ a # b) THEN NaN
    ELSE IF "inf" \in {a[1], b[1]} THEN (IF a[1] = "inf" THEN a ELSE b)
    ELSE Float(a[2] + b[2], 2^S)

FloatMult(a, b) ==
    IF NaN \in {a, b} \/ ("inf" \in {a[1], b[1]} /\ 0 \in {a[2], b[2]}) THEN NaN
    ELSE IF "inf" \in {a[1], b[1]} THEN Inf(signum(a[2]) * signum(b[2]))
    ELSE Float(a[2] * b[2], 2^(2 * S))

FloatDiv(a, b) ==
    IF NaN \in {a, b} \/ (a[1] = "inf" /\ b[1] = "inf") \/ (a[2] = 0 /\ b[2] = 0) THEN NaN
    ELSE IF a[1] = "inf" THEN Inf(IF b[2] < 0 THEN -a[2] ELSE a[2])
    ELSE IF b[1] = "inf" THEN Float(0, 1)
    ELSE IF b[2] = 0 THEN Inf(signum(a[2]))
    ELSE Float(a[2] * signum(b[2]), Abs(b[2]))

NumericFloatDo(op, a, b) ==
    CASE op = "+" -> FloatAdd(a, b)
      [] op = "-" -> FloatAdd(a, <<b[1], -b[2]>>)
      [] op = "*" -> FloatMult(a, b)
      [] op = "/" -> FloatDiv(a, b)

\* NumericIntDo and NumericUint64Do: a quotient that is not exact is a float,
\* a division by zero panics on the remainder.
NumericIntDo(op, kind, a, b) ==
    CASE op = "+" -> Integer(kind, a + b)
      [] op = "-" -> Integer(kind, a - b)
      [] op = "*" -> Integer(kind, a * b)
      [] op = "/" -> IF b = 0 THEN Panic
                     ELSE IF Remainder(a, b) = 0 THEN Integer(kind, Quotient(a, b))
                     ELSE FloatDiv(Float(a, 1), Float(b, 1))

\* A time and a number of nanoseconds, or two times.  A float without an
\* integer part becomes the least integer, as on amd64.
NumericMatchTime(op, a, b) ==
    LET ub == CASE b[1] = "float" -> Quotient(b[2], 2^S)
                [] b[1] \in {"nan", "inf"} -> -2^(W - 1)
                [] OTHER -> b[2]
    IN  IF b[1] \notin FloatKinds \cup {"int", "time"} THEN Error
        ELSE CASE op = "+" -> Time(a[2] + ub)
               [] op = "-" -> Time(a[2] - ub)
               [] op = "*" -> Time(a[2] * ub)
               [] op = "/" -> IF ub = 0 THEN Panic ELSE Time(Quotient(a[2], ub))

\* NumericMatchChar: a char stays a char with an integer behind it.
OfKind(v, kind) == IF kind = "char" /\ v[1] = "int" THEN Char(v[2]) ELSE v

\* Floats take over before unsigned integers, and those before signed ones.
NumericDo(op, a, b) ==
    IF a[1] = "time" THEN NumericMatchTime(op, a, b)
    ELSE IF ~({a[1], b[1]} \subseteq Numeric) THEN Error
    ELSE IF {a[1], b[1]} \cap FloatKinds # {} THEN NumericFloatDo(op, FloatOf(a), FloatOf(b))
    ELSE IF "uint" \in {a[1], b[1]} THEN NumericIntDo(op, "uint", a[2] % 2^W, b[2] % 2^W)
    ELSE OfKind(NumericIntDo(op, "int", a[2], b[2]), a[1])

NumericFunction(op, args) ==
    FoldLeft(LAMBDA accum, x : IF accum \in {Error, Panic} THEN accum
                               ELSE NumericDo(op, accum, x), args[1], Tail(args))
=============================================================================
