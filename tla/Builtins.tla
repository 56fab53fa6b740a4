------------------------------ MODULE Builtins ------------------------------
(***************************************************************************)
(* Builtins at work beside the symbol table: symbols are interned and      *)
(* generated as in Symbols, and when the names of the program are interned *)
(* it calls builtins of Numbers, on numbers and on those symbols, and of   *)
(* Dates.  The properties ask whether what the builtins compute one by one *)
(* fits together.                                                          *)
(***************************************************************************)
EXTENDS Symbols, Numbers, Dates, FiniteSets

CONSTANTS
    Value,        \* values that are not symbols
    IntegralPair,    \* pairs of integers, chars and unsigned integers
    SampleDate,   \* dates, some of which do not exist
    Year          \* years

VARIABLE call     \* the builtin called last, and its arguments

vars == <<symtable, revsymtable, nextsymbol, crossed, call>>

NoCall == [fn |-> "none", args |-> <<>>]

\* All names of the program have been interned by the host's environment and
\* nothing has been generated.
Settled ==
    /\ DOMAIN symtable = Plain
    /\ nextsymbol = [e \in {Root} |-> First + Cardinality(Plain)]

Symbol == {<<"sym", symtable[name]>> : name \in DOMAIN symtable}

Call(fn, args) == call' = [fn |-> fn, args |-> args]

CallCompare == \E a, b \in Value \cup Symbol : Call("compare", <<a, b>>)
CallArithmetic == \E ab \in IntegralPair : Call("arithmetic", ab)
CallDates == \E a, b \in SampleDate : Call("dates", <<a, b>>)
CallBusiness == \E y \in Year : Call("business", <<y>>)

CallBuiltin ==
    /\ call = NoCall /\ Settled
    /\ CallCompare \/ CallArithmetic \/ CallDates \/ CallBusiness
    /\ UNCHANGED symbolVars

Return ==
    /\ call # NoCall
    /\ call' = NoCall
    /\ UNCHANGED symbolVars

Init == SymbolsInit /\ call = NoCall

Next ==
    \/ call = NoCall /\ SymbolsNext /\ UNCHANGED call
    \/ CallBuiltin
    \/ Return

Spec == Init /\ [][Next]_vars

-----------------------------------------------------------------------------
\* Where Compare is no order: NaN, the kinds that only know equal and
\* different, integers whose difference does not fit, and with the null at
\* its end a list that is the beginning of the other.
Unordered == {"nan", "uint", "sentinel", "hash", "type", "pointer", "time"}

Overflows(a, b) ==
    {a[1], b[1]} \subseteq IntKinds /\ Abs(a[2] - b[2]) >= 2^(W - 1)

RECURSIVE Ordered(_, _)
Ordered(a, b) ==
    IF a[1] = "pair" /\ b[1] = "pair"
    THEN Ordered(a[2], b[2]) /\ (Compare(a[2], b[2]) = 0 => Ordered(a[3], b[3]))
    ELSE {a[1], b[1]} \cap Unordered = {} /\ ~Overflows(a, b)

\* An integer that is rounded when it meets a float.
Exact(v) == v[1] \in IntKinds => FloatOf(v)[2] = v[2] * 2^S

Converse(res) == IF res = Incomparable THEN res ELSE -res

\* Whatever the kinds, Compare orders values: swapping the operands turns
\* the answer round, and what is not above b, which is not above c, is not
\* above c.  A float that is NaN is different from all numbers.
CompareIsOrder ==
    call.fn = "compare" =>
        LET a == call.args[1]
            b == call.args[2]
            ab == Compare(a, b)
        IN  /\ Ordered(a, b) => Compare(b, a) = Converse(ab)
            /\ (Ordered(a, b) /\ ab \in {-1, 0}) =>
                  \A c \in Value \cup Symbol :
                      LET bc == Compare(b, c)
                      IN  ( /\ Ordered(b, c) /\ Ordered(a, c) /\ bc \in {-1, 0}
                            /\ Exact(a) /\ Exact(b) /\ Exact(c) )
                          => Compare(a, c) = Min({ab, bc})
            /\ (NaN \in {a, b} /\ a[1] \in FloatKinds /\ ab # Incomparable) =>
                  \A name \in {"<", "<=", "==", "!=", ">=", ">"} :
                      CompareFunction(name, a, b) = <<"bool", IF name = "!=" THEN 1 ELSE 0>>

\* mod, -, /, * and + of numbers of the same or of different kinds fit
\* together: a - (mod a b) is divided by b without a rest, and leads back to
\* a; / gives a float just when mod leaves a rest, and both panic on a zero.
\* The bit operations share out the bits of a and b.
IntegersAgree ==
    call.fn = "arithmetic" =>
        LET a == call.args[1]
            b == call.args[2]
            r == IntegerDo("mod", a, b)
            q == NumericFunction("/", <<NumericDo("-", a, r), b>>)
            Same(x, y) == x[1] \in Integral /\ (x[2] - y[2]) % 2^R = 0
                          /\ ("char" \notin {a[1], b[1]} => (x[2] - y[2]) % 2^W = 0)
            Bitwise(op) == IntegerDo(op, a, b)[2]
        IN  /\ (r = Panic) = (b[2] % 2^W = 0)
            /\ (r = Panic) = (NumericDo("/", a, b) = Panic)
            /\ r # Panic =>
                  /\ q[1] \in Integral
                  /\ Same(NumericDo("+", NumericDo("*", q, b), r), a)
                  /\ (NumericDo("/", a, b)[1] = "float") = (r[2] # 0)
                  /\ Abs(r[2]) < (IF "uint" \in {a[1], b[1]} THEN b[2] % 2^W ELSE Abs(b[2]))
            /\ (Bitwise("bitAnd") + Bitwise("bitOr") - a[2] - b[2]) % 2^W = 0
            /\ (Bitwise("bitXor") + Bitwise("bitAnd") - Bitwise("bitOr")) % 2^W = 0

\* Every parser reads what its printer writes, with two digits for the year
\* only from 1990 to 2089.  Dates that exist are ordered as their days are,
\* have a day before and after them, and are as far apart as both functions
\* for that say, as long as the nanoseconds fit into an int64.
DatesAgree ==
    call.fn = "dates" =>
        LET a == call.args[1]
            b == call.args[2]
            n == DayNumber(a) - DayNumber(b)
            mm == Digits(a.Month, 2)
            dd == Digits(a.Day, 2)
        IN  /\ ParseDate(String(a), "/") = a /\ ParseDate(To3339(a), "-") = a
            /\ DateTo3339(String(a), "/") = a /\ DateTo3339(To3339(a), "-") = a
            /\ ParseYYYYMMDDNoSlash(NoSlashString(a)) = a
            /\ FromIntDate(Atoi(NoSlashString(a))) = a
            /\ ParseMMDDYYYY(Text("/", <<mm, dd, Digits(a.Year, 4)>>)) = a
            /\ DashMonthDate(Text("-", <<dd, mm, Digits(a.Year, 4)>>)) = a
            /\ (ParseYYMMDDNoSlash(StringNoSlashYYMMDD(a)) = a) = (a.Year \in 1990..2089)
            /\ (ParseYYDDWithMonthSupplied(Digits(a.Year % 100, 2) \o dd, a.Month) = a)
                 = (a.Year \in 1990..2089)
            /\ (Exists(a) /\ Exists(b)) =>
                  /\ DateBefore(a, b) = (n < 0)
                  /\ DateAfter(a, b) = (n > 0)
                  /\ DatesEqual(a, b) = (n = 0)
                  /\ DateBefore(PrevDate(a), a) /\ NextDate(PrevDate(a)) = a
                  /\ DateAfter(NextDate(a), a) /\ PrevDate(NextDate(a)) = a
                  /\ {DayNumber(a), DayNumber(b)} \subseteq 0..LastDay =>
                        DaysBetweenAminusB(a, b) = n /\ DayDifference(a, b) = n

-----------------------------------------------------------------------------
(* The exchange's holidays by their rules, as days counted from 1970. *)

NthWeekday(y, m, w, k) ==
    LET first == DayNumber(Date(y, m, 1))
    IN  first + ((w - Weekday(first)) % 7) + 7 * (k - 1)

LastMonday(y, m) == DayNumber(Date(y, m, 31)) - ((Weekday(DayNumber(Date(y, m, 31))) - Monday) % 7)

OnSunday(n) == IF Weekday(n) = Sunday THEN n + 1 ELSE n
Observed(n) == IF Weekday(n) = Saturday THEN n - 1 ELSE OnSunday(n)

\* Easter Sunday of the Gregorian calendar, by the golden number, the moon's
\* age and the weekday.
Easter(y) ==
    LET c == y \div 100
        h == (19 * (y % 19) + c - c \div 4 - (c - (c + 8) \div 25 + 1) \div 3 + 15) % 30
        l == (32 + 2 * (c % 4) + 2 * ((y % 100) \div 4) - h - ((y % 100) % 4)) % 7
        m == ((y % 19) + 11 * h + 22 * l) \div 451
        md == h + l - 7 * m + 114
    IN  DayNumber(Date(y, md \div 31, (md % 31) + 1))

Holidays(y) ==
    {OnSunday(DayNumber(Date(y, 1, 1))), Easter(y) - 2,
     Observed(DayNumber(Date(y, 7, 4))), Observed(DayNumber(Date(y, 12, 25))),
     NthWeekday(y, 9, Monday, 1), NthWeekday(y, 11, Thursday, 4)}
    \cup (IF y >= 1971
          THEN {NthWeekday(y, 2, Monday, 3), LastMonday(y, 5)}
          ELSE {Observed(DayNumber(Date(y, 2, 22))), Observed(DayNumber(Date(y, 5, 30)))})
    \cup (IF y >= 1998 THEN {NthWeekday(y, 1, Monday, 3)} ELSE {})
    \cup (IF y \in {1972, 1976, 1980} THEN {NthWeekday(y, 11, Tuesday, 1)} ELSE {})
    \cup {DayNumber(Date(c[1], c[2], c[3])) : c \in SpecialClosings}

Accepted(y) == {Date(y, m, d) : m \in 1..12, d \in 1..31}

\* From 1970 to 2199 the exchange is closed on weekends and holidays and on no
\* other day, the table of Easters among them, and nextBusinessDay finds the
\* first open day after every date that can be written, with the business day
\* before it back at the start; but in the last days of 2199 it panics.
BusinessDays ==
    call.fn = "business" =>
        LET y == call.args[1]
        IN  \A d \in Accepted(y) :
              LET n == DayNumber(d)
                  next == NextBusinessDate(d)
                  open == Weekday(n) \notin {Saturday, Sunday} /\ n \notin Holidays(DateOf(n).Year)
              IN  /\ Exists(d) => IsBusinessDay(d) = open
                  /\ (next = NoDate) = (n >= DayNumber(Date(2199, 12, 31)))
                  /\ next # NoDate =>
                        /\ IsBusinessDay(next) /\ DayNumber(next) > n
                        /\ (Exists(d) /\ open) => PrevBusinessDate(next) = d
=============================================================================
