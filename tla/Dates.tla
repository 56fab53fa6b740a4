------------------------------- MODULE Dates --------------------------------
(***************************************************************************)
(* The dates of zygo/dates.go and the stock exchange's calendar of         *)
(* calendar.go, which (date s) and (nextBusinessDay d) of time.go give to  *)
(* programs.  A Date is three numbers that are not checked against each    *)
(* other: 2016/02/31 is one, and Go's time package moves it on to          *)
(* 2016/03/02 when a time is made of it.                                   *)
(*                                                                         *)
(* A string is a separator and the fields it separates, each a sequence of *)
(* digits.  The month's name in 11-JUN-2015 is its number here.            *)
(***************************************************************************)
EXTENDS Integers, Sequences, SequencesExt

Date(year, month, day) == [Year |-> year, Month |-> month, Day |-> day]

NoDate == Date(0, 0, 0)   \* an error in place of a date, or a panic

-----------------------------------------------------------------------------
(* Go's time package: days are numbered from 1970/01/01 on. *)

DayNumber(d) ==
    LET y == IF d.Month <= 2 THEN d.Year - 1 ELSE d.Year
        yearday == (153 * ((d.Month + 9) % 12) + 2) \div 5 + d.Day - 1
    IN  365 * y + y \div 4 - y \div 100 + y \div 400 + yearday - 719468

DateOf(n) ==
    LET z == n + 719468
        day == z % 146097
        yoe == (day - day \div 1460 + day \div 36524 - day \div 146096) \div 365
        doy == day - (365 * yoe + yoe \div 4 - yoe \div 100)
        mp == (5 * doy + 2) \div 153
        month == IF mp < 10 THEN mp + 3 ELSE mp - 9
        year == yoe + 400 * (z \div 146097)
    IN  Date(IF month <= 2 THEN year + 1 ELSE year, month, doy - (153 * mp + 2) \div 5 + 1)

Sunday == 0
Monday == 1
Tuesday == 2
Wednesday == 3
Thursday == 4
Friday == 5
Saturday == 6

Weekday(n) == (n + Thursday) % 7
YearDay(d) == DayNumber(d) - DayNumber(Date(d.Year, 1, 1)) + 1

\* What time.ParseInLocation accepts.
Exists(d) == d = DateOf(DayNumber(d))

\* Nanoseconds in an int64 last for 106751 days before and after 1970.  In
\* thousandths of a day, a time and the UnixNano that it wraps to:
LastDay == 106751
UnixNano(n) == ((1000 * n + 106751991) % 213503982) - 106751991

-----------------------------------------------------------------------------
(* Printing and parsing. *)

Text(sep, fields) == [sep |-> sep, fields |-> fields]

\* n in decimal, with zeros in front up to the width.
Digits(n, width) ==
    LET len == CHOOSE k \in width..10 : n < 10^k /\ (k > width => n >= 10^(k - 1))
    IN  [i \in 1..len |-> (n \div 10^(len - i)) % 10]

Atoi(digits) == FoldLeft(LAMBDA n, digit : 10 * n + digit, 0, digits)

DateText(d, sep) == Text(sep, <<Digits(d.Year, 4), Digits(d.Month, 2), Digits(d.Day, 2)>>)

String(d) == DateText(d, "/")
To3339(d) == DateText(d, "-")
NoSlashString(d) == Digits(d.Year, 4) \o Digits(d.Month, 2) \o Digits(d.Day, 2)

StringNoSlashYYMMDD(d) ==
    LET yr == IF d.Year < 2000 THEN d.Year - 1900 ELSE d.Year - 2000
    IN  Digits(yr, 2) \o Digits(d.Month, 2) \o Digits(d.Day, 2)

\* The bounds that every parser checks; the first year is not the same.
Bounded(d, first) ==
    IF d.Year \in first..3000 /\ d.Month \in 1..12 /\ d.Day \in 1..31 THEN d ELSE NoDate

ParseDate(s, sep) ==
    IF s.sep # sep \/ Len(s.fields) # 3 THEN NoDate
    ELSE Bounded(Date(Atoi(s.fields[1]), Atoi(s.fields[2]), Atoi(s.fields[3])), 1970)

ParseMMDDYYYY(s) ==
    IF s.sep # "/" \/ Len(s.fields) # 3 THEN NoDate
    ELSE Bounded(Date(Atoi(s.fields[3]), Atoi(s.fields[1]), Atoi(s.fields[2])), 1970)

ParseYYYYMMDDNoSlash(s) ==
    IF Len(s) # 8 THEN NoDate
    ELSE Bounded(Date(Atoi(SubSeq(s, 1, 4)), Atoi(SubSeq(s, 5, 6)), Atoi(SubSeq(s, 7, 8))), 1970)

\* Mutant of Century: the window starts a year late.
CenturyLate(yy) == IF yy <= 90 THEN yy + 2000 ELSE yy + 1900

Century(yy) == IF yy < 90 THEN yy + 2000 ELSE yy + 1900

ParseYYMMDDNoSlash(s) ==
    IF Len(s) # 6 THEN NoDate
    ELSE Bounded(Date(Century(Atoi(SubSeq(s, 1, 2))), Atoi(SubSeq(s, 3, 4)),
                      Atoi(SubSeq(s, 5, 6))), 1970)

ParseYYDDWithMonthSupplied(s, month) ==
    IF Len(s) # 4 THEN NoDate
    ELSE Bounded(Date(Century(Atoi(SubSeq(s, 1, 2))), month, Atoi(SubSeq(s, 3, 4))), 1970)

\* SlashDateTo3339 and DashDateTo3339 ask for fields of 4, 2 and 2 digits.
DateTo3339(s, sep) ==
    IF s.sep # sep \/ Len(s.fields) # 3 \/ [i \in 1..3 |-> Len(s.fields[i])] # <<4, 2, 2>>
    THEN NoDate
    ELSE Bounded(Date(Atoi(s.fields[1]), Atoi(s.fields[2]), Atoi(s.fields[3])), 1900)

\* DD-MON-YYYY.
DashMonthDate(s) ==
    IF s.sep # "-" \/ Len(s.fields) # 3 THEN NoDate
    ELSE Bounded(Date(Atoi(s.fields[3]), Atoi(s.fields[2]), Atoi(s.fields[1])), 1900)

FromIntDate(n) == Date(n \div 10000, (n % 10000) \div 100, n % 100)

-----------------------------------------------------------------------------
(* Order, differences and neighbours. *)

DateBefore(a, b) ==
    \/ a.Year < b.Year
    \/ a.Year = b.Year /\ a.Month < b.Month
    \/ a.Year = b.Year /\ a.Month = b.Month /\ a.Day < b.Day

DateAfter(a, b) ==
    \/ a.Year > b.Year
    \/ a.Year = b.Year /\ a.Month > b.Month
    \/ a.Year = b.Year /\ a.Month = b.Month /\ a.Day > b.Day

DatesEqual(a, b) == a = b

\* Time.Sub stops at the longest duration.
DaysBetweenAminusB(a, b) ==
    LET n == DayNumber(a) - DayNumber(b)
    IN  IF n > LastDay THEN LastDay ELSE IF n < -LastDay THEN -LastDay ELSE n

\* DayDifference takes the difference of two UnixNanos and rounds it, half a
\* day away from zero; it panics on a date that does not exist.
DayDifference(a, b) ==
    LET thousandths == UnixNano(DayNumber(a)) - UnixNano(DayNumber(b))
    IN  IF thousandths >= 0 THEN (thousandths + 500) \div 1000
        ELSE -((500 - thousandths) \div 1000)

AddDays(d, n) == DateOf(DayNumber(d) + n)
NextDate(d) == AddDays(d, 1)
PrevDate(d) == AddDays(d, -1)

-----------------------------------------------------------------------------
(* calendar.go: the days on which the New York Stock Exchange is open. *)

\* The day of the year of Easter Monday, from 1901 on.
easterMondayArray ==
    <<
      98, 90, 103, 95, 114, 106, 91, 111, 102,
      87, 107, 99, 83, 103, 95, 115, 99, 91, 111,
      96, 87, 107, 92, 112, 103, 95, 108, 100, 91,
      111, 96, 88, 107, 92, 112, 104, 88, 108, 100,
      85, 104, 96, 116, 101, 92, 112, 97, 89, 108,
      100, 85, 105, 96, 109, 101, 93, 112, 97, 89,
      109, 93, 113, 105, 90, 109, 101, 86, 106, 97,
      89, 102, 94, 113, 105, 90, 110, 101, 86, 106,
      98, 110, 102, 94, 114, 98, 90, 110, 95, 86,
      106, 91, 111, 102, 94, 107, 99, 90, 103, 95,
      115, 106, 91, 111, 103, 87, 107, 99, 84, 103,
      95, 115, 100, 91, 111, 96, 88, 107, 92, 112,
      104, 95, 108, 100, 92, 111, 96, 88, 108, 92,
      112, 104, 89, 108, 100, 85, 105, 96, 116, 101,
      93, 112, 97, 89, 109, 100, 85, 105, 97, 109,
      101, 93, 113, 97, 89, 109, 94, 113, 105, 90,
      110, 101, 86, 106, 98, 89, 102, 94, 114, 105,
      90, 110, 102, 86, 106, 98, 111, 102, 94, 114,
      99, 90, 110, 95, 87, 106, 91, 111, 103, 94,
      107, 99, 91, 103, 95, 115, 107, 91, 111, 103,
      88, 108, 100, 85, 105, 96, 109, 101, 93, 112,
      97, 89, 109, 93, 113, 105, 90, 109, 101, 86,
      106, 97, 89, 102, 94, 113, 105, 90, 110, 101,
      86, 106, 98, 110, 102, 94, 114, 98, 90, 110,
      95, 86, 106, 91, 111, 102, 94, 107, 99, 90,
      103, 95, 115, 106, 91, 111, 103, 87, 107, 99,
      84, 103, 95, 115, 100, 91, 111, 96, 88, 107,
      92, 112, 104, 95, 108, 100, 92, 111, 96, 88,
      108, 92, 112, 104, 89, 108, 100, 85, 105, 96,
      116, 101, 93, 112, 97, 89, 109, 100, 85, 105
    >>

\* Mutant of easterMonday: the index is not moved to the table's first year.
easterMondayLate(year) == easterMondayArray[year - 1901]

easterMonday(year) == easterMondayArray[year - 1900]

\* The years the table has; others make easterMonday panic.
InTable(year) == year - 1900 \in DOMAIN easterMondayArray

isWashingtonBirthday(d, m, y, w) ==
    /\ m = 2
    /\ IF y >= 1971 THEN d \in 15..21 /\ w = Monday
       ELSE d = 22 \/ (d = 23 /\ w = Monday) \/ (d = 21 /\ w = Friday)

isMemorialDay(d, m, y, w) ==
    /\ m = 5
    /\ IF y >= 1971 THEN d >= 25 /\ w = Monday
       ELSE d = 30 \/ (d = 31 /\ w = Monday) \/ (d = 29 /\ w = Friday)

isLaborDay(d, m, y, w) == d <= 7 /\ w = Monday /\ m = 9

\* Good Friday, and the days that every year has.
isYearlyHoliday(d, m, y, w, dd) ==
    \/ m = 1 /\ (d = 1 \/ (d = 2 /\ w = Monday))
    \/ isWashingtonBirthday(d, m, y, w)
    \/ dd = easterMonday(y) - 3
    \/ isMemorialDay(d, m, y, w)
    \/ m = 7 /\ (d = 4 \/ (d = 5 /\ w = Monday) \/ (d = 3 /\ w = Friday))
    \/ isLaborDay(d, m, y, w)
    \/ m = 11 /\ d \in 22..28 /\ w = Thursday
    \/ m = 12 /\ (d = 25 \/ (d = 26 /\ w = Monday) \/ (d = 24 /\ w = Friday))

isKingBirthday(d, m, y, w) == y >= 1998 /\ d \in 15..21 /\ w = Monday /\ m = 1

isElectionDay(d, m, y, w) ==
    (y <= 1968 \/ (y <= 1980 /\ y % 4 = 0)) /\ m = 11 /\ d <= 7 /\ w = Tuesday

SpecialClosings ==
    {<<2012, 10, 29>>, <<2012, 10, 30>>, <<2007, 1, 2>>, <<2004, 6, 11>>,
     <<2001, 9, 11>>, <<2001, 9, 12>>, <<2001, 9, 13>>, <<2001, 9, 14>>,
     <<1994, 4, 27>>, <<1985, 9, 27>>, <<1977, 7, 14>>, <<1973, 1, 25>>,
     <<1972, 12, 28>>, <<1969, 7, 21>>, <<1969, 3, 31>>, <<1969, 2, 10>>,
     <<1968, 7, 5>>, <<1968, 4, 9>>, <<1963, 11, 25>>, <<1961, 5, 29>>,
     <<1958, 12, 26>>, <<1954, 12, 24>>, <<1956, 12, 24>>, <<1965, 12, 24>>}

isSpecialClosing(d, m, y, w, dd) ==
    \/ <<y, m, d>> \in SpecialClosings
    \/ y = 1968 /\ dd >= 163 /\ w = Wednesday

\* For a date that exists, in a year of the table.
IsBusinessDay(date) ==
    LET w == Weekday(DayNumber(date))
        dd == YearDay(date)
        y == date.Year
        m == date.Month
        d == date.Day
    IN  ~ \/ w \in {Saturday, Sunday}
          \/ isYearlyHoliday(d, m, y, w, dd)
          \/ isKingBirthday(d, m, y, w)
          \/ isElectionDay(d, m, y, w)
          \/ isSpecialClosing(d, m, y, w, dd)

MaxClosed == 7   \* bound: the loops below look at no more days than these

Nearest(d, step, days) ==
    LET open == {i \in days : LET date == DateOf(DayNumber(d) + step * i)
                             IN  ~InTable(date.Year) \/ IsBusinessDay(date)}
        date == DateOf(DayNumber(d) + step * CHOOSE i \in open : \A j \in open : i <= j)
    IN  IF InTable(date.Year) THEN date ELSE NoDate

\* Mutant of FirstOpen: the search starts with the day itself.
FirstOpenToday(d, step) == Nearest(d, step, 0..MaxClosed)

\* The loops look at one day after the other, and panic when they come to a
\* year that is not in the table.
FirstOpen(d, step) == Nearest(d, step, 1..MaxClosed)

NextBusinessDate(d) == FirstOpen(d, 1)
PrevBusinessDate(d) == FirstOpen(d, -1)

\* (date s) and (nextBusinessDay d).
AsDateFunction(s) == ParseDate(s, "/")
NextBusinessDayFunction(d) == NextBusinessDate(d)
=============================================================================
