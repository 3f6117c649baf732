------------------------------ MODULE RdsClock -----------------------------
(***************************************************************************)
(* rdsd: date and time from a group of type 4A                             *)
(* (RDSdecoder::set_datetime_strings()).  The group has the day as a       *)
(* modified Julian date, hour and minute, and the difference of the local  *)
(* time in half hours.  A date is a record of year, month and day.         *)
(***************************************************************************)
EXTENDS Integers

month_days == <<31, 28, 31, 30, 31, 30, 31, 31, 30, 31, 30, 31>>

Leap(year) == year % 4 = 0

\* A conversion from double to int cuts off the fraction.
Cut(n, d) == IF n >= 0 THEN n \div d ELSE -((-n) \div d)

\* The code computes with fractions of days; here in 1/100 and 1/10000.
Year0(jul_date)  == Cut(jul_date * 100 - 1507820, 36525)
Days0(y0)        == Cut(y0 * 36525, 100)
Month0(jul_date) ==
    Cut(jul_date * 10000 - 149561000 - Days0(Year0(jul_date)) * 10000, 306001)
Day0(jul_date)   ==
    jul_date - 14956 - Days0(Year0(jul_date)) - Cut(Month0(jul_date) * 306001, 10000)

\* Fault: January and February stay in the year before.
UtcDateFault(jul_date) ==
    LET M == Month0(jul_date)
        K == IF M = 14 THEN 1 ELSE 0
    IN  [Y |-> Year0(jul_date) + K + 1900, M |-> M - 1 - K * 12, D |-> Day0(jul_date)]

UtcDate(jul_date) ==
    LET M == Month0(jul_date)
        K == IF M \in {14, 15} THEN 1 ELSE 0
    IN  [Y |-> Year0(jul_date) + K + 1900, M |-> M - 1 - K * 12, D |-> Day0(jul_date)]

\* The day before; the length of its month.
PreviousDay(d) ==
    IF d.D > 1
    THEN [d EXCEPT !.D = @ - 1]
    ELSE LET Y == IF d.M = 1 THEN d.Y - 1 ELSE d.Y
             M == IF d.M = 1 THEN 12 ELSE d.M - 1
         IN  [Y |-> Y, M |-> M, D |-> IF Leap(Y) /\ M = 2 THEN 29 ELSE month_days[M]]

\* The day after: the day of the month goes on counting when the month ends.
NextDay(d) ==
    LET Dmax  == IF Leap(d.Y) /\ d.M = 2 THEN 29 ELSE month_days[d.M]
        after == [d EXCEPT !.D = @ + 1]
    IN  IF d.D < Dmax
        THEN after
        ELSE IF d.M < 12
        THEN [after EXCEPT !.M = @ + 1]
        ELSE [after EXCEPT !.M = 1, !.Y = @ + 1]

\* utc_minute + utc_offset * 30, as hours and minutes of the local day.
LocalMinutes(hour, minute, offset) == hour * 60 + minute + offset * 30

LocalDate(jul_date, hour, minute, offset) ==
    LET m == LocalMinutes(hour, minute, offset) \div 60
        d == UtcDate(jul_date)
    IN  CASE m < 0       -> PreviousDay(d)
          [] m \in 0..23 -> d
          [] m > 23      -> NextDay(d)

LocalTime(hour, minute, offset) ==
    LET m == LocalMinutes(hour, minute, offset)
    IN  [hour |-> (m \div 60) % 24, minute |-> m % 60]

-----------------------------------------------------------------------------
(* Reference: days counted from 17 November 1858, the day 0 of the modified *)
(* Julian date, over the years in which every fourth is a leap year.        *)

days_before == <<0, 31, 59, 90, 120, 151, 181, 212, 243, 273, 304, 334>>

DaysBeforeMonth(y, m) == days_before[m] + (IF m > 2 /\ Leap(y) THEN 1 ELSE 0)

\* 1 January 1901 is the day 15385.
JulDate(d) ==
    15385 + (d.Y - 1901) * 365 + (d.Y - 1901) \div 4 + DaysBeforeMonth(d.Y, d.M) + d.D - 1

IsDate(d) ==
    /\ d.M \in 1..12
    /\ d.D \in 1..(IF Leap(d.Y) /\ d.M = 2 THEN 29 ELSE month_days[d.M])

=============================================================================
