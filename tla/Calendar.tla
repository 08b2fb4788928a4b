------------------------------ MODULE Calendar ------------------------------
(***************************************************************************)
(* rust-stdlib/pocs 143 and 144: from_uefi, which turns a UEFI time into   *)
(* seconds since 1900 in the zone of SYSTEMTIME_TIMEZONE.  A result is the *)
(* pair of its days and the seconds of the last one, or NoTime for None.   *)
(***************************************************************************)
EXTENDS Integers, Sequences

NoTime == <<>>
Unspecified == 2047   \* UNSPECIFIED_TIMEZONE
Day == 86400

\* day <= 31 and minute <= 60 are the code's; nanosecond has no further use.
Accepted(t) ==
    /\ t.month \in 1 .. 12 /\ t.year \in 1900 .. 9999 /\ t.day \in 1 .. 31
    /\ t.second < 60 /\ t.minute <= 60 /\ t.hour < 24
    /\ t.timezone \in -1440 .. 1440 \cup {Unspecified}

\* Years begin in March, so that the leap day is the last: January and February
\* are months 10 and 11 of the year before.
MonthFromMarch(t) == IF t.month < 3 THEN t.month + 9 ELSE t.month - 3
YearFromMarch(t) == t.year + 4800 - (IF t.month < 3 THEN 1 ELSE 0)

Days(t) ==
    LET y == YearFromMarch(t) IN
    y * 365 + y \div 4 - y \div 100 + y \div 400
    + (MonthFromMarch(t) * 62719 + 769) \div 2048 + (t.day - 1) - 2447065

\* normalized_timezone is the zone's minutes less those of the zone -1440.
FromUefi(t) ==
    LET seconds == t.second + t.minute * 60 + t.hour * 3600 + (t.timezone + 1440) * 60 IN
    IF Accepted(t) THEN <<Days(t) + seconds \div Day, seconds % Day>> ELSE NoTime

-----------------------------------------------------------------------------
\* The Gregorian calendar, for reference.
Leap(year) == year % 4 = 0 /\ (year % 100 # 0 \/ year % 400 = 0)
MonthLength(year, month) ==
    IF month = 2 THEN (IF Leap(year) THEN 29 ELSE 28)
    ELSE IF month \in {4, 6, 9, 11} THEN 30 ELSE 31

Clock(year, month, day, hour, minute, zone) ==
    [year |-> year, month |-> month, day |-> day,
     hour |-> hour, minute |-> minute, second |-> 0, timezone |-> zone]
Date(year, month, day) == Clock(year, month, day, 0, 0, 0)
NextMonth(year, month, day) ==
    IF month = 12 THEN Date(year + 1, 1, day) ELSE Date(year, month + 1, day)

\* Over the dates that exist, each has the number of the one before plus 1, with
\* 1900-01-01 the first; one that does not exist is accepted as the date as many
\* days into the next month, so 144's 2025-02-31 is 2025-03-03.
DaysFollow(year) ==
    /\ Days(Date(1900, 1, 1)) = 0
    /\ \A month \in 1 .. 12 :
        LET last == MonthLength(year, month) IN
        /\ \A day \in 1 .. last - 1 :
            Days(Date(year, month, day + 1)) = Days(Date(year, month, day)) + 1
        /\ Days(NextMonth(year, month, 1)) = Days(Date(year, month, last)) + 1
        /\ \A day \in last + 1 .. 31 :
            /\ Accepted(Date(year, month, day))
            /\ Days(Date(year, month, day)) = Days(NextMonth(year, month, day - last))

\* The epoch of a time east of -1440 is that of the wall clock at -1440: going
\* an hour east is the same as an hour later, over the ends of days; a 60th minute is the
\* next hour's first (143), and the last hour's is the next day's.
ClockFollows(year) ==
    \A hour \in 0 .. 23, zone \in {-1440, -720, -60, 0, 720, 1380} :
        LET u == FromUefi(Clock(year, 2, 28, hour, 60, zone)) IN
        /\ u = FromUefi(Clock(year, 2, 28, hour, 0, zone + 60))
        /\ u = IF hour < 23 THEN FromUefi(Clock(year, 2, 28, hour + 1, 0, zone))
               ELSE FromUefi(Clock(year, 2, 29, 0, 0, zone))
=============================================================================
