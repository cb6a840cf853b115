----------------------------- MODULE DcaWindow ------------------------------
(***************************************************************************)
(* The execution window of the BTC DCA profile: the days on which          *)
(* _is_in_execution_window lets it buy.  Days are UTC dates, as            *)
(* _as_timestamp makes them.                                               *)
(***************************************************************************)
EXTENDS Integers

CONSTANTS
    YearMonths,    \* months in a year: 12 in the code
    DaysIn,        \* DaysIn[m]: the days of month m
    WeekLength,    \* days in a week: 7 in the code
    Schedules      \* the schedules a deployment may be configured with

Cadences == {"weekly", "monthly", "quarterly"}

(* A schedule as evaluate_crypto_btc_dca accepts it; only the arguments    *)
(* its cadence reads.  A monthly schedule names every month.               *)
ScheduleType ==
    [cadence : Cadences, start : Nat, width : Nat \ {0}, months : SUBSET (1..YearMonths)]

ASSUME WindowAssumption ==
    /\ YearMonths \in Nat \ {0}
    /\ DaysIn \in [1..YearMonths -> Nat \ {0}]
    /\ WeekLength \in Nat \ {0}
    /\ Schedules \subseteq ScheduleType
    /\ \A s \in Schedules :
          IF s.cadence = "weekly" THEN s.start < WeekLength /\ s.width <= WeekLength
          ELSE s.start >= 1

VARIABLES
    schedule,   \* the configured schedule
    month,      \* the month of today, from 1
    day,        \* the day of the month, from 1
    weekday     \* the day of the week, from 0

windowVars == <<schedule, month, day, weekday>>

-----------------------------------------------------------------------------

(* _is_in_execution_window: a weekly window runs on into the next week, a  *)
(* monthly or quarterly one ends with its month.                           *)
InWindow ==
    IF schedule.cadence = "weekly"
    THEN (weekday - schedule.start) % WeekLength < schedule.width
    ELSE /\ month \in schedule.months
         /\ day \in schedule.start..(schedule.start + schedule.width - 1)

(* Opening days, said without the arithmetic of the window. *)
Opening ==
    IF schedule.cadence = "weekly"
    THEN weekday = schedule.start
    ELSE month \in schedule.months /\ day = schedule.start

NextDay ==
    /\ \/ /\ day < DaysIn[month]
          /\ day' = day + 1
          /\ month' = month
       \/ /\ day = DaysIn[month]
          /\ day' = 1
          /\ month' = IF month = YearMonths THEN 1 ELSE month + 1
    /\ weekday' = (weekday + 1) % WeekLength
    /\ UNCHANGED schedule

WindowInit ==
    /\ schedule \in Schedules
    /\ month = 1
    /\ day = 1
    /\ weekday = IF schedule.cadence = "weekly" THEN schedule.start ELSE 0

WindowTypeOK ==
    /\ schedule \in Schedules
    /\ month \in 1..YearMonths
    /\ day \in 1..DaysIn[month]
    /\ weekday \in 0..(WeekLength - 1)

=============================================================================
