------------------------------ MODULE Calendar ------------------------------
(***************************************************************************)
(* The date arithmetic of reports (shared/src/util/date-range.ts).  A day  *)
(* is the number of days since 1 January 1970, a range is half open.       *)
(* Months, quarters and years are given by their first days.               *)
(* resolveComparison's previous year aligned by date, which keeps the      *)
(* month and the day of the month, is left out: no report asks for it.     *)
(***************************************************************************)
EXTENDS Integers

CONSTANTS MonthStarts, QuarterStarts, YearStarts

ASSUME CalendarAssumption ==
  /\ YearStarts \subseteq QuarterStarts
  /\ QuarterStarts \subseteq MonthStarts
  /\ MonthStarts \subseteq Int

Day == Int
DateRange(from, to) == [from |-> from, to |-> to]
NoRange == DateRange(0, 0)
DaysIn(range) == {d \in Int : range.from <= d /\ d < range.to}
EachDay(range) == range.from .. (range.to - 1)
RangeLengthDays(range) == range.to - range.from

(* 0 is Sunday; 1 January 1970 was a Thursday.                             *)
DayOfWeek(d) == (d + 4) % 7
FirstWeekday(weekStart) == IF weekStart = "monday" THEN 1 ELSE 0
IntoWeek(d, weekStart) == (DayOfWeek(d) - FirstWeekday(weekStart)) % 7

HasLatest(starts, d) ==
  \E s \in starts : s <= d /\ \A t \in starts : t <= d => t <= s
LatestOf(starts, d) ==
  CHOOSE s \in starts : s <= d /\ \A t \in starts : t <= d => t <= s

BucketDay(d, grain, weekStart) ==
  CASE grain \in {"hour", "day"} -> d
    [] grain = "week" -> d - IntoWeek(d, weekStart)
    [] grain = "month" -> LatestOf(MonthStarts, d)
    [] grain = "quarter" -> LatestOf(QuarterStarts, d)
    [] grain = "year" -> LatestOf(YearStarts, d)

(* Trailing windows leave out the current day, windows to date include it. *)
TrailingDays == [last7d |-> 7, last28d |-> 28, last90d |-> 90]
ToDateGrain == [wtd |-> "week", mtd |-> "month", qtd |-> "quarter",
                ytd |-> "year", today |-> "day"]

ResolvePreset(preset, today, weekStart) ==
  IF preset \in DOMAIN TrailingDays
    THEN DateRange(today - TrailingDays[preset], today)
  ELSE IF preset = "yesterday" THEN DateRange(today - 1, today)
  ELSE DateRange(BucketDay(today, ToDateGrain[preset], weekStart), today + 1)

ShiftDays(range, n) == DateRange(range.from + n, range.to + n)

ResolveComparison(range, kind) ==
  CASE kind = "none" -> NoRange
    [] kind = "previousPeriod" -> ShiftDays(range, -RangeLengthDays(range))
    [] kind = "previousYear" -> ShiftDays(range, -364)

SealedBoundary(today, restatementWindowDays) ==
  today - (IF restatementWindowDays > 0 THEN restatementWindowDays ELSE 0)

(* The part of a range that can no longer be restated, and the rest.       *)
SplitSealedHot(range, today, restatementWindowDays) ==
  LET boundary == SealedBoundary(today, restatementWindowDays)
  IN  IF range.to <= boundary THEN [sealed |-> range, hot |-> NoRange]
      ELSE IF range.from >= boundary THEN [sealed |-> NoRange, hot |-> range]
      ELSE [sealed |-> DateRange(range.from, boundary),
            hot |-> DateRange(boundary, range.to)]
=============================================================================
