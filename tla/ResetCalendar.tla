---------------------------- MODULE ResetCalendar ----------------------------
(***************************************************************************)
(* The calendar arithmetic of allocation_reset.py: months of unequal       *)
(* length, the clamp to a month's last day, and the reset date of one       *)
(* account as days go by and reads come at any moment.  Metering counts a   *)
(* month as Period ticks; this module is about what that leaves out.        *)
(* A date is a month (counted from the first one modelled) and a day.       *)
(***************************************************************************)
EXTENDS Integers, Sequences

CONSTANTS
    Length,     \* <<days of month 1, days of month 2, ...>>
    Starts,     \* dates on which the plan may begin
    Horizon     \* the last month in which the clock still advances

Months == DOMAIN Length

ASSUME CalendarAssumption ==
    /\ Length \in Seq(28 .. 31)
    /\ Horizon \in Months
    /\ Horizon + 2 \in Months
    /\ Starts \subseteq [m : 1 .. Horizon, d : 1 .. 31]
    /\ \A s \in Starts : s.d <= Length[s.m]

VARIABLES
    today,      \* the date of `now`
    resetsAt,   \* users.allocation_resets_at
    zeroed      \* history: the date the meter was last zeroed

vars == <<today, resetsAt, zeroed>>

Date == [m : Months, d : 1 .. 31]

Before(a, b) == a.m < b.m \/ (a.m = b.m /\ a.d < b.d)
AtOrBefore(a, b) == a = b \/ Before(a, b)

(* Faulty variant: the day is not cut.                                      *)
AddMonthsUncut(date, n) == [m |-> date.m + n, d |-> date.d]

(* date + relativedelta(months = n): the day is cut to the month's last.    *)
AddMonths(date, n) ==
    [m |-> date.m + n,
     d |-> IF date.d > Length[date.m + n] THEN Length[date.m + n] ELSE date.d]

(* compute_next_reset with no Apple date.                                   *)
ComputeNextReset(now) == AddMonths(now, 1)

(* Faulty variant: one month only, however many were missed.                *)
RollOneMonth(date, now) == AddMonths(date, 1)

(* Faulty variant: months are added one after the other.                    *)
RollChained(date, now) ==
    LET step[d \in Date] == LET next == AddMonths(d, 1)
                            IN  IF Before(now, next) THEN next ELSE step[next]
    IN  step[date]

(* roll_forward_past: the first n whose candidate is after `now`.           *)
RollForwardPast(date, now) ==
    LET past(n) == Before(now, AddMonths(date, n))
        n == CHOOSE k \in 1 .. Len(Length) - date.m :
               past(k) /\ \A j \in 1 .. k - 1 : ~past(j)
    IN  AddMonths(date, n)

(* Faulty variant: the calendar month, as if there were no reset date.      *)
CalendarMonth(date, now) == [m |-> now.m, d |-> 1]

(* period_start, for an account that has a reset date.                      *)
PeriodStart(date, now) ==
    IF AtOrBefore(date, now) THEN date
    ELSE LET start == AddMonths(date, -1)
         IN  IF Before(now, start) THEN AddMonths(now, -1) ELSE start

-----------------------------------------------------------------------------
Init ==
    /\ today \in Starts
    /\ resetsAt = ComputeNextReset(today)
    /\ zeroed = today

NextDay ==
    /\ today.m <= Horizon
    /\ today' = IF today.d < Length[today.m] THEN [today EXCEPT !.d = @ + 1]
                                             ELSE [m |-> today.m + 1, d |-> 1]
    /\ UNCHANGED <<resetsAt, zeroed>>

(* lazy_reset_if_due, on a read or by the sweep.                            *)
LazyReset ==
    /\ AtOrBefore(resetsAt, today)
    /\ resetsAt' = RollForwardPast(resetsAt, today)
    /\ zeroed' = today
    /\ UNCHANGED today

Next == NextDay \/ LazyReset

Spec == Init /\ [][Next]_vars

-----------------------------------------------------------------------------
(* Dates exist in their months.                                             *)
TypeOK ==
    /\ today \in Date /\ today.d <= Length[today.m]
    /\ resetsAt \in Date /\ resetsAt.d <= Length[resetsAt.m]
    /\ zeroed \in Date

(* A lazy reset hands out the current month and no other: however many      *)
(* cycles were missed, the new date is after today and its month has begun. *)
ResetsIntoThisMonth ==
    [][resetsAt' # resetsAt => /\ Before(today, resetsAt')
                               /\ AtOrBefore(AddMonths(resetsAt', -1), today)]_vars

(* The spend window of real_spend_alerts misses nothing the meter counted:  *)
(* unless a reset is overdue, the period it sums began no later than the    *)
(* moment the meter was last zeroed.                                        *)
WindowCoversMeter ==
    Before(today, resetsAt) => AtOrBefore(PeriodStart(resetsAt, today), zeroed)

(* roll_forward_past: "Preserves the user's day-of-month anchor across       *)
(* multiple missed cycles": a reset keeps the day of the date it starts from *)
(* unless the new month is too short for it.                                *)
DayKeptAcrossMissedCycles ==
    [][resetsAt' # resetsAt => \/ resetsAt'.d = resetsAt.d
                               \/ /\ resetsAt'.d = Length[resetsAt'.m]
                                  /\ resetsAt.d > Length[resetsAt'.m]]_vars

(* Dates are dates, and the spend window covers the meter.                   *)
CalendarHolds == TypeOK /\ WindowCoversMeter

(* However many cycles were missed, the next date is of this month and day.  *)
ResetDateKept == ResetsIntoThisMonth /\ DayKeptAcrossMissedCycles
=============================================================================
