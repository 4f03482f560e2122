------------------------------ MODULE Schedule ------------------------------
(***************************************************************************)
(* The pure scheduling arithmetic of crates/dotagent-scheduler: which      *)
(* window of a schedule is due, when the next one opens, whether a window  *)
(* is stale, whether a retry may go ahead, and the health reported for a   *)
(* schedule.                                                               *)
(*                                                                         *)
(* An instant is a number of seconds since midnight of some first day of   *)
(* the week.  The lengths of the calendar's units are parameters, so that  *)
(* a small calendar can be enumerated.  Local time has no DST jump here.   *)
(***************************************************************************)
EXTENDS Integers, Sequences, FiniteSetsExt

CONSTANTS SecPerMin, MinPerHour, HoursPerDay, DaysPerWeek

ASSUME CalendarAssumption ==
    /\ SecPerMin \in Nat \ {0}
    /\ MinPerHour \in Nat \ {0}
    /\ HoursPerDay \in Nat \ {0}
    /\ DaysPerWeek \in Nat \ {0}

NoTime == -1                        \* Option::None of an instant

HourLen == SecPerMin * MinPerHour
DayLen  == HourLen * HoursPerDay

DayOf(t)     == t \div DayLen
WeekdayOf(t) == DayOf(t) % DaysPerWeek
HourOf(t)    == (t % DayLen) \div HourLen
MinuteOf(t)  == (t % HourLen) \div SecPerMin

\* The instant at which `hour':`minute':00 strikes on a day.
InstantOf(day, hour, minute) == day * DayLen + hour * HourLen + minute * SecPerMin

\* chrono's TimeDelta::num_minutes truncates towards zero.
NumMinutes(d) == IF d >= 0 THEN d \div SecPerMin ELSE -((-d) \div SecPerMin)

\* A schedule is a cron record (weekdays, hours, minute) or an interval.
CronSchedules ==
    [kind : {"cron"}, weekdays : SUBSET (0 .. DaysPerWeek - 1),
     hours : SUBSET (0 .. HoursPerDay - 1), minute : 0 .. MinPerHour - 1]
IntervalSchedules(intervals) == [kind : {"interval"}, interval_minutes : intervals]

-----------------------------------------------------------------------------
(* Which window is due.                                                    *)

cron_expected_at(sched, now) ==
    LET due == {h \in sched.hours :
                  \/ h < HourOf(now)
                  \/ h = HourOf(now) /\ sched.minute <= MinuteOf(now)}
    IN  IF WeekdayOf(now) \notin sched.weekdays \/ due = {}
        THEN NoTime
        ELSE InstantOf(DayOf(now), Max(due), sched.minute)

\* Mutant: the window after a success never moves on.
interval_expected_at_frozen(interval_minutes, now, last_success) ==
    IF last_success = NoTime \/ interval_minutes = 0
    THEN last_success
    ELSE LET iv == interval_minutes * SecPerMin
         IN  IF now >= last_success + iv THEN last_success + iv ELSE last_success

\* Ticks are anchored on the last success and clamped at the anchor, so that a
\* clock behind the anchor yields the anchor itself.
interval_expected_at(interval_minutes, now, last_success) ==
    IF last_success = NoTime \/ interval_minutes = 0
    THEN last_success
    ELSE LET elapsed == NumMinutes(now - last_success) \div interval_minutes
             ticks   == IF elapsed > 0 THEN elapsed ELSE 0
         IN  last_success + ticks * interval_minutes * SecPerMin

expected_at(sched, now, last_success) ==
    IF sched.kind = "cron"
    THEN cron_expected_at(sched, now)
    ELSE interval_expected_at(sched.interval_minutes, now, last_success)

\* Only an interval schedule has one; cron falls back to the window due.
first_missed_window(sched, last_success) ==
    IF sched.kind = "interval" /\ sched.interval_minutes # 0 /\ last_success # NoTime
    THEN last_success + sched.interval_minutes * SecPerMin
    ELSE NoTime

\* Mutant: the file is derived from the schedule, which a success re-phases.
window_key_derived(sched, last_success, last_dispatched, now) ==
    expected_at(sched, now, last_success)

\* The file that describes the health being reported: for a window that
\* succeeded the newest one dispatched, otherwise the one that is due.
window_key(sched, last_success, last_dispatched, now) ==
    LET expected == expected_at(sched, now, last_success)
    IN  CASE expected = NoTime -> NoTime
          [] expected # NoTime /\ (last_success = NoTime \/ last_success < expected) ->
               expected
          [] OTHER ->
               IF last_dispatched # NoTime /\ last_dispatched <= expected
               THEN last_dispatched
               ELSE expected

-----------------------------------------------------------------------------
(* When the next window opens, strictly after now.                         *)

cron_next_occurrence(sched, now) ==
    LET later == {t \in {InstantOf(DayOf(now) + d, h, sched.minute) :
                           d \in 0 .. DaysPerWeek, h \in sched.hours} :
                    t > now /\ WeekdayOf(t) \in sched.weekdays}
    IN  IF later = {} THEN NoTime ELSE Min(later)

interval_next_occurrence(interval_minutes, now, last_success) ==
    IF interval_minutes = 0
    THEN NoTime
    ELSE LET iv     == interval_minutes * SecPerMin
             anchor == IF last_success = NoTime THEN now ELSE last_success
         IN  IF anchor + iv > now
             THEN anchor + iv
             ELSE anchor + (NumMinutes(now - anchor) \div interval_minutes + 1) * iv

next_occurrence(sched, now, last_success) ==
    IF sched.kind = "cron"
    THEN cron_next_occurrence(sched, now)
    ELSE interval_next_occurrence(sched.interval_minutes, now, last_success)

-----------------------------------------------------------------------------
(* The retry policy.                                                       *)

is_stale(expected, stale_after, now) == NumMinutes(now - expected) > stale_after

\* After the Nth attempt the wait is the Nth step of the backoff, the last step
\* repeating.
BackoffStep(attempts, backoff) ==
    LET n == IF attempts = 0 THEN 1 ELSE attempts
    IN  backoff[IF n <= Len(backoff) THEN n ELSE Len(backoff)]

should_retry(attempts, last_attempt, backoff, now) ==
    last_attempt # NoTime /\ backoff # <<>> =>
        NumMinutes(now - last_attempt) >= BackoffStep(attempts, backoff)

-----------------------------------------------------------------------------
(* Health.  A window file is a record; NoWindow stands for no file.        *)

NoExit == "none"
NoWindow == [exists |-> FALSE, attempts |-> 0, last_attempt_at |-> NoTime,
             exit |-> NoExit, given_up |-> FALSE]

\* Dispatches of the window that failed: the successful one is discounted only
\* when it is the last one recorded.
failed_attempts(ws) ==
    IF ws.exit = "ok" /\ ws.attempts > 0 THEN ws.attempts - 1 ELSE ws.attempts

\* Mutant: staleness is judged against the window that is due now.
health_state_rolling(sched, policy, last_success, ws, now) ==
    LET expected == expected_at(sched, now, last_success)
    IN  CASE expected = NoTime ->
               IF last_success = NoTime THEN "stale" ELSE "ok"
          [] expected # NoTime /\ last_success # NoTime /\ last_success >= expected ->
               IF failed_attempts(ws) > 0 THEN "degraded" ELSE "ok"
          [] OTHER ->
               IF is_stale(expected, policy.stale_after, now)
               THEN "stale" ELSE "failing"

health_state(sched, policy, last_success, ws, now) ==
    LET expected  == expected_at(sched, now, last_success)
        missed    == first_missed_window(sched, last_success)
        stale_ref == IF missed # NoTime THEN missed ELSE expected
    IN  CASE expected = NoTime ->
               IF last_success = NoTime THEN "stale" ELSE "ok"
          [] expected # NoTime /\ last_success # NoTime /\ last_success >= expected ->
               IF failed_attempts(ws) > 0 THEN "degraded" ELSE "ok"
          [] OTHER ->
               IF is_stale(stale_ref, policy.stale_after, now)
               THEN "stale" ELSE "failing"
=============================================================================
