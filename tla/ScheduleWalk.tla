---------------------------- MODULE ScheduleWalk ----------------------------
(***************************************************************************)
(* Drives the operators of Schedule over every instant of a small          *)
(* calendar: time passes, the schedule's agent succeeds now and then, and  *)
(* what the operators answer is compared with definitions that enumerate   *)
(* the instants of the calendar instead of computing them.                 *)
(***************************************************************************)
EXTENDS Schedule

CONSTANTS Scheds,       \* the schedules walked over
          StaleAfter,   \* stale_after_minutes of the policy
          MaxNow        \* bound: the walk's last instant

ASSUME WalkAssumption ==
    /\ Scheds \subseteq CronSchedules \union IntervalSchedules(Nat)
    /\ StaleAfter \in Nat
    /\ MaxNow \in Nat

VARIABLES plan, instant, succeeded_at
walkVars == <<plan, instant, succeeded_at>>

Policy == [stale_after |-> StaleAfter]

WalkInit ==
    /\ plan \in Scheds
    /\ instant = 0
    /\ succeeded_at = NoTime

\* A second passes.
Elapse ==
    /\ instant < MaxNow
    /\ instant' = instant + 1
    /\ UNCHANGED <<plan, succeeded_at>>

\* A run finishes with exit 0: finish_heartbeat stamps the instant.
Succeed ==
    /\ succeeded_at # instant
    /\ succeeded_at' = instant
    /\ UNCHANGED <<plan, instant>>

WalkNext == Elapse \/ Succeed
WalkSpec == WalkInit /\ [][WalkNext]_walkVars

-----------------------------------------------------------------------------
(* The reference: the instants at which a window of the schedule opens.    *)

Horizon == 0 .. MaxNow + 2 * DayLen * DaysPerWeek

Opens(t) ==
    IF plan.kind = "cron"
    THEN /\ WeekdayOf(t) \in plan.weekdays
         /\ HourOf(t) \in plan.hours
         /\ t % HourLen = plan.minute * SecPerMin
    ELSE /\ succeeded_at # NoTime
         /\ plan.interval_minutes # 0
         /\ t > succeeded_at
         /\ (t - succeeded_at) % (plan.interval_minutes * SecPerMin) = 0

\* The windows missed since the last success.
Missed == {t \in 0 .. instant : Opens(t) /\ t > succeeded_at}

\* The window judged by dispatch_one is due and unsatisfied exactly when a
\* window has opened since the last success (today, for a calendar schedule:
\* cron_expected_at never looks past midnight), and it is the newest of them.
DueIsTheNewestMissed ==
    LET expected == expected_at(plan, instant, succeeded_at)
        today    == {t \in Missed : plan.kind = "cron" => DayOf(t) = DayOf(instant)}
    IN  IF expected # NoTime /\ expected > succeeded_at
        THEN today # {} /\ expected = Max(today)
        ELSE today = {}

\* The daemon sleeps until next_occurrence: no window opens before it, it lies
\* in the future, and the tick that wakes up on it finds exactly that window
\* due.  (An interval schedule without a success has no window at all.)
SleepMeetsTheNextWindow ==
    LET next == next_occurrence(plan, instant, succeeded_at)
    IN  IF plan.kind = "interval" /\ succeeded_at = NoTime
        THEN next = NoTime \/ next > instant
        ELSE IF next = NoTime
        THEN \A t \in Horizon : t > instant => ~Opens(t)
        ELSE /\ next > instant
             /\ \A t \in instant + 1 .. next - 1 : ~Opens(t)
             /\ expected_at(plan, next, succeeded_at) = next

\* An interval schedule whose first missed window is older than
\* stale_after_minutes reads stale, however often its window rolled since.
IntervalBrokenLongIsStale ==
    plan.kind = "interval" /\ Missed # {} =>
        (health_state(plan, Policy, succeeded_at, NoWindow, instant) = "stale"
           <=> is_stale(Min(Missed), StaleAfter, instant))

\* WalkInv: what the functions of dotagent-scheduler say at any moment is what a walk over the calendar finds.
WalkInv == DueIsTheNewestMissed /\ SleepMeetsTheNextWindow /\ IntervalBrokenLongIsStale
=============================================================================
