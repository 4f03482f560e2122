----------------------------- MODULE MCDispatch -----------------------------
(* Small manifests for the tick.  Minutes last one second; an hour is one  *)
(* minute, so that a cron hour is one instant of the day.                  *)
EXTENDS Dispatch

Every(iv) == [kind |-> "interval", interval_minutes |-> iv]
AtHours(hours) == [kind |-> "cron", weekdays |-> {0}, hours |-> hours, minute |-> 0]

\* A failing interval agent: two attempts a window.  After the second one a
\* minute must pass before a window of failed preflights is given up.
MCInterval == <<[sched |-> Every(2), slug |-> "a", defer |-> FALSE,
                 max_retries |-> 2, backoff |-> <<0, 1>>, stale_after |-> 2]>>

\* The same with its attempts a minute apart, for two processes.
MCSpaced == <<[sched |-> Every(2), slug |-> "a", defer |-> FALSE,
               max_retries |-> 2, backoff |-> <<1>>, stale_after |-> 2]>>

\* A calendar schedule that is held back on battery, and an interval one, of
\* the same agent.
MCMixed == <<[sched |-> AtHours({1}), slug |-> "a", defer |-> TRUE,
              max_retries |-> 1, backoff |-> <<>>, stale_after |-> 1],
             [sched |-> Every(3), slug |-> "b", defer |-> FALSE,
              max_retries |-> 1, backoff |-> <<1>>, stale_after |-> 3]>>

MCLadder == <<1, 2>>
=============================================================================
