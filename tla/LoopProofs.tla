----------------------------- MODULE LoopProofs -----------------------------
(***************************************************************************)
(* Proofs about the daemon: its main loop, for every length of the day and *)
(* of the sleep, every configuration and every reload; its boot, for any   *)
(* daemons, processes and deaths before it; the power gate of its ticks,   *)
(* for every list of supplies; and the run of an agent, for every job.     *)
(***************************************************************************)
EXTENDS DaemonLoop, Boot, Power, Runner, SequenceTheorems, FiniteSetTheorems, WellFoundedInduction, TLAPS

-----------------------------------------------------------------------------
(* Days and openings.                                                      *)

\* A set of numbers that is not empty has a least one, which Min denotes.
LEMMA MinIs ==
  ASSUME NEW S \in SUBSET Nat, S # {}
  PROVE  Min(S) \in S /\ \A y \in S : Min(S) <= y
<1> DEFINE R == OpToRel(<, Nat)
<1>1. IsWellFoundedOn(R, Nat)
  BY NatLessThanWellFounded
<1>2. PICK x \in S : \A y \in S : ~(<<y, x>> \in R)
  <2> HIDE DEF R
  <2> QED BY <1>1, WFMin
<1>3. \A y \in S : x <= y
  <2> SUFFICES ASSUME NEW y \in S PROVE ~(y < x)
    OBVIOUS
  <2> QED BY <1>2 DEF OpToRel
<1> QED BY <1>3 DEF Min

\* Midnights are a day apart, and every instant has one before it.
LEMMA Midnights ==
  ASSUME NEW a \in Int, NEW b \in Int, a < b
  PROVE  a * Day \in Int /\ b * Day \in Int /\ a * Day + Day <= b * Day
BY LoopAssumption, Z3

\* The midnight before an instant, and the time of day since.
LEMMA DayOf ==
  ASSUME NEW t \in Nat
  PROVE  /\ DateOf(t) \in Nat /\ DateOf(t) * Day \in Nat /\ DateOf(t) * Day <= t /\ t < DateOf(t) * Day + Day
         /\ t % Day = t - DateOf(t) * Day
<1>1. t \div Day \in Nat
  BY LoopAssumption, Z3
<1>2. t % Day \in Nat /\ t % Day < Day
  BY LoopAssumption, Z3
<1>3. t = (t \div Day) * Day + (t % Day)
  BY LoopAssumption, SMT
<1>4. (t \div Day) * Day \in Nat
  BY <1>1, LoopAssumption, Z3
<1> QED BY <1>1, <1>2, <1>3, <1>4, LoopAssumption DEF DateOf

\* The opening of a window belongs to its date, and only to it.
LEMMA OpeningIs ==
  ASSUME NEW date \in Int, NEW time \in 0 .. Day - 1
  PROVE  /\ local_at(date, time) \in Int
         /\ \A d \in Int : d < date => local_at(d, time) + Day <= local_at(date, time)
         /\ date \in Nat => local_at(date, time) \in Nat /\ DateOf(local_at(date, time)) = date
<1>1. date * Day \in Int /\ time \in Nat /\ time < Day /\ Day \in Nat
  BY LoopAssumption, Z3
<1>2. \A d \in Int : d < date => local_at(d, time) + Day <= local_at(date, time)
  <2> TAKE d \in Int
  <2>1. d < date => d * Day \in Int /\ d * Day + Day <= date * Day
    BY Midnights
  <2> QED BY <1>1, <2>1 DEF local_at
<1>3. ASSUME date \in Nat PROVE local_at(date, time) \in Nat /\ DateOf(local_at(date, time)) = date
  <2> DEFINE t == local_at(date, time)
             q == DateOf(t)
  <2>1. date * Day \in Nat
    BY <1>1, <1>3, Z3
  <2>2. t \in Nat /\ t = date * Day + time
    BY <1>1, <2>1 DEF local_at
  <2> HIDE DEF t
  <2>3. q \in Nat /\ q * Day \in Nat /\ q * Day <= t /\ t < q * Day + Day
    BY <2>2, DayOf
  <2> HIDE DEF q
  <2>4. ~(q < date)
    <3>1. q < date => q * Day + Day <= date * Day
      BY <1>3, <2>3, Midnights
    <3> QED BY <1>1, <2>1, <2>2, <2>3, <3>1
  <2>5. ~(date < q)
    <3>1. date < q => date * Day + Day <= q * Day
      BY <1>3, <2>3, Midnights
    <3> QED BY <1>1, <2>1, <2>2, <2>3, <3>1
  <2>6. q = date
    BY <1>3, <2>3, <2>4, <2>5
  <2> QED BY <2>2, <2>6 DEF t, q
<1> QED BY <1>1, <1>2, <1>3 DEF local_at

\* Today's date, from the openings around now.
LEMMA TodayIs ==
  ASSUME NEW t \in Nat, NEW time \in 0 .. Day - 1
  PROVE  /\ local_at(DateOf(t) + 1, time) > t /\ local_at(DateOf(t) - 1, time) < t
         /\ local_at(DateOf(t), time) <= t <=> time <= t % Day
         /\ \A d \in Int : local_at(d, time) <= t => d <= DateOf(t)
         /\ \A d \in Int : local_at(d, time) > t => DateOf(t) <= d
<1> DEFINE q == DateOf(t)
<1>1. q \in Nat /\ q * Day \in Nat /\ q * Day <= t /\ t < q * Day + Day /\ t % Day = t - q * Day
  BY DayOf
<1> HIDE DEF q
<1>2. Day \in Nat \ {0} /\ time \in Nat /\ time < Day
  BY LoopAssumption
<1>3. (q + 1) * Day = q * Day + Day /\ (q - 1) * Day = q * Day - Day
  BY <1>1, <1>2, Z3
<1>4. ASSUME NEW d \in Int PROVE (local_at(d, time) <= t => d <= q) /\ (local_at(d, time) > t => q <= d)
  <2>1. q < d => d * Day \in Int /\ q * Day + Day <= d * Day
    BY <1>1, Midnights
  <2>2. d < q => d * Day \in Int /\ d * Day + Day <= q * Day
    BY <1>1, Midnights
  <2> QED BY <1>1, <1>2, <2>1, <2>2 DEF local_at
<1>5. local_at(q + 1, time) > t /\ local_at(q - 1, time) < t /\ (local_at(q, time) <= t <=> time <= t % Day)
  BY <1>1, <1>2, <1>3 DEF local_at
<1> QED BY <1>4, <1>5 DEF q

-----------------------------------------------------------------------------
(* The windows of the summary, and the end of a sleep.                     *)

\* What a configuration holds.
LEMMA ConfigIs ==
  ASSUME NEW c \in Configs
  PROVE  c.time \in 0 .. Day - 1 /\ Grace(c) \in 1 .. Day
<1>1. c.time \in 0 .. Day - 1 /\ c.grace \in 0 .. Day /\ Day \in Nat \ {0}
  BY LoopAssumption
<1> QED BY <1>1 DEF Grace

\* The window that t falls into, if any: the latest to have opened, and the only one.
LEMMA WindowIs ==
  ASSUME NEW t \in Nat, NEW c \in Configs
  PROVE  LET d == summary_window_date(t, c)
             Within(date) == local_at(date, c.time) <= t /\ t < local_at(date, c.time) + Grace(c)
         IN  /\ d # Never => /\ d \in Nat /\ Within(d)
                             /\ d = IF c.time <= t % Day THEN DateOf(t) ELSE DateOf(t) - 1
             /\ \A date \in Nat : Within(date) => date = d
<1> DEFINE q == DateOf(t)
           d == summary_window_date(t, c)
           open(date) == local_at(date, c.time)
           Within(date) == open(date) <= t /\ t < open(date) + Grace(c)
<1>1. c.time \in 0 .. Day - 1 /\ Grace(c) \in Nat /\ Grace(c) <= Day /\ Day \in Nat
  BY ConfigIs, LoopAssumption
<1>2. q \in Nat
  BY DayOf
<1>3. d = IF Within(q) THEN q ELSE IF q > 0 /\ Within(q - 1) THEN q - 1 ELSE Never
  BY DEF summary_window_date
<1>4. \A date \in Int : open(date) \in Int /\ (date < q => open(date) + Day <= open(q))
                        /\ (date < q - 1 => open(date) + Day <= open(q - 1))
  <2>1. \A date \in Int : open(date) \in Int /\ \A e \in Int : e < date => open(e) + Day <= open(date)
    BY <1>1, OpeningIs
  <2>2. q \in Int /\ q - 1 \in Int
    BY <1>2
  <2> HIDE DEF open, q
  <2> QED BY <2>1, <2>2
<1>5. /\ open(q) <= t <=> c.time <= t % Day
      /\ \A date \in Int : open(date) <= t => date <= q
      /\ open(q - 1) < t
  BY <1>1, TodayIs
<1> HIDE DEF open, q, d
<1>6. \A date \in Nat : Within(date) => date = d
  <2> SUFFICES ASSUME NEW date \in Nat, Within(date) PROVE date = d
    OBVIOUS
  <2>1. date <= q
    BY <1>5
  <2>2. date >= q - 1
    <3>1. open(date) \in Int /\ open(q - 1) \in Int
      BY <1>2, <1>4
    <3>2. ~(date < q - 1)
      BY <1>1, <1>4, <1>5, <3>1
    <3> QED BY <1>2, <3>2
  <2>3. CASE date = q
    BY <1>3, <2>3
  <2>4. CASE date = q - 1
    <3>1. ~Within(q)
      BY <1>1, <1>2, <1>4, <2>4
    <3>2. q > 0 /\ Within(q - 1)
      BY <1>2, <2>4
    <3> HIDE DEF Within
    <3> QED BY <1>3, <2>4, <3>1, <3>2
  <2> QED BY <1>2, <2>1, <2>2, <2>3, <2>4
<1>7. d # Never => /\ d \in Nat /\ Within(d)
                   /\ d = IF c.time <= t % Day THEN q ELSE q - 1
  <2>1. CASE Within(q)
    BY <1>2, <1>3, <1>5, <2>1
  <2>2. CASE ~Within(q) /\ q > 0 /\ Within(q - 1)
    <3>1. ~(open(q) <= t)
      BY <1>1, <1>2, <1>4, <2>2
    <3> QED BY <1>2, <1>3, <1>5, <2>2, <3>1
  <2>3. CASE ~Within(q) /\ ~(q > 0 /\ Within(q - 1))
    BY <1>3, <2>3
  <2> QED BY <2>1, <2>2, <2>3
<1> QED BY <1>6, <1>7 DEF open, q, d

\* The next opening is ahead, and none is sooner.
LEMMA NextIs ==
  ASSUME NEW t \in Nat, NEW time \in 0 .. Day - 1
  PROVE  /\ NextAt(t, time) \in Nat /\ NextAt(t, time) > t
         /\ \A date \in Nat : local_at(date, time) > t => NextAt(t, time) <= local_at(date, time)
<1> DEFINE q == DateOf(t)
           S == {u \in {local_at(q, time), local_at(q + 1, time)} : u > t}
<1>1. q \in Nat /\ q + 1 \in Nat /\ Day \in Nat
  <2>1. q \in Nat
    BY DayOf
  <2> HIDE DEF q
  <2> QED BY <2>1, LoopAssumption
<1>2. local_at(q, time) \in Nat /\ local_at(q + 1, time) \in Nat
  BY <1>1, OpeningIs
<1>3. local_at(q + 1, time) > t /\ \A d \in Int : local_at(d, time) > t => q <= d
  BY TodayIs
<1>4. S \in SUBSET Nat /\ S # {}
  BY <1>2, <1>3
<1>5. NextAt(t, time) = Min(S)
  BY DEF NextAt
<1>6. Min(S) \in S /\ \A y \in S : Min(S) <= y
  <2> HIDE DEF S
  <2> QED BY <1>4, MinIs
<1>7. ASSUME NEW date \in Nat, local_at(date, time) > t PROVE Min(S) <= local_at(date, time)
  <2>1. q <= date
    BY <1>3, <1>7
  <2>2. CASE date = q
    BY <1>6, <1>7, <2>2
  <2>3. CASE date = q + 1
    BY <1>6, <1>7, <2>3
  <2>4. CASE q + 1 < date
    <3>1. local_at(q + 1, time) + Day <= local_at(date, time) /\ local_at(date, time) \in Int
      BY <1>1, <2>4, OpeningIs
    <3>2. Min(S) <= local_at(q + 1, time) /\ Min(S) \in Nat
      BY <1>3, <1>4, <1>6
    <3> QED BY <1>1, <1>2, <3>1, <3>2
  <2> QED BY <1>1, <2>1, <2>2, <2>3, <2>4
<1> QED BY <1>4, <1>5, <1>6, <1>7

\* The loop sleeps past no opening: not of the summary's window, nor of the retention sweep's.
LEMMA TargetIs ==
  ASSUME NEW t \in Nat, NEW events \in SUBSET Nat, NEW c \in Configs
  PROVE  LET target == compute_sleep_target(t, events, c)
         IN  /\ target \in Nat
             /\ c.enabled => \A date \in Nat : local_at(date, c.time) > t => target <= local_at(date, c.time)
             /\ \A date \in Nat : local_at(date, RetentionHour) > t => target <= local_at(date, RetentionHour)
<1> DEFINE N == events \union next_summary_at(t, c) \union next_retention_at(t)
           S == {t + MaxSleep} \union {u \in N : t < u /\ u < t + MaxSleep}
<1>1. c.time \in 0 .. Day - 1 /\ RetentionHour \in 0 .. Day - 1 /\ t + MaxSleep \in Nat
  BY ConfigIs, LoopAssumption
<1>2. /\ NextAt(t, c.time) \in Nat /\ NextAt(t, c.time) > t
      /\ NextAt(t, RetentionHour) \in Nat /\ NextAt(t, RetentionHour) > t
  BY <1>1, NextIs
<1>3. (c.enabled => NextAt(t, c.time) \in N) /\ NextAt(t, RetentionHour) \in N /\ N \in SUBSET Nat
  BY <1>2 DEF next_summary_at, next_retention_at
<1>4. S \in SUBSET Nat /\ S # {}
  BY <1>1, <1>3
<1>5. compute_sleep_target(t, events, c) = Min(S)
  BY DEF compute_sleep_target
<1> HIDE DEF N
<1>6. Min(S) \in S /\ \A y \in S : Min(S) <= y
  <2> HIDE DEF S
  <2> QED BY <1>4, MinIs
<1>7. \A u \in N : u > t => Min(S) <= u
  <2> SUFFICES ASSUME NEW u \in N, u > t PROVE Min(S) <= u
    OBVIOUS
  <2>1. u \in Nat /\ Min(S) \in Nat /\ Min(S) <= t + MaxSleep
    BY <1>3, <1>4, <1>6
  <2>2. CASE u < t + MaxSleep
    BY <1>6, <2>2
  <2>3. CASE ~(u < t + MaxSleep)
    BY <1>1, <2>1, <2>3
  <2> QED BY <2>2, <2>3
<1>8. Min(S) \in Nat /\ (c.enabled => Min(S) <= NextAt(t, c.time)) /\ Min(S) <= NextAt(t, RetentionHour)
  BY <1>2, <1>3, <1>4, <1>6, <1>7
<1> HIDE DEF S
<1>9. c.enabled => \A date \in Nat : local_at(date, c.time) > t => Min(S) <= local_at(date, c.time)
  <2> SUFFICES ASSUME c.enabled, NEW date \in Nat, local_at(date, c.time) > t
               PROVE  Min(S) <= local_at(date, c.time)
    OBVIOUS
  <2>1. NextAt(t, c.time) <= local_at(date, c.time)
    BY <1>1, NextIs
  <2>2. local_at(date, c.time) \in Nat
    BY <1>1, OpeningIs
  <2> QED BY <1>2, <1>8, <2>1, <2>2
<1>10. \A date \in Nat : local_at(date, RetentionHour) > t => Min(S) <= local_at(date, RetentionHour)
  <2> SUFFICES ASSUME NEW date \in Nat, local_at(date, RetentionHour) > t
               PROVE  Min(S) <= local_at(date, RetentionHour)
    OBVIOUS
  <2>1. NextAt(t, RetentionHour) <= local_at(date, RetentionHour) /\ local_at(date, RetentionHour) \in Nat
    BY <1>1, NextIs, OpeningIs
  <2> QED BY <1>2, <1>8, <2>1
<1> QED BY <1>5, <1>8, <1>9, <1>10

-----------------------------------------------------------------------------
(* The books of the loop.                                                  *)

\* No window is still open when another configuration's window of the next day opens.
WindowsApart == \A b, c \in Configs : b.time + Grace(b) <= Day + c.time

LoopTyped ==
    /\ wall \in 0 .. Horizon /\ cfg \in Configs
    /\ pending \subseteq {"hup", "term"} /\ kids \in BOOLEAN
    /\ serving \subseteq {"gateway", "local_api", "api_died"}
    /\ cycle_start \in Nat /\ cycle_start <= wall

\* A sleep ends before the next window opens, unless the tick overran its target.
Heeded ==
    /\ cfg.enabled =>
          \A date \in Nat : local_at(date, cfg.time) > cycle_start => wake_at <= local_at(date, cfg.time)
    /\ \A date \in Nat : local_at(date, RetentionHour) > cycle_start => wake_at <= local_at(date, RetentionHour)

SleepBooks ==
    phase = "asleep" =>
        /\ idle_from \in Nat /\ wake_at \in Nat /\ wall <= wake_at
        /\ wake_at = idle_from + Fallback \/ Heeded

\* The date that is remembered is that of the latest window delivered, which had opened.
DatesBooks ==
    /\ ~doubled
    /\ \/ last_summary = Never /\ summaries = {}
       \/ /\ last_summary \in summaries
          /\ \A date \in summaries : date \in Nat /\ date <= last_summary
          /\ \E c \in Configs : local_at(last_summary, c.time) <= cycle_start

DeliveredBooks ==
    phase = "asleep" /\ cfg.enabled =>
        \A date \in Nat : local_at(date, cfg.time) <= cycle_start
                          /\ cycle_start < local_at(date, cfg.time) + Grace(cfg) => date \in summaries

IngressBooks ==
    /\ pollers = {} \/ \E p : pollers = {p}
    /\ \A p \in pollers : p \in [config : {c.name : c \in Configs}, aborted : BOOLEAN]
    /\ phase \in {"tick", "asleep"} =>
          /\ \A p \in pollers : p.config = cfg.name \/ p.aborted
          /\ secrets \in {"none", cfg.name}

\* What has been stopped stays stopped.
StopBooks ==
    /\ phase \in {"stop_gateway", "stop_pool", "stop_supervisor", "exited"} => serving \subseteq {"gateway"}
    /\ phase \in {"stop_pool", "stop_supervisor", "exited"} => serving = {}
    /\ phase = "exited" => ~kids

LoopBooks == LoopTyped /\ SleepBooks /\ IngressBooks /\ StopBooks
SummaryBooks == DatesBooks /\ DeliveredBooks

-----------------------------------------------------------------------------
(* What the actions leave alone.                                           *)

\* Everything but a cycle, a minute of sleep, and the beginning of the next cycle.
Beside ==
    \/ \E api \in {"on", "off", "fails"} : Start(api)
    \/ Stop \/ Stopping
    \/ \E s \in {"hup", "term"} : Signal(s)
    \/ Work \/ WorkEnds
    \/ \E p \in pollers : PollerEnds(p)
    \/ \E s \in {"gateway", "local_api"} : ServiceDies(s)
    \/ UNCHANGED loopVars

\* They keep the clocks and the dates, and none of them goes to sleep.
LEMMA BesideKeeps ==
  ASSUME Beside
  PROVE  UNCHANGED <<Clocks, cfg, Dates>> /\ (phase' = phase \/ phase' # "asleep")
BY DEF Beside, Start, Stop, Stopping, StopTelegram, StopApi, StopGateway, StopPool, StopSupervisor, Signal, Work,
       WorkEnds, PollerEnds, ServiceDies, loopVars, Clocks, Dates

\* A cycle begins: after a sleep, or after a reload.
Begins == phase = "asleep" /\ phase' = "tick" /\ cycle_start' = wall /\ UNCHANGED <<wall, idle_from, wake_at, Dates>>

\* A step is one of four kinds.
LEMMA StepsOfLoop ==
  ASSUME [LoopNext]_loopVars
  PROVE  \/ Beside
         \/ \E d \in Durations, e \in Events : Cycle(d, {cycle_start + e} \ {cycle_start})
         \/ Sleep
         \/ Begins
BY DEF LoopNext, Loop, Beside, WakeTick, Reload, Begins, Dates

-----------------------------------------------------------------------------
(* The sleep.                                                              *)

\* Every step keeps the types, and a cycle begins in the past.
LEMMA TypedStep ==
  ASSUME LoopTyped, [LoopNext]_loopVars
  PROVE  LoopTyped'
<1>1. wall' \in 0 .. Horizon /\ cycle_start' \in Nat /\ cycle_start' <= wall'
  <2>0. wall \in Nat /\ wall <= Horizon /\ cycle_start \in Nat /\ cycle_start <= wall
    BY LoopAssumption DEF LoopTyped
  <2>1. CASE Beside
    BY <2>0, <2>1, BesideKeeps, LoopAssumption DEF Clocks
  <2>2. ASSUME NEW d \in Durations, NEW e \in Events, Cycle(d, {cycle_start + e} \ {cycle_start})
        PROVE  wall' \in 0 .. Horizon /\ cycle_start' \in Nat /\ cycle_start' <= wall'
    <3>1. d \in Nat /\ wall' = wall + d /\ wall + d <= Horizon /\ cycle_start' = cycle_start
      BY <2>2, LoopAssumption DEF Cycle
    <3> QED BY <2>0, <3>1, LoopAssumption
  <2>3. CASE Sleep
    <3>1. wall' = wall + 1 /\ wall < Horizon /\ cycle_start' = cycle_start
      BY <2>3 DEF Sleep
    <3> QED BY <2>0, <3>1, LoopAssumption
  <2>4. CASE Begins
    BY <2>0, <2>4, LoopAssumption DEF Begins
  <2> QED BY <2>1, <2>2, <2>3, <2>4, StepsOfLoop
<1>2. cfg' \in Configs
  BY DEF LoopTyped, LoopNext, Loop, Start, Cycle, Sleep, WakeTick, Reload, Stop, Stopping, StopTelegram, StopApi,
         StopGateway, StopPool, StopSupervisor, Signal, Work, WorkEnds, PollerEnds, ServiceDies, loopVars
<1>3. pending' \subseteq {"hup", "term"}
  BY DEF LoopTyped, LoopNext, Loop, Start, Cycle, Sleep, WakeTick, Reload, Stop, Stopping, StopTelegram, StopApi,
         StopGateway, StopPool, StopSupervisor, Signal, Work, WorkEnds, PollerEnds, ServiceDies, loopVars
<1>4. kids' \in BOOLEAN
  BY DEF LoopTyped, LoopNext, Loop, Start, Cycle, Sleep, WakeTick, Reload, Stop, Stopping, StopTelegram, StopApi,
         StopGateway, StopPool, StopSupervisor, Signal, Work, WorkEnds, PollerEnds, ServiceDies, loopVars
<1>5. serving' \subseteq {"gateway", "local_api", "api_died"}
  BY DEF LoopTyped, LoopNext, Loop, Start, Cycle, Sleep, WakeTick, Reload, Stop, Stopping, StopTelegram, StopApi,
         StopGateway, StopPool, StopSupervisor, Signal, Work, WorkEnds, PollerEnds, ServiceDies, loopVars
<1> QED BY <1>1, <1>2, <1>3, <1>4, <1>5 DEF LoopTyped

\* A cycle goes to sleep until the target or for the fallback, and no minute of sleep passes the end.
LEMMA SleepStep ==
  ASSUME LoopTyped, SleepBooks, [LoopNext]_loopVars
  PROVE  SleepBooks'
<1>0. wall \in Nat /\ cycle_start \in Nat /\ cfg \in Configs /\ Fallback \in Nat /\ Fallback > 0
  BY LoopAssumption DEF LoopTyped
<1>1. CASE Beside
  <2>1. UNCHANGED <<wall, cycle_start, idle_from, wake_at, cfg>> /\ (phase' = phase \/ phase' # "asleep")
    BY <1>1, BesideKeeps DEF Clocks
  <2> QED BY <2>1 DEF SleepBooks, Heeded
<1>2. ASSUME NEW d \in Durations, NEW e \in Events, Cycle(d, {cycle_start + e} \ {cycle_start})
      PROVE  SleepBooks'
  <2> DEFINE events == {cycle_start + e} \ {cycle_start}
             target == compute_sleep_target(cycle_start, events, cfg)
  <2>1. events \in SUBSET Nat /\ d \in Nat
    BY <1>0, LoopAssumption
  <2>2. /\ target \in Nat
        /\ cfg.enabled => \A date \in Nat : local_at(date, cfg.time) > cycle_start => target <= local_at(date, cfg.time)
        /\ \A date \in Nat : local_at(date, RetentionHour) > cycle_start => target <= local_at(date, RetentionHour)
    <3> HIDE DEF events
    <3> QED BY <1>0, <2>1, TargetIs
  <2>3. /\ wall' = wall + d /\ idle_from' = wall' /\ cycle_start' = cycle_start /\ cfg' = cfg
        /\ wake_at' = IF target >= wall' THEN target ELSE wall' + Fallback
    BY <1>2 DEF Cycle
  <2> HIDE DEF events, target
  <2>4. wall' \in Nat /\ idle_from' = wall'
    BY <1>0, <2>1, <2>3
  <2>5. CASE target >= wall'
    BY <2>2, <2>3, <2>4, <2>5 DEF SleepBooks, Heeded
  <2>6. CASE ~(target >= wall')
    BY <1>0, <2>3, <2>4, <2>6 DEF SleepBooks
  <2> QED BY <2>5, <2>6
<1>3. CASE Sleep
  <2>1. /\ phase = "asleep" /\ wall < wake_at /\ wall' = wall + 1 /\ UNCHANGED <<cycle_start, idle_from, wake_at, cfg>>
    BY <1>3 DEF Sleep
  <2> QED BY <1>0, <2>1 DEF SleepBooks, Heeded
<1>4. CASE Begins
  BY <1>4 DEF Begins, SleepBooks
<1> QED BY <1>1, <1>2, <1>3, <1>4, StepsOfLoop

-----------------------------------------------------------------------------
(* The summary.                                                            *)

\* A window that is not the last one delivered opened after it, where windows are apart.
LEMMA NotBack ==
  ASSUME WindowsApart, LoopTyped, DatesBooks, last_summary # Never,
         NEW date \in Nat, date # last_summary, local_at(date, cfg.time) <= cycle_start,
         cycle_start < local_at(date, cfg.time) + Grace(cfg)
  PROVE  last_summary < date /\ last_summary \in Nat
<1>0. last_summary \in Nat /\ cfg \in Configs /\ cycle_start \in Nat
  BY DEF DatesBooks, LoopTyped
<1>1. PICK c \in Configs : local_at(last_summary, c.time) <= cycle_start
  BY DEF DatesBooks
<1>2. /\ c.time \in Nat /\ cfg.time \in Nat /\ Grace(cfg) \in Nat /\ Day \in Nat
      /\ c.time \in 0 .. Day - 1 /\ cfg.time + Grace(cfg) <= Day + c.time
  BY <1>0, ConfigIs, LoopAssumption DEF WindowsApart
<1>3. SUFFICES ASSUME date < last_summary PROVE FALSE
  BY <1>0
<1>4. local_at(date, c.time) + Day <= local_at(last_summary, c.time) /\ local_at(last_summary, c.time) \in Int
  <2>1. last_summary \in Int /\ date \in Int
    BY <1>0
  <2>2. /\ local_at(last_summary, c.time) \in Int
        /\ \A d \in Int : d < last_summary => local_at(d, c.time) + Day <= local_at(last_summary, c.time)
    BY <1>2, <2>1, OpeningIs
  <2> QED BY <1>3, <2>1, <2>2
<1>5. date * Day \in Nat
  BY <1>2, Z3
<1>6. local_at(date, c.time) = date * Day + c.time /\ local_at(date, cfg.time) = date * Day + cfg.time
  BY DEF local_at
<1> HIDE DEF Grace, WindowsApart
<1> QED BY <1>0, <1>1, <1>2, <1>4, <1>5, <1>6

\* A cycle remembers a later window than the last one, or delivers nothing.
LEMMA DatesStep ==
  ASSUME WindowsApart, LoopTyped, DatesBooks, [LoopNext]_loopVars
  PROVE  DatesBooks'
<1>0. wall \in Nat /\ cycle_start \in Nat /\ cycle_start <= wall /\ cfg \in Configs
  BY LoopAssumption DEF LoopTyped
<1>1. CASE Beside \/ Sleep
  <2>1. UNCHANGED <<cycle_start, last_summary, summaries, doubled>>
    BY <1>1, BesideKeeps DEF Sleep, Clocks, Dates
  <2> QED BY <2>1 DEF DatesBooks
<1>2. ASSUME NEW d \in Durations, NEW e \in Events, Cycle(d, {cycle_start + e} \ {cycle_start})
      PROVE  DatesBooks'
  <2> DEFINE date == summary_window_date(cycle_start, cfg)
             opened == IF cfg.time <= cycle_start % Day THEN DateOf(cycle_start) ELSE DateOf(cycle_start) - 1
             summary == cfg.enabled /\ date \notin {Never, last_summary}
  <2>1. /\ last_summary' = IF summary THEN date ELSE last_summary
        /\ summaries' = IF summary THEN summaries \union {opened} ELSE summaries
        /\ doubled' = (doubled \/ (summary /\ opened \in summaries))
        /\ cycle_start' = cycle_start
    BY <1>2 DEF Cycle, should_run_daily_summary
  <2>2. date # Never => /\ date \in Nat /\ date = opened
                        /\ local_at(date, cfg.time) <= cycle_start
                        /\ cycle_start < local_at(date, cfg.time) + Grace(cfg)
    BY <1>0, WindowIs
  <2> HIDE DEF date, opened
  <2>3. CASE ~summary
    BY <2>1, <2>3 DEF DatesBooks
  <2>4. CASE summary
    <3>1. /\ date \in Nat /\ date # last_summary /\ last_summary' = date /\ summaries' = summaries \union {date}
          /\ doubled' = (doubled \/ date \in summaries) /\ local_at(date, cfg.time) <= cycle_start
      BY <2>1, <2>2, <2>4
    <3>2. last_summary # Never => last_summary < date /\ last_summary \in Nat
      BY <2>2, <2>4, <3>1, NotBack
    <3>3. \A y \in summaries : y \in Nat /\ y < date
      BY <3>1, <3>2 DEF DatesBooks, Never
    <3>4. ~doubled /\ date \notin summaries
      BY <3>1, <3>3 DEF DatesBooks
    <3>5. \E c \in Configs : local_at(last_summary', c.time) <= cycle_start'
      BY <1>0, <2>1, <3>1
    <3>6. /\ last_summary' \in summaries'
          /\ \A y \in summaries' : y \in Nat /\ y <= last_summary'
      BY <3>1, <3>3
    <3> QED BY <3>1, <3>4, <3>5, <3>6 DEF DatesBooks
  <2> QED BY <2>3, <2>4
<1>3. CASE Begins
  <2>1. cycle_start' = wall /\ UNCHANGED <<last_summary, summaries, doubled>>
    BY <1>3 DEF Begins, Dates
  <2>2. CASE last_summary = Never /\ summaries = {}
    BY <2>1, <2>2 DEF DatesBooks
  <2>3. CASE ~(last_summary = Never /\ summaries = {})
    <3>1. last_summary \in Nat /\ \E c \in Configs : local_at(last_summary, c.time) <= cycle_start
      BY <2>3 DEF DatesBooks
    <3>2. PICK c \in Configs : local_at(last_summary, c.time) <= cycle_start
      BY <3>1
    <3>3. local_at(last_summary, c.time) \in Nat
      BY <3>1, ConfigIs, OpeningIs
    <3>4. local_at(last_summary', c.time) <= cycle_start'
      BY <1>0, <2>1, <3>2, <3>3
    <3> QED BY <2>1, <2>3, <3>4 DEF DatesBooks
  <2> QED BY <2>2, <2>3
<1> QED BY <1>1, <1>2, <1>3, StepsOfLoop

\* A cycle that began in a window leaves with its summary delivered.
LEMMA DeliveredStep ==
  ASSUME LoopTyped, DatesBooks, DeliveredBooks, [LoopNext]_loopVars
  PROVE  DeliveredBooks'
<1>0. cycle_start \in Nat /\ cfg \in Configs
  BY DEF LoopTyped
<1>1. CASE Beside \/ Sleep
  <2>1. UNCHANGED <<cycle_start, summaries, cfg>> /\ (phase' = phase \/ phase' # "asleep")
    BY <1>1, BesideKeeps DEF Sleep, Clocks, Dates
  <2> QED BY <2>1 DEF DeliveredBooks
<1>2. ASSUME NEW d \in Durations, NEW e \in Events, Cycle(d, {cycle_start + e} \ {cycle_start})
      PROVE  DeliveredBooks'
  <2> DEFINE date == summary_window_date(cycle_start, cfg)
             opened == IF cfg.time <= cycle_start % Day THEN DateOf(cycle_start) ELSE DateOf(cycle_start) - 1
             summary == cfg.enabled /\ date \notin {Never, last_summary}
  <2>1. /\ summaries' = IF summary THEN summaries \union {opened} ELSE summaries
        /\ cycle_start' = cycle_start /\ cfg' = cfg
    BY <1>2 DEF Cycle, should_run_daily_summary
  <2>2. /\ date # Never => date = opened
        /\ \A y \in Nat : local_at(y, cfg.time) <= cycle_start /\ cycle_start < local_at(y, cfg.time) + Grace(cfg)
                             => y = date
    BY <1>0, WindowIs
  <2> HIDE DEF date, opened
  <2>3. SUFFICES ASSUME cfg.enabled, NEW y \in Nat, local_at(y, cfg.time) <= cycle_start,
                        cycle_start < local_at(y, cfg.time) + Grace(cfg)
                 PROVE  y \in summaries'
    BY <2>1 DEF DeliveredBooks
  <2>4. y = date /\ date # Never /\ date = opened
    BY <2>2, <2>3 DEF Never
  <2>5. CASE date = last_summary
    <3>1. last_summary \in summaries
      BY <2>4, <2>5 DEF DatesBooks
    <3> QED BY <2>1, <2>4, <2>5, <3>1
  <2>6. CASE date # last_summary
    BY <2>1, <2>3, <2>4, <2>6
  <2> QED BY <2>5, <2>6
<1>3. CASE Begins
  BY <1>3 DEF Begins, DeliveredBooks
<1> QED BY <1>1, <1>2, <1>3, StepsOfLoop

-----------------------------------------------------------------------------
(* The ingress, and the end.                                               *)

\* An aborted poller is still a poller of its configuration.
LEMMA Aborted ==
  ASSUME NEW P, P = {} \/ \E p : P = {p}, \A p \in P : p \in [config : {c.name : c \in Configs}, aborted : BOOLEAN]
  PROVE  LET Q == {[p EXCEPT !.aborted = TRUE] : p \in P}
         IN  /\ Q = {} \/ \E p : Q = {p}
             /\ \A p \in Q : p \in [config : {c.name : c \in Configs}, aborted : BOOLEAN] /\ p.aborted
<1> DEFINE Q == {[p EXCEPT !.aborted = TRUE] : p \in P}
<1>1. \A p \in Q : p \in [config : {c.name : c \in Configs}, aborted : BOOLEAN] /\ p.aborted
  <2> DEFINE Names == {c.name : c \in Configs}
  <2> SUFFICES ASSUME NEW q \in P PROVE LET p == [q EXCEPT !.aborted = TRUE]
                                       IN  p \in [config : Names, aborted : BOOLEAN] /\ p.aborted
    OBVIOUS
  <2>1. q \in [config : Names, aborted : BOOLEAN]
    OBVIOUS
  <2> HIDE DEF Names
  <2> QED BY <2>1
<1>2. Q = {} \/ \E p : Q = {p}
  <2>1. CASE P = {}
    BY <2>1
  <2>2. ASSUME NEW p, P = {p} PROVE Q = {[p EXCEPT !.aborted = TRUE]}
    BY <2>2
  <2> QED BY <2>1, <2>2
<1> QED BY <1>1, <1>2

\* What a configuration starts is one poller of it, or none.
LEMMA PollerStarts ==
  ASSUME NEW c \in Configs
  PROVE  LET Q == start_telegram_ingress(c)
         IN  /\ Q = {} \/ \E p : Q = {p}
             /\ \A p \in Q : p \in [config : {b.name : b \in Configs}, aborted : BOOLEAN] /\ p.config = c.name
<1> DEFINE Names == {b.name : b \in Configs}
<1>1. c.name \in Names
  OBVIOUS
<1> HIDE DEF Names
<1>2. Poller(c) \in [config : Names, aborted : BOOLEAN] /\ Poller(c).config = c.name
  BY <1>1 DEF Poller
<1>3. start_telegram_ingress(c) \in {{}, {Poller(c)}}
  BY DEF start_telegram_ingress
<1> QED BY <1>2, <1>3 DEF Names

\* A start, a reload, a stop and the end of a poller keep the ingress that of the configuration.
LEMMA IngressStep ==
  ASSUME LoopTyped, IngressBooks, [LoopNext]_loopVars
  PROVE  IngressBooks'
<1>0. cfg \in Configs
  BY DEF LoopTyped
<1>1. ASSUME NEW api \in {"on", "off", "fails"}, Start(api) PROVE IngressBooks'
  <2>1. CASE api = "fails"
    BY <1>1, <2>1 DEF Start, IngressBooks
  <2>2. CASE api # "fails"
    <3>1. pollers' = start_telegram_ingress(cfg) /\ secrets' \in {"none", cfg.name} /\ cfg' = cfg
      BY <1>1, <2>2 DEF Start, load_secrets_at_startup
    <3>2. /\ pollers' = {} \/ \E p : pollers' = {p}
          /\ \A p \in pollers' : p \in [config : {b.name : b \in Configs}, aborted : BOOLEAN] /\ p.config = cfg.name
      BY <1>0, <3>1, PollerStarts
    <3> QED BY <3>1, <3>2 DEF IngressBooks
  <2> QED BY <2>1, <2>2
<1>2. ASSUME NEW c \in Configs, NEW stops \in BOOLEAN, Reload(c, stops) PROVE IngressBooks'
  <2>1. pollers' = restart_telegram_ingress(c, stops) /\ secrets' \in {"none", c.name} /\ cfg' = c
    BY <1>2 DEF Reload, load_secrets_at_startup
  <2>2. CASE stops \/ pollers = {}
    <3>1. pollers' = start_telegram_ingress(c)
      BY <2>1, <2>2 DEF restart_telegram_ingress
    <3>2. /\ pollers' = {} \/ \E p : pollers' = {p}
          /\ \A p \in pollers' : p \in [config : {b.name : b \in Configs}, aborted : BOOLEAN] /\ p.config = c.name
      BY <3>1, PollerStarts
    <3> QED BY <2>1, <3>2 DEF IngressBooks
  <2>3. CASE ~(stops \/ pollers = {})
    <3>1. pollers' = {[p EXCEPT !.aborted = TRUE] : p \in pollers}
      BY <2>1, <2>3 DEF restart_telegram_ingress
    <3>2. /\ pollers' = {} \/ \E p : pollers' = {p}
          /\ \A p \in pollers' : p \in [config : {b.name : b \in Configs}, aborted : BOOLEAN] /\ p.aborted
      BY <3>1, Aborted DEF IngressBooks
    <3> QED BY <2>1, <3>2 DEF IngressBooks
  <2> QED BY <2>2, <2>3
<1>3. ASSUME NEW stops \in BOOLEAN, StopTelegram(stops) PROVE IngressBooks'
  <2>1. phase' = "stop_api" /\ pollers' = IF stops THEN {} ELSE {[p EXCEPT !.aborted = TRUE] : p \in pollers}
    BY <1>3 DEF StopTelegram
  <2>2. /\ pollers' = {} \/ \E p : pollers' = {p}
        /\ \A p \in pollers' : p \in [config : {b.name : b \in Configs}, aborted : BOOLEAN]
    BY <2>1, Aborted DEF IngressBooks
  <2> QED BY <2>1, <2>2 DEF IngressBooks
<1>4. ASSUME NEW p \in pollers, PollerEnds(p) PROVE IngressBooks'
  <2>1. pollers' = pollers \ {p} /\ UNCHANGED <<phase, cfg, secrets>>
    BY <1>4 DEF PollerEnds
  <2>2. pollers' = {}
    BY <2>1 DEF IngressBooks
  <2> QED BY <2>1, <2>2 DEF IngressBooks
<1>5. ASSUME UNCHANGED <<pollers, secrets, cfg>>, phase' = phase \/ phase' \notin {"tick", "asleep"} \/ phase \in {"tick", "asleep"}
      PROVE  IngressBooks'
  BY <1>5 DEF IngressBooks
<1>6. ASSUME NEW d \in Durations, NEW e \in Events, Cycle(d, {cycle_start + e} \ {cycle_start}) PROVE IngressBooks'
  BY <1>5, <1>6 DEF Cycle
<1>7. CASE Sleep \/ WakeTick \/ Stop
  BY <1>5, <1>7 DEF Sleep, WakeTick, Stop
<1>8. CASE StopApi \/ StopGateway \/ StopSupervisor \/ \E instance \in BOOLEAN : StopPool(instance)
  BY <1>5, <1>8 DEF StopApi, StopGateway, StopSupervisor, StopPool
<1>9. CASE Work \/ WorkEnds \/ (\E s \in {"hup", "term"} : Signal(s)) \/ \E s \in {"gateway", "local_api"} : ServiceDies(s)
  BY <1>5, <1>9 DEF Work, WorkEnds, Signal, ServiceDies
<1>10. CASE UNCHANGED loopVars
  BY <1>5, <1>10 DEF loopVars
<1> QED BY <1>1, <1>2, <1>3, <1>4, <1>6, <1>7, <1>8, <1>9, <1>10 DEF LoopNext, Loop, Stopping

\* What the end of run has stopped, nothing starts again.
LEMMA StopStep ==
  ASSUME LoopTyped, StopBooks, [LoopNext]_loopVars
  PROVE  StopBooks'
<1>1. ASSUME NEW api \in {"on", "off", "fails"}, Start(api) PROVE StopBooks'
  BY <1>1 DEF Start, StopBooks
<1>2. CASE Loop
  BY <1>2 DEF Loop, Cycle, Sleep, WakeTick, Reload, StopBooks
<1>3. CASE Stop \/ \E stops \in BOOLEAN : StopTelegram(stops)
  BY <1>3 DEF Stop, StopTelegram, StopBooks
<1>4. CASE StopApi \/ StopGateway
  BY <1>4 DEF StopApi, StopGateway, StopBooks, LoopTyped
<1>5. CASE StopSupervisor \/ \E instance \in BOOLEAN : StopPool(instance)
  BY <1>5 DEF StopPool, StopSupervisor, StopBooks
<1>6. CASE Work \/ WorkEnds
  BY <1>6 DEF Work, WorkEnds, StopBooks
<1>7. CASE (\E s \in {"hup", "term"} : Signal(s)) \/ \E p \in pollers : PollerEnds(p)
  BY <1>7 DEF Signal, PollerEnds, StopBooks
<1>8. CASE \E s \in {"gateway", "local_api"} : ServiceDies(s)
  BY <1>8 DEF ServiceDies, StopBooks
<1>9. CASE UNCHANGED loopVars
  BY <1>9 DEF loopVars, StopBooks
<1> QED BY <1>1, <1>2, <1>3, <1>4, <1>5, <1>6, <1>7, <1>8, <1>9 DEF LoopNext, Stopping

-----------------------------------------------------------------------------
(* The theorems.                                                           *)

\* A daemon that has not started keeps every book.
LEMMA LoopStarts ==
  ASSUME LoopInit
  PROVE  LoopBooks /\ SummaryBooks
<1>1. LoopTyped
  <2>1. 0 \in 0 .. Horizon /\ 0 \in Nat /\ 0 <= 0
    BY LoopAssumption
  <2>2. {} \subseteq {"hup", "term"} /\ {} \subseteq {"gateway", "local_api", "api_died"} /\ FALSE \in BOOLEAN
    OBVIOUS
  <2>3. wall = 0 /\ cycle_start = 0 /\ cfg \in Configs /\ pending = {} /\ serving = {} /\ kids = FALSE
    BY DEF LoopInit
  <2> QED BY <2>1, <2>2, <2>3 DEF LoopTyped
<1>2. IngressBooks
  BY DEF LoopInit, IngressBooks
<1>3. SleepBooks /\ StopBooks /\ DatesBooks /\ DeliveredBooks
  BY DEF LoopInit, SleepBooks, StopBooks, DatesBooks, DeliveredBooks
<1> QED BY <1>1, <1>2, <1>3 DEF LoopBooks, SummaryBooks

\* Every step keeps the books that owe nothing to the summary's times.
LEMMA LoopBooksStep ==
  ASSUME LoopBooks, [LoopNext]_loopVars
  PROVE  LoopBooks'
BY TypedStep, SleepStep, IngressStep, StopStep DEF LoopBooks

\* The ingress and the exit, from the books.
LEMMA BooksTell ==
  ASSUME LoopBooks
  PROVE  LoopTypeOK /\ IngressFollowsConfig /\ NothingOutlivesRun
<1>1. LoopTypeOK
  BY DEF LoopBooks, LoopTyped, IngressBooks, LoopTypeOK
<1>2. Cardinality(pollers) <= 1
  <2>1. CASE pollers = {}
    BY <2>1, FS_EmptySet
  <2>2. CASE \E p : pollers = {p}
    BY <2>2, FS_Singleton
  <2> QED BY <2>1, <2>2 DEF LoopBooks, IngressBooks
<1>3. IngressFollowsConfig
  BY <1>2 DEF LoopBooks, IngressBooks, IngressFollowsConfig
<1>4. NothingOutlivesRun
  BY DEF LoopBooks, StopBooks, NothingOutlivesRun
<1> QED BY <1>1, <1>3, <1>4

\* The summary, from the books: the window's opening belongs to its date.
LEMMA SummaryTells ==
  ASSUME LoopBooks, SummaryBooks
  PROVE  SummaryPerWindow
<1>0. cfg \in Configs /\ cfg.time \in 0 .. Day - 1
  BY ConfigIs DEF LoopBooks, LoopTyped
<1>1. FiresOncePerWindow
  BY DEF SummaryBooks, DatesBooks, FiresOncePerWindow
<1>2. ASSUME phase = "asleep", cfg.enabled, NEW o \in Opens(cfg, cycle_start),
             cycle_start < o + Grace(cfg), o <= cycle_start
      PROVE  DateOf(o) \in summaries
  <2>1. PICK date \in Nat : o = local_at(date, cfg.time)
    BY <1>2 DEF Opens
  <2>2. DateOf(local_at(date, cfg.time)) = date
    BY <1>0, <2>1, OpeningIs
  <2>3. date \in summaries
    BY <1>2, <2>1 DEF SummaryBooks, DeliveredBooks
  <2> QED BY <2>1, <2>2, <2>3
<1> QED BY <1>1, <1>2 DEF SummaryPerWindow

\* Of run and restart_telegram_ingress, whatever config.toml says at each reload: one poller at
\* most and none of an old configuration that has not been aborted, the secrets those of the
\* configuration or none, and nothing supervised left when run returns.
THEOREM IngressAndExitSafe ==
  LoopSpec => [](LoopTypeOK /\ IngressFollowsConfig /\ NothingOutlivesRun)
<1>1. LoopInit => LoopBooks
  BY LoopStarts
<1>2. LoopBooks /\ [LoopNext]_loopVars => LoopBooks'
  BY LoopBooksStep
<1>3. LoopBooks => LoopTypeOK /\ IngressFollowsConfig /\ NothingOutlivesRun
  BY BooksTell
<1> QED BY <1>1, <1>2, <1>3, PTL DEF LoopSpec

\* ... and, where a reload never moves the time of the summary into a window that is still open,
\* no window gets two summaries (the guard of run) and each that a cycle begins in gets its own.
THEOREM LoopSafe ==
  ASSUME WindowsApart
  PROVE  LoopSpec => []LoopInv
<1> DEFINE Inv == LoopBooks /\ SummaryBooks
<1>1. LoopInit => Inv
  BY LoopStarts
<1>2. Inv /\ [LoopNext]_loopVars => Inv'
  BY LoopBooksStep, DatesStep, DeliveredStep DEF LoopBooks, SummaryBooks
<1>3. Inv => LoopInv
  BY BooksTell, SummaryTells DEF LoopInv
<1> HIDE DEF Inv
<1> QED BY <1>1, <1>2, <1>3, PTL DEF LoopSpec

\* compute_sleep_target: no window of the summary and none of the retention sweep opens and
\* closes while the loop sleeps, whatever the agents schedule and however often it is reloaded.
THEOREM WindowsNeverSlept ==
  LoopSpec => NoWindowSleptThrough
<1> DEFINE Lost(open, width) == /\ cycle_start < open /\ open + width <= cycle_start'
                                /\ idle_from + Fallback < open + width
           Awake == (phase = "asleep" /\ phase' = "tick") =>
                       /\ cfg.enabled => \A o \in Opens(cfg, cycle_start') : ~Lost(o, Grace(cfg))
                       /\ \A date \in 0 .. DateOf(cycle_start') :
                            ~Lost(local_at(date, RetentionHour), RetentionWindow)
<1>1. LoopInit => LoopBooks
  BY LoopStarts
<1>2. LoopBooks /\ [LoopNext]_loopVars => LoopBooks'
  BY LoopBooksStep
<1>3. ASSUME LoopBooks, [LoopNext]_loopVars, phase = "asleep", phase' = "tick"
      PROVE  Awake
  <2>0. /\ wall \in Nat /\ cfg \in Configs /\ cycle_start \in Nat
        /\ idle_from \in Nat /\ wake_at \in Nat /\ wall <= wake_at
        /\ wake_at = idle_from + Fallback \/ Heeded
        /\ cfg.time \in 0 .. Day - 1 /\ Grace(cfg) \in Nat /\ Grace(cfg) >= 1
        /\ RetentionHour \in 0 .. Day - 1 /\ RetentionWindow \in Nat /\ RetentionWindow >= 1 /\ Fallback \in Nat
    <3>1. LoopTyped /\ SleepBooks
      BY <1>3 DEF LoopBooks
    <3>2. cfg \in Configs /\ wall \in Nat /\ cycle_start \in Nat
      BY <3>1, LoopAssumption DEF LoopTyped
    <3>3. cfg.time \in 0 .. Day - 1 /\ Grace(cfg) \in Nat /\ Grace(cfg) >= 1
      BY <3>2, ConfigIs, LoopAssumption
    <3>4. RetentionHour \in 0 .. Day - 1 /\ RetentionWindow \in Nat /\ RetentionWindow >= 1 /\ Fallback \in Nat
      BY LoopAssumption
    <3> QED BY <1>3, <3>1, <3>2, <3>3, <3>4 DEF SleepBooks
  <2>1. cycle_start' = wall
    <3>1. ~Beside
      BY <1>3 DEF Beside, Start, Stop, Stopping, StopTelegram, StopApi, StopGateway, StopPool, StopSupervisor,
                  Signal, Work, WorkEnds, PollerEnds, ServiceDies, loopVars
    <3> QED BY <1>3, <3>1, StepsOfLoop DEF Cycle, Sleep, Begins
  <2>2. ASSUME NEW o \in Nat, NEW width \in Nat, width >= 1, Heeded => (o > cycle_start => wake_at <= o)
        PROVE  ~Lost(o, width)
    BY <2>0, <2>1, <2>2
  <2>3. ASSUME cfg.enabled, NEW o \in Opens(cfg, cycle_start') PROVE ~Lost(o, Grace(cfg))
    <3>1. PICK date \in Nat : o = local_at(date, cfg.time)
      BY <2>3 DEF Opens
    <3>2. o \in Nat
      BY <2>0, <3>1, OpeningIs
    <3>3. Heeded => (o > cycle_start => wake_at <= o)
      BY <2>3, <3>1 DEF Heeded
    <3> QED BY <2>0, <2>2, <3>2, <3>3
  <2>4. ASSUME NEW date \in 0 .. DateOf(cycle_start')
        PROVE  ~Lost(local_at(date, RetentionHour), RetentionWindow)
    <3>1. date \in Nat /\ local_at(date, RetentionHour) \in Nat
      BY <2>0, OpeningIs
    <3>2. Heeded => (local_at(date, RetentionHour) > cycle_start => wake_at <= local_at(date, RetentionHour))
      BY <3>1 DEF Heeded
    <3> QED BY <2>0, <2>2, <3>1, <3>2
  <2> HIDE DEF Lost
  <2> QED BY <2>3, <2>4
<1>4. LoopBooks /\ [LoopNext]_loopVars => [Awake]_loopVars
  BY <1>3
<1>5. NoWindowSleptThrough <=> [][Awake]_loopVars
  BY DEF NoWindowSleptThrough
<1> HIDE DEF Awake
<1> QED BY <1>1, <1>2, <1>4, <1>5, PTL DEF LoopSpec

-----------------------------------------------------------------------------
(* The processes that a dead daemon leaves.                                *)

Processes == [kind : {"free", "child", "other"}, serial : Nat, owner : Daemons \union {"none"},
              cmd : Commands \union {<<>>}, start : Int, leader : BOOLEAN, at : Int]
Written == [pid : Pids, serial : Nat, at : Int, cmd : Commands]
Boots == [stage : {"down", "claimed", "grace", "up", "stopped", "dead"},
          read : SUBSET Written, todo : SUBSET Written]
Files == [kind : {"none", "corrupt", "records"}, recs : SUBSET Written]
Scribes == [pc : {"off", "look", "write", "parked"}, payload : SUBSET Written, written : Files,
            woken : BOOLEAN]

BootTyped ==
    /\ clock \in 1 .. MaxTime /\ serials \in 0 .. MaxSerial /\ pidfile \in Daemons \union {"none"}
    /\ proc \in [Pids -> Processes] /\ daemon \in [Daemons -> Boots] /\ snapshot \in Files
    /\ scribe \in [Daemons -> Scribes]
    /\ reaped \subseteq 1 .. serials /\ excused \subseteq 1 .. serials

\* A child is what its record says; a serial is of one process.
ProcBooks(p) ==
    LET x == proc[p]
    IN  /\ x.start <= clock
        /\ x.kind # "free" => x.serial \in 1 .. serials
        /\ x.kind = "child" => /\ x.leader /\ x.cmd \in Commands
                               /\ x.at - 1 <= x.start /\ x.start <= x.at /\ x.at <= clock
        /\ \A q \in Pids : x.kind # "free" /\ proc[q].kind # "free" /\ proc[q].serial = x.serial => q = p

\* A pid that is on record is of the recorded process, or went to another a while after its end.
RecBooks(r) ==
    LET x == proc[r.pid]
    IN  /\ r.serial \in 1 .. serials
        /\ x.kind = "free" => r.at <= x.start
        /\ x.kind # "free" /\ x.serial # r.serial => x.start > r.at + Forward
        /\ r.at <= clock
        /\ \A q \in Pids : proc[q].kind # "free" /\ proc[q].serial = r.serial =>
              q = r.pid /\ proc[q].kind = "child" /\ proc[q].at = r.at /\ proc[q].cmd = r.cmd

\* Whatever holds records holds records of processes that there were.
OnRecord(r) == \/ r \in snapshot.recs
           \/ \E d \in Daemons : r \in daemon[d].read \union daemon[d].todo \union scribe[d].payload

\* A boot has dealt with what it read, or will.
ReapBooks(d) ==
    /\ daemon[d].stage \in {"down", "claimed"} => daemon[d].read = {}
    /\ daemon[d].stage \in {"grace", "up"} => \A r \in daemon[d].read :
          Running(r.serial) => \/ r.serial \in excused
                               \/ daemon[d].stage = "grace" /\ r \in daemon[d].todo

\* Nobody is left out of a snapshot without a wake-up.
ScribeBooks(d) ==
    daemon[d].stage = "up" /\ ~scribe[d].woken =>
        /\ scribe[d].pc = "parked" => Children(d) = {} /\ scribe[d].written = Saved({})
        /\ scribe[d].pc = "write" /\ scribe[d].payload = {} => Children(d) = {}

BootBooks ==
    /\ BootTyped /\ "stranger" \notin harmed /\ ReapedIsGone
    /\ \A p \in Pids : ProcBooks(p)
    /\ \A r \in Written : OnRecord(r) => RecBooks(r)
    /\ \A d \in Daemons : ReapBooks(d) /\ ScribeBooks(d)

\* The bounds of the model, and the tolerances.
LEMMA BootBounds ==
  ASSUME BootAssumption
  PROVE  /\ Tolerance \in Int /\ Forward \in Int /\ 0 <= Forward /\ 1 <= Tolerance
         /\ MaxTime \in Nat /\ 1 <= MaxTime /\ MaxSerial \in Nat
         /\ \A c \in Commands : c \in Seq([base : STRING, path : BOOLEAN]) /\ c # <<>>
  BY DEF BootAssumption

\* A non-empty set of positions has a last one.
LEMMA LastPosition ==
  ASSUME NEW n \in Nat, NEW S \in SUBSET (1 .. n), S # {}
  PROVE  Max(S) \in S
<1> DEFINE T == {k \in Nat : n - k \in S}
<1>1. T \subseteq Nat /\ T # {}
  <2>1. PICK y \in S : TRUE  OBVIOUS
  <2>2. n - y \in Nat /\ n - (n - y) = y  OBVIOUS
  <2>3. QED  BY <2>1, <2>2
<1>2. PICK x \in T : \A y \in T : ~(<<y, x>> \in OpToRel(<, Nat))
  <2> HIDE DEF T
  <2>1. QED  BY <1>1, NatLessThanWellFounded, WFMin
<1>3. n - x \in S /\ \A y \in S : n - x >= y
  <2>1. \A y \in S : n - y \in T /\ n - (n - y) = y  OBVIOUS
  <2>2. \A y \in T : ~(y < x)  BY <1>2 DEF OpToRel
  <2>3. QED  BY <2>1, <2>2
<1>4. QED  BY <1>3 DEF Max

\* A command line agrees with itself.
LEMMA MatchesItself ==
  ASSUME BootAssumption, NEW c \in Commands
  PROVE  command_matches(c, c)
<1> DEFINE paths == {i \in DOMAIN c : c[i].path}
<1>1. c \in Seq([base : STRING, path : BOOLEAN]) /\ c # <<>> /\ Len(c) \in Nat /\ DOMAIN c = 1 .. Len(c)
  BY BootBounds
<1>2. 1 \in DOMAIN c  BY <1>1
<1>3. paths # {} => Max(paths) \in DOMAIN c
  <2>1. paths \in SUBSET (1 .. Len(c))  BY <1>1
  <2> HIDE DEF paths
  <2>2. QED  BY <1>1, <2>1, LastPosition
<1> HIDE DEF paths
<1>4. \E i \in DOMAIN c : c[i].base = c[1].base  BY <1>2
<1>5. paths # {} => \E j \in DOMAIN c : c[j] = c[Max(paths)]  BY <1>3
<1>6. QED  BY <1>1, <1>4, <1>5 DEF command_matches, paths

\* The three proofs of identity tell the recorded process from every other.
LEMMA TellsApart ==
  ASSUME BootAssumption, BootTyped, \A p \in Pids : ProcBooks(p), NEW r \in Written, RecBooks(r)
  PROVE  /\ Running(r.serial) <=> classify(r, proc[r.pid]) = "reap"
         /\ classify(r, proc[r.pid]) = "reap" => proc[r.pid].serial = r.serial
         /\ classify(r, proc[r.pid]) = "gone" => ~Running(r.serial)
<1> DEFINE x == proc[r.pid]
<1>1. /\ r.pid \in Pids /\ x \in Processes /\ r.at \in Int /\ r.serial \in Nat /\ r.cmd \in Commands
      /\ x.start \in Int /\ x.at \in Int /\ clock \in Int
  BY DEF BootTyped, Written, Processes
<1>2. ProcBooks(r.pid)  BY <1>1
<1>3. ASSUME Running(r.serial)
      PROVE  classify(r, x) = "reap" /\ x.kind # "free" /\ x.serial = r.serial
  <2>1. PICK q \in Pids : proc[q].kind # "free" /\ proc[q].serial = r.serial  BY <1>3 DEF Running
  <2>2. q = r.pid /\ x.kind = "child" /\ x.at = r.at /\ x.cmd = r.cmd /\ x.serial = r.serial
    BY <2>1 DEF RecBooks
  <2>3. x.leader /\ x.at - 1 <= x.start /\ x.start <= x.at  BY <1>2, <2>2 DEF ProcBooks
  <2>4. ~(r.at - x.start > Tolerance) /\ ~(x.start - r.at > Forward)
    BY <1>1, <2>2, <2>3, BootBounds
  <2>5. command_matches(r.cmd, x.cmd)  BY <1>1, <2>2, MatchesItself
  <2>6. QED  BY <2>2, <2>3, <2>4, <2>5 DEF classify
<1>4. ASSUME classify(r, x) = "reap"
      PROVE  Running(r.serial) /\ x.serial = r.serial
  <2>1. x.kind # "free" /\ ~(x.start - r.at > Forward)  BY <1>4 DEF classify
  <2>2. x.serial = r.serial  BY <1>1, <2>1, BootBounds DEF RecBooks
  <2>3. QED  BY <1>1, <2>1, <2>2 DEF Running
<1>5. classify(r, x) = "gone" => classify(r, x) # "reap"  OBVIOUS
<1>6. QED  BY <1>3, <1>4, <1>5

-----------------------------------------------------------------------------
(* Processes come and go.                                                  *)

\* What the machine does in a step, as far as the books are concerned.
Moved ==
    /\ proc' \in [Pids -> Processes] /\ clock' \in 1 .. MaxTime /\ serials' \in 0 .. MaxSerial
    /\ serials <= serials'
    /\ \A p \in Pids : ProcBooks(p)'
    /\ \A r \in Written : RecBooks(r) => RecBooks(r)'
    /\ \A s \in 1 .. serials : Running(s)' => Running(s)

\* Processes end, or nothing happens to them, and time may pass.
LEMMA EndsMove ==
  ASSUME BootAssumption, BootBooks, NEW S, clock' \in 1 .. MaxTime, clock <= clock', serials' = serials,
         proc' = [p \in Pids |-> IF p \in S THEN Free(clock) ELSE proc[p]]
  PROVE  /\ Moved
         /\ \A d \in Daemons : Children(d)' = Children(d) \ S
<1> USE DEF BootBooks
<1>1. /\ proc \in [Pids -> Processes] /\ clock \in Int /\ serials \in 0 .. MaxSerial /\ clock' \in Int
  BY BootBounds DEF BootTyped
<1>2. Free(clock) \in Processes /\ Free(clock).kind = "free" /\ Free(clock).start = clock
  BY <1>1 DEF Free, Processes
<1>3. /\ proc' \in [Pids -> Processes]
      /\ \A p \in Pids : proc'[p] = IF p \in S THEN Free(clock) ELSE proc[p]
  BY <1>1, <1>2
<1>4. \A p \in Pids : proc'[p].kind # "free" => proc'[p] = proc[p]  BY <1>2, <1>3
<1>5. ASSUME NEW p \in Pids PROVE ProcBooks(p)'
  <2>1. ProcBooks(p) /\ proc[p].start \in Int /\ proc[p].at \in Int  BY <1>1 DEF Processes
  <2>2. proc'[p].start <= clock'
    <3>1. CASE p \in S  BY <1>1, <1>2, <1>3, <3>1
    <3>2. CASE p \notin S  BY <1>1, <1>3, <2>1, <3>2 DEF ProcBooks
    <3>3. QED  BY <3>1, <3>2
  <2>3. CASE proc'[p].kind = "free"  BY <2>2, <2>3 DEF ProcBooks
  <2>4. CASE proc'[p].kind # "free"
    <3>1. proc'[p] = proc[p]  BY <1>4, <2>4
    <3>2. proc[p].kind = "child" => proc[p].at <= clock'  BY <1>1, <2>1 DEF ProcBooks
    <3>3. \A q \in Pids : proc'[q].kind # "free" /\ proc'[q].serial = proc[p].serial => q = p
      BY <1>4, <2>1, <2>4, <3>1 DEF ProcBooks
    <3>4. QED  BY <2>1, <2>2, <3>1, <3>2, <3>3 DEF ProcBooks
  <2>5. QED  BY <2>3, <2>4
<1>6. ASSUME NEW r \in Written, RecBooks(r) PROVE RecBooks(r)'
  <2>1. r.pid \in Pids /\ r.at \in Int  BY DEF Written
  <2>2. r.at <= clock'  BY <1>1, <1>6, <2>1 DEF RecBooks
  <2>3. \A q \in Pids : proc'[q].kind # "free" /\ proc'[q].serial = r.serial =>
           q = r.pid /\ proc'[q].kind = "child" /\ proc'[q].at = r.at /\ proc'[q].cmd = r.cmd
    BY <1>4, <1>6 DEF RecBooks
  <2>4. proc'[r.pid].kind = "free" => r.at <= proc'[r.pid].start
    BY <1>2, <1>3, <1>6, <2>1 DEF RecBooks
  <2>5. proc'[r.pid].kind # "free" /\ proc'[r.pid].serial # r.serial => proc'[r.pid].start > r.at + Forward
    BY <1>4, <1>6, <2>1 DEF RecBooks
  <2>6. QED  BY <1>6, <2>2, <2>3, <2>4, <2>5 DEF RecBooks
<1>7. \A s \in 1 .. serials : Running(s)' => Running(s)  BY <1>4 DEF Running
<1>8. \A d \in Daemons : Children(d)' = Children(d) \ S
  BY <1>2, <1>3 DEF Children
<1>9. serials <= serials'  BY <1>1
<1>10. QED  BY <1>1, <1>3, <1>5, <1>6, <1>7, <1>8, <1>9 DEF Moved

\* Nothing happens to the processes.
LEMMA StillMove ==
  ASSUME BootAssumption, BootBooks, UNCHANGED <<clock, proc, serials>>
  PROVE  /\ Moved
         /\ \A d \in Daemons : Children(d)' = Children(d)
<1>1. proc = [p \in Pids |-> proc[p]] /\ clock \in 1 .. MaxTime  BY DEF BootBooks, BootTyped
<1>2. proc' = [p \in Pids |-> IF p \in {} THEN Free(clock) ELSE proc[p]]  BY <1>1
<1>3. clock' \in 1 .. MaxTime /\ clock <= clock' /\ serials' = serials  BY <1>1, BootBounds
<1>4. Moved /\ \A d \in Daemons : Children(d)' = Children(d) \ {}  BY <1>2, <1>3, EndsMove
<1>5. QED  BY <1>4

\* A process begins where another ended a while ago.
LEMMA BeginsMove ==
  ASSUME BootAssumption, BootBooks, NEW p \in Pids, NEW x \in Processes, proc' = [proc EXCEPT ![p] = x],
         clock' = clock, serials' = serials + 1, serials < MaxSerial, x.kind # "free", x.serial = serials + 1,
         proc[p].kind = "free", proc[p].start + Forward < x.start, x.start <= clock,
         x.kind = "child" => x.leader /\ x.cmd \in Commands /\ x.at - 1 <= x.start /\ x.start <= x.at /\ x.at <= clock
  PROVE  Moved /\ proc'[p] = x /\ \A q \in Pids : q # p => proc'[q] = proc[q]
<1> USE DEF BootBooks
<1>1. /\ proc \in [Pids -> Processes] /\ clock \in Int /\ serials \in 0 .. MaxSerial /\ serials \in Nat
      /\ clock \in 1 .. MaxTime
  BY BootBounds DEF BootTyped
<1>2. proc' \in [Pids -> Processes] /\ proc'[p] = x /\ \A q \in Pids : q # p => proc'[q] = proc[q]
  BY <1>1
<1>3. serials' \in 0 .. MaxSerial /\ serials <= serials' /\ serials' \in Nat  BY <1>1, BootBounds
<1>4. \A q \in Pids : proc[q].kind # "free" => proc[q].serial \in Nat /\ proc[q].serial <= serials
  BY <1>1 DEF ProcBooks
<1>5. ASSUME NEW q \in Pids PROVE ProcBooks(q)'
  <2>1. ProcBooks(q)  OBVIOUS
  <2>2. CASE q = p
    <3>1. \A o \in Pids : proc'[o].kind # "free" /\ proc'[o].serial = x.serial => o = p
      BY <1>1, <1>2, <1>4
    <3>2. x.serial \in 1 .. serials'  BY <1>1
    <3>3. QED  BY <1>2, <2>2, <3>1, <3>2 DEF ProcBooks
  <2>3. CASE q # p
    <3>1. proc'[q] = proc[q]  BY <1>2, <2>3
    <3>2. proc[q].kind # "free" => proc[q].serial \in 1 .. serials' /\ proc[q].serial # x.serial
      BY <1>1, <2>1 DEF ProcBooks
    <3>3. \A o \in Pids : proc[q].kind # "free" /\ proc'[o].kind # "free" /\ proc'[o].serial = proc[q].serial => o = q
      BY <1>2, <2>1, <3>2 DEF ProcBooks
    <3>4. QED  BY <2>1, <3>1, <3>2, <3>3 DEF ProcBooks
  <2>4. QED  BY <2>2, <2>3
<1>6. ASSUME NEW r \in Written, RecBooks(r) PROVE RecBooks(r)'
  <2>1. /\ r.pid \in Pids /\ r.at \in Int /\ r.serial \in 1 .. serials /\ r.serial \in 1 .. serials'
        /\ x.serial # r.serial /\ r.at <= clock'
    BY <1>1, <1>6 DEF Written, RecBooks
  <2>2. \A q \in Pids : proc'[q].kind # "free" /\ proc'[q].serial = r.serial =>
           q = r.pid /\ proc'[q].kind = "child" /\ proc'[q].at = r.at /\ proc'[q].cmd = r.cmd
    BY <1>2, <1>6, <2>1 DEF RecBooks
  <2>3. CASE r.pid = p
    <3>1. r.at <= proc[p].start  BY <1>6, <2>3 DEF RecBooks
    <3>2. x.start \in Int /\ proc[p].start \in Int  BY <1>1 DEF Processes
    <3>3. x.start > r.at + Forward  BY <2>1, <3>1, <3>2, BootBounds
    <3>4. QED  BY <1>2, <2>1, <2>2, <2>3, <3>3 DEF RecBooks
  <2>4. CASE r.pid # p
    <3>1. proc'[r.pid] = proc[r.pid]  BY <1>2, <2>1, <2>4
    <3>2. QED  BY <1>6, <2>1, <2>2, <3>1 DEF RecBooks
  <2>5. QED  BY <2>3, <2>4
<1>7. ASSUME NEW s \in 1 .. serials, Running(s)' PROVE Running(s)
  <2>1. PICK q \in Pids : proc'[q].kind # "free" /\ proc'[q].serial = s  BY <1>7 DEF Running
  <2>2. q # p  BY <1>1, <1>2, <2>1
  <2>3. QED  BY <1>2, <2>1, <2>2 DEF Running
<1>8. QED  BY <1>1, <1>2, <1>3, <1>5, <1>6, <1>7 DEF Moved

\* No daemon takes part: the books are those of the processes.
LEMMA BystandersKeep ==
  ASSUME BootAssumption, BootBooks, Moved,
         UNCHANGED <<pidfile, snapshot, daemon, reaped, excused, harmed>>,
         scribe' \in [Daemons -> Scribes],
         \A d \in Daemons : /\ scribe'[d].pc = scribe[d].pc /\ scribe'[d].payload = scribe[d].payload
                            /\ scribe'[d].written = scribe[d].written
                            /\ scribe'[d].woken \/ (~scribe[d].woken /\ Children(d)' \subseteq Children(d))
  PROVE  BootBooks'
<1> USE DEF BootBooks
<1>1. BootTyped'
  <2>1. serials \in Nat /\ serials' \in Nat /\ serials <= serials'  BY BootBounds DEF BootTyped, Moved
  <2>2. reaped' \subseteq 1 .. serials' /\ excused' \subseteq 1 .. serials'  BY <2>1 DEF BootTyped
  <2>3. QED  BY <2>2 DEF BootTyped, Moved
<1>2. ReapedIsGone'  BY DEF ReapedIsGone, BootTyped, Moved
<1>3. \A r \in Written : OnRecord(r)' => RecBooks(r)'  BY DEF OnRecord, Moved
<1>4. ASSUME NEW d \in Daemons PROVE ReapBooks(d)' /\ ScribeBooks(d)'
  <2>1. ReapBooks(d) /\ ScribeBooks(d)  OBVIOUS
  <2>2. \A r \in daemon[d].read : Running(r.serial)' => Running(r.serial)
    <3>1. SUFFICES ASSUME NEW r \in daemon[d].read PROVE Running(r.serial)' => Running(r.serial)  OBVIOUS
    <3>2. daemon[d] \in Boots  BY DEF BootTyped
    <3>3. r \in Written /\ OnRecord(r)  BY <3>2 DEF Boots, OnRecord
    <3>4. r.serial \in 1 .. serials  BY <3>3 DEF RecBooks
    <3>5. QED  BY <3>4 DEF Moved
  <2>3. ReapBooks(d)'  BY <2>1, <2>2 DEF ReapBooks
  <2>4. ScribeBooks(d)'  BY <2>1 DEF ScribeBooks
  <2>5. QED  BY <2>3, <2>4
<1>5. \A p \in Pids : ProcBooks(p)'  BY DEF Moved
<1>6. QED  BY <1>1, <1>2, <1>3, <1>4, <1>5

\* One daemon moves, and it alone.
Becomes(d, b, c) ==
    /\ daemon' \in [Daemons -> Boots] /\ scribe' \in [Daemons -> Scribes]
    /\ daemon'[d] = b /\ scribe'[d] = c
    /\ \A e \in Daemons : e # d => daemon'[e] = daemon[e] /\ scribe'[e] = scribe[e]

\* A daemon's records are replaced.
LEMMA BecomesSo ==
  ASSUME BootTyped, NEW d \in Daemons, NEW b \in Boots, NEW c \in Scribes,
         daemon' = [daemon EXCEPT ![d] = b], scribe' = [scribe EXCEPT ![d] = c]
  PROVE  Becomes(d, b, c)
  BY DEF BootTyped, Becomes

\* One daemon moves, holding no record of a process that there was not.
LEMMA DaemonMovesKeep ==
  ASSUME BootAssumption, BootBooks, Moved, NEW d \in Daemons, NEW b \in Boots, NEW c \in Scribes,
         Becomes(d, b, c), snapshot' \in Files, pidfile' \in Daemons \union {"none"},
         \A r \in snapshot'.recs \union b.read \union b.todo \union c.payload : OnRecord(r) \/ RecBooks(r)',
         \A e \in Daemons : e # d => Children(e)' \subseteq Children(e),
         ReapBooks(d)', ScribeBooks(d)', excused \subseteq excused', excused' \subseteq 1 .. serials',
         reaped' \subseteq 1 .. serials', ReapedIsGone', "stranger" \notin harmed'
  PROVE  BootBooks'
<1> USE DEF BootBooks
<1>1. BootTyped'  BY DEF BootTyped, Moved, Becomes
<1>2. ASSUME NEW r \in Written, OnRecord(r)' PROVE RecBooks(r)'
  <2>1. OnRecord(r) \/ r \in snapshot'.recs \union b.read \union b.todo \union c.payload
    BY <1>2 DEF OnRecord, Becomes
  <2>2. OnRecord(r) \/ RecBooks(r)'  BY <2>1
  <2>3. QED  BY <2>2 DEF Moved
<1>3. ASSUME NEW e \in Daemons PROVE ReapBooks(e)' /\ ScribeBooks(e)'
  <2>1. CASE e = d  BY <2>1
  <2>2. CASE e # d
    <3>1. daemon'[e] = daemon[e] /\ scribe'[e] = scribe[e] /\ ReapBooks(e) /\ ScribeBooks(e)
      BY <2>2 DEF Becomes
    <3>2. \A r \in daemon[e].read : Running(r.serial)' => Running(r.serial)
      <4>1. SUFFICES ASSUME NEW r \in daemon[e].read PROVE Running(r.serial)' => Running(r.serial)  OBVIOUS
      <4>2. daemon[e] \in Boots  BY DEF BootTyped
      <4>3. r \in Written /\ OnRecord(r)  BY <4>2 DEF Boots, OnRecord
      <4>4. r.serial \in 1 .. serials  BY <4>3 DEF RecBooks
      <4>5. QED  BY <4>4 DEF Moved
    <3>3. ReapBooks(e)'  BY <3>1, <3>2 DEF ReapBooks
    <3>4. Children(e)' \subseteq Children(e)  BY <2>2
    <3>5. ScribeBooks(e)'  BY <3>1, <3>4 DEF ScribeBooks
    <3>6. QED  BY <3>3, <3>5
  <2>3. QED  BY <2>1, <2>2
<1>4. \A p \in Pids : ProcBooks(p)'  BY DEF Moved
<1>5. QED  BY <1>1, <1>2, <1>3, <1>4

\* What is gone stays gone.
LEMMA GoneStays ==
  ASSUME BootBooks, Moved, reaped' = reaped
  PROVE  ReapedIsGone' /\ reaped' \subseteq 1 .. serials'
<1>1. serials \in Int /\ serials' \in Int /\ serials <= serials' /\ reaped \subseteq 1 .. serials
  BY DEF BootBooks, BootTyped, Moved
<1>2. QED  BY <1>1 DEF BootBooks, Moved, ReapedIsGone

\* What a boot excuses it goes on excusing.
LEMMA ExcusesStay ==
  ASSUME BootBooks, Moved, excused' = excused
  PROVE  excused \subseteq excused' /\ excused' \subseteq 1 .. serials'
<1>1. serials \in Int /\ serials' \in Int /\ serials <= serials' /\ excused \subseteq 1 .. serials
  BY DEF BootBooks, BootTyped, Moved
<1>2. QED  BY <1>1

-----------------------------------------------------------------------------
(* The actions of a boot.                                                  *)

\* The pid file is claimed.
LEMMA write_pidfileKeeps ==
  ASSUME BootAssumption, BootBooks, NEW d \in Daemons, write_pidfile(d)
  PROVE  BootBooks'
<1> USE DEF BootBooks
<1> DEFINE b == [daemon[d] EXCEPT !.stage = "claimed"]
           c == scribe[d]
<1>1. /\ daemon[d].stage = "down" /\ pidfile' = d /\ daemon' = [daemon EXCEPT ![d] = b]
      /\ UNCHANGED <<clock, proc, serials, snapshot, scribe, reaped, excused, harmed>>
  BY DEF write_pidfile, At
<1>2. b \in Boots /\ b.stage = "claimed" /\ b.read = daemon[d].read /\ b.todo = daemon[d].todo /\ c \in Scribes
  BY DEF BootTyped, Boots
<1>3. scribe' = [scribe EXCEPT ![d] = c]  BY <1>1 DEF BootTyped
<1> HIDE DEF b
<1>4. Becomes(d, b, c)  BY <1>1, <1>2, <1>3, BecomesSo
<1>5. Moved /\ \A e \in Daemons : Children(e)' = Children(e)  BY <1>1, StillMove
<1>6. ReapBooks(d)' /\ ScribeBooks(d)'
  BY <1>1, <1>2, <1>4 DEF ReapBooks, ScribeBooks, Becomes
<1>7. \A r \in snapshot'.recs \union b.read \union b.todo \union c.payload : OnRecord(r)
  BY <1>1, <1>2 DEF OnRecord
<1>8. snapshot' \in Files /\ pidfile' \in Daemons \union {"none"} /\ "stranger" \notin harmed'
  BY <1>1 DEF BootTyped
<1>9. ReapedIsGone' /\ reaped' \subseteq 1 .. serials' /\ excused \subseteq excused' /\ excused' \subseteq 1 .. serials'
  BY <1>1, <1>5, GoneStays, ExcusesStay
<1>10. QED  BY <1>2, <1>4, <1>5, <1>6, <1>7, <1>8, <1>9, DaemonMovesKeep

\* A daemon that is up begins with a look, having dealt with what it read.
LEMMA UpKeeps ==
  ASSUME BootAssumption, BootBooks, NEW d \in Daemons, Up(d),
         \A r \in daemon[d].read : Running(r.serial) => r.serial \in excused,
         snapshot' \in Files, snapshot'.recs \subseteq snapshot.recs,
         UNCHANGED <<clock, proc, serials, pidfile, reaped, excused, harmed>>
  PROVE  BootBooks'
<1> USE DEF BootBooks
<1> DEFINE b == [daemon[d] EXCEPT !.stage = "up", !.todo = {}]
           c == [scribe[d] EXCEPT !.pc = "look"]
<1>1. daemon' = [daemon EXCEPT ![d] = b] /\ scribe' = [scribe EXCEPT ![d] = c]  BY DEF Up
<1>2. /\ b \in Boots /\ b.stage = "up" /\ b.read = daemon[d].read /\ b.todo = {}
      /\ c \in Scribes /\ c.pc = "look" /\ c.payload = scribe[d].payload
  BY ZenonT(40) DEF BootTyped, Boots, Scribes
<1> HIDE DEF b, c
<1>3. Becomes(d, b, c)  BY <1>1, <1>2, BecomesSo
<1>4. Moved /\ \A e \in Daemons : Children(e)' = Children(e)  BY StillMove
<1>5. ScribeBooks(d)'  BY <1>2, <1>3 DEF ScribeBooks, Becomes
<1>6. ReapBooks(d)'
  <2>1. \A r \in daemon'[d].read : Running(r.serial)' => r.serial \in excused'
    BY <1>2, <1>3 DEF Becomes, Running
  <2>2. QED  BY <1>2, <1>3, <2>1 DEF ReapBooks, Becomes
<1>7. \A r \in snapshot'.recs \union b.read \union b.todo \union c.payload : OnRecord(r)  BY <1>2 DEF OnRecord
<1>8. pidfile' \in Daemons \union {"none"} /\ "stranger" \notin harmed'  BY DEF BootTyped
<1>9. ReapedIsGone' /\ reaped' \subseteq 1 .. serials' /\ excused \subseteq excused' /\ excused' \subseteq 1 .. serials'
  BY <1>4, GoneStays, ExcusesStay
<1>10. QED  BY <1>2, <1>3, <1>4, <1>5, <1>6, <1>7, <1>8, <1>9, DaemonMovesKeep

\* A boot that signals nobody.
LEMMA BootWithoutReapKeeps ==
  ASSUME BootAssumption, BootBooks, NEW d \in Daemons, BootWithoutReap(d)
  PROVE  BootBooks'
<1> USE DEF BootBooks
<1>1. daemon[d].read = {}  BY DEF BootWithoutReap, ReapBooks
<1>2. /\ Up(d) /\ snapshot' \in {snapshot, NoSnapshot}
      /\ UNCHANGED <<clock, proc, serials, pidfile, reaped, excused, harmed>>
  BY DEF BootWithoutReap
<1>3. snapshot' \in Files /\ snapshot'.recs \subseteq snapshot.recs
  BY <1>2 DEF BootTyped, Files, NoSnapshot
<1>4. QED  BY <1>1, <1>2, <1>3, UpKeeps

\* A boot whose grace is over.
LEMMA reap_boot_orphansKeeps ==
  ASSUME BootAssumption, BootBooks, NEW d \in Daemons, reap_boot_orphans(d)
  PROVE  BootBooks'
<1> USE DEF BootBooks
<1>1. \A r \in daemon[d].read : Running(r.serial) => r.serial \in excused
  BY DEF reap_boot_orphans, ReapBooks
<1>2. /\ Up(d) /\ snapshot' = NoSnapshot
      /\ UNCHANGED <<clock, proc, serials, pidfile, reaped, excused, harmed>>
  BY DEF reap_boot_orphans
<1>3. snapshot' \in Files /\ snapshot'.recs \subseteq snapshot.recs  BY <1>2 DEF Files, NoSnapshot
<1>4. QED  BY <1>1, <1>2, <1>3, UpKeeps

\* A record that is judged ours reaches nobody else.
LEMMA NoStranger ==
  ASSUME BootAssumption, BootBooks, NEW r \in Written, OnRecord(r), classify(r, proc[r.pid]) = "reap"
  PROVE  "stranger" \notin Victim(r)
<1>1. proc[r.pid].serial = r.serial  BY TellsApart DEF BootBooks
<1>2. QED  BY <1>1 DEF Victim

\* The snapshot is read and the orphans of it are signalled.
LEMMA reapKeeps ==
  ASSUME BootAssumption, BootBooks, NEW d \in Daemons,
         NEW unread \in SUBSET snapshot.recs, NEW refused \in SUBSET snapshot.recs, reap(d, unread, refused)
  PROVE  BootBooks'
<1> USE DEF BootBooks
<1> DEFINE ours == {r \in snapshot.recs \ unread : classify(r, proc[r.pid]) = "reap"}
           signalled == ours \ refused
           more == {r.serial : r \in unread \union (refused \intersect ours)}
           b == [stage |-> "grace", read |-> snapshot.recs, todo |-> signalled]
           c == scribe[d]
<1>1. /\ harmed' = harmed \union UNION {Victim(r) : r \in signalled}
      /\ excused' = excused \union more /\ daemon' = [daemon EXCEPT ![d] = b]
      /\ UNCHANGED <<clock, proc, serials, pidfile, snapshot, scribe, reaped>>
  BY DEF reap
<1>2. snapshot \in Files /\ snapshot.recs \subseteq Written  BY DEF BootTyped, Files
<1>3. /\ ours \subseteq snapshot.recs /\ signalled \subseteq snapshot.recs
      /\ \A r \in signalled : classify(r, proc[r.pid]) = "reap"
      /\ \A r \in snapshot.recs : classify(r, proc[r.pid]) = "reap" => r \in signalled \/ r.serial \in more
  OBVIOUS
<1>4. more \subseteq {r.serial : r \in snapshot.recs}  OBVIOUS
<1> HIDE DEF ours, signalled, more
<1>5. /\ b \in Boots /\ b.stage = "grace" /\ b.read = snapshot.recs /\ b.todo = signalled /\ c \in Scribes
  BY <1>2, <1>3 DEF BootTyped, Boots
<1> HIDE DEF b
<1>6. scribe' = [scribe EXCEPT ![d] = c]  BY <1>1 DEF BootTyped
<1>7. Becomes(d, b, c)  BY <1>1, <1>5, <1>6, BecomesSo
<1>8. Moved /\ \A e \in Daemons : Children(e)' = Children(e)  BY <1>1, StillMove
<1>9. \A r \in snapshot.recs : r \in Written /\ OnRecord(r) /\ RecBooks(r)  BY <1>2 DEF OnRecord
<1>10. ScribeBooks(d)'  BY <1>5, <1>7 DEF ScribeBooks, Becomes
<1>11. ReapBooks(d)'
  <2>1. \A r \in snapshot.recs : Running(r.serial)' => r.serial \in excused' \/ r \in signalled
    <3>1. SUFFICES ASSUME NEW r \in snapshot.recs, Running(r.serial)'
                   PROVE  r.serial \in excused' \/ r \in signalled
      OBVIOUS
    <3>2. Running(r.serial)  BY <1>1, <3>1 DEF Running
    <3>3. classify(r, proc[r.pid]) = "reap"  BY <1>9, <3>2, TellsApart
    <3>4. QED  BY <1>1, <1>3, <3>3
  <2>2. QED  BY <1>5, <1>7, <2>1 DEF ReapBooks, Becomes
<1>12. \A r \in snapshot'.recs \union b.read \union b.todo \union c.payload : OnRecord(r)
  BY <1>1, <1>3, <1>5 DEF OnRecord
<1>13. "stranger" \notin harmed'
  <2>1. \A r \in signalled : "stranger" \notin Victim(r)  BY <1>3, <1>9, NoStranger
  <2>2. QED  BY <1>1, <2>1
<1>14. excused \subseteq excused' /\ excused' \subseteq 1 .. serials'
  <2>1. \A r \in snapshot.recs : r.serial \in 1 .. serials  BY <1>9 DEF RecBooks
  <2>2. QED  BY ZenonT(40), <1>1, <1>4, <2>1 DEF BootTyped
<1>15. ReapedIsGone' /\ reaped' \subseteq 1 .. serials'  BY <1>1, <1>8, GoneStays
<1>16. snapshot' \in Files /\ pidfile' \in Daemons \union {"none"}  BY <1>1 DEF BootTyped
<1>17. QED
  BY <1>5, <1>7, <1>8, <1>10, <1>11, <1>12, <1>13, <1>14, <1>15, <1>16, DaemonMovesKeep

\* After the grace an orphan is killed, or is found gone.
LEMMA escalateKeeps ==
  ASSUME BootAssumption, BootBooks, NEW d \in Daemons, NEW r \in daemon[d].todo, NEW works \in BOOLEAN,
         escalate(d, r, works)
  PROVE  BootBooks'
<1> USE DEF BootBooks
<1> DEFINE v == classify(r, proc[r.pid])
           b == [daemon[d] EXCEPT !.todo = daemon[d].todo \ {r}]
           c == scribe[d]
           S == IF v = "reap" /\ works THEN {r.pid} ELSE {}
<1>1. /\ daemon[d].stage = "grace" /\ daemon' = [daemon EXCEPT ![d] = b]
      /\ harmed' = (IF v = "reap" THEN harmed \union Victim(r) ELSE harmed)
      /\ proc' = (IF v = "reap" /\ works THEN [proc EXCEPT ![r.pid] = Free(clock)] ELSE proc)
      /\ reaped' = (IF v = "gone" \/ (v = "reap" /\ works) THEN reaped \union {r.serial} ELSE reaped)
      /\ excused' = (IF v = "reap" /\ ~works THEN excused \union {r.serial} ELSE excused)
      /\ UNCHANGED <<clock, serials, pidfile, snapshot, scribe>>
  BY DEF escalate
<1>2. daemon[d] \in Boots /\ c \in Scribes /\ clock \in 1 .. MaxTime /\ clock \in Int  BY DEF BootTyped
<1>3. r \in Written /\ OnRecord(r) /\ RecBooks(r)  BY <1>2 DEF Boots, OnRecord
<1>4. /\ Running(r.serial) <=> v = "reap"
      /\ v = "gone" => ~Running(r.serial)
      /\ r.serial \in 1 .. serials /\ r.pid \in Pids
  <2>1. r.serial \in 1 .. serials /\ r.pid \in Pids  BY <1>3 DEF RecBooks, Written
  <2>2. QED  BY <1>3, <2>1, TellsApart
<1>5. "stranger" \notin harmed'  BY <1>1, <1>3, NoStranger
<1> HIDE DEF v
<1>6. /\ b \in Boots /\ b.stage = "grace" /\ b.read = daemon[d].read /\ b.todo = daemon[d].todo \ {r}
  BY <1>1, <1>2 DEF Boots
<1> HIDE DEF b
<1>7. scribe' = [scribe EXCEPT ![d] = c]  BY <1>1 DEF BootTyped
<1>8. Becomes(d, b, c)  BY <1>1, <1>2, <1>6, <1>7, BecomesSo
<1>9. proc' = [p \in Pids |-> IF p \in S THEN Free(clock) ELSE proc[p]]
  <2>1. proc = [p \in Pids |-> proc[p]]  BY DEF BootTyped
  <2>2. CASE v = "reap" /\ works  BY <1>1, <1>4, <2>1, <2>2
  <2>3. CASE ~(v = "reap" /\ works)  BY <1>1, <2>1, <2>3
  <2>4. QED  BY <2>2, <2>3
<1>10. Moved /\ \A e \in Daemons : Children(e)' = Children(e) \ S
  <2> HIDE DEF S
  <2>1. clock' \in 1 .. MaxTime /\ clock <= clock' /\ serials' = serials  BY <1>1, <1>2
  <2>2. QED  BY <1>9, <2>1, EndsMove
<1>11. \A s \in 1 .. serials : Running(s)' => Running(s)  BY <1>10 DEF Moved
<1>12. v = "reap" /\ works => ~Running(r.serial)'
  <2>1. SUFFICES ASSUME v = "reap", works PROVE ~Running(r.serial)'  OBVIOUS
  <2>2. \A q \in Pids : proc[q].kind # "free" /\ proc[q].serial = r.serial => q = r.pid  BY <1>3 DEF RecBooks
  <2>3. proc'[r.pid].kind = "free" /\ \A q \in Pids : q # r.pid => proc'[q] = proc[q]
    BY <1>4, <1>9, <2>1 DEF Free
  <2>4. QED  BY <2>2, <2>3 DEF Running
<1>13. ReapedIsGone' /\ reaped' \subseteq 1 .. serials'
  <2>1. reaped \subseteq 1 .. serials  BY DEF BootTyped
  <2>2. \A s \in reaped : ~Running(s)'  BY <1>11, <2>1 DEF ReapedIsGone
  <2>3. v = "gone" => ~Running(r.serial)'  BY <1>4, <1>11
  <2>4. \A s \in reaped' : ~Running(s)'  BY <1>1, <1>12, <2>2, <2>3
  <2>5. QED  BY <1>1, <1>4, <2>1, <2>4 DEF ReapedIsGone
<1>14. excused \subseteq excused' /\ excused' \subseteq 1 .. serials'  BY <1>1, <1>4 DEF BootTyped
<1>15. ReapBooks(d)'
  <2>1. \A z \in daemon[d].read : Running(z.serial)' => z.serial \in excused' \/ z \in b.todo
    <3>1. SUFFICES ASSUME NEW z \in daemon[d].read, Running(z.serial)'
                   PROVE  z.serial \in excused' \/ z \in b.todo
      OBVIOUS
    <3>2. z \in Written /\ OnRecord(z)  BY <1>2 DEF Boots, OnRecord
    <3>3. z.serial \in 1 .. serials  BY <3>2 DEF RecBooks
    <3>4. Running(z.serial)  BY <1>11, <3>1, <3>3
    <3>5. z.serial \in excused \/ z \in daemon[d].todo  BY <1>1, <3>4 DEF ReapBooks
    <3>6. CASE z = r
      <4>1. v = "reap" /\ ~works  BY <1>4, <1>12, <3>1, <3>4, <3>6
      <4>2. QED  BY <1>1, <3>6, <4>1
    <3>7. CASE z # r  BY <1>6, <1>14, <3>5, <3>7
    <3>8. QED  BY <3>6, <3>7
  <2>2. QED  BY <1>6, <1>8, <2>1 DEF ReapBooks, Becomes
<1>16. ScribeBooks(d)'  BY <1>6, <1>8 DEF ScribeBooks, Becomes
<1>17. \A z \in snapshot'.recs \union b.read \union b.todo \union c.payload : OnRecord(z)
  BY <1>1, <1>6 DEF OnRecord
<1>18. snapshot' \in Files /\ pidfile' \in Daemons \union {"none"}  BY <1>1 DEF BootTyped
<1>19. \A e \in Daemons : Children(e)' \subseteq Children(e)  BY <1>10
<1>20. QED
  BY <1>2, <1>5, <1>6, <1>8, <1>10, <1>13, <1>14, <1>15, <1>16, <1>17, <1>18, <1>19, DaemonMovesKeep

-----------------------------------------------------------------------------
(* The daemon that is up, and the machine.                                 *)

\* A child is started, and the writer woken.
LEMMA SpawnBootKeeps ==
  ASSUME BootAssumption, BootBooks, NEW d \in Daemons, NEW p \in Pids, NEW cmd \in Commands,
         NEW lag \in 0 .. 1, Spawn(d, p, cmd, lag)
  PROVE  BootBooks'
<1> USE DEF BootBooks
<1> DEFINE x == [kind |-> "child", serial |-> serials + 1, owner |-> d, cmd |-> cmd,
                 start |-> clock - lag, leader |-> TRUE, at |-> clock]
           c == [scribe[d] EXCEPT !.woken = TRUE]
<1>1. /\ serials < MaxSerial /\ proc[p].kind = "free" /\ proc[p].start + Forward < clock - lag
      /\ serials' = serials + 1 /\ proc' = [proc EXCEPT ![p] = x] /\ scribe' = [scribe EXCEPT ![d] = c]
      /\ UNCHANGED <<clock, pidfile, snapshot, daemon, reaped, excused, harmed>>
  BY DEF Spawn, Reusable
<1>2. clock \in Int /\ serials \in Nat /\ lag \in Int  BY DEF BootTyped
<1>3. /\ x \in Processes /\ x.kind = "child" /\ x.serial = serials + 1 /\ x.owner = d /\ x.cmd = cmd
      /\ x.leader /\ x.start = clock - lag /\ x.at = clock
  BY <1>2 DEF Processes
<1>4. c \in Scribes /\ c.woken /\ c.pc = scribe[d].pc /\ c.payload = scribe[d].payload /\ c.written = scribe[d].written
  BY DEF BootTyped, Scribes
<1> HIDE DEF x, c
<1>5. x.start <= clock /\ x.at - 1 <= x.start /\ x.start <= x.at /\ x.at <= clock /\ proc[p].start + Forward < x.start
  BY <1>1, <1>2, <1>3
<1>6. Moved /\ proc'[p] = x /\ \A q \in Pids : q # p => proc'[q] = proc[q]
  BY <1>1, <1>3, <1>5, BeginsMove
<1>7. /\ scribe' \in [Daemons -> Scribes] /\ scribe'[d] = c
      /\ \A e \in Daemons : e # d => scribe'[e] = scribe[e]
  BY <1>1, <1>4 DEF BootTyped
<1>8. \A e \in Daemons : e # d => Children(e)' = Children(e)
  BY <1>1, <1>3, <1>6 DEF Children
<1>9. \A e \in Daemons : scribe[e].woken \in BOOLEAN  BY DEF BootTyped, Scribes
<1>10. \A e \in Daemons : /\ scribe'[e].pc = scribe[e].pc /\ scribe'[e].payload = scribe[e].payload
                          /\ scribe'[e].written = scribe[e].written
                          /\ scribe'[e].woken \/ (~scribe[e].woken /\ Children(e)' \subseteq Children(e))
  <2>1. SUFFICES ASSUME NEW e \in Daemons
                 PROVE  /\ scribe'[e].pc = scribe[e].pc /\ scribe'[e].payload = scribe[e].payload
                        /\ scribe'[e].written = scribe[e].written
                        /\ scribe'[e].woken \/ (~scribe[e].woken /\ Children(e)' \subseteq Children(e))
    OBVIOUS
  <2>2. CASE e = d  BY <1>4, <1>7, <2>2
  <2>3. CASE e # d  BY <1>7, <1>8, <1>9, <2>3
  <2>4. QED  BY <2>2, <2>3
<1>11. QED  BY <1>1, <1>6, <1>7, <1>10, BystandersKeep

\* What the registry says of a child is true of it.
LEMMA RecordTrue ==
  ASSUME BootBooks, NEW d \in Daemons, NEW p \in Children(d)
  PROVE  Record(p) \in Written /\ RecBooks(Record(p))
<1> USE DEF BootBooks
<1>1. p \in Pids /\ proc[p].kind = "child" /\ proc[p] \in Processes  BY DEF Children, BootTyped
<1>2. ProcBooks(p)  BY <1>1
<1> DEFINE r == Record(p)
<1>3. /\ r.pid = p /\ r.serial = proc[p].serial /\ r.at = proc[p].at /\ r.cmd = proc[p].cmd
      /\ r \in Written
  BY <1>1, <1>2 DEF Record, Written, Processes, ProcBooks
<1> HIDE DEF r
<1>4. \A q \in Pids : proc[q].kind # "free" /\ proc[q].serial = r.serial => q = p
  BY <1>1, <1>2, <1>3 DEF ProcBooks
<1>5. RecBooks(r)  BY <1>1, <1>2, <1>3, <1>4 DEF RecBooks, ProcBooks
<1>6. QED  BY <1>3, <1>5 DEF r

\* A step of the snapshot writer, which changes nothing else than the file.
LEMMA ScribeMovesKeep ==
  ASSUME BootAssumption, BootBooks, NEW d \in Daemons, NEW c \in Scribes, scribe' = [scribe EXCEPT ![d] = c],
         snapshot' \in Files,
         \A r \in snapshot'.recs \union c.payload : OnRecord(r) \/ RecBooks(r),
         UNCHANGED <<clock, proc, serials, pidfile, daemon, reaped, excused, harmed>>,
         daemon[d].stage = "up" /\ ~c.woken =>
            /\ c.pc = "parked" => Children(d) = {} /\ c.written = Saved({})
            /\ c.pc = "write" /\ c.payload = {} => Children(d) = {}
  PROVE  BootBooks'
<1> USE DEF BootBooks
<1> DEFINE b == daemon[d]
<1>1. b \in Boots /\ daemon' = [daemon EXCEPT ![d] = b]  BY DEF BootTyped
<1>2. Becomes(d, b, c)  BY <1>1, BecomesSo
<1>3. Moved /\ \A e \in Daemons : Children(e)' = Children(e)  BY StillMove
<1>4. ScribeBooks(d)'  BY <1>2, <1>3 DEF ScribeBooks, Becomes
<1>5. ReapBooks(d)'  BY <1>2 DEF ReapBooks, Becomes, Running
<1>6. \A r \in snapshot'.recs \union b.read \union b.todo \union c.payload : OnRecord(r) \/ RecBooks(r)'
  <2>1. SUFFICES ASSUME NEW r \in snapshot'.recs \union b.read \union b.todo \union c.payload, ~OnRecord(r)
                 PROVE  RecBooks(r)'
    OBVIOUS
  <2>2. r \in snapshot'.recs \union c.payload  BY <2>1 DEF OnRecord
  <2>3. r \in Written  BY <2>2 DEF Files, Scribes
  <2>4. QED  BY <1>3, <2>1, <2>2, <2>3 DEF Moved
<1>7. pidfile' \in Daemons \union {"none"} /\ "stranger" \notin harmed'  BY DEF BootTyped
<1>8. ReapedIsGone' /\ reaped' \subseteq 1 .. serials' /\ excused \subseteq excused' /\ excused' \subseteq 1 .. serials'
  BY <1>3, GoneStays, ExcusesStay
<1>9. QED  BY <1>1, <1>2, <1>3, <1>4, <1>5, <1>6, <1>7, <1>8, DaemonMovesKeep

\* The writer looks at the registry.
LEMMA LookKeeps ==
  ASSUME BootAssumption, BootBooks, NEW d \in Daemons, Look(d)
  PROVE  BootBooks'
<1> USE DEF BootBooks
<1> DEFINE snap == {Record(p) : p \in Children(d)}
           to == IF scribe[d].written # Saved(snap) THEN "write" ELSE IF snap = {} THEN "parked" ELSE "look"
           c == [scribe[d] EXCEPT !.payload = snap, !.woken = FALSE, !.pc = to]
<1>1. scribe[d] \in Scribes  BY DEF BootTyped
<1>2. scribe' = [scribe EXCEPT ![d] = c]
      /\ UNCHANGED <<clock, proc, serials, pidfile, snapshot, daemon, reaped, excused, harmed>>
  BY DEF Look
<1>3. \A r \in snap : r \in Written /\ RecBooks(r)  BY RecordTrue
<1>4. snap = {} => Children(d) = {}  OBVIOUS
<1>5. to \in {"write", "parked", "look"} /\ (to = "parked" => snap = {} /\ scribe[d].written = Saved(snap))
  OBVIOUS
<1> HIDE DEF snap, to
<1>6. c \in Scribes /\ c.pc = to /\ c.payload = snap /\ c.written = scribe[d].written
  BY <1>1, <1>3, <1>5 DEF Scribes
<1> HIDE DEF c
<1>7. /\ c.pc = "parked" => Children(d) = {} /\ c.written = Saved({})
      /\ c.pc = "write" /\ c.payload = {} => Children(d) = {}
  BY <1>4, <1>5, <1>6
<1>8. snapshot' \in Files /\ \A r \in snapshot'.recs \union c.payload : OnRecord(r) \/ RecBooks(r)
  BY <1>2, <1>3, <1>6 DEF BootTyped, OnRecord
<1>9. QED  BY <1>2, <1>6, <1>7, <1>8, ScribeMovesKeep

\* The writer goes back to its look.
LEMMA BackToLookKeeps ==
  ASSUME BootAssumption, BootBooks, NEW d \in Daemons, WriteFails(d) \/ Unpark(d)
  PROVE  BootBooks'
<1> USE DEF BootBooks
<1> DEFINE c == [scribe[d] EXCEPT !.pc = "look"]
<1>1. scribe' = [scribe EXCEPT ![d] = c]
      /\ UNCHANGED <<clock, proc, serials, pidfile, snapshot, daemon, reaped, excused, harmed>>
  BY DEF WriteFails, Unpark
<1>2. c \in Scribes /\ c.pc = "look" /\ c.payload = scribe[d].payload  BY DEF BootTyped, Scribes
<1> HIDE DEF c
<1>3. snapshot' \in Files /\ \A r \in snapshot'.recs \union c.payload : OnRecord(r) \/ RecBooks(r)
  BY <1>1, <1>2 DEF BootTyped, OnRecord
<1>4. QED  BY <1>1, <1>2, <1>3, ScribeMovesKeep

\* The snapshot is on disk.
LEMMA RenameBootKeeps ==
  ASSUME BootAssumption, BootBooks, NEW d \in Daemons, Rename(d)
  PROVE  BootBooks'
<1> USE DEF BootBooks
<1> DEFINE new == Saved(scribe[d].payload)
           to == IF daemon[d].stage = "stopped" THEN "off" ELSE IF scribe[d].payload = {} THEN "parked" ELSE "look"
           c == [scribe[d] EXCEPT !.written = new, !.pc = to]
<1>1. /\ scribe[d].pc = "write" /\ snapshot' = new /\ scribe' = [scribe EXCEPT ![d] = c]
      /\ UNCHANGED <<clock, proc, serials, pidfile, daemon, reaped, excused, harmed>>
  BY DEF Rename
<1>2. scribe[d] \in Scribes  BY DEF BootTyped
<1>3. new \in Files /\ new.recs = scribe[d].payload  BY <1>2 DEF Saved, Files, Scribes
<1>4. to \in {"off", "parked", "look"} /\ (to = "parked" => scribe[d].payload = {})  OBVIOUS
<1>5. new = Saved(scribe[d].payload)  OBVIOUS
<1> HIDE DEF new, to
<1>6. c \in Scribes /\ c.pc = to /\ c.payload = scribe[d].payload /\ c.written = new /\ c.woken = scribe[d].woken
  BY <1>2, <1>3, <1>4 DEF Scribes
<1> HIDE DEF c
<1>7. daemon[d].stage = "up" /\ ~c.woken =>
            /\ c.pc = "parked" => Children(d) = {} /\ c.written = Saved({})
            /\ c.pc = "write" /\ c.payload = {} => Children(d) = {}
  <2>1. ScribeBooks(d)  OBVIOUS
  <2>2. QED  BY <1>1, <1>4, <1>5, <1>6, <2>1 DEF ScribeBooks
<1>8. snapshot' \in Files /\ \A r \in snapshot'.recs \union c.payload : OnRecord(r) \/ RecBooks(r)
  BY <1>1, <1>3, <1>6 DEF OnRecord
<1>9. QED  BY <1>1, <1>6, <1>7, <1>8, ScribeMovesKeep

\* The run is over, and the children with it.
LEMMA StopCleanlyKeeps ==
  ASSUME BootAssumption, BootBooks, NEW d \in Daemons, StopCleanly(d)
  PROVE  BootBooks'
<1> USE DEF BootBooks
<1> DEFINE b == [daemon[d] EXCEPT !.stage = "stopped"]
           to == IF scribe[d].pc = "write" THEN "write" ELSE "off"
           c == [scribe[d] EXCEPT !.pc = to]
           S == Children(d)
<1>1. /\ proc' = [p \in Pids |-> IF p \in S THEN Free(clock) ELSE proc[p]]
      /\ snapshot' = NoSnapshot /\ pidfile' = "none"
      /\ daemon' = [daemon EXCEPT ![d] = b] /\ scribe' = [scribe EXCEPT ![d] = c]
      /\ UNCHANGED <<clock, serials, reaped, excused, harmed>>
  BY DEF StopCleanly, At
<1>2. to \in {"write", "off"} /\ clock \in 1 .. MaxTime /\ clock \in Int  BY DEF BootTyped
<1> HIDE DEF to
<1>3. /\ b \in Boots /\ b.stage = "stopped" /\ b.read = daemon[d].read /\ b.todo = daemon[d].todo
      /\ c \in Scribes /\ c.payload = scribe[d].payload
  BY <1>2 DEF BootTyped, Boots, Scribes
<1> HIDE DEF b, c
<1>4. Becomes(d, b, c)  BY <1>1, <1>3, BecomesSo
<1>5. Moved /\ \A e \in Daemons : Children(e)' = Children(e) \ S
  <2> HIDE DEF S
  <2>1. clock' \in 1 .. MaxTime /\ clock <= clock' /\ serials' = serials  BY <1>1, <1>2
  <2>2. QED  BY <1>1, <2>1, EndsMove
<1>6. ReapBooks(d)' /\ ScribeBooks(d)'  BY <1>3, <1>4 DEF ReapBooks, ScribeBooks, Becomes
<1>7. snapshot' \in Files /\ snapshot'.recs = {}  BY <1>1 DEF NoSnapshot, Files
<1>8. \A r \in snapshot'.recs \union b.read \union b.todo \union c.payload : OnRecord(r)
  BY <1>3, <1>7 DEF OnRecord
<1>9. ReapedIsGone' /\ reaped' \subseteq 1 .. serials' /\ excused \subseteq excused' /\ excused' \subseteq 1 .. serials'
  BY <1>1, <1>5, GoneStays, ExcusesStay
<1>10. pidfile' \in Daemons \union {"none"} /\ "stranger" \notin harmed'  BY <1>1
<1>11. \A e \in Daemons : Children(e)' \subseteq Children(e)  BY <1>5
<1>12. QED  BY <1>3, <1>4, <1>5, <1>6, <1>7, <1>8, <1>9, <1>10, <1>11, DaemonMovesKeep

\* A daemon is killed, and leaves everything behind.
LEMMA DieKeeps ==
  ASSUME BootAssumption, BootBooks, NEW d \in Daemons, Die(d)
  PROVE  BootBooks'
<1> USE DEF BootBooks
<1> DEFINE b == [stage |-> "dead", read |-> {}, todo |-> {}]
<1>1. /\ daemon' = [daemon EXCEPT ![d] = b] /\ scribe' = [scribe EXCEPT ![d] = NoScribe]
      /\ UNCHANGED <<clock, proc, serials, pidfile, snapshot, reaped, excused, harmed>>
  BY DEF Die
<1>2. /\ b \in Boots /\ b.stage = "dead" /\ b.read = {} /\ b.todo = {}
      /\ NoScribe \in Scribes /\ NoScribe.payload = {}
  BY DEF Boots, NoScribe, Scribes, NoSnapshot, Files
<1> HIDE DEF b
<1>3. Becomes(d, b, NoScribe)  BY <1>1, <1>2, BecomesSo
<1>4. Moved /\ \A e \in Daemons : Children(e)' = Children(e)  BY <1>1, StillMove
<1>5. ReapBooks(d)' /\ ScribeBooks(d)'  BY <1>2, <1>3 DEF ReapBooks, ScribeBooks, Becomes
<1>6. \A r \in snapshot'.recs \union b.read \union b.todo \union NoScribe.payload : OnRecord(r)
  BY <1>1, <1>2 DEF OnRecord
<1>7. ReapedIsGone' /\ reaped' \subseteq 1 .. serials' /\ excused \subseteq excused' /\ excused' \subseteq 1 .. serials'
  BY <1>1, <1>4, GoneStays, ExcusesStay
<1>8. snapshot' \in Files /\ pidfile' \in Daemons \union {"none"} /\ "stranger" \notin harmed'
  BY <1>1 DEF BootTyped
<1>9. QED  BY <1>2, <1>3, <1>4, <1>5, <1>6, <1>7, <1>8, DaemonMovesKeep

\* The machine goes on by itself, or nothing happens at all.
LEMMA MachineKeeps ==
  ASSUME BootAssumption, BootBooks, Moved,
         UNCHANGED <<pidfile, snapshot, daemon, scribe, reaped, excused, harmed>>,
         \A d \in Daemons : Children(d)' \subseteq Children(d)
  PROVE  BootBooks'
<1>1. scribe' \in [Daemons -> Scribes]  BY DEF BootBooks, BootTyped
<1>2. \A d \in Daemons : scribe[d].woken \in BOOLEAN  BY DEF BootBooks, BootTyped, Scribes
<1>3. QED  BY <1>1, <1>2, BystandersKeep

\* A process ends.
LEMMA ProcessEndsKeeps ==
  ASSUME BootAssumption, BootBooks, NEW p \in Pids, ProcessEnds(p)
  PROVE  BootBooks'
<1>1. /\ proc' = [proc EXCEPT ![p] = Free(clock)]
      /\ UNCHANGED <<clock, serials, pidfile, snapshot, daemon, scribe, reaped, excused, harmed>>
  BY DEF ProcessEnds
<1>2. proc = [q \in Pids |-> proc[q]] /\ clock \in 1 .. MaxTime /\ clock \in Int  BY DEF BootBooks, BootTyped
<1>3. proc' = [q \in Pids |-> IF q \in {p} THEN Free(clock) ELSE proc[q]]  BY <1>1, <1>2
<1>4. clock' \in 1 .. MaxTime /\ clock <= clock' /\ serials' = serials  BY <1>1, <1>2
<1>5. Moved /\ \A d \in Daemons : Children(d)' = Children(d) \ {p}  BY <1>3, <1>4, EndsMove
<1>6. QED  BY <1>1, <1>5, MachineKeeps

\* Somebody else starts a process.
LEMMA OtherKeeps ==
  ASSUME BootAssumption, BootBooks, NEW p \in Pids, NEW cmd \in Commands, NEW leader \in BOOLEAN, Other(p, cmd, leader)
  PROVE  BootBooks'
<1> DEFINE x == [kind |-> "other", serial |-> serials + 1, owner |-> "none", cmd |-> cmd,
                 start |-> clock, leader |-> leader, at |-> clock]
<1>1. /\ serials < MaxSerial /\ proc[p].kind = "free" /\ proc[p].start + Forward < clock
      /\ serials' = serials + 1 /\ proc' = [proc EXCEPT ![p] = x]
      /\ UNCHANGED <<clock, pidfile, snapshot, daemon, scribe, reaped, excused, harmed>>
  BY DEF Other, Reusable
<1>2. clock \in Int /\ serials \in Nat  BY DEF BootBooks, BootTyped
<1>3. x \in Processes /\ x.kind = "other" /\ x.serial = serials + 1 /\ x.start = clock  BY <1>2 DEF Processes
<1> HIDE DEF x
<1>4. x.start <= clock /\ proc[p].start + Forward < x.start  BY <1>1, <1>2, <1>3
<1>5. Moved /\ proc'[p] = x /\ \A q \in Pids : q # p => proc'[q] = proc[q]
  BY <1>1, <1>3, <1>4, BeginsMove
<1>6. \A d \in Daemons : Children(d)' \subseteq Children(d)  BY <1>3, <1>5 DEF Children
<1>7. QED  BY <1>1, <1>5, <1>6, MachineKeeps

\* Time passes.
LEMMA LaterKeeps ==
  ASSUME BootAssumption, BootBooks, Later
  PROVE  BootBooks'
<1>1. /\ clock < MaxTime /\ clock' = clock + 1
      /\ UNCHANGED <<proc, serials, pidfile, snapshot, daemon, scribe, reaped, excused, harmed>>
  BY DEF Later
<1>2. proc = [q \in Pids |-> proc[q]] /\ clock \in 1 .. MaxTime  BY DEF BootBooks, BootTyped
<1>3. proc' = [q \in Pids |-> IF q \in {} THEN Free(clock) ELSE proc[q]]  BY <1>1, <1>2
<1>4. clock' \in 1 .. MaxTime /\ clock <= clock' /\ serials' = serials  BY <1>1, <1>2, BootBounds
<1>5. Moved /\ \A d \in Daemons : Children(d)' = Children(d) \ {}  BY <1>3, <1>4, EndsMove
<1>6. QED  BY <1>1, <1>5, MachineKeeps

\* Before the first boot nothing is on record.
LEMMA BootBooksInit ==
  ASSUME BootAssumption, BootInit
  PROVE  BootBooks
<1> USE BootBounds DEF BootInit
<1>1. Free(-Tolerance) \in Processes /\ Free(-Tolerance).kind = "free" /\ Free(-Tolerance).start = -Tolerance
  BY DEF Free, Processes
<1>2. /\ [stage |-> "down", read |-> {}, todo |-> {}] \in Boots /\ NoScribe \in Scribes
      /\ NoScribe.pc = "off" /\ NoScribe.payload = {}
  BY DEF Boots, Scribes, NoScribe, NoSnapshot, Files
<1>3. snapshot \in Files /\ snapshot.recs = {}  BY DEF NoSnapshot, Corrupt, Files
<1>4. BootTyped
  <2>1. clock \in 1 .. MaxTime /\ serials \in 0 .. MaxSerial  OBVIOUS
  <2>2. QED  BY <1>1, <1>2, <1>3, <2>1 DEF BootTyped
<1>5. \A p \in Pids : ProcBooks(p)  BY <1>1 DEF ProcBooks
<1>6. \A r \in Written : ~OnRecord(r)  BY <1>2, <1>3 DEF OnRecord
<1>7. \A d \in Daemons : ReapBooks(d) /\ ScribeBooks(d)  BY DEF ReapBooks, ScribeBooks
<1>8. ReapedIsGone /\ "stranger" \notin harmed  BY DEF ReapedIsGone
<1>9. QED  BY <1>4, <1>5, <1>6, <1>7, <1>8 DEF BootBooks

\* No step of a boot, a daemon, its writer or the machine breaks the books.
LEMMA BootBooksKept ==
  ASSUME BootAssumption, BootBooks, [BootNext]_bootVars
  PROVE  BootBooks'
<1>1. ASSUME NEW d \in Daemons, write_pidfile(d) \/ BootWithoutReap(d) \/ reap_boot_orphans(d)
      PROVE  BootBooks'
  BY <1>1, write_pidfileKeeps, BootWithoutReapKeeps, reap_boot_orphansKeeps
<1>2. ASSUME NEW d \in Daemons, NEW unread \in SUBSET snapshot.recs, NEW refused \in SUBSET snapshot.recs,
             reap(d, unread, refused)
      PROVE  BootBooks'
  BY <1>2, reapKeeps
<1>3. ASSUME NEW d \in Daemons, NEW r \in daemon[d].todo, NEW works \in BOOLEAN, escalate(d, r, works)
      PROVE  BootBooks'
  BY <1>3, escalateKeeps
<1>4. ASSUME NEW d \in Daemons, NEW p \in Pids, NEW cmd \in Commands, NEW lag \in 0 .. 1, Spawn(d, p, cmd, lag)
      PROVE  BootBooks'
  BY <1>4, SpawnBootKeeps
<1>5. ASSUME NEW d \in Daemons, Scribe(d) \/ WriteFails(d) \/ StopCleanly(d) \/ Die(d)
      PROVE  BootBooks'
  BY <1>5, LookKeeps, RenameBootKeeps, BackToLookKeeps, StopCleanlyKeeps, DieKeeps DEF Scribe
<1>6. ASSUME NEW p \in Pids, ProcessEnds(p) \/ \E cmd \in Commands, leader \in BOOLEAN : Other(p, cmd, leader)
      PROVE  BootBooks'
  BY <1>6, ProcessEndsKeeps, OtherKeeps
<1>7. CASE Later  BY <1>7, LaterKeeps
<1>8. CASE UNCHANGED bootVars
  <2>1. UNCHANGED <<clock, proc, serials, pidfile, snapshot, daemon, scribe, reaped, excused, harmed>>
    BY <1>8 DEF bootVars
  <2>2. Moved /\ \A d \in Daemons : Children(d)' = Children(d)  BY <2>1, StillMove
  <2>3. QED  BY <2>1, <2>2, MachineKeeps
<1>9. QED  BY <1>1, <1>2, <1>3, <1>4, <1>5, <1>6, <1>7, <1>8 DEF BootNext

\* What the books say of a boot.
LEMMA BootBooksGive ==
  ASSUME BootAssumption, BootBooks
  PROVE  BootInv
<1> USE DEF BootBooks
<1>1. BootTypeOK
  <2>1. serials \in 0 .. MaxSerial /\ MaxSerial \in Nat  BY BootBounds DEF BootTyped
  <2>2. reaped \subseteq 1 .. MaxSerial /\ excused \subseteq 1 .. MaxSerial  BY <2>1 DEF BootTyped
  <2>3. QED  BY <2>2 DEF BootTypeOK, BootTyped, Boots
<1>2. RecordedOrphansEnd  BY DEF RecordedOrphansEnd, ReapBooks
<1>3. SleepsOnlyUpToDate
  <2>1. SUFFICES ASSUME NEW d \in Daemons, daemon[d].stage = "up", scribe[d].pc = "parked", ~scribe[d].woken
                 PROVE  scribe[d].written = Saved({Record(p) : p \in Children(d)})
    BY DEF SleepsOnlyUpToDate
  <2>2. Children(d) = {} /\ scribe[d].written = Saved({})  BY <2>1 DEF ScribeBooks
  <2>3. {Record(p) : p \in Children(d)} = {}  BY <2>2
  <2>4. QED  BY <2>2, <2>3
<1>4. QED  BY <1>1, <1>2, <1>3 DEF BootInv, SparesStrangers

\* BootSafe: for any daemons, pids given away again, commands and tolerances, a boot signals no
\* process that is not the recorded one, calls none reaped that runs, leaves none running that it
\* could reach, and the snapshot writer sleeps only on a snapshot that is up to date (classify,
\* reap, escalate, start_snapshot_writer).
THEOREM BootSafe == BootSpec => []BootInv
<1>1. BootInit => BootBooks  BY BootBooksInit, BootAssumption
<1>2. BootBooks /\ [BootNext]_bootVars => BootBooks'  BY BootBooksKept, BootAssumption
<1>3. BootBooks => BootInv  BY BootBooksGive, BootAssumption
<1>4. QED  BY <1>1, <1>2, <1>3, PTL DEF BootSpec
-----------------------------------------------------------------------------
(* The power gate.                                                         *)

NothingSeen == [mains |-> Unread, percent |-> Unread]

\* The scan of a directory is one pass: what is known after n supplies comes from what was known before the last
\* of them.
LEMMA ScanIsOnePass ==
  ASSUME NEW dir \in Seq(Supplies)
  PROVE  Scan(dir) = [n \in 0 .. Len(dir) |-> IF n = 0 THEN NothingSeen ELSE Seen(Scan(dir)[n - 1], dir[n])]
<1> DEFINE Pass(g, m) == g = [n \in 0 .. m |-> IF n = 0 THEN NothingSeen ELSE Seen(g[n - 1], dir[n])]
           Undone == {m \in 0 .. Len(dir) : ~\E g : Pass(g, m)}
<1>1. Undone = {}
  <2>1. SUFFICES ASSUME Undone # {} PROVE FALSE
    OBVIOUS
  <2>2. Undone \in SUBSET Nat
    OBVIOUS
  <2>3. PICK m \in Undone : \A k \in Undone : m <= k
    <3> HIDE DEF Undone
    <3> QED BY <2>1, <2>2, MinIs
  <2>4. m # 0
    <3> DEFINE g == [n \in 0 .. 0 |-> NothingSeen]
    <3>1. Pass(g, 0)
      OBVIOUS
    <3> QED BY <3>1
  <2>5. PICK g : Pass(g, m - 1)
    <3>1. m - 1 \in 0 .. Len(dir) /\ ~(m <= m - 1)
      BY <2>4
    <3>2. m - 1 \notin Undone
      BY <2>3, <3>1
    <3> QED BY <3>1, <3>2
  <2> DEFINE h == [n \in 0 .. m |-> IF n = m THEN Seen(g[m - 1], dir[m]) ELSE g[n]]
  <2>6. Pass(h, m)
    <3>1. \A n \in 0 .. m - 1 : h[n] = g[n]
      BY <2>4
    <3>2. \A n \in 0 .. m : h[n] = IF n = 0 THEN NothingSeen ELSE Seen(h[n - 1], dir[n])
      <4> TAKE n \in 0 .. m
      <4>1. CASE n = m
        <5>1. h[n - 1] = g[m - 1]
          BY <4>1, <3>1, <2>4
        <5> QED BY <4>1, <5>1, <2>4
      <4>2. CASE n # m
        <5>1. n \in 0 .. m - 1 /\ (n # 0 => n - 1 \in 0 .. m - 1)
          BY <4>2
        <5>2. g[n] = IF n = 0 THEN NothingSeen ELSE Seen(g[n - 1], dir[n])
          BY <5>1, <2>5
        <5>3. h[n] = g[n] /\ (n # 0 => h[n - 1] = g[n - 1])
          BY <5>1, <3>1
        <5> QED BY <5>2, <5>3
      <4> QED BY <4>1, <4>2
    <3> HIDE DEF h
    <3>3. h = [n \in 0 .. m |-> h[n]]
      BY DEF h
    <3> QED BY <3>2, <3>3
  <2> QED BY <2>6
<1>2. PICK g : Pass(g, Len(dir))
  BY <1>1
<1>3. Scan(dir) = CHOOSE f : Pass(f, Len(dir))
  BY DEF Scan, NothingSeen
<1> QED BY <1>2, <1>3

\* What the scan has learnt after n supplies, in terms of the supplies alone.
Learnt(dir, n, found) ==
    LET Says(k) == \E i \in 1 .. n : dir[i].kind = "Mains" /\ dir[i].online = k
    IN  /\ found.mains \in {Unread, 0, 1}
        /\ found.mains = 1 <=> Says(1)
        /\ found.mains = 0 <=> Says(0) /\ ~Says(1)
        /\ found.percent # Unread =>
              \E i \in 1 .. n : dir[i].kind = "Battery" /\ dir[i].scope # "Device" /\ dir[i].capacity = found.percent

\* One supply more: Seen adds what this one says, and takes nothing back but a charger that was out.
LEMMA SeenLearns ==
  ASSUME NEW dir \in Seq(Supplies), NEW n \in 1 .. Len(dir), NEW acc, NEW mains, NEW percent,
         acc = [mains |-> mains, percent |-> percent], Learnt(dir, n - 1, acc)
  PROVE  /\ Learnt(dir, n, Seen(acc, dir[n]))
         /\ \E a, b : Seen(acc, dir[n]) = [mains |-> a, percent |-> b]
<1> DEFINE s == dir[n]
<1>1. s \in Supplies /\ s.online \in -1 .. 1
  BY PowerAssumption
<1>2. 1 .. n = (1 .. n - 1) \cup {n} /\ n \notin 1 .. n - 1
  OBVIOUS
<1>3. Seen(acc, s) = [mains |-> IF s.kind = "Mains" /\ s.online = 1 THEN 1
                                ELSE IF s.kind = "Mains" /\ s.online = 0 /\ mains = Unread THEN 0 ELSE mains,
                      percent |-> IF s.kind = "Battery" /\ percent = Unread /\ s.scope # "Device"
                                  THEN s.capacity ELSE percent]
  BY DEF Seen
<1>4. \A k \in {0, 1} : (\E i \in 1 .. n : dir[i].kind = "Mains" /\ dir[i].online = k)
                        <=> (\E i \in 1 .. n - 1 : dir[i].kind = "Mains" /\ dir[i].online = k) \/ (s.kind = "Mains" /\ s.online = k)
  BY <1>2
<1>5. Learnt(dir, n, Seen(acc, s))
  BY <1>1, <1>2, <1>3, <1>4 DEF Learnt, Unread
<1> QED BY <1>3, <1>5

LEMMA ScanLearns ==
  ASSUME NEW dir \in Seq(Supplies)
  PROVE  Learnt(dir, Len(dir), Scan(dir)[Len(dir)])
<1> DEFINE Holds(n) == Learnt(dir, n, Scan(dir)[n]) /\ \E a, b : Scan(dir)[n] = [mains |-> a, percent |-> b]
           Wrong == {n \in 0 .. Len(dir) : ~Holds(n)}
<1>1. SUFFICES ASSUME Wrong # {} PROVE FALSE
  OBVIOUS
<1>2. Wrong \in SUBSET Nat
  OBVIOUS
<1>3. PICK n \in Wrong : \A k \in Wrong : n <= k
  <2> HIDE DEF Wrong
  <2> QED BY <1>1, <1>2, MinIs
<1>4. n # 0
  <2>1. Scan(dir)[0] = NothingSeen
    BY ScanIsOnePass
  <2>2. Holds(0)
    <3>1. 1 .. 0 = {}
      OBVIOUS
    <3>2. NothingSeen.mains = Unread /\ NothingSeen.percent = Unread
      BY DEF NothingSeen
    <3>3. Learnt(dir, 0, NothingSeen)
      BY <3>1, <3>2 DEF Learnt, Unread
    <3> QED BY <2>1, <3>3 DEF NothingSeen
  <2> QED BY <2>2
<1>5. n - 1 \in 0 .. Len(dir) /\ ~(n <= n - 1) /\ n \in 1 .. Len(dir)
  BY <1>4
<1>6. Holds(n - 1)
  BY <1>3, <1>5
<1>7. Scan(dir)[n] = Seen(Scan(dir)[n - 1], dir[n])
  BY ScanIsOnePass, <1>5
<1>8. PICK a, b : Scan(dir)[n - 1] = [mains |-> a, percent |-> b]
  BY <1>6
<1>9. Holds(n)
  <2>1. /\ Learnt(dir, n, Seen(Scan(dir)[n - 1], dir[n]))
        /\ \E c, d : Seen(Scan(dir)[n - 1], dir[n]) = [mains |-> c, percent |-> d]
    <3> HIDE DEF Wrong
    <3> QED BY <1>5, <1>6, <1>8, SeenLearns
  <2> QED BY <1>7, <2>1
<1> QED BY <1>9

\* The invariant is the gate's property with its types.
PowerTyped ==
    /\ supply \in Seq(Supplies) /\ judged.dir \in Seq(Supplies)
    /\ power_cfg \in PowerConfigs

LEMMA DetectJudges ==
  ASSUME NEW O \in SUBSET Overrides, PowerTyped, detect(O)
  PROVE  PowerInv'
<1> DEFINE found == Scan(supply)[Len(supply)]
           min == power_cfg.min_battery_percent
           source == IF would_probe(power_cfg, O) THEN classify_supplies(supply) ELSE Unknown
<1>1. /\ judged' = [of |-> O, dir |-> supply, held |-> {o \in O : defers(gate', o)}]
      /\ gate' = PowerGate(source, power_cfg) /\ power_cfg' = power_cfg
  BY DEF detect
<1>2. Learnt(supply, Len(supply), found) /\ DOMAIN supply = 1 .. Len(supply) /\ \A i \in DOMAIN supply : supply[i].capacity \in -1 .. 255
  BY ScanLearns, PowerAssumption DEF PowerTyped
<1>3. min \in Nat /\ power_cfg.on_battery \in {"Run", "Defer"}
  BY PowerAssumption DEF PowerTyped
<1> HIDE DEF found, min
<1>4. classify_supplies(supply) = CASE found.mains = Unread -> Unknown [] found.mains = 1 -> Ac [] OTHER -> Battery(found.percent)
  BY DEF classify_supplies, found
<1>5. Unplugged' <=> found.mains = 0
  BY <1>1, <1>2 DEF Unplugged, Chargers, Learnt
<1>6. source.is = "Battery" => found.mains = 0 /\ source.percent = found.percent
  BY <1>2, <1>4 DEF Unknown, Ac, Battery, Learnt
<1>7. found.mains = 0 /\ would_probe(power_cfg, O) => source.is = "Battery"
  BY <1>4 DEF Battery, Unread
<1> HIDE DEF source
<1>8. \A o : defers(gate', o) <=> should_defer(source, IF o = "none" THEN power_cfg.on_battery ELSE o, min)
  BY <1>1 DEF defers, PowerGate, min
<1>9. HeldForCause'
  <2> SUFFICES ASSUME NEW o \in judged'.held
               PROVE  /\ Unplugged'
                      /\ \/ AsksToWait(o)'
                         \/ \E i \in DOMAIN judged'.dir :
                               /\ judged'.dir[i].kind = "Battery" /\ judged'.dir[i].scope # "Device"
                               /\ judged'.dir[i].capacity \in 0 .. power_cfg'.min_battery_percent - 1
    BY DEF HeldForCause
  <2>1. should_defer(source, IF o = "none" THEN power_cfg.on_battery ELSE o, min)
    BY <1>1, <1>8
  <2>2. Unplugged' /\ source.percent = found.percent
    BY <2>1, <1>5, <1>6 DEF should_defer
  <2>3. CASE (IF o = "none" THEN power_cfg.on_battery ELSE o) = "Defer"
    BY <2>2, <2>3, <1>1 DEF AsksToWait
  <2>4. CASE found.percent # Unread /\ min > 0 /\ found.percent < min
    <3>1. PICK i \in 1 .. Len(supply) : supply[i].kind = "Battery" /\ supply[i].scope # "Device" /\ supply[i].capacity = found.percent
      BY <2>4, <1>2 DEF Learnt
    <3>2. supply[i].capacity \in 0 .. min - 1
      <4>1. supply[i].capacity \in -1 .. 255 /\ supply[i].capacity # -1
        BY <3>1, <2>4, <1>2 DEF Unread
      <4>2. ASSUME NEW c \in -1 .. 255, NEW b \in Int, c # -1, c < b PROVE c \in 0 .. b - 1
        BY ONLY <4>2
      <4>3. supply[i].capacity < min
        BY <3>1, <2>4
      <4>4. min \in Int
        BY <1>3
      <4> QED BY <4>1, <4>2, <4>3, <4>4
    <3> QED BY <3>1, <3>2, <2>2, <1>1, <1>2 DEF min
  <2> QED BY <2>1, <2>2, <2>3, <2>4 DEF should_defer
<1>10. AskedIsHeld'
  <2> SUFFICES ASSUME Unplugged', NEW o \in O, AsksToWait(o)' PROVE defers(gate', o)
    BY <1>1 DEF AskedIsHeld
  <2>1. (IF o = "none" THEN power_cfg.on_battery ELSE o) = "Defer"
    BY <1>1 DEF AsksToWait
  <2>2. would_probe(power_cfg, O)
    BY <2>1 DEF would_probe
  <2> QED BY <2>1, <2>2, <1>5, <1>7, <1>8 DEF should_defer
<1> QED BY <1>9, <1>10 DEF PowerInv

\* PowerInv: a run is held back on battery only for cause, and always where it asks to (PowerGate, classify_supplies,
\* should_defer), whatever the directory lists and whatever of it cannot be read.
THEOREM PowerSafe == PowerSpec => []PowerInv
<1>1. PowerInit => PowerTyped /\ PowerInv
  BY DEF PowerInit, PowerTyped, PowerInv, HeldForCause, AskedIsHeld
<1>2. PowerTyped /\ PowerInv /\ [PowerNext]_powerVars => PowerTyped' /\ PowerInv'
  <2> SUFFICES ASSUME PowerTyped, PowerInv, [PowerNext]_powerVars PROVE PowerTyped' /\ PowerInv'
    OBVIOUS
  <2>1. CASE Rewire
    <3>1. supply' \in Seq(Supplies)
      <4>1. CASE \E s \in Supplies \ ToSet(supply) : supply' = Append(supply, s)
        BY <4>1 DEF PowerTyped
      <4>2. CASE \E i \in DOMAIN supply : supply' = RemoveAt(supply, i)
        BY <4>2, <2>1 DEF RemoveAt, PowerTyped
      <4> QED BY <2>1, <4>1, <4>2 DEF Rewire
    <3>2. judged' = judged /\ power_cfg' = power_cfg /\ gate' = gate
      BY <2>1 DEF Rewire
    <3> QED BY <3>1, <3>2 DEF PowerTyped, PowerInv, HeldForCause, AskedIsHeld, Unplugged, Chargers, AsksToWait
  <2>2. CASE \E O \in SUBSET Overrides : detect(O)
    <3>1. PICK O \in SUBSET Overrides : detect(O)
      BY <2>2
    <3>2. PowerInv'
      BY <3>1, DetectJudges
    <3> QED BY <3>1, <3>2 DEF detect, PowerTyped
  <2>3. CASE UNCHANGED powerVars
    BY <2>3 DEF powerVars, PowerTyped, PowerInv, HeldForCause, AskedIsHeld, Unplugged, Chargers, AsksToWait
  <2> QED BY <2>1, <2>2, <2>3 DEF PowerNext
<1> QED BY <1>1, <1>2, PTL DEF PowerSpec

-----------------------------------------------------------------------------
(* A run.  What is known of it at each place it can be.                    *)

RunPcs == {"idle", "preflight", "launch", "spawn", "running", "drain", "pool", "audit", "hooks", "notify", "done"}
Underway == {"launch", "spawn", "running", "drain", "pool", "audit"}
RunFields == {"pc", "at", "event", "text", "code", "timed", "missed", "result"}

RunTyped ==
    /\ job \in Jobs /\ runs \in Nat /\ minutes \in Nat
    /\ DOMAIN run = RunFields
    /\ run.pc \in RunPcs /\ run.at \in Nat \ {0} /\ run.code \in Int /\ run.missed \in BOOLEAN

\* Where the outcome is known, and what goes with it.
OutcomeBooks ==
    /\ run.pc \in {"idle", "preflight"} \union (Underway \ {"audit"}) => run.result = "none"
    /\ run.pc = "audit" => run.result = "ran"
    /\ run.pc = "hooks" => run.result \in {"ran", "preflight"}
    /\ run.pc = "notify" => run.result \in {"ran", "preflight", "summary"}
    /\ run.pc = "done" => run.result \in {"ran", "preflight", "summary", "error", "lost"}
    /\ run.pc \in Underway => run.at = 1
    /\ run.pc = "pool" => Pooled
    /\ run.pc \in {"idle", "preflight"} \union Underway => ~run.missed
    /\ run.pc # "idle" => (job.summary <=> run.result = "summary")
    /\ run.result = "ran" => (run.event = "success" <=> run.code = 0) /\ (~job.dry => beat = run.code)
    /\ run.result = "preflight" => run.event = "preflight"
    /\ run.result = "summary" => run.event = "daily_summary"

\* The agent's environment, once it has one.
EnvBooks ==
    /\ env = <<>> \/ env = apply_env_for(job)
    /\ run.pc \in {"idle", "preflight", "launch"} \/ run.result = "preflight" => env = <<>>

\* The plugin call in progress is for the entry in work.
Asked == {i \in DOMAIN Notifiers : /\ matches_event(Notifiers[i], run.event)
                                   /\ Notifiers[i].driver = "plugin" => HasPlugins}
CallBooks ==
    /\ {"stage", "ok"} \subseteq DOMAIN call /\ call.ok \in BOOLEAN
    /\ call.stage # "none" =>
         \/ run.pc = "preflight" /\ run.at \in DOMAIN job.preflight
         \/ run.pc = "hooks"
         \/ run.pc = "notify" /\ ~NothingToSay /\ run.at \in Asked /\ Notifier.driver = "plugin"

\* What a run can append to the audit log.
Marks ==
    [kind : {"plugin", "preflight_failed", "hook"}, ok : BOOLEAN, at : Nat]
    \union [kind : {"agent_run"}, ok : BOOLEAN, code : Int]
    \union [kind : {"notifier"}, ok : BOOLEAN, at : Nat,
            why : {"plugin", "config", "skipped", "down", "refused", "sent"}]

\* The outcome is on record.
Recorded == run.result = "lost" \/ (run.result = "ran" /\ ~run.missed)
TrailBooks ==
    /\ trail \in Seq(Marks)
    /\ run.pc = "idle" => trail = <<>>
    /\ run.pc \in {"preflight"} \union Underway =>
          Of("agent_run") = {} /\ Of("hook") = {} /\ Of("notifier") = {}
    /\ run.pc \in {"hooks", "notify", "done"} =>
          IF Recorded THEN \E i \in DOMAIN trail : Of("agent_run") = {i} ELSE Of("agent_run") = {}
    /\ \A i \in Of("agent_run"), j \in Of("hook") \union Of("notifier") : i < j
    /\ IF run.result = "preflight" THEN \E i \in DOMAIN trail : Of("preflight_failed") = {i} ELSE Of("preflight_failed") = {}

\* Who has been asked so far.
ToldNow == {trail[i].at : i \in Of("notifier")}
ToldBooks ==
    /\ run.pc = "hooks" => Of("notifier") = {}
    /\ run.pc = "notify" => ToldNow = IF NothingToSay THEN {} ELSE {k \in Asked : k < run.at}
    /\ run.pc = "done" /\ run.result \in {"ran", "preflight", "summary"} =>
          ToldNow = IF NothingToSay THEN {} ELSE Asked
    /\ \A i, j \in Of("notifier") : i < j => trail[i].at < trail[j].at

\* The agent and whoever has its pipes.
AgentBooks ==
    /\ DOMAIN agent = {"up", "heir", "code"} /\ agent.code \in Int
    /\ run.result = "ran" /\ ~Pooled => ~Held

\* The lines, numbered in the order in which they were printed.
Replies == {n \in 1 .. output.read : n \in DOMAIN job.frames /\ job.frames[n] = "reply"}
OutputBooks ==
    /\ DOMAIN output = {"printed", "read", "tail", "tapped", "broken", "shaper"}
    /\ DOMAIN output.shaper = {"reply", "session"}
    /\ output.printed \in Nat /\ output.read \in Nat /\ (runs = 0 => output.read = 0)
    /\ output.tapped = [n \in 1 .. output.read |-> n]
    /\ output.tail \in Seq(Nat)
    /\ Len(output.tail) = IF output.read > TAIL_LINES THEN TAIL_LINES ELSE output.read
    /\ \A k \in 1 .. Len(output.tail) : output.tail[k] = (output.read - Len(output.tail)) + k
    /\ \/ output.shaper.reply = 0 /\ Replies = {}
       \/ output.shaper.reply \in Replies /\ \A n \in Replies : n <= output.shaper.reply
    /\ run.result = "ran" /\ ~Pooled /\ ~output.broken => output.read = output.printed

\* What was sent, what the table says of it and what the recipient's file remembers.
Path(m) == state_path[m.fields.to]
Noted(m) == m.driver = "imessage" /\ m.kept /\ Notifiers[m.to].rate > 0
NoticeIs(m) ==
    /\ m.run \in Nat /\ m.run <= runs /\ m.clock \in Nat /\ m.clock <= minutes
    /\ m.to \in DOMAIN Notifiers /\ m.driver = Notifiers[m.to].driver
    /\ m.driver = "imessage" => m.fields = Notifiers[m.to].fields
Apart(m, n) ==
    Noted(m) /\ n.driver = "imessage" /\ m.fields.to = n.fields.to
    => n.clock - m.clock >= Notifiers[n.to].rate
Quiet == run.pc # "notify" /\ (run.pc = "done" => run.result \in {"error", "lost"})
SentBooks ==
    /\ IsList(sent) /\ IsList(table)
    /\ run.pc = "idle" <=> runs = 0
    /\ runs = 0 => sent = <<>> /\ table = <<>>
    /\ \A i \in DOMAIN sent : NoticeIs(sent[i])
    /\ Quiet => ThisRun = {}
    /\ \A i \in DOMAIN table : /\ table[i].id \in DOMAIN sent /\ sent[table[i].id].event = table[i].event
                               /\ sent[table[i].id].run = table[i].run
                               /\ sent[table[i].id].driver = "telegram"
RateBooks ==
    /\ \A i \in DOMAIN sent : Noted(sent[i]) =>
          /\ Path(sent[i]) \in DOMAIN rate
          /\ rate[Path(sent[i])] \in Nat /\ sent[i].clock <= rate[Path(sent[i])]
    /\ \A p \in DOMAIN rate : rate[p] \in Nat /\ rate[p] <= minutes
    /\ \A i, j \in DOMAIN sent : i < j => Apart(sent[i], sent[j])

RunBooks ==
    /\ RunTyped /\ OutcomeBooks /\ EnvBooks /\ CallBooks /\ TrailBooks /\ ToldBooks /\ AgentBooks
    /\ OutputBooks /\ SentBooks /\ RateBooks

-----------------------------------------------------------------------------
(* Lists, and the audit log as one.                                        *)

LEMMA ListIs ==
  ASSUME NEW s, IsList(s)
  PROVE  Len(s) \in Nat /\ DOMAIN s = 1 .. Len(s)
BY LenProperties DEF IsList

\* A list grows at its end.
LEMMA ListAppend ==
  ASSUME NEW s, IsList(s), NEW x
  PROVE  /\ IsList(Append(s, x)) /\ Len(s) \in Nat /\ DOMAIN s = 1 .. Len(s)
         /\ DOMAIN Append(s, x) = 1 .. Len(s) + 1 /\ Append(s, x)[Len(s) + 1] = x
         /\ \A i \in 1 .. Len(s) : Append(s, x)[i] = s[i]
<1> DEFINE S == ToSet(s) \union {x}
           t == Append(s, x)
<1>1. s \in Seq(ToSet(s)) /\ DOMAIN s = 1 .. Len(s) /\ Len(s) \in Nat
  BY LenProperties DEF IsList
<1>2. s \in Seq(S)
  <2>1. \A i \in 1 .. Len(s) : s[i] \in S
    BY <1>1 DEF ToSet
  <2> QED BY <1>1, <2>1
<1>3. /\ t \in Seq(S) /\ Len(t) = Len(s) + 1
      /\ \A i \in 1 .. Len(s) : t[i] = s[i]
      /\ t[Len(s) + 1] = x
  <2> HIDE DEF S
  <2>1. x \in S
    BY DEF S
  <2> QED BY <1>2, <2>1, AppendProperties
<1>4. DOMAIN t = 1 .. Len(s) + 1
  BY <1>3, LenProperties
<1>5. t \in Seq(ToSet(t))
  <2> HIDE DEF t
  <2> QED BY <1>3, <1>4 DEF ToSet
<1> QED BY <1>1, <1>3, <1>4, <1>5 DEF IsList

\* One more line in the log.
LEMMA TrailGrows ==
  ASSUME trail \in Seq(Marks), NEW x \in Marks, trail' = Append(trail, x)
  PROVE  /\ trail' \in Seq(Marks) /\ Len(trail) \in Nat /\ DOMAIN trail = 1 .. Len(trail)
         /\ DOMAIN trail' = 1 .. Len(trail) + 1 /\ trail'[Len(trail) + 1] = x
         /\ \A i \in 1 .. Len(trail) : trail'[i] = trail[i]
         /\ \A kind : Of(kind) \subseteq 1 .. Len(trail)
         /\ \A kind : Of(kind)' = IF x.kind = kind THEN Of(kind) \union {Len(trail) + 1} ELSE Of(kind)
<1>1. /\ trail' \in Seq(Marks) /\ Len(trail) \in Nat /\ DOMAIN trail = 1 .. Len(trail)
      /\ DOMAIN trail' = 1 .. Len(trail) + 1 /\ trail'[Len(trail) + 1] = x
      /\ \A i \in 1 .. Len(trail) : trail'[i] = trail[i]
  <2>1. Len(trail') = Len(trail) + 1 /\ trail' \in Seq(Marks) /\ trail'[Len(trail) + 1] = x
        /\ \A i \in 1 .. Len(trail) : trail'[i] = trail[i]
    BY AppendProperties
  <2> QED BY <2>1, LenProperties
<1>2. \A kind : Of(kind) \subseteq 1 .. Len(trail)
  BY <1>1 DEF Of
<1>3. ASSUME NEW kind
      PROVE  Of(kind)' = IF x.kind = kind THEN Of(kind) \union {Len(trail) + 1} ELSE Of(kind)
  BY <1>1 DEF Of
<1> QED BY <1>1, <1>2, <1>3

-----------------------------------------------------------------------------
(* What a step leaves alone.                                               *)

LEMMA ListenersRest ==
  ASSUME UNCHANGED job
  PROVE  /\ Notifiers' = Notifiers /\ (HasPlugins' <=> HasPlugins) /\ (Pooled' <=> Pooled)
         /\ (UNCHANGED run => Asked' = Asked /\ (NothingToSay' <=> NothingToSay) /\ Notifier' = Notifier)
<1>1. Notifiers' = Notifiers
  BY DEF Notifiers, resolve_notifiers
<1>2. (HasPlugins' <=> HasPlugins) /\ (Pooled' <=> Pooled)
  BY DEF HasPlugins, Pooled
<1>3. UNCHANGED run => Asked' = Asked /\ (NothingToSay' <=> NothingToSay) /\ Notifier' = Notifier
  BY <1>1, <1>2 DEF Asked, NothingToSay, Notifier
<1> QED BY <1>1, <1>2, <1>3

LEMMA SentRests ==
  ASSUME SentBooks, RateBooks, UNCHANGED <<sent, table, rate, runs, minutes, job>>,
         run.pc # "idle" => run'.pc # "idle", run.pc = "idle" => run' = run, Quiet' => Quiet
  PROVE  SentBooks' /\ RateBooks'
<1>1. Notifiers' = Notifiers
  BY ListenersRest
<1>2. SentBooks'
  <2>1. \A m : NoticeIs(m) => NoticeIs(m)'
    BY <1>1 DEF NoticeIs
  <2>2. run'.pc = "idle" <=> runs' = 0
    BY DEF SentBooks
  <2>3. Quiet' => ThisRun' = {}
    BY DEF SentBooks, ThisRun
  <2> QED BY <2>1, <2>2, <2>3 DEF SentBooks
<1>3. RateBooks'
  <2>1. \A m : (Noted(m)' <=> Noted(m)) /\ Path(m)' = Path(m)
    BY <1>1 DEF Noted, Path
  <2>2. \A m, n : Apart(m, n) => Apart(m, n)'
    BY <1>1, <2>1 DEF Apart
  <2> QED BY <2>1, <2>2 DEF RateBooks
<1> QED BY <1>2, <1>3

\* Another process moves, or a plugin call goes on.
LEMMA BesidesRest ==
  ASSUME RunBooks, UNCHANGED <<job, run, env, beat, trail, sent, table, rate, minutes, runs>>
  PROVE  /\ RunTyped' /\ OutcomeBooks' /\ EnvBooks' /\ TrailBooks' /\ ToldBooks' /\ SentBooks' /\ RateBooks'
         /\ (UNCHANGED call => CallBooks') /\ (UNCHANGED agent => AgentBooks') /\ (UNCHANGED output => OutputBooks')
<1>1. Asked' = Asked /\ (NothingToSay' <=> NothingToSay) /\ Notifier' = Notifier /\ (Pooled' <=> Pooled)
  BY ListenersRest
<1>2. RunTyped'
  BY DEF RunBooks, RunTyped
<1>3. OutcomeBooks'
  BY <1>1 DEF RunBooks, OutcomeBooks
<1>4. EnvBooks'
  BY DEF RunBooks, EnvBooks, apply_env_for, names_locale, default_locale
<1>5. TrailBooks'
  BY DEF RunBooks, TrailBooks, Of, Recorded
<1>6. ToldBooks'
  BY <1>1 DEF RunBooks, ToldBooks, ToldNow, Of
<1>7. SentBooks' /\ RateBooks'
  BY SentRests DEF RunBooks, Quiet
<1>8. UNCHANGED call => CallBooks'
  BY <1>1 DEF RunBooks, CallBooks
<1>9. UNCHANGED agent => AgentBooks'
  BY <1>1 DEF RunBooks, AgentBooks, Held
<1>10. UNCHANGED output => OutputBooks'
  BY <1>1 DEF RunBooks, OutputBooks, Replies
<1> QED BY <1>2, <1>3, <1>4, <1>5, <1>6, <1>7, <1>8, <1>9, <1>10

-----------------------------------------------------------------------------
(* The steps of a plugin call, of the agent and of whoever has its pipes.  *)

\* A call goes on, for the entry it was made for.
LEMMA CallStep ==
  ASSUME RunBooks, call.stage # "none", UNCHANGED <<job, run, agent, output, env, beat, trail, sent, table, rate, minutes, runs>>,
         DOMAIN call' = DOMAIN call, call'.ok \in BOOLEAN
  PROVE  RunBooks'
<1>1. CallBooks'
  BY ListenersRest DEF RunBooks, CallBooks
<1> QED BY <1>1, BesidesRest DEF RunBooks

LEMMA AnswerIs ==
  ASSUME CallBooks, NEW ok \in BOOLEAN, Answers(ok)
  PROVE  DOMAIN call' = DOMAIN call /\ call'.ok \in BOOLEAN
BY DEF Answers, CallBooks

LEMMA CallKeeps ==
  ASSUME RunBooks, \/ \E ok \in BOOLEAN : SpawnPlugin(ok)
                   \/ WritePayload \/ WaitOutput \/ PluginReads \/ PluginDeadline
                   \/ (\E says \in {"ok", "no"} : PluginExits(says))
                   \/ (\E file \in SecretFiles, op \in BOOLEAN : ReloadSecrets(file, op))
  PROVE  RunBooks'
<1>1. CallBooks
  BY DEF RunBooks
<1>2. ASSUME NEW ok \in BOOLEAN, SpawnPlugin(ok) PROVE RunBooks'
  <2>1. /\ call.stage # "none"
        /\ UNCHANGED <<job, run, agent, output, env, beat, trail, sent, table, rate, minutes, runs>>
    BY <1>2 DEF SpawnPlugin, files, counters
  <2>2. DOMAIN call' = DOMAIN call /\ call'.ok \in BOOLEAN
    <3>1. CASE ok
      BY <1>1, <1>2, <3>1 DEF SpawnPlugin, CallBooks
    <3>2. CASE ~ok
      BY <1>1, <1>2, <3>2, AnswerIs DEF SpawnPlugin
    <3> QED BY <3>1, <3>2
  <2> QED BY <2>1, <2>2, CallStep
<1>3. ASSUME WritePayload PROVE RunBooks'
  <2>1. /\ call.stage # "none"
        /\ UNCHANGED <<job, run, agent, output, env, beat, trail, sent, table, rate, minutes, runs>>
    BY <1>3 DEF WritePayload, files, counters
  <2>2. DOMAIN call' = DOMAIN call /\ call'.ok \in BOOLEAN
    <3>1. CASE Answers(FALSE)
      BY <1>1, <3>1, AnswerIs
    <3>2. CASE call' = [call EXCEPT !.stage = "wait"]
      BY <1>1, <3>2 DEF CallBooks
    <3> QED BY <1>3, <3>1, <3>2 DEF WritePayload
  <2> QED BY <2>1, <2>2, CallStep
<1>4. ASSUME WaitOutput PROVE RunBooks'
  <2>1. /\ call.stage # "none"
        /\ UNCHANGED <<job, run, agent, output, env, beat, trail, sent, table, rate, minutes, runs>>
        /\ Answers(plug.says = "ok")
    BY <1>4 DEF WaitOutput, files, counters
  <2>2. DOMAIN call' = DOMAIN call /\ call'.ok \in BOOLEAN
    BY <1>1, <2>1, AnswerIs
  <2> QED BY <2>1, <2>2, CallStep
<1>5. ASSUME UNCHANGED <<job, run, call, agent, output, env, beat, trail, sent, table, rate, minutes, runs>>
      PROVE  RunBooks'
  BY <1>5, BesidesRest DEF RunBooks
<1>6. CASE PluginReads \/ PluginDeadline \/ (\E says \in {"ok", "no"} : PluginExits(says))
  BY <1>5, <1>6 DEF PluginReads, PluginDeadline, PluginExits, files, counters
<1>7. CASE \E file \in SecretFiles, op \in BOOLEAN : ReloadSecrets(file, op)
  BY <1>5, <1>7 DEF ReloadSecrets, files
<1> QED BY <1>2, <1>3, <1>4, <1>6, <1>7

\* Nobody who prints, or leaves another behind, is there once the outcome of a one-shot run is known.
LEMMA AgentKeeps ==
  ASSUME RunBooks, HeirExits \/ (\E where \in {"group", "away"} : Forks(where)) \/ (\E code \in Codes : AgentExits(code))
  PROVE  RunBooks'
<1>1. UNCHANGED <<job, run, call, output, env, beat, trail, sent, table, rate, minutes, runs>>
  BY DEF HeirExits, Forks, AgentExits, files, counters
<1>2. /\ DOMAIN agent = {"up", "heir", "code"} /\ agent.code \in Int
      /\ (run.result = "ran" /\ ~Pooled => ~Held)
  BY DEF RunBooks, AgentBooks
<1>3. Held /\ DOMAIN agent' = DOMAIN agent /\ agent'.code \in Int
  <2>1. CASE HeirExits
    BY <1>2, <2>1 DEF HeirExits, Held
  <2>2. ASSUME NEW where, Forks(where) PROVE Held /\ DOMAIN agent' = DOMAIN agent /\ agent'.code \in Int
    BY <1>2, <2>2 DEF Forks, Held
  <2>3. ASSUME NEW code \in Codes, AgentExits(code) PROVE Held /\ DOMAIN agent' = DOMAIN agent /\ agent'.code \in Int
    BY <1>2, <2>3 DEF AgentExits, Held, Codes, NoCode
  <2> QED BY <2>1, <2>2, <2>3
<1>4. AgentBooks'
  BY <1>1, <1>2, <1>3, ListenersRest DEF AgentBooks
<1> QED BY <1>1, <1>4, BesidesRest DEF RunBooks

\* One more line for a tail of lines that are numbered one by one.
LEMMA TailMoves ==
  ASSUME NEW tail \in Seq(Nat), NEW read \in Nat, TAIL_LINES \in Nat \ {0},
         Len(tail) = IF read > TAIL_LINES THEN TAIL_LINES ELSE read,
         \A k \in 1 .. Len(tail) : tail[k] = (read - Len(tail)) + k
  PROVE  LET t == Append(IF Len(tail) = TAIL_LINES THEN Tail(tail) ELSE tail, read + 1)
         IN  /\ t \in Seq(Nat) /\ Len(t) = IF read + 1 > TAIL_LINES THEN TAIL_LINES ELSE read + 1
             /\ \A k \in 1 .. Len(t) : t[k] = ((read + 1) - Len(t)) + k
<1> DEFINE kept == IF Len(tail) = TAIL_LINES THEN Tail(tail) ELSE tail
           t == Append(kept, read + 1)
<1>1. /\ kept \in Seq(Nat)
      /\ Len(kept) = IF read >= TAIL_LINES THEN TAIL_LINES - 1 ELSE read
      /\ \A k \in 1 .. Len(kept) : kept[k] = (read - Len(kept)) + k
  <2>1. CASE read >= TAIL_LINES
    <3>1. Len(tail) = TAIL_LINES /\ tail # <<>> /\ kept = Tail(tail)
      BY <2>1, EmptySeq
    <3>2. /\ Tail(tail) \in Seq(Nat) /\ Len(Tail(tail)) = Len(tail) - 1
          /\ \A k \in 1 .. Len(Tail(tail)) : Tail(tail)[k] = tail[k + 1]
      BY <3>1, HeadTailProperties
    <3>3. ASSUME NEW k \in 1 .. Len(kept) PROVE tail[k + 1] = (read - Len(kept)) + k
      <4>1. Len(tail) \in Nat /\ Len(kept) = Len(tail) - 1
        BY <3>1, <3>2
      <4> HIDE DEF kept
      <4>2. k + 1 \in 1 .. Len(tail)
        BY <4>1
      <4>3. tail[k + 1] = (read - Len(tail)) + (k + 1)
        BY <4>2
      <4> QED BY <4>1, <4>3
    <3> HIDE DEF kept
    <3> QED BY <2>1, <3>1, <3>2, <3>3
  <2>2. CASE ~(read >= TAIL_LINES)
    <3>1. Len(tail) = read /\ kept = tail
      BY <2>2
    <3> HIDE DEF kept
    <3> QED BY <2>2, <3>1
  <2> QED BY <2>1, <2>2
<1> HIDE DEF kept
<1>2. /\ t \in Seq(Nat) /\ Len(t) = Len(kept) + 1 /\ t[Len(kept) + 1] = read + 1
      /\ \A k \in 1 .. Len(kept) : t[k] = kept[k]
  BY <1>1, AppendProperties
<1> HIDE DEF t
<1>3. Len(t) = IF read + 1 > TAIL_LINES THEN TAIL_LINES ELSE read + 1
  BY <1>1, <1>2
<1>4. ASSUME NEW k \in 1 .. Len(t) PROVE t[k] = ((read + 1) - Len(t)) + k
  <2>1. Len(kept) \in Nat
    BY <1>1, LenProperties
  <2>2. CASE k = Len(kept) + 1
    BY <1>2, <2>1, <2>2
  <2>3. CASE k \in 1 .. Len(kept)
    <3>1. t[k] = kept[k] /\ kept[k] = (read - Len(kept)) + k
      BY <1>1, <1>2, <2>3
    <3> QED BY <1>2, <2>1, <2>3, <3>1
  <2> QED BY <1>2, <2>1, <2>2, <2>3
<1> QED BY <1>2, <1>3, <1>4 DEF t, kept

\* The reading task takes the next line.
LEMMA ReadLineKeeps ==
  ASSUME RunnerAssumption, RunBooks, ReadLine
  PROVE  RunBooks'
<1> DEFINE n == output.read + 1
           shaper == IF n \in DOMAIN job.frames THEN feed(output.shaper, n) ELSE output.shaper
<1>1. /\ UNCHANGED <<job, run, call, agent, env, beat, trail, sent, table, rate, minutes, runs>>
      /\ run.pc \in {"running", "drain"} /\ output.read < output.printed /\ ~output.broken
      /\ output' = [output EXCEPT !.read = n, !.tapped = Append(@, n), !.shaper = shaper,
                       !.tail = Append(IF Len(@) = TAIL_LINES THEN Tail(@) ELSE @, n)]
  BY DEF ReadLine, files, counters
<1>2. OutputBooks /\ run.result # "ran" /\ runs # 0
  BY <1>1 DEF RunBooks, OutcomeBooks, SentBooks, Underway
<1>3. /\ DOMAIN output' = DOMAIN output /\ output'.printed = output.printed
      /\ output'.read = n /\ output'.tapped = Append(output.tapped, n) /\ output'.shaper = shaper
      /\ output'.tail = Append(IF Len(output.tail) = TAIL_LINES THEN Tail(output.tail) ELSE output.tail, n)
  <2> HIDE DEF n, shaper
  <2> QED BY <1>1, <1>2 DEF OutputBooks
<1>4. output'.tapped = [k \in 1 .. n |-> k]
  <2>1. output.read \in Nat /\ output.tapped = [k \in 1 .. output.read |-> k]
    BY <1>2 DEF OutputBooks
  <2>2. output.tapped \in Seq(Nat) /\ Len(output.tapped) = output.read
    BY <2>1
  <2>3. Append(output.tapped, n) = [k \in 1 .. n |-> IF k = n THEN n ELSE output.tapped[k]]
    BY <2>1, <2>2
  <2> QED BY <1>3, <2>1, <2>3
<1>5. Replies' = Replies \union {k \in {n} : k \in DOMAIN job.frames /\ job.frames[k] = "reply"}
      /\ (\A k \in Replies : k <= output.read /\ k \in Nat)
  BY <1>1, <1>2, <1>3 DEF Replies, OutputBooks
<1>6. /\ DOMAIN shaper = DOMAIN output.shaper
      /\ shaper.reply = IF n \in DOMAIN job.frames /\ job.frames[n] = "reply" THEN n ELSE output.shaper.reply
  BY <1>2 DEF feed, OutputBooks
<1>7. \/ shaper.reply = 0 /\ Replies' = {}
      \/ shaper.reply \in Replies' /\ \A k \in Replies' : k <= shaper.reply
  <2>1. output.read \in Nat
    BY <1>2 DEF OutputBooks
  <2>2. CASE n \in DOMAIN job.frames /\ job.frames[n] = "reply"
    <3>1. shaper.reply = n /\ Replies' = Replies \union {n}
      BY <1>5, <1>6, <2>2
    <3> QED BY <1>5, <2>1, <3>1
  <2>3. CASE ~(n \in DOMAIN job.frames /\ job.frames[n] = "reply")
    <3>1. shaper.reply = output.shaper.reply /\ Replies' = Replies
      BY <1>5, <1>6, <2>3
    <3> QED BY <1>2, <3>1 DEF OutputBooks
  <2> QED BY <2>2, <2>3
<1>8. /\ output'.tail \in Seq(Nat)
      /\ Len(output'.tail) = IF n > TAIL_LINES THEN TAIL_LINES ELSE n
      /\ \A k \in 1 .. Len(output'.tail) : output'.tail[k] = (n - Len(output'.tail)) + k
  <2>1. /\ output.tail \in Seq(Nat) /\ output.read \in Nat
        /\ Len(output.tail) = IF output.read > TAIL_LINES THEN TAIL_LINES ELSE output.read
        /\ \A k \in 1 .. Len(output.tail) : output.tail[k] = (output.read - Len(output.tail)) + k
    BY <1>2 DEF OutputBooks
  <2>2. TAIL_LINES \in Nat \ {0}
    BY DEF RunnerAssumption
  <2>3. PICK tail, read : tail = output.tail /\ read = output.read
    OBVIOUS
  <2>4. output'.tail = Append(IF Len(tail) = TAIL_LINES THEN Tail(tail) ELSE tail, read + 1) /\ n = read + 1
    BY <1>3, <2>3
  <2>5. /\ tail \in Seq(Nat) /\ read \in Nat
        /\ Len(tail) = IF read > TAIL_LINES THEN TAIL_LINES ELSE read
        /\ \A k \in 1 .. Len(tail) : tail[k] = (read - Len(tail)) + k
    BY <2>1, <2>3
  <2>6. LET t == Append(IF Len(tail) = TAIL_LINES THEN Tail(tail) ELSE tail, read + 1)
        IN  /\ t \in Seq(Nat) /\ Len(t) = IF read + 1 > TAIL_LINES THEN TAIL_LINES ELSE read + 1
            /\ \A k \in 1 .. Len(t) : t[k] = ((read + 1) - Len(t)) + k
    BY ONLY <2>2, <2>5, TailMoves
  <2> HIDE DEF n
  <2> QED BY <2>4, <2>6
<1>9. OutputBooks'
  <2>1. n \in Nat /\ output.printed \in Nat
    BY <1>2 DEF OutputBooks
  <2> HIDE DEF n, shaper
  <2> QED BY <1>1, <1>2, <1>3, <1>4, <1>6, <1>7, <1>8, <2>1 DEF OutputBooks
<1> QED BY <1>1, <1>9, BesidesRest DEF RunBooks

LEMMA PrintsKeep ==
  ASSUME RunBooks, Prints \/ ReadBreaks
  PROVE  RunBooks'
<1>1. /\ UNCHANGED <<job, run, call, agent, env, beat, trail, sent, table, rate, minutes, runs>>
      /\ output' \in {[output EXCEPT !.printed = @ + 1], [output EXCEPT !.broken = TRUE]}
  BY DEF Prints, ReadBreaks, files, counters
<1>2. ~(run.result = "ran" /\ ~Pooled)
  <2>1. CASE Prints
    BY <2>1 DEF Prints, RunBooks, AgentBooks
  <2>2. CASE ReadBreaks
    BY <2>2 DEF ReadBreaks, RunBooks, OutcomeBooks, Underway
  <2> QED BY <2>1, <2>2
<1>3. OutputBooks
  BY DEF RunBooks
<1>4. /\ DOMAIN output' = DOMAIN output /\ output'.printed \in Nat /\ output'.read = output.read
      /\ output'.tapped = output.tapped /\ output'.tail = output.tail /\ output'.shaper = output.shaper
  <2>1. CASE output' = [output EXCEPT !.printed = @ + 1]
    BY <1>3, <2>1 DEF OutputBooks
  <2>2. CASE output' = [output EXCEPT !.broken = TRUE]
    BY <1>3, <2>2 DEF OutputBooks
  <2> QED BY <1>1, <2>1, <2>2
<1>5. Replies' = Replies /\ (Pooled' <=> Pooled)
  BY <1>1, <1>4, ListenersRest DEF Replies
<1>6. OutputBooks'
  BY <1>1, <1>2, <1>3, <1>4, <1>5 DEF OutputBooks
<1> QED BY <1>1, <1>6, BesidesRest DEF RunBooks

-----------------------------------------------------------------------------
(* The steps of a run until its outcome is known.                          *)

\* What the moves of a run do to its record.
OutcomeRests ==
    /\ run'.event = run.event /\ run'.text = run.text /\ run'.code = run.code
    /\ run'.missed = run.missed
LEMMA Moves ==
  ASSUME RunTyped
  PROVE  /\ \A pc : Goto(pc) => /\ DOMAIN run' = RunFields /\ OutcomeRests /\ run'.pc = pc /\ run'.at = 1
                                /\ run'.result = run.result
         /\ Step => /\ DOMAIN run' = RunFields /\ OutcomeRests /\ run'.pc = run.pc /\ run'.at = run.at + 1
                    /\ run'.result = run.result
         /\ Done => /\ DOMAIN run' = RunFields /\ OutcomeRests /\ run'.pc = "done" /\ run'.at = run.at
                    /\ run'.result = run.result
         /\ Fails => /\ DOMAIN run' = RunFields /\ OutcomeRests /\ run'.pc = "done" /\ run'.at = run.at
                     /\ run'.result = "error"
         /\ \A code, timed, tail :
               Decided(code, timed, tail) =>
                  /\ DOMAIN run' = RunFields /\ run'.pc = "audit" /\ run'.at = run.at /\ run'.code = code
                  /\ run'.missed = run.missed /\ run'.result = "ran" /\ run'.event = EventOf(code, timed)
<1>1. \A pc : Goto(pc) => /\ DOMAIN run' = RunFields /\ OutcomeRests /\ run'.pc = pc /\ run'.at = 1
                         /\ run'.result = run.result
  BY DEF RunTyped, RunFields, Goto, OutcomeRests
<1>2. Step => /\ DOMAIN run' = RunFields /\ OutcomeRests /\ run'.pc = run.pc /\ run'.at = run.at + 1
              /\ run'.result = run.result
  BY DEF RunTyped, RunFields, Step, OutcomeRests
<1>3. Done => /\ DOMAIN run' = RunFields /\ OutcomeRests /\ run'.pc = "done" /\ run'.at = run.at
              /\ run'.result = run.result
  BY DEF RunTyped, RunFields, Done, OutcomeRests
<1>4. Fails => /\ DOMAIN run' = RunFields /\ OutcomeRests /\ run'.pc = "done" /\ run'.at = run.at
               /\ run'.result = "error"
  BY DEF RunTyped, RunFields, Fails, OutcomeRests
<1>5. \A code, timed, tail :
         Decided(code, timed, tail) =>
            /\ DOMAIN run' = RunFields /\ run'.pc = "audit" /\ run'.at = run.at /\ run'.code = code
            /\ run'.missed = run.missed /\ run'.result = "ran" /\ run'.event = EventOf(code, timed)
  BY DEF RunTyped, RunFields, Decided
<1> QED BY <1>1, <1>2, <1>3, <1>4, <1>5

\* A step of a run that nobody has been told of: it goes on, it fails, or its outcome is known.
EarlyStep ==
    /\ UNCHANGED <<job, call, trail, sent, table, rate, minutes, runs>>
    /\ run.pc \in {"preflight"} \union (Underway \ {"audit"}) /\ call.stage = "none"
    /\ DOMAIN run' = RunFields /\ run'.missed = run.missed /\ run'.code \in Int
    /\ \/ run'.pc \in Underway \ {"audit"} /\ run'.result = run.result /\ run'.at = 1
       \/ run'.pc = "done" /\ run'.result = "error" /\ run'.at \in Nat \ {0}
       \/ /\ run'.pc = "audit" /\ run'.result = "ran" /\ run'.at = 1
          /\ run'.event = "success" <=> run'.code = 0
          /\ ~job.dry => beat' = run'.code
    /\ env' = env \/ env' = apply_env_for(job)
    /\ run'.pc = "launch" => run.pc = "preflight" /\ env' = env
    /\ run'.pc = "pool" => Pooled
LEMMA EarlyKeeps ==
  ASSUME RunBooks, EarlyStep, AgentBooks', OutputBooks'
  PROVE  RunBooks'
<1>1. /\ UNCHANGED <<job, call, trail, sent, table, rate, minutes, runs>>
      /\ run.pc \in {"preflight"} \union (Underway \ {"audit"}) /\ call.stage = "none"
      /\ run'.pc \in Underway \union {"done"} /\ run'.at \in Nat \ {0}
      /\ run.result = "none" /\ ~run'.missed /\ run'.result # "preflight"
      /\ (run'.pc = "done" => run'.result = "error")
  BY DEF EarlyStep, RunBooks, OutcomeBooks, Underway
<1>2. RunTyped'
  BY <1>1 DEF RunBooks, RunTyped, EarlyStep, RunPcs, Underway
<1>3. OutcomeBooks'
  <2>1. ~job.summary
    BY <1>1 DEF RunBooks, OutcomeBooks, Underway
  <2>2. Pooled' <=> Pooled
    BY <1>1, ListenersRest
  <2> QED BY <1>1, <2>1, <2>2 DEF EarlyStep, OutcomeBooks, Underway
<1>4. EnvBooks'
  BY <1>1 DEF RunBooks, EarlyStep, EnvBooks, Underway, apply_env_for, names_locale, default_locale
<1>5. CallBooks'
  BY <1>1 DEF RunBooks, CallBooks
<1>6. TrailBooks'
  <2>1. /\ Of("agent_run") = {} /\ Of("hook") = {} /\ Of("notifier") = {} /\ Of("preflight_failed") = {}
        /\ trail \in Seq(Marks)
    BY <1>1 DEF RunBooks, TrailBooks, Underway
  <2>2. \A kind : Of(kind)' = Of(kind)
    BY <1>1 DEF Of
  <2> QED BY <1>1, <2>1, <2>2 DEF TrailBooks, Recorded, Underway
<1>7. ToldBooks'
  <2>1. Of("notifier")' = {}
    BY <1>1 DEF RunBooks, TrailBooks, Underway, Of
  <2> QED BY <1>1, <2>1 DEF ToldBooks, Underway
<1>8. SentBooks' /\ RateBooks'
  <2>1. run.pc # "idle" /\ run'.pc # "idle" /\ Quiet
    BY <1>1 DEF Quiet, Underway
  <2> QED BY <1>1, <2>1, SentRests DEF RunBooks
<1> QED BY <1>2, <1>3, <1>4, <1>5, <1>6, <1>7, <1>8 DEF RunBooks

\* Where nothing but the run moves, the agent's and the output's books stay.
LEMMA AgentRests ==
  ASSUME RunBooks, UNCHANGED <<job, agent, output, runs>>, run'.result = "ran" => run.result = "ran"
  PROVE  AgentBooks' /\ OutputBooks'
<1>1. Pooled' <=> Pooled
  BY ListenersRest
<1>2. AgentBooks'
  BY <1>1 DEF RunBooks, AgentBooks, Held
<1>3. OutputBooks'
  BY <1>1 DEF RunBooks, OutputBooks, Replies
<1> QED BY <1>2, <1>3

\* Nobody calls a plugin on the way from the preflight to the audit.
LEMMA NoCallUnderway ==
  ASSUME RunBooks, run.pc \in Underway
  PROVE  call.stage = "none" /\ run.at = 1 /\ run.pc \notin {"preflight", "hooks", "notify", "idle"}
BY DEF RunBooks, CallBooks, OutcomeBooks, Underway

LEMMA BeginKeeps ==
  ASSUME RunBooks, NEW ok \in BOOLEAN, begin(ok)
  PROVE  RunBooks'
<1>1. /\ run.pc = "launch" /\ run.pc \in Underway \ {"audit"}
      /\ UNCHANGED <<job, call, agent, output, env, trail, sent, table, rate, minutes, runs>>
      /\ Goto("spawn") \/ (Goto("pool") /\ Pooled) \/ Fails
  BY DEF begin, files, counters, Underway
<1>2. run.at = 1 /\ call.stage = "none" /\ run.code \in Int /\ run.result = "none"
  BY <1>1, NoCallUnderway DEF RunBooks, RunTyped, OutcomeBooks
<1>3. EarlyStep
  <2>1. \/ /\ DOMAIN run' = RunFields /\ OutcomeRests /\ run'.pc \in {"spawn", "pool"} /\ run'.at = 1 /\ run'.result = run.result
           /\ run'.pc = "pool" => Pooled
        \/ DOMAIN run' = RunFields /\ OutcomeRests /\ run'.pc = "done" /\ run'.at = run.at /\ run'.result = "error"
    BY <1>1, Moves DEF RunBooks
  <2> QED BY <1>1, <1>2, <2>1 DEF EarlyStep, Underway, OutcomeRests
<1>4. run'.result = "ran" => run.result = "ran"
  BY <1>2, <1>3 DEF EarlyStep, RunBooks, OutcomeBooks, Underway, begin, Goto, Fails, RunTyped, RunFields
<1> QED BY <1>1, <1>3, <1>4, AgentRests, EarlyKeeps

LEMMA SpawnKeeps ==
  ASSUME RunBooks, NEW ok \in BOOLEAN, spawn_supervised(ok)
  PROVE  RunBooks'
<1>1. /\ run.pc = "spawn" /\ run.pc \in Underway \ {"audit"}
      /\ UNCHANGED <<job, call, output, trail, sent, table, rate, minutes, runs>>
      /\ env' = env \/ env' = apply_env_for(job)
      /\ \/ Goto("running") /\ agent' = [NoAgent EXCEPT !.up = TRUE]
         \/ Fails /\ UNCHANGED agent
  BY DEF spawn_supervised, files, counters, Underway
<1>2. run.at = 1 /\ call.stage = "none" /\ run.code \in Int /\ run.result = "none"
  BY <1>1, NoCallUnderway DEF RunBooks, RunTyped, OutcomeBooks
<1>3. /\ DOMAIN run' = RunFields /\ OutcomeRests
      /\ \/ run'.pc = "running" /\ run'.at = 1 /\ run'.result = run.result
         \/ run'.pc = "done" /\ run'.at = run.at /\ run'.result = "error"
  BY <1>1, Moves DEF RunBooks
<1>4. EarlyStep
  BY <1>1, <1>2, <1>3 DEF EarlyStep, Underway, OutcomeRests
<1>5. run'.result # "ran"
  BY <1>2, <1>3
<1>6. DOMAIN agent' = {"up", "heir", "code"} /\ agent'.code \in Int
  BY <1>1 DEF RunBooks, AgentBooks, NoAgent, NoCode
<1>7. AgentBooks'
  BY <1>5, <1>6 DEF AgentBooks
<1>8. OutputBooks'
  BY <1>1, <1>5 DEF RunBooks, OutputBooks, Replies
<1> QED BY <1>4, <1>7, <1>8, EarlyKeeps

LEMMA WaitStatusKeeps ==
  ASSUME RunBooks, wait_status
  PROVE  RunBooks'
<1> DEFINE code == CASE agent.code # NoCode -> agent.code
                     [] agent.code = NoCode /\ run.timed -> TIMED_OUT_EXIT_CODE
                     [] OTHER -> -1
<1>1. /\ run.pc = "running" /\ run.pc \in Underway \ {"audit"}
      /\ UNCHANGED <<job, call, agent, output, env, trail, sent, table, rate, minutes, runs>>
      /\ run' = [run EXCEPT !.pc = "drain", !.code = code]
  BY DEF wait_status, files, counters, Underway
<1>2. run.at = 1 /\ call.stage = "none" /\ run.result = "none" /\ DOMAIN run = RunFields
  BY <1>1, NoCallUnderway DEF RunBooks, RunTyped, OutcomeBooks
<1>3. code \in Int
  BY DEF RunBooks, AgentBooks, TIMED_OUT_EXIT_CODE
<1> HIDE DEF code
<1>4. /\ DOMAIN run' = RunFields /\ run'.pc = "drain" /\ run'.at = run.at /\ run'.code = code
      /\ run'.missed = run.missed /\ run'.result = run.result
  BY <1>1, <1>2 DEF RunFields
<1>5. EarlyStep
  BY <1>1, <1>2, <1>3, <1>4 DEF EarlyStep, Underway
<1> QED BY <1>1, <1>4, <1>5, AgentRests, EarlyKeeps

LEMMA DeadlineKeeps ==
  ASSUME RunBooks, NEW code \in {0, NoCode}, Deadline(code)
  PROVE  RunBooks'
<1>1. /\ run.pc = "running" /\ run.pc \in Underway \ {"audit"}
      /\ UNCHANGED <<job, call, output, env, trail, sent, table, rate, minutes, runs>>
      /\ run' = [run EXCEPT !.timed = TRUE]
  BY DEF Deadline, files, counters, Underway
<1>2. run.at = 1 /\ call.stage = "none" /\ run.result = "none" /\ DOMAIN run = RunFields /\ run.code \in Int
  BY <1>1, NoCallUnderway DEF RunBooks, RunTyped, OutcomeBooks
<1>3. /\ DOMAIN run' = RunFields /\ run'.pc = "running" /\ run'.at = run.at /\ run'.code = run.code
      /\ run'.missed = run.missed /\ run'.result = run.result
  BY <1>1, <1>2 DEF RunFields
<1>4. EarlyStep
  BY <1>1, <1>2, <1>3 DEF EarlyStep, Underway
<1>5. DOMAIN agent' = {"up", "heir", "code"} /\ agent'.code \in Int
  BY DEF RunBooks, AgentBooks, Deadline, NoCode
<1>6. AgentBooks'
  BY <1>2, <1>3, <1>5 DEF AgentBooks
<1>7. OutputBooks'
  BY <1>1, <1>2, <1>3 DEF RunBooks, OutputBooks, Replies
<1> QED BY <1>4, <1>6, <1>7, EarlyKeeps

\* A call begins, or the plugin is not there.
LEMMA InvokeIs ==
  ASSUME NEW p, NEW big, Invoke(p, big)
  PROVE  {"stage", "ok"} \subseteq DOMAIN call' /\ call'.ok \in BOOLEAN
BY DEF Invoke

LEMMA PreflightNextKeeps ==
  ASSUME RunnerAssumption, RunBooks, PreflightNext
  PROVE  RunBooks'
<1>1. /\ run.pc = "preflight"
      /\ UNCHANGED <<job, agent, output, env, beat, trail, sent, table, rate, minutes, runs>>
  BY DEF PreflightNext, files, counters
<1>2. DOMAIN job.preflight = 1 .. Len(job.preflight) /\ Len(job.preflight) \in Nat
  BY ListIs DEF RunBooks, RunTyped, RunnerAssumption, WellFormed
<1>3. run.at \in Nat \ {0} /\ run.code \in Int /\ run.result = "none"
  BY <1>1 DEF RunBooks, RunTyped, OutcomeBooks
<1>4. CASE run.at <= Len(job.preflight)
  <2>1. UNCHANGED run /\ run.at \in DOMAIN job.preflight
    BY <1>2, <1>3, <1>4 DEF PreflightNext
  <2>2. {"stage", "ok"} \subseteq DOMAIN call' /\ call'.ok \in BOOLEAN
    BY <1>4, InvokeIs DEF PreflightNext
  <2>3. CallBooks'
    BY <1>1, <2>1, <2>2 DEF CallBooks
  <2> QED BY <1>1, <2>1, <2>3, BesidesRest DEF RunBooks
<1>5. CASE ~(run.at <= Len(job.preflight))
  <2>1. Goto("launch") /\ UNCHANGED call
    BY <1>5 DEF PreflightNext
  <2>2. call.stage = "none"
    BY <1>1, <1>2, <1>5 DEF RunBooks, CallBooks
  <2>3. DOMAIN run' = RunFields /\ OutcomeRests /\ run'.pc = "launch" /\ run'.at = 1 /\ run'.result = run.result
    BY <2>1, Moves DEF RunBooks
  <2>4. EarlyStep
    BY <1>1, <1>3, <2>1, <2>2, <2>3 DEF EarlyStep, Underway, OutcomeRests
  <2> QED BY <1>1, <1>3, <2>3, <2>4, AgentRests, EarlyKeeps
<1> QED BY <1>4, <1>5

\* Two lines at once.
LEMMA TrailGrowsTwice ==
  ASSUME trail \in Seq(Marks), NEW x \in Marks, NEW y \in Marks, trail' = trail \o <<x, y>>
  PROVE  /\ trail' \in Seq(Marks)
         /\ \A kind : x.kind # kind /\ y.kind # kind => Of(kind)' = Of(kind)
         /\ \A kind : x.kind # kind /\ y.kind = kind => Of(kind)' = Of(kind) \union {Len(trail) + 2}
         /\ Len(trail) + 2 \in DOMAIN trail'
<1> DEFINE q == <<x, y>>
<1>1. q \in Seq(Marks) /\ Len(q) = 2 /\ q[1] = x /\ q[2] = y
  OBVIOUS
<1>2. Len(trail) \in Nat /\ DOMAIN trail = 1 .. Len(trail)
  BY LenProperties
<1> HIDE DEF q
<1>3. /\ trail \o q \in Seq(Marks) /\ Len(trail \o q) = Len(trail) + Len(q)
      /\ \A i \in 1 .. Len(trail) + Len(q) : (trail \o q)[i] = IF i <= Len(trail) THEN trail[i] ELSE q[i - Len(trail)]
  BY <1>1, ConcatProperties
<1>4. trail' = trail \o q
  BY DEF q
<1>5. trail' \in Seq(Marks) /\ DOMAIN trail' = 1 .. Len(trail) + 2
  BY <1>1, <1>3, <1>4, LenProperties
<1>6. /\ \A i \in 1 .. Len(trail) : trail'[i] = trail[i]
      /\ trail'[Len(trail) + 1] = x /\ trail'[Len(trail) + 2] = y
  <2>1. /\ Len(trail) + 1 \in 1 .. Len(trail) + 2 /\ ~(Len(trail) + 1 <= Len(trail)) /\ (Len(trail) + 1) - Len(trail) = 1
        /\ Len(trail) + 2 \in 1 .. Len(trail) + 2 /\ ~(Len(trail) + 2 <= Len(trail)) /\ (Len(trail) + 2) - Len(trail) = 2
        /\ \A i \in 1 .. Len(trail) : i <= Len(trail) /\ i \in 1 .. Len(trail) + 2
    BY <1>2
  <2> QED BY <1>1, <1>3, <1>4, <2>1
<1>7. \A i \in 1 .. Len(trail) + 2 : i \in 1 .. Len(trail) \/ i = Len(trail) + 1 \/ i = Len(trail) + 2
  BY <1>2
<1>8. /\ Len(trail) + 1 \in 1 .. Len(trail) + 2 /\ Len(trail) + 2 \in 1 .. Len(trail) + 2
      /\ \A i \in 1 .. Len(trail) : i \in 1 .. Len(trail) + 2
  BY <1>2
<1>9. \A kind : Of(kind)' = {i \in 1 .. Len(trail) + 2 : trail'[i].kind = kind}
  BY <1>5 DEF Of
<1>10. \A kind : Of(kind) = {i \in 1 .. Len(trail) : trail[i].kind = kind}
  BY <1>2 DEF Of
<1> QED BY <1>5, <1>6, <1>7, <1>8, <1>9, <1>10

\* The preflight list goes on, or refuses the run.
LEMMA PreflightKeeps ==
  ASSUME RunBooks, run_preflight
  PROVE  RunBooks'
<1> DEFINE passed == [kind |-> "plugin", ok |-> TRUE, at |-> run.at]
           refused == [kind |-> "plugin", ok |-> FALSE, at |-> run.at]
           blocked == [kind |-> "preflight_failed", ok |-> FALSE, at |-> run.at]
<1>1. /\ run.pc = "preflight" /\ call' = NoCaller
      /\ UNCHANGED <<job, agent, output, env, beat, sent, table, rate, minutes, runs>>
  BY DEF run_preflight, files, counters
<1>2. /\ run.at \in Nat \ {0} /\ run.code \in Int /\ run.result = "none" /\ ~run.missed /\ run.missed \in BOOLEAN
      /\ DOMAIN run = RunFields /\ ~job.summary /\ env = <<>> /\ trail \in Seq(Marks)
      /\ Of("agent_run") = {} /\ Of("hook") = {} /\ Of("notifier") = {} /\ Of("preflight_failed") = {}
  BY <1>1 DEF RunBooks, RunTyped, OutcomeBooks, EnvBooks, TrailBooks
<1>3. passed \in Marks /\ refused \in Marks /\ blocked \in Marks
  BY <1>2 DEF Marks
<1>4. CallBooks'
  BY <1>1 DEF CallBooks, NoCaller
<1>5. CASE call.ok
  <2>1. /\ trail' = Append(trail, passed)
        /\ DOMAIN run' = RunFields /\ OutcomeRests /\ run'.pc = run.pc /\ run'.at = run.at + 1 /\ run'.result = run.result
    BY <1>5, Moves DEF run_preflight, Audits, RunBooks
  <2>2. trail' \in Seq(Marks) /\ \A kind : kind # "plugin" => Of(kind)' = Of(kind)
    <3> HIDE DEF passed
    <3>1. passed.kind = "plugin"
      BY DEF passed
    <3> QED BY <1>2, <1>3, <2>1, <3>1, TrailGrows
  <2>3. RunTyped'
    BY <1>1, <1>2, <2>1 DEF RunBooks, RunTyped, OutcomeRests
  <2>4. OutcomeBooks'
    BY <1>1, <1>2, <2>1 DEF OutcomeBooks, OutcomeRests, Underway
  <2>5. EnvBooks'
    BY <1>1, <1>2 DEF EnvBooks
  <2>6. TrailBooks' /\ ToldBooks'
    BY <1>1, <1>2, <2>1, <2>2 DEF TrailBooks, ToldBooks, Underway
  <2>7. SentBooks' /\ RateBooks'
    BY <1>1, <2>1, SentRests DEF RunBooks, Quiet
  <2>8. AgentBooks' /\ OutputBooks'
    BY <1>1, <2>1, AgentRests
  <2> QED BY <1>4, <2>3, <2>4, <2>5, <2>6, <2>7, <2>8 DEF RunBooks
<1>6. CASE ~call.ok
  <2>1. /\ trail' = trail \o <<refused, blocked>>
        /\ run' = [run EXCEPT !.pc = "hooks", !.at = 1, !.event = "preflight", !.text = <<"a">>, !.result = "preflight"]
    BY <1>6 DEF run_preflight, PreflightFailed
  <2>2. /\ DOMAIN run' = RunFields /\ run'.pc = "hooks" /\ run'.at = 1 /\ run'.event = "preflight"
        /\ run'.result = "preflight" /\ run'.code = run.code /\ run'.missed = run.missed
    BY <1>2, <2>1 DEF RunFields
  <2>3. /\ trail' \in Seq(Marks)
        /\ \A kind \in {"agent_run", "hook", "notifier"} : Of(kind)' = Of(kind)
        /\ Of("preflight_failed")' = {Len(trail) + 2} /\ Len(trail) + 2 \in DOMAIN trail'
    <3>1. refused.kind = "plugin" /\ blocked.kind = "preflight_failed"
      OBVIOUS
    <3> HIDE DEF refused, blocked
    <3>2. /\ trail' \in Seq(Marks) /\ Len(trail) + 2 \in DOMAIN trail'
          /\ \A kind : refused.kind # kind /\ blocked.kind # kind => Of(kind)' = Of(kind)
          /\ \A kind : refused.kind # kind /\ blocked.kind = kind => Of(kind)' = Of(kind) \union {Len(trail) + 2}
      BY <1>2, <1>3, <2>1, TrailGrowsTwice
    <3> QED BY <1>2, <3>1, <3>2
  <2>4. RunTyped'
    BY <1>1, <1>2, <2>2 DEF RunBooks, RunTyped, RunPcs
  <2>5. OutcomeBooks'
    BY <1>1, <1>2, <2>2 DEF OutcomeBooks, Underway
  <2>6. EnvBooks'
    BY <1>1, <1>2 DEF EnvBooks
  <2>7. TrailBooks'
    <3>1. ~Recorded'
      BY <2>2 DEF Recorded
    <3> QED BY <1>2, <2>2, <2>3, <3>1 DEF TrailBooks, Underway
  <2>8. ToldBooks'
    BY <1>2, <2>2, <2>3 DEF ToldBooks
  <2>9. SentBooks' /\ RateBooks'
    BY <1>1, <2>2, SentRests DEF RunBooks, Quiet
  <2>10. AgentBooks' /\ OutputBooks'
    BY <1>1, <2>2, AgentRests
  <2> QED BY <1>4, <2>4, <2>5, <2>6, <2>7, <2>8, <2>9, <2>10 DEF RunBooks
<1> QED BY <1>5, <1>6

\* Both pipes are closed: nobody is left who prints, and all that could be read was.
LEMMA FinishKeeps ==
  ASSUME RunBooks, NEW ok \in BOOLEAN, NEW said, finish(ok, said)
  PROVE  RunBooks'
<1>1. /\ run.pc = "drain" /\ run.pc \in Underway \ {"audit"} /\ ~Held
      /\ (~output.broken => output.read = output.printed)
      /\ UNCHANGED <<job, call, agent, output, env, trail, sent, table, rate, minutes, runs>>
      /\ \/ Decided(run.code, run.timed, said) /\ (~job.dry => beat' = run.code)
         \/ Fails
  BY DEF finish, files, counters, Underway
<1>2. run.at = 1 /\ call.stage = "none" /\ run.code \in Int
  BY <1>1, NoCallUnderway DEF RunBooks, RunTyped
<1>3. EarlyStep
  <2>1. CASE Decided(run.code, run.timed, said) /\ (~job.dry => beat' = run.code)
    <3>1. /\ DOMAIN run' = RunFields /\ run'.pc = "audit" /\ run'.at = run.at /\ run'.code = run.code
          /\ run'.missed = run.missed /\ run'.result = "ran" /\ run'.event = EventOf(run.code, run.timed)
      BY <2>1, Moves DEF RunBooks
    <3>2. run'.event = "success" <=> run'.code = 0
      BY <3>1 DEF EventOf
    <3> QED BY <1>1, <1>2, <2>1, <3>1, <3>2 DEF EarlyStep, Underway
  <2>2. CASE Fails
    <3>1. DOMAIN run' = RunFields /\ OutcomeRests /\ run'.pc = "done" /\ run'.at = run.at /\ run'.result = "error"
      BY <2>2, Moves DEF RunBooks
    <3> QED BY <1>1, <1>2, <3>1 DEF EarlyStep, Underway, OutcomeRests
  <2> QED BY <1>1, <2>1, <2>2
<1>4. AgentBooks'
  BY <1>1 DEF RunBooks, AgentBooks, Held
<1>5. OutputBooks'
  BY <1>1 DEF RunBooks, OutputBooks, Replies
<1> QED BY <1>3, <1>4, <1>5, EarlyKeeps

\* The pool decides, or has no process.
LEMMA PoolKeeps ==
  ASSUME RunBooks, PoolFails \/ (\E code \in Int, timed \in BOOLEAN, ok \in BOOLEAN : \E said : PoolDecides(code, timed, ok, said))
  PROVE  RunBooks'
<1>1. /\ run.pc = "pool" /\ run.pc \in Underway \ {"audit"}
      /\ UNCHANGED <<job, call, agent, output, trail, sent, table, rate, minutes, runs>>
      /\ env' = env \/ env' = apply_env_for(job)
      /\ \/ \E code \in Int : \E timed, said : Decided(code, timed, said) /\ beat' = code
         \/ Fails
  BY DEF PoolFails, PoolDecides, files, counters, Underway
<1>2. run.at = 1 /\ call.stage = "none" /\ run.code \in Int /\ Pooled /\ (Pooled' <=> Pooled)
  BY <1>1, NoCallUnderway, ListenersRest DEF RunBooks, RunTyped, OutcomeBooks
<1>3. EarlyStep
  <2>1. ASSUME NEW code \in Int, NEW timed, NEW said, Decided(code, timed, said) /\ beat' = code
        PROVE  EarlyStep
    <3>1. /\ DOMAIN run' = RunFields /\ run'.pc = "audit" /\ run'.at = run.at /\ run'.code = code
          /\ run'.missed = run.missed /\ run'.result = "ran" /\ run'.event = EventOf(code, timed)
      BY <2>1, Moves DEF RunBooks
    <3>2. run'.event = "success" <=> run'.code = 0
      BY <3>1 DEF EventOf
    <3> QED BY <1>1, <1>2, <2>1, <3>1, <3>2 DEF EarlyStep, Underway
  <2>2. CASE Fails
    <3>1. DOMAIN run' = RunFields /\ OutcomeRests /\ run'.pc = "done" /\ run'.at = run.at /\ run'.result = "error"
      BY <2>2, Moves DEF RunBooks
    <3> QED BY <1>1, <1>2, <3>1 DEF EarlyStep, Underway, OutcomeRests
  <2> QED BY <1>1, <2>1, <2>2
<1>4. AgentBooks'
  BY <1>1, <1>2 DEF RunBooks, AgentBooks
<1>5. OutputBooks'
  BY <1>1, <1>2 DEF RunBooks, OutputBooks, Replies
<1> QED BY <1>3, <1>4, <1>5, EarlyKeeps

\* An answer carries a code.
LEMMA PoolSays ==
  ASSUME NEW a \in AnswersRead
  PROVE  a.code \in Int
<1>1. PICK f \in InboundFrame : a = [code |-> resolved_exit_code(f), says |-> f.says]
  BY DEF AnswersRead
<1> QED BY <1>1 DEF InboundFrame, resolved_exit_code, NoCode, TIMED_OUT_EXIT_CODE

LEMMA PoolEnds ==
  ASSUME RunBooks,
         \/ \E a \in AnswersRead, ok \in BOOLEAN, said \in job.says \union {<<>>} : PoolAnswers(a, ok, said)
         \/ PoolFails \/ \E ok \in BOOLEAN : PoolTimesOut(ok)
  PROVE  RunBooks'
<1>1. ASSUME NEW a \in AnswersRead, NEW ok \in BOOLEAN, NEW said, PoolAnswers(a, ok, said) PROVE RunBooks'
  <2>1. a.code \in Int /\ PoolDecides(a.code, FALSE, ok, said)
    BY <1>1, PoolSays DEF PoolAnswers
  <2> QED BY <2>1, PoolKeeps
<1>2. ASSUME NEW ok \in BOOLEAN, PoolTimesOut(ok) PROVE RunBooks'
  <2>1. TIMED_OUT_EXIT_CODE \in Int
    BY DEF TIMED_OUT_EXIT_CODE
  <2>2. PoolDecides(TIMED_OUT_EXIT_CODE, TRUE, ok, <<>>)
    BY <1>2 DEF PoolTimesOut
  <2> QED BY <2>1, <2>2, PoolKeeps
<1>3. CASE PoolFails
  BY <1>3, PoolKeeps
<1> QED BY <1>1, <1>2, <1>3

\* A lost request is on record at once.
LEMMA LostKeeps ==
  ASSUME RunBooks, NEW ok \in BOOLEAN, RequestLost(ok)
  PROVE  RunBooks'
<1> DEFINE mark == [kind |-> "agent_run", ok |-> FALSE, code |-> REQUEST_LOST_EXIT_CODE]
<1>1. /\ run.pc = "pool" /\ run.pc \in Underway /\ trail' = Append(trail, mark)
      /\ run' = [run EXCEPT !.pc = "done", !.result = "lost", !.code = REQUEST_LOST_EXIT_CODE]
      /\ UNCHANGED <<job, call, agent, output, env, sent, table, rate, minutes, runs>>
  BY DEF RequestLost, Audits, files, counters, Underway
<1>2. run.at = 1 /\ call.stage = "none" /\ DOMAIN run = RunFields /\ ~job.summary /\ run.result = "none"
  BY <1>1, NoCallUnderway DEF RunBooks, RunTyped, OutcomeBooks
<1>3. REQUEST_LOST_EXIT_CODE \in Int
  BY DEF REQUEST_LOST_EXIT_CODE
<1>4. /\ DOMAIN run' = RunFields /\ run'.pc = "done" /\ run'.result = "lost" /\ run'.at = run.at
      /\ run'.missed = run.missed /\ run'.code = REQUEST_LOST_EXIT_CODE
  BY <1>1, <1>2 DEF RunFields
<1>5. RunTyped'
  BY <1>1, <1>2, <1>3, <1>4 DEF RunBooks, RunTyped, RunPcs
<1>6. OutcomeBooks'
  BY <1>1, <1>2, <1>4 DEF OutcomeBooks, Underway
<1>7. EnvBooks' /\ CallBooks'
  BY <1>1, <1>2, <1>4 DEF RunBooks, EnvBooks, CallBooks, apply_env_for, names_locale, default_locale
<1>8. /\ Of("agent_run") = {} /\ Of("hook") = {} /\ Of("notifier") = {} /\ Of("preflight_failed") = {}
      /\ trail \in Seq(Marks)
  BY <1>1, <1>2 DEF RunBooks, TrailBooks
<1>9. /\ trail' \in Seq(Marks) /\ Len(trail) + 1 \in DOMAIN trail'
      /\ Of("agent_run")' = {Len(trail) + 1} /\ Of("hook")' = {} /\ Of("notifier")' = {} /\ Of("preflight_failed")' = {}
  <2>1. mark \in Marks /\ mark.kind = "agent_run"
    BY <1>3 DEF Marks
  <2> HIDE DEF mark
  <2> QED BY <1>1, <1>8, <2>1, TrailGrows
<1>10. TrailBooks'
  <2>1. Recorded'
    BY <1>4 DEF Recorded
  <2> QED BY <1>4, <1>9, <2>1 DEF TrailBooks, Underway
<1>11. ToldBooks'
  BY <1>4, <1>9 DEF ToldBooks
<1>12. SentBooks' /\ RateBooks'
  BY <1>1, <1>4, SentRests DEF RunBooks, Quiet
<1>13. AgentBooks' /\ OutputBooks'
  BY <1>1, <1>4, AgentRests
<1> QED BY <1>5, <1>6, <1>7, <1>10, <1>11, <1>12, <1>13 DEF RunBooks

-----------------------------------------------------------------------------
(* Whoever is told of it.                                                  *)

\* The entries are numbered from 1, and each has a rate.
LEMMA NotifiersAre ==
  ASSUME RunnerAssumption, job \in Jobs
  PROVE  /\ DOMAIN Notifiers = 1 .. Len(Notifiers) /\ Len(Notifiers) \in Nat
         /\ \A i \in DOMAIN Notifiers : Notifiers[i].rate \in Nat
<1>1. WellFormed(job)
  BY DEF RunnerAssumption
<1>2. DOMAIN job.notifiers = 1 .. Len(job.notifiers) /\ Len(job.notifiers) \in Nat
      /\ \A i \in DOMAIN job.notifiers : IsEntry(job.notifiers[i])
  BY <1>1, ListIs DEF WellFormed
<1>3. CASE ~job.summary
  BY <1>2, <1>3 DEF Notifiers, IsEntry
<1>4. CASE job.summary /\ job.notifiers = <<>>
  <2>1. Notifiers = <<job.fallback>>
    BY <1>4 DEF Notifiers, resolve_notifiers
  <2>2. job.fallback.rate \in Nat
    BY <1>1 DEF WellFormed, IsEntry
  <2> QED BY <2>1, <2>2
<1>5. CASE job.summary /\ job.notifiers # <<>>
  <2>1. Notifiers = [i \in 1 .. Len(job.notifiers) |-> unfiltered(job.notifiers[i])]
    BY <1>2, <1>5 DEF Notifiers, resolve_notifiers
  <2>2. DOMAIN Notifiers = 1 .. Len(job.notifiers) /\ Len(Notifiers) = Len(job.notifiers)
    <3>1. Notifiers \in Seq({unfiltered(job.notifiers[i]) : i \in 1 .. Len(job.notifiers)})
      BY <1>2, <2>1
    <3> QED BY <1>2, <2>1, <3>1, LenProperties
  <2>3. \A i \in 1 .. Len(job.notifiers) : Notifiers[i].rate = job.notifiers[i].rate
    BY <1>2, <2>1 DEF IsEntry, unfiltered
  <2> QED BY <1>2, <2>2, <2>3 DEF IsEntry
<1> QED BY <1>3, <1>4, <1>5

\* Nobody is told before the first entry.
LEMMA NobodyFirst ==
  ASSUME RunnerAssumption, job \in Jobs
  PROVE  {k \in Asked : k < 1} = {} /\ Asked \subseteq DOMAIN Notifiers
<1>1. DOMAIN Notifiers = 1 .. Len(Notifiers) /\ Len(Notifiers) \in Nat
  BY NotifiersAre
<1> QED BY <1>1 DEF Asked

\* The outcome goes on record, unless it cannot be written.
LEMMA AuditKeeps ==
  ASSUME RunnerAssumption, RunBooks, NEW ok \in BOOLEAN, append_agent_run_audit(ok)
  PROVE  RunBooks'
<1> DEFINE mark == [kind |-> "agent_run", ok |-> run.code = 0, code |-> run.code]
           next == IF job.plugins THEN "hooks" ELSE "notify"
<1>1. /\ run.pc = "audit" /\ run.pc \in Underway
      /\ IF ok THEN trail' = Append(trail, mark) ELSE UNCHANGED trail
      /\ run' = [run EXCEPT !.pc = next, !.missed = ~ok]
      /\ UNCHANGED <<job, call, agent, output, env, beat, sent, table, rate, minutes, runs>>
  BY DEF append_agent_run_audit, Audits, files, counters, Underway
<1>2. /\ run.at = 1 /\ call.stage = "none" /\ DOMAIN run = RunFields /\ ~job.summary /\ run.result = "ran"
      /\ run.code \in Int
  BY <1>1, NoCallUnderway DEF RunBooks, RunTyped, OutcomeBooks
<1>3. next \in {"hooks", "notify"}
  OBVIOUS
<1> HIDE DEF next
<1>4. /\ DOMAIN run' = RunFields /\ run'.pc = next /\ run'.result = "ran" /\ run'.at = 1
      /\ run'.missed = ~ok /\ run'.code = run.code /\ run'.event = run.event
  BY <1>1, <1>2 DEF RunFields
<1>5. RunTyped'
  BY <1>1, <1>2, <1>3, <1>4 DEF RunBooks, RunTyped, RunPcs
<1>6. OutcomeBooks'
  <2>1. (run.event = "success" <=> run.code = 0) /\ (~job.dry => beat = run.code)
    BY <1>2 DEF RunBooks, OutcomeBooks
  <2> QED BY <1>1, <1>2, <1>3, <1>4, <2>1 DEF OutcomeBooks, Underway
<1>7. EnvBooks' /\ CallBooks'
  BY <1>1, <1>2, <1>3, <1>4 DEF RunBooks, EnvBooks, CallBooks, apply_env_for, names_locale, default_locale
<1>8. /\ Of("agent_run") = {} /\ Of("hook") = {} /\ Of("notifier") = {} /\ Of("preflight_failed") = {}
      /\ trail \in Seq(Marks)
  BY <1>1, <1>2 DEF RunBooks, TrailBooks
<1>9. /\ trail' \in Seq(Marks)
      /\ IF ok THEN Len(trail) + 1 \in DOMAIN trail' /\ Of("agent_run")' = {Len(trail) + 1} ELSE Of("agent_run")' = {}
      /\ Of("hook")' = {} /\ Of("notifier")' = {} /\ Of("preflight_failed")' = {}
  <2>1. CASE ok
    <3>1. mark \in Marks /\ mark.kind = "agent_run"
      <4>1. (run.code = 0) \in BOOLEAN
        OBVIOUS
      <4> QED BY <1>2, <4>1 DEF Marks
    <3>2. trail' = Append(trail, mark)
      BY <1>1, <2>1
    <3> HIDE DEF mark
    <3>3. /\ trail' \in Seq(Marks) /\ Len(trail) + 1 \in DOMAIN trail'
          /\ \A kind : Of(kind)' = IF mark.kind = kind THEN Of(kind) \union {Len(trail) + 1} ELSE Of(kind)
      BY <1>8, <3>1, <3>2, TrailGrows
    <3> QED BY <1>8, <2>1, <3>1, <3>3
  <2>2. CASE ~ok
    BY <1>1, <1>8, <2>2 DEF Of
  <2> QED BY <2>1, <2>2
<1>10. TrailBooks'
  <2>1. Recorded' <=> ok
    BY <1>4 DEF Recorded
  <2> QED BY <1>3, <1>4, <1>9, <2>1 DEF TrailBooks, Underway
<1>11. ToldBooks'
  <2>1. job' \in Jobs
    BY <1>5 DEF RunTyped
  <2>2. {k \in Asked' : k < 1} = {}
    <3>1. {k \in Asked : k < 1} = {}
      BY NobodyFirst DEF RunBooks, RunTyped
    <3>2. Notifiers' = Notifiers /\ (HasPlugins' <=> HasPlugins)
      BY <1>1, ListenersRest
    <3>3. Asked' = Asked
      BY <1>4, <3>2 DEF Asked
    <3> QED BY <3>1, <3>3
  <2>3. ToldNow' = {}
    BY <1>9 DEF ToldNow
  <2> QED BY <1>3, <1>4, <1>9, <2>2, <2>3 DEF ToldBooks
<1>12. SentBooks' /\ RateBooks'
  BY <1>1, <1>3, <1>4, SentRests DEF RunBooks, Quiet
<1>13. AgentBooks' /\ OutputBooks'
  BY <1>1, <1>2, AgentRests
<1> QED BY <1>5, <1>6, <1>7, <1>10, <1>11, <1>12, <1>13 DEF RunBooks

\* A run whose outcome is known goes from entry to entry.
Onward ==
    /\ run.pc \in {"hooks", "notify"} /\ run'.pc \in {"hooks", "notify", "done"} /\ (run.pc = "notify" => run'.pc # "hooks")
    /\ DOMAIN run' = RunFields /\ OutcomeRests /\ run'.result = run.result /\ run'.at \in Nat \ {0}
    /\ UNCHANGED <<job, agent, output, env, beat, minutes, runs>>
LEMMA OnwardKeeps ==
  ASSUME RunBooks, Onward
  PROVE  /\ RunTyped' /\ OutcomeBooks' /\ EnvBooks' /\ AgentBooks' /\ OutputBooks'
         /\ Asked' = Asked /\ (NothingToSay' <=> NothingToSay) /\ (Recorded' <=> Recorded)
<1>1. RunTyped'
  BY DEF RunBooks, RunTyped, Onward, OutcomeRests, RunPcs
<1>2. OutcomeBooks'
  BY DEF RunBooks, OutcomeBooks, Onward, OutcomeRests, Underway
<1>3. EnvBooks'
  BY DEF RunBooks, EnvBooks, Onward, apply_env_for, names_locale, default_locale
<1>4. AgentBooks' /\ OutputBooks'
  BY AgentRests DEF Onward
<1>5. Notifiers' = Notifiers /\ (HasPlugins' <=> HasPlugins)
  BY ListenersRest DEF Onward
<1>6. Asked' = Asked /\ (NothingToSay' <=> NothingToSay)
  BY <1>5 DEF Onward, OutcomeRests, Asked, NothingToSay
<1>7. Recorded' <=> Recorded
  BY DEF Onward, OutcomeRests, Recorded
<1> QED BY <1>1, <1>2, <1>3, <1>4, <1>6, <1>7

\* Nothing is said on the way.
LEMMA SilentlyOn ==
  ASSUME RunBooks, Onward, UNCHANGED <<call, trail, sent, table, rate>>, call.stage = "none",
         \/ run.pc = "hooks" /\ run'.pc = "hooks"
         \/ run'.pc # "hooks" /\ ToldNow = IF NothingToSay THEN {} ELSE
                                          IF run'.pc = "done" THEN Asked ELSE {k \in Asked : k < run'.at}
  PROVE  RunBooks'
<1>1. /\ RunTyped' /\ OutcomeBooks' /\ EnvBooks' /\ AgentBooks' /\ OutputBooks'
      /\ Asked' = Asked /\ (NothingToSay' <=> NothingToSay) /\ (Recorded' <=> Recorded)
  BY OnwardKeeps
<1>2. \A kind : Of(kind)' = Of(kind)
  BY DEF Of
<1>3. TrailBooks'
  BY <1>1, <1>2 DEF RunBooks, TrailBooks, Onward, Underway
<1>4. ToldBooks'
  <2>1. ToldNow' = ToldNow
    BY <1>2 DEF ToldNow
  <2> QED BY <1>1, <1>2, <2>1 DEF RunBooks, ToldBooks, Onward
<1>5. CallBooks'
  BY DEF RunBooks, CallBooks
<1>6. SentBooks' /\ RateBooks'
  <2>1. run.pc # "idle" /\ run'.pc # "idle" /\ (Quiet' => Quiet)
    BY DEF RunBooks, OutcomeBooks, Quiet, Onward
  <2> QED BY <2>1, SentRests DEF RunBooks, Onward
<1> QED BY <1>1, <1>3, <1>4, <1>5, <1>6 DEF RunBooks

LEMMA FireHooksKeeps ==
  ASSUME RunnerAssumption, RunBooks, fire_hooks
  PROVE  RunBooks'
<1>1. /\ run.pc = "hooks" /\ call.stage = "none"
      /\ UNCHANGED <<job, agent, output, env, beat, trail, sent, table, rate, minutes, runs>>
      /\ \/ Goto("notify") /\ UNCHANGED call
         \/ Step /\ UNCHANGED call
         \/ Invoke(Hooks[run.at].plugin, job.big) /\ UNCHANGED run
  BY DEF fire_hooks, files, counters
<1>2. run.at \in Nat \ {0} /\ job \in Jobs
  BY DEF RunBooks, RunTyped
<1>3. CASE Goto("notify") /\ UNCHANGED call
  <2>1. DOMAIN run' = RunFields /\ OutcomeRests /\ run'.pc = "notify" /\ run'.at = 1 /\ run'.result = run.result
    BY <1>3, Moves DEF RunBooks
  <2>2. Onward
    BY <1>1, <2>1 DEF Onward
  <2>3. ToldNow = {} /\ {k \in Asked : k < 1} = {}
    <3>1. Of("notifier") = {}
      BY <1>1 DEF RunBooks, ToldBooks
    <3> QED BY <1>2, <3>1, NobodyFirst DEF ToldNow
  <2> QED BY <1>1, <1>3, <2>1, <2>2, <2>3, SilentlyOn
<1>4. CASE Step /\ UNCHANGED call
  <2>1. DOMAIN run' = RunFields /\ OutcomeRests /\ run'.pc = run.pc /\ run'.at = run.at + 1 /\ run'.result = run.result
    BY <1>4, Moves DEF RunBooks
  <2>2. Onward
    BY <1>1, <1>2, <2>1 DEF Onward
  <2> QED BY <1>1, <1>4, <2>1, <2>2, SilentlyOn
<1>5. CASE Invoke(Hooks[run.at].plugin, job.big) /\ UNCHANGED run
  <2>1. {"stage", "ok"} \subseteq DOMAIN call' /\ call'.ok \in BOOLEAN
    BY <1>5, InvokeIs
  <2>2. CallBooks'
    BY <1>1, <1>5, <2>1 DEF CallBooks
  <2> QED BY <1>1, <1>5, <2>2, BesidesRest DEF RunBooks
<1> QED BY <1>1, <1>3, <1>4, <1>5

LEMMA HookAnsweredKeeps ==
  ASSUME RunBooks, HookAnswered
  PROVE  RunBooks'
<1> DEFINE mark == [kind |-> "hook", ok |-> call.ok, at |-> run.at]
<1>1. /\ run.pc = "hooks" /\ call' = NoCaller /\ Step /\ trail' = Append(trail, mark)
      /\ UNCHANGED <<job, agent, output, env, beat, sent, table, rate, minutes, runs>>
  BY DEF HookAnswered, Audits, files, counters
<1>2. run.at \in Nat \ {0} /\ call.ok \in BOOLEAN /\ trail \in Seq(Marks)
  BY DEF RunBooks, RunTyped, CallBooks, TrailBooks
<1>3. DOMAIN run' = RunFields /\ OutcomeRests /\ run'.pc = run.pc /\ run'.at = run.at + 1 /\ run'.result = run.result
  BY <1>1, Moves DEF RunBooks
<1>4. Onward
  BY <1>1, <1>2, <1>3 DEF Onward
<1>5. /\ RunTyped' /\ OutcomeBooks' /\ EnvBooks' /\ AgentBooks' /\ OutputBooks'
      /\ (Recorded' <=> Recorded)
  BY <1>4, OnwardKeeps
<1>6. /\ trail' \in Seq(Marks) /\ Len(trail) \in Nat /\ DOMAIN trail = 1 .. Len(trail)
      /\ DOMAIN trail' = 1 .. Len(trail) + 1
      /\ \A kind : Of(kind) \subseteq 1 .. Len(trail)
      /\ \A kind : Of(kind)' = IF "hook" = kind THEN Of(kind) \union {Len(trail) + 1} ELSE Of(kind)
  <2>1. mark \in Marks /\ mark.kind = "hook"
    BY <1>2 DEF Marks
  <2> HIDE DEF mark
  <2> QED BY <1>1, <1>2, <2>1, TrailGrows
<1>7. /\ Of("agent_run")' = Of("agent_run") /\ Of("notifier")' = Of("notifier")
      /\ Of("preflight_failed")' = Of("preflight_failed") /\ Of("hook")' = Of("hook") \union {Len(trail) + 1}
  BY <1>6
<1>8. TrailBooks'
  <2>1. \A i \in Of("agent_run")', j \in Of("hook")' \union Of("notifier")' : i < j
    <3>1. \A i \in Of("agent_run") : i < Len(trail) + 1
      BY <1>6
    <3>2. \A i \in Of("agent_run"), j \in Of("hook") \union Of("notifier") : i < j
      BY DEF RunBooks, TrailBooks
    <3> QED BY <1>7, <3>1, <3>2
  <2>2. IF Recorded THEN \E i \in DOMAIN trail : Of("agent_run") = {i} ELSE Of("agent_run") = {}
    BY <1>1 DEF RunBooks, TrailBooks
  <2>3. IF run.result = "preflight" THEN \E i \in DOMAIN trail : Of("preflight_failed") = {i} ELSE Of("preflight_failed") = {}
    BY DEF RunBooks, TrailBooks
  <2>4. DOMAIN trail \subseteq DOMAIN trail'
    BY <1>6
  <2> QED BY <1>1, <1>3, <1>5, <1>6, <1>7, <2>1, <2>2, <2>3, <2>4 DEF TrailBooks, Underway
<1>9. ToldBooks'
  BY <1>1, <1>3, <1>6, <1>7 DEF RunBooks, ToldBooks
<1>10. CallBooks'
  BY <1>1 DEF CallBooks, NoCaller
<1>11. SentBooks' /\ RateBooks'
  BY <1>1, <1>3, SentRests DEF RunBooks, Quiet
<1> QED BY <1>5, <1>8, <1>9, <1>10, <1>11 DEF RunBooks

\* One more is told, in its turn.
Whys == {"plugin", "config", "skipped", "down", "refused", "sent"}
LEMMA ToldOneMore ==
  ASSUME RunnerAssumption, RunBooks, run.pc = "notify", ~NothingToSay, run.at \in Asked, Step,
         NEW why \in Whys, NEW ok \in BOOLEAN, call' = NoCaller \/ (UNCHANGED call /\ call.stage = "none"),
         trail' = Append(trail, [kind |-> "notifier", ok |-> ok, at |-> run.at, why |-> why]),
         UNCHANGED <<job, agent, output, env, beat, minutes, runs>>
  PROVE  /\ RunTyped' /\ OutcomeBooks' /\ EnvBooks' /\ CallBooks' /\ TrailBooks' /\ ToldBooks' /\ AgentBooks' /\ OutputBooks'
         /\ run'.pc = "notify"
<1> DEFINE mark == [kind |-> "notifier", ok |-> ok, at |-> run.at, why |-> why]
           l == Len(trail)
<1>1. run.at \in Nat \ {0} /\ trail \in Seq(Marks)
  BY DEF RunBooks, RunTyped, TrailBooks
<1>2. DOMAIN run' = RunFields /\ OutcomeRests /\ run'.pc = run.pc /\ run'.at = run.at + 1 /\ run'.result = run.result
  BY Moves DEF RunBooks
<1>3. Onward
  BY <1>1, <1>2 DEF Onward
<1>4. /\ RunTyped' /\ OutcomeBooks' /\ EnvBooks' /\ AgentBooks' /\ OutputBooks'
      /\ Asked' = Asked /\ (NothingToSay' <=> NothingToSay) /\ (Recorded' <=> Recorded)
  BY <1>3, OnwardKeeps
<1>5. /\ trail' \in Seq(Marks) /\ l \in Nat /\ DOMAIN trail = 1 .. l
      /\ DOMAIN trail' = 1 .. l + 1 /\ trail'[l + 1] = mark
      /\ \A i \in 1 .. l : trail'[i] = trail[i]
      /\ \A kind : Of(kind) \subseteq 1 .. l
      /\ \A kind : Of(kind)' = IF mark.kind = kind THEN Of(kind) \union {l + 1} ELSE Of(kind)
  <2>1. mark \in Marks /\ trail' = Append(trail, mark)
    BY <1>1 DEF Marks, Whys
  <2> HIDE DEF mark
  <2> QED BY <1>1, <2>1, TrailGrows
<1>6. mark.kind = "notifier" /\ mark.at = run.at
  OBVIOUS
<1> HIDE DEF mark, l
<1>7. /\ Of("agent_run")' = Of("agent_run") /\ Of("hook")' = Of("hook")
      /\ Of("preflight_failed")' = Of("preflight_failed") /\ Of("notifier")' = Of("notifier") \union {l + 1}
  BY <1>5, <1>6
<1>8. TrailBooks'
  <2>1. \A i \in Of("agent_run")', j \in Of("hook")' \union Of("notifier")' : i < j
    <3>1. \A i \in Of("agent_run") : i < l + 1
      BY <1>5
    <3>2. \A i \in Of("agent_run"), j \in Of("hook") \union Of("notifier") : i < j
      BY DEF RunBooks, TrailBooks
    <3> QED BY <1>7, <3>1, <3>2
  <2>2. IF Recorded THEN \E i \in DOMAIN trail : Of("agent_run") = {i} ELSE Of("agent_run") = {}
    BY DEF RunBooks, TrailBooks
  <2>3. IF run.result = "preflight" THEN \E i \in DOMAIN trail : Of("preflight_failed") = {i} ELSE Of("preflight_failed") = {}
    BY DEF RunBooks, TrailBooks
  <2>4. DOMAIN trail \subseteq DOMAIN trail'
    BY <1>5
  <2> QED BY <1>2, <1>4, <1>5, <1>7, <2>1, <2>2, <2>3, <2>4 DEF TrailBooks, Underway
<1>9. ToldBooks'
  <2>1. ToldNow = {k \in Asked : k < run.at}
    BY DEF RunBooks, ToldBooks
  <2>2. \A i \in Of("notifier") : trail'[i] = trail[i] /\ trail[i].at \in ToldNow /\ i < l + 1
    BY <1>5 DEF ToldNow
  <2>3. ToldNow' = ToldNow \union {run.at}
    BY <1>5, <1>6, <1>7, <2>2 DEF ToldNow
  <2>4. Asked \subseteq Nat
    BY NotifiersAre DEF Asked, RunBooks, RunTyped
  <2>5. ToldNow' = {k \in Asked : k < run.at + 1}
    <3>1. \A k \in Asked : k < run.at + 1 <=> (k < run.at \/ k = run.at)
      BY <1>1, <2>4
    <3> QED BY <2>1, <2>3, <3>1
  <2>6. \A i, j \in Of("notifier")' : i < j => trail'[i].at < trail'[j].at
    <3>1. \A i, j \in Of("notifier") : i < j => trail[i].at < trail[j].at
      BY DEF RunBooks, ToldBooks
    <3>2. \A i \in Of("notifier") : trail[i].at < run.at
      BY <2>1, <2>2
    <3>3. \A j \in Of("notifier") : ~(l + 1 < j)
      BY <1>5
    <3> QED BY <1>5, <1>6, <1>7, <2>2, <3>1, <3>2, <3>3
  <2> QED BY <1>2, <1>4, <2>5, <2>6 DEF ToldBooks
<1>10. CallBooks'
  <2>1. CASE call' = NoCaller
    BY <2>1 DEF CallBooks, NoCaller
  <2>2. CASE UNCHANGED call /\ call.stage = "none"
    BY <2>2 DEF RunBooks, CallBooks
  <2> QED BY <2>1, <2>2
<1> QED BY <1>2, <1>4, <1>8, <1>9, <1>10

LEMMA FireNotifiersKeeps ==
  ASSUME RunnerAssumption, RunBooks, fire_notifiers
  PROVE  RunBooks'
<1>1. /\ run.pc = "notify" /\ call.stage = "none"
      /\ UNCHANGED <<job, agent, output, env, beat, trail, sent, table, rate, minutes, runs>>
      /\ \/ (NothingToSay \/ run.at > Len(Notifiers)) /\ Done /\ UNCHANGED call
         \/ run.at \notin Asked /\ Step /\ UNCHANGED call
         \/ /\ ~NothingToSay /\ ~(run.at > Len(Notifiers)) /\ matches_event(Notifier, run.event)
            /\ Notifier.driver = "plugin" /\ HasPlugins
            /\ Invoke(Notifier.plugin, job.big) /\ UNCHANGED run
  BY DEF fire_notifiers, files, counters, Asked, Notifier
<1>2. /\ run.at \in Nat \ {0} /\ job \in Jobs
      /\ DOMAIN Notifiers = 1 .. Len(Notifiers) /\ Len(Notifiers) \in Nat /\ Asked \subseteq DOMAIN Notifiers
  BY NotifiersAre DEF RunBooks, RunTyped, Asked
<1>3. ToldNow = IF NothingToSay THEN {} ELSE {k \in Asked : k < run.at}
  BY <1>1 DEF RunBooks, ToldBooks
<1>4. CASE (NothingToSay \/ run.at > Len(Notifiers)) /\ Done /\ UNCHANGED call
  <2>1. DOMAIN run' = RunFields /\ OutcomeRests /\ run'.pc = "done" /\ run'.at = run.at /\ run'.result = run.result
    BY <1>4, Moves DEF RunBooks
  <2>2. Onward
    BY <1>1, <1>2, <2>1 DEF Onward
  <2>3. ToldNow = IF NothingToSay THEN {} ELSE Asked
    <3>1. ~NothingToSay => \A k \in Asked : k < run.at
      BY <1>2, <1>4
    <3> QED BY <1>3, <3>1
  <2> QED BY <1>1, <1>4, <2>1, <2>2, <2>3, SilentlyOn
<1>5. CASE run.at \notin Asked /\ Step /\ UNCHANGED call
  <2>1. DOMAIN run' = RunFields /\ OutcomeRests /\ run'.pc = run.pc /\ run'.at = run.at + 1 /\ run'.result = run.result
    BY <1>5, Moves DEF RunBooks
  <2>2. Onward
    BY <1>1, <1>2, <2>1 DEF Onward
  <2>3. ToldNow = IF NothingToSay THEN {} ELSE {k \in Asked : k < run'.at}
    <3>1. \A k \in Asked : k < run.at + 1 <=> k < run.at
      BY <1>2, <1>5
    <3> QED BY <1>3, <2>1, <3>1
  <2> QED BY <1>1, <1>5, <2>1, <2>2, <2>3, SilentlyOn
<1>6. ASSUME ~NothingToSay, ~(run.at > Len(Notifiers)), matches_event(Notifier, run.event),
             Notifier.driver = "plugin", HasPlugins, Invoke(Notifier.plugin, job.big), UNCHANGED run
      PROVE  RunBooks'
  <2>1. {"stage", "ok"} \subseteq DOMAIN call' /\ call'.ok \in BOOLEAN
    BY <1>6, InvokeIs
  <2>2. run.at \in Asked
    BY <1>2, <1>6 DEF Asked, Notifier
  <2>3. Asked' = Asked /\ (NothingToSay' <=> NothingToSay) /\ Notifier' = Notifier
    BY <1>1, <1>6, ListenersRest
  <2>4. CallBooks'
    BY <1>1, <1>6, <2>1, <2>2, <2>3 DEF CallBooks
  <2> QED BY <1>1, <1>6, <2>4, BesidesRest DEF RunBooks
<1> QED BY <1>1, <1>4, <1>5, <1>6

LEMMA NotifierAnsweredKeeps ==
  ASSUME RunnerAssumption, RunBooks, NotifierAnswered
  PROVE  RunBooks'
<1>1. /\ run.pc = "notify" /\ call.stage # "none" /\ call' = NoCaller /\ Step
      /\ trail' = Append(trail, [kind |-> "notifier", ok |-> call.ok, at |-> run.at, why |-> "plugin"])
      /\ UNCHANGED <<job, agent, output, env, beat, sent, table, rate, minutes, runs>>
  BY DEF NotifierAnswered, Audits, files, counters
<1>2. ~NothingToSay /\ run.at \in Asked /\ call.ok \in BOOLEAN
  BY <1>1 DEF RunBooks, CallBooks
<1>3. "plugin" \in Whys
  BY DEF Whys
<1>4. /\ RunTyped' /\ OutcomeBooks' /\ EnvBooks' /\ CallBooks' /\ TrailBooks' /\ ToldBooks' /\ AgentBooks' /\ OutputBooks'
      /\ run'.pc = "notify"
  BY <1>1, <1>2, <1>3, ToldOneMore
<1>5. SentBooks' /\ RateBooks'
  BY <1>1, <1>4, SentRests DEF RunBooks, Quiet
<1> QED BY <1>4, <1>5 DEF RunBooks

\* A notice is sent, and noted.  wire and fields are whatever they are.
Sending(kept, named, wire, fields) ==
    LET e == Notifier
    IN  /\ ~rate_limited(e) /\ e.driver # "plugin" /\ run.at \in Asked
        /\ e.driver = "imessage" => fields = e.fields
        /\ sent' = Append(sent, [to |-> run.at, event |-> run.event, run |-> runs,
                                 clock |-> minutes, driver |-> e.driver, wire |-> wire, kept |-> kept,
                                 fields |-> fields])
        /\ IF kept THEN record_sent_message(e, Len(sent) + 1, named) ELSE UNCHANGED table
        /\ rate' = IF e.driver = "imessage" /\ e.rate > 0 /\ kept
                   THEN Mark(rate, state_path[e.fields.to], minutes) ELSE rate
LEMMA SendIs ==
  ASSUME RunBooks, NEW up \in BOOLEAN, NEW kept \in BOOLEAN, NEW named \in BOOLEAN, SendNotice(up, kept, named),
         DOMAIN Notifiers = 1 .. Len(Notifiers), Len(Notifiers) \in Nat
  PROVE  /\ run.pc = "notify" /\ ~NothingToSay /\ run.at \in Asked /\ Step /\ call.stage = "none"
         /\ UNCHANGED <<job, call, agent, output, env, beat, minutes, runs>>
         /\ \E why \in Whys : Told(why)
         /\ \/ UNCHANGED <<sent, table, rate>>
            \/ \E wire, fields : Sending(kept, named, wire, fields)
<1> DEFINE e == Notifier
           wire == build_driver(e.driver, e, resolve_body(run.text))
           fields == IF e.driver = "imessage" THEN e.fields ELSE Fields(e)
<1>1. /\ run.pc = "notify" /\ ~NothingToSay /\ run.at <= Len(Notifiers) /\ matches_event(e, run.event)
      /\ e.driver # "plugin" /\ Step /\ UNCHANGED <<job, call, agent, output, env, beat, minutes, runs>>
  BY DEF SendNotice, counters
<1>2. run.at \in Asked
  <2>1. run.at \in DOMAIN Notifiers
    BY <1>1 DEF RunBooks, RunTyped
  <2> QED BY <1>1, <2>1 DEF Asked, Notifier
<1>3. call.stage = "none"
  BY <1>1 DEF RunBooks, CallBooks
<1>4. CASE /\ Told("config") \/ Told("skipped") \/ Told("down") \/ Told("refused")
           /\ UNCHANGED files
  BY <1>1, <1>2, <1>3, <1>4 DEF Whys, files
<1>5. CASE /\ Told("sent") /\ ~rate_limited(e)
           /\ sent' = Append(sent, [to |-> run.at, event |-> run.event, run |-> runs,
                                    clock |-> minutes, driver |-> e.driver, wire |-> wire, kept |-> kept,
                                    fields |-> fields])
           /\ IF kept THEN record_sent_message(e, Len(sent) + 1, named) ELSE UNCHANGED table
           /\ rate' = IF e.driver = "imessage" /\ e.rate > 0 /\ kept
                      THEN Mark(rate, state_path[e.fields.to], minutes) ELSE rate
  <2>1. e.driver = "imessage" => fields = e.fields
    OBVIOUS
  <2> HIDE DEF wire, fields
  <2>2. Sending(kept, named, wire, fields)
    BY <1>1, <1>2, <1>5, <2>1 DEF Sending
  <2> QED BY <1>1, <1>2, <1>3, <1>5, <2>2 DEF Whys
<1> QED
  <2>1. CASE ~Ready(e.driver, fields)
    BY <1>4, <2>1 DEF SendNotice
  <2>2. CASE Ready(e.driver, fields) /\ rate_limited(e)
    BY <1>4, <2>2 DEF SendNotice
  <2>3. CASE Ready(e.driver, fields) /\ ~rate_limited(e) /\ ~up
    BY <1>4, <2>3 DEF SendNotice
  <2>4. CASE Ready(e.driver, fields) /\ ~rate_limited(e) /\ up /\ ~Accepts(e.driver, e, wire)
    BY <1>4, <2>4 DEF SendNotice
  <2>5. CASE Ready(e.driver, fields) /\ ~rate_limited(e) /\ up /\ Accepts(e.driver, e, wire)
    BY <1>5, <2>5 DEF SendNotice
  <2> QED BY <2>1, <2>2, <2>3, <2>4, <2>5

LEMMA SendingKeeps ==
  ASSUME RunnerAssumption, RunBooks, NEW kept \in BOOLEAN, NEW named \in BOOLEAN, NEW wire, NEW fields,
         Sending(kept, named, wire, fields), run.pc = "notify", run'.pc = "notify", UNCHANGED <<job, minutes, runs>>
  PROVE  SentBooks' /\ RateBooks'
<1> DEFINE e == Notifier
           l == Len(sent)
<1>0. PICK m, t, r :
        /\ m = [to |-> run.at, event |-> run.event, run |-> runs, clock |-> minutes, driver |-> e.driver,
                wire |-> wire, kept |-> kept, fields |-> fields]
        /\ t = sent' /\ r = rate'
  OBVIOUS
<1>1. m.to = run.at /\ m.event = run.event /\ m.run = runs /\ m.clock = minutes /\ m.driver = e.driver
      /\ m.kept = kept /\ m.fields = fields
  BY <1>0
<1>2. /\ ~rate_limited(e) /\ run.at \in Asked /\ t = Append(sent, m)
      /\ (e.driver = "imessage" => fields = e.fields)
      /\ IF kept THEN record_sent_message(e, l + 1, named) ELSE UNCHANGED table
      /\ r = IF e.driver = "imessage" /\ e.rate > 0 /\ kept
             THEN Mark(rate, state_path[e.fields.to], minutes) ELSE rate
  BY <1>0 DEF Sending
<1>3. /\ minutes \in Nat /\ runs \in Nat /\ runs # 0 /\ IsList(sent) /\ IsList(table)
      /\ run.at \in DOMAIN Notifiers /\ e = Notifiers[run.at] /\ e.rate \in Nat /\ job \in Jobs
  BY <1>2, NotifiersAre DEF RunBooks, RunTyped, SentBooks, Asked, Notifier
<1> HIDE DEF e, l
<1>4. /\ IsList(t) /\ l \in Nat /\ DOMAIN sent = 1 .. l /\ DOMAIN t = 1 .. l + 1 /\ t[l + 1] = m
      /\ \A i \in 1 .. l : t[i] = sent[i]
  BY <1>2, <1>3, ListAppend DEF l
<1>5. Notifiers' = Notifiers
  BY ListenersRest
<1>6. \A n : /\ (NoticeIs(n) => NoticeIs(n)') /\ (Noted(n)' <=> Noted(n)) /\ Path(n)' = Path(n)
  BY <1>5 DEF NoticeIs, Noted, Path
<1>7. NoticeIs(m)'
  BY <1>1, <1>2, <1>3, <1>5 DEF NoticeIs
<1>8. SentBooks'
  <2>1. \A i \in DOMAIN t : NoticeIs(t[i])'
    <3>1. \A i \in 1 .. l : NoticeIs(sent[i])
      BY <1>4 DEF RunBooks, SentBooks
    <3>2. \A i \in 1 .. l : NoticeIs(t[i])'
      BY <1>4, <1>6, <3>1
    <3>3. \A i \in DOMAIN t : i \in 1 .. l \/ t[i] = m
      BY <1>4
    <3> QED BY <1>7, <3>2, <3>3
  <2>2. \A i \in DOMAIN table : /\ table[i].id \in 1 .. l /\ sent[table[i].id].event = table[i].event
                               /\ sent[table[i].id].run = table[i].run
                               /\ sent[table[i].id].driver = "telegram"
    BY <1>4 DEF RunBooks, SentBooks
  <2>3. \A i \in DOMAIN table : /\ table[i].id \in DOMAIN t /\ t[table[i].id].event = table[i].event
                               /\ t[table[i].id].run = table[i].run
                               /\ t[table[i].id].driver = "telegram"
    BY <1>4, <2>2
  <2>4. /\ IsList(table')
        /\ \A i \in DOMAIN table' : /\ table'[i].id \in DOMAIN t /\ t[table'[i].id].event = table'[i].event
                                    /\ t[table'[i].id].run = table'[i].run
                                    /\ t[table'[i].id].driver = "telegram"
    <3>1. CASE UNCHANGED table
      BY <1>3, <2>3, <3>1
    <3>2. CASE e.driver = "telegram" /\ table' = Append(table, [id |-> l + 1, event |-> run.event, run |-> runs])
      <4> DEFINE row == [id |-> l + 1, event |-> run.event, run |-> runs]
      <4>1. row.id = l + 1 /\ row.event = run.event /\ row.run = runs /\ table' = Append(table, row)
        BY <3>2
      <4> HIDE DEF row
      <4>2. /\ IsList(table') /\ Len(table) \in Nat /\ DOMAIN table = 1 .. Len(table)
            /\ DOMAIN table' = 1 .. Len(table) + 1 /\ table'[Len(table) + 1] = row
            /\ \A i \in 1 .. Len(table) : table'[i] = table[i]
        BY <1>3, <4>1, ListAppend
      <4>3. /\ row.id \in DOMAIN t /\ t[row.id].event = row.event
            /\ t[row.id].run = row.run /\ t[row.id].driver = "telegram"
        BY <1>1, <1>4, <3>2, <4>1
      <4>4. \A i \in DOMAIN table' : i \in 1 .. Len(table) \/ i = Len(table) + 1
        BY <4>2
      <4> QED BY <2>3, <4>2, <4>3, <4>4
    <3> QED BY <1>2, <3>1, <3>2 DEF record_sent_message
  <2> QED BY <1>0, <1>3, <1>4, <2>1, <2>4 DEF SentBooks, Quiet
<1>9. /\ \A i \in 1 .. l : /\ NoticeIs(sent[i])
                           /\ Noted(sent[i]) => /\ Path(sent[i]) \in DOMAIN rate
                                                /\ rate[Path(sent[i])] \in Nat /\ sent[i].clock <= rate[Path(sent[i])]
      /\ \A p \in DOMAIN rate : rate[p] \in Nat /\ rate[p] <= minutes
      /\ \A i, j \in 1 .. l : i < j => Apart(sent[i], sent[j])
  BY <1>4 DEF RunBooks, SentBooks, RateBooks
<1>10. Noted(m) => /\ Path(m) = state_path[e.fields.to] /\ r = Mark(rate, Path(m), minutes)
  BY <1>1, <1>2, <1>3 DEF Noted, Path
<1>11. \/ r = rate
       \/ \E p : r = Mark(rate, p, minutes)
  BY <1>2
<1>12. \A p \in DOMAIN r : r[p] \in Nat /\ r[p] <= minutes
  <2>1. ASSUME NEW q, r = Mark(rate, q, minutes)
        PROVE  \A p \in DOMAIN r : r[p] \in Nat /\ r[p] <= minutes
    <3>1. \A p \in DOMAIN r : r[p] = minutes \/ (p \in DOMAIN rate /\ r[p] = rate[p])
      BY <2>1 DEF Mark
    <3> QED BY <1>3, <1>9, <3>1
  <2> QED BY <1>9, <1>11, <2>1
<1>13. \A p \in DOMAIN rate : p \in DOMAIN r /\ rate[p] <= r[p]
  <2>1. ASSUME NEW q, r = Mark(rate, q, minutes)
        PROVE  \A p \in DOMAIN rate : p \in DOMAIN r /\ rate[p] <= r[p]
    <3>1. \A p \in DOMAIN rate : p \in DOMAIN r /\ (r[p] = minutes \/ r[p] = rate[p])
      BY <2>1 DEF Mark
    <3> QED BY <1>3, <1>9, <3>1
  <2> QED BY <1>9, <1>11, <2>1
<1>14. \A i \in DOMAIN t : Noted(t[i])' =>
          /\ Path(t[i])' \in DOMAIN r
          /\ r[Path(t[i])'] \in Nat /\ t[i].clock <= r[Path(t[i])']
  <2>1. \A i \in 1 .. l : Noted(sent[i]) =>
          /\ Path(sent[i]) \in DOMAIN r
          /\ r[Path(sent[i])] \in Nat /\ sent[i].clock <= r[Path(sent[i])]
    <3>1. \A i \in 1 .. l : sent[i].clock \in Nat
      BY <1>9 DEF NoticeIs
    <3> QED BY <1>9, <1>12, <1>13, <3>1
  <2>2. Noted(m) => Path(m) \in DOMAIN r /\ r[Path(m)] = minutes
    BY <1>10 DEF Mark
  <2>3. \A i \in DOMAIN t : \/ i \in 1 .. l /\ t[i] = sent[i]
                            \/ t[i] = m
    BY <1>4
  <2> QED BY <1>1, <1>3, <1>6, <2>1, <2>2, <2>3
<1>15. \A i, j \in DOMAIN t : i < j => Apart(t[i], t[j])'
  <2>1. \A n, o : Apart(n, o) => Apart(n, o)'
    BY <1>5, <1>6 DEF Apart
  <2>2. \A i \in 1 .. l : Apart(sent[i], m)
    <3>1. SUFFICES ASSUME NEW i \in 1 .. l, Noted(sent[i]), m.driver = "imessage", sent[i].fields.to = m.fields.to
                   PROVE  m.clock - sent[i].clock >= Notifiers[m.to].rate
      BY DEF Apart
    <3> DEFINE p == state_path[e.fields.to]
    <3>2. Path(sent[i]) = p
      BY <1>1, <1>2, <3>1 DEF Path
    <3>3. p \in DOMAIN rate /\ rate[p] \in Nat /\ sent[i].clock <= rate[p] /\ rate[p] <= minutes
      BY <1>9, <3>1, <3>2
    <3>4. ~(e.rate > 0) \/ ~(minutes - rate[p] < e.rate)
      BY <1>1, <1>2, <3>1, <3>3 DEF rate_limited
    <3>5. sent[i].clock \in Nat /\ m.clock = minutes /\ Notifiers[m.to].rate = e.rate
      BY <1>1, <1>3, <1>9 DEF NoticeIs
    <3> HIDE DEF p
    <3> QED BY <1>3, <3>3, <3>4, <3>5
  <2>3. \A i, j \in 1 .. l + 1 : i < j => i \in 1 .. l /\ (j \in 1 .. l \/ j = l + 1)
    BY <1>4
  <2>4. \A i, j \in 1 .. l + 1 : i < j => Apart(t[i], t[j])
    <3>1. \A i \in 1 .. l, j \in 1 .. l : i < j => Apart(t[i], t[j])
      BY <1>4, <1>9
    <3>2. \A i \in 1 .. l : Apart(t[i], t[l + 1])
      BY <1>4, <2>2
    <3> QED BY <2>3, <3>1, <3>2
  <2> QED BY <1>4, <2>1, <2>4
<1> QED BY <1>0, <1>8, <1>12, <1>14, <1>15 DEF RateBooks

LEMMA SendNoticeKeeps ==
  ASSUME RunnerAssumption, RunBooks, NEW up \in BOOLEAN, NEW kept \in BOOLEAN, NEW named \in BOOLEAN,
         SendNotice(up, kept, named)
  PROVE  RunBooks'
<1>1. DOMAIN Notifiers = 1 .. Len(Notifiers) /\ Len(Notifiers) \in Nat
  BY NotifiersAre DEF RunBooks, RunTyped
<1>2. /\ run.pc = "notify" /\ ~NothingToSay /\ run.at \in Asked /\ Step /\ call.stage = "none"
      /\ UNCHANGED <<job, call, agent, output, env, beat, minutes, runs>>
      /\ \E why \in Whys : Told(why)
      /\ \/ UNCHANGED <<sent, table, rate>>
         \/ \E wire, fields : Sending(kept, named, wire, fields)
  BY <1>1, SendIs
<1>3. PICK why \in Whys : Told(why)
  BY <1>2
<1> DEFINE ok == why \in {"sent", "skipped"}
<1>4. trail' = Append(trail, [kind |-> "notifier", ok |-> ok, at |-> run.at, why |-> why]) /\ ok \in BOOLEAN
  BY <1>3 DEF Told, Audits
<1> HIDE DEF ok
<1>5. /\ RunTyped' /\ OutcomeBooks' /\ EnvBooks' /\ CallBooks' /\ TrailBooks' /\ ToldBooks' /\ AgentBooks' /\ OutputBooks'
      /\ run'.pc = "notify"
  BY <1>2, <1>4, ToldOneMore
<1>6. SentBooks' /\ RateBooks'
  <2>1. CASE UNCHANGED <<sent, table, rate>>
    BY <1>2, <1>5, <2>1, SentRests DEF RunBooks, Quiet
  <2>2. CASE \E wire, fields : Sending(kept, named, wire, fields)
    BY <1>2, <1>5, <2>2, SendingKeeps
  <2> QED BY <1>2, <2>1, <2>2
<1> QED BY <1>5, <1>6 DEF RunBooks

-----------------------------------------------------------------------------
(* A run begins; time passes; the theorem.                                 *)

LEMMA FreshStart ==
  ASSUME RunnerAssumption, RunBooks, NEW j \in Jobs, run_with_hooks(j)
  PROVE  RunBooks'
<1> DEFINE next == IF j.plugins THEN "preflight" ELSE "launch"
<1>1. /\ run.pc \in {"idle", "done"} /\ ~j.summary /\ (runs > 0 => j = job) /\ job' = j /\ runs' = runs + 1
      /\ run' = [AtRest EXCEPT !.pc = next] /\ next \in {"preflight", "launch"}
      /\ agent' = NoAgent /\ output' = NoOutput /\ env' = <<>> /\ trail' = <<>>
      /\ UNCHANGED <<call, sent, table, rate, minutes>>
  BY DEF run_with_hooks, files
<1> HIDE DEF next
<1>2. /\ DOMAIN run' = RunFields /\ run'.pc = next /\ run'.at = 1 /\ run'.code = NoCode /\ run'.missed = FALSE
      /\ run'.result = "none"
  BY <1>1 DEF AtRest, RunFields
<1>3. runs \in Nat /\ minutes \in Nat
  BY DEF RunBooks, RunTyped
<1>4. RunTyped'
  <2>1. NoCode \in Int
    BY DEF NoCode
  <2>2. run'.missed \in BOOLEAN
    BY <1>2
  <2> QED BY <1>1, <1>2, <1>3, <2>1, <2>2 DEF RunTyped, RunPcs
<1>5. OutcomeBooks'
  BY <1>1, <1>2 DEF OutcomeBooks, Underway
<1>6. EnvBooks'
  BY <1>1 DEF EnvBooks
<1>7. CallBooks'
  BY <1>1 DEF RunBooks, CallBooks
<1>8. \A kind : Of(kind)' = {}
  BY <1>1 DEF Of
<1>9. TrailBooks' /\ ToldBooks'
  BY <1>1, <1>2, <1>8 DEF TrailBooks, ToldBooks, Underway
<1>10. AgentBooks'
  BY <1>1, <1>2 DEF AgentBooks, NoAgent, NoCode
<1>11. OutputBooks'
  <2>1. /\ DOMAIN output' = {"printed", "read", "tail", "tapped", "broken", "shaper"}
        /\ DOMAIN output'.shaper = {"reply", "session"} /\ output'.printed = 0 /\ output'.read = 0
        /\ output'.tapped = <<>> /\ output'.tail = <<>> /\ output'.shaper.reply = 0
    BY <1>1 DEF NoOutput
  <2>2. Replies' = {}
    BY <2>1 DEF Replies
  <2>3. <<>> = [n \in 1 .. 0 |-> n] /\ <<>> \in Seq(Nat) /\ Len(<<>>) = 0
    OBVIOUS
  <2>4. ~(0 > TAIL_LINES)
    BY DEF RunnerAssumption
  <2> QED BY <1>2, <2>1, <2>2, <2>3, <2>4 DEF OutputBooks
<1>12. SentBooks' /\ RateBooks'
  <2>1. \A i \in DOMAIN sent : runs > 0 /\ job' = job
    BY <1>1, <1>3 DEF RunBooks, SentBooks
  <2>2. \A i \in DOMAIN sent : Notifiers' = Notifiers
    BY <2>1, ListenersRest
  <2>3. \A i \in DOMAIN sent : /\ NoticeIs(sent[i])' /\ (Noted(sent[i])' <=> Noted(sent[i]))
                              /\ Path(sent[i])' = Path(sent[i]) /\ sent[i].run # runs'
    <3>1. SUFFICES ASSUME NEW i \in DOMAIN sent
                   PROVE  /\ NoticeIs(sent[i])' /\ (Noted(sent[i])' <=> Noted(sent[i]))
                          /\ Path(sent[i])' = Path(sent[i]) /\ sent[i].run # runs'
      BY <1>1
    <3>2. NoticeIs(sent[i]) /\ Notifiers' = Notifiers
      BY <2>2 DEF RunBooks, SentBooks
    <3> QED BY <1>1, <1>3, <3>2 DEF NoticeIs, Noted, Path
  <2>4. SentBooks'
    <3>1. ThisRun' = {}
      BY <1>1, <2>3 DEF ThisRun
    <3>2. runs' # 0 /\ run'.pc # "idle"
      BY <1>1, <1>2, <1>3
    <3> QED BY <1>1, <2>3, <3>1, <3>2 DEF RunBooks, SentBooks
  <2>5. RateBooks'
    <3>1. \A i, k \in DOMAIN sent : Apart(sent[i], sent[k]) => Apart(sent[i], sent[k])'
      BY <1>1, <2>2, <2>3 DEF Apart
    <3> QED BY <1>1, <2>3, <3>1 DEF RunBooks, RateBooks
  <2> QED BY <2>4, <2>5
<1> QED BY <1>4, <1>5, <1>6, <1>7, <1>9, <1>10, <1>11, <1>12 DEF RunBooks

LEMMA SummaryStart ==
  ASSUME RunnerAssumption, RunBooks, NEW j \in Jobs, run_with(j)
  PROVE  RunBooks'
<1>1. /\ run.pc = "idle" /\ j.summary /\ job' = j /\ runs' = runs + 1
      /\ \E text \in j.says :
            run' = [AtRest EXCEPT !.pc = "notify", !.event = "daily_summary", !.text = text, !.result = "summary"]
      /\ UNCHANGED <<call, agent, output, env, trail, sent, table, rate, minutes>>
  BY DEF run_with, files
<1>2. /\ DOMAIN run' = RunFields /\ run'.pc = "notify" /\ run'.at = 1 /\ run'.code = NoCode /\ run'.missed = FALSE
      /\ run'.result = "summary" /\ run'.event = "daily_summary"
  BY <1>1 DEF AtRest, RunFields
<1>3. /\ runs = 0 /\ minutes \in Nat /\ env = <<>> /\ trail = <<>> /\ output.read = 0 /\ call.stage = "none"
      /\ sent = <<>> /\ table = <<>>
  BY <1>1 DEF RunBooks, RunTyped, SentBooks, EnvBooks, TrailBooks, OutputBooks, CallBooks
<1>4. RunTyped'
  <2>1. NoCode \in Int
    BY DEF NoCode
  <2>2. run'.missed \in BOOLEAN
    BY <1>2
  <2> QED BY <1>1, <1>2, <1>3, <2>1, <2>2 DEF RunTyped, RunPcs
<1>5. OutcomeBooks'
  BY <1>1, <1>2 DEF OutcomeBooks, Underway
<1>6. EnvBooks'
  BY <1>1, <1>3 DEF EnvBooks
<1>7. CallBooks'
  BY <1>1, <1>3 DEF RunBooks, CallBooks
<1>8. \A kind : Of(kind)' = {}
  BY <1>1, <1>3 DEF Of
<1>9. TrailBooks'
  <2>1. trail' = <<>> /\ ~Recorded'
    BY <1>1, <1>2, <1>3 DEF Recorded
  <2> QED BY <1>2, <1>8, <2>1 DEF TrailBooks, Underway
<1>10. ToldBooks'
  <2>1. ToldNow' = {}
    BY <1>8 DEF ToldNow
  <2>2. \A k \in DOMAIN Notifiers' : ~(k < 1)
    <3>1. DOMAIN j.notifiers = 1 .. Len(j.notifiers)
      BY ListIs DEF RunnerAssumption, WellFormed
    <3>2. Notifiers' = IF j.notifiers = <<>> THEN <<j.fallback>> ELSE [i \in DOMAIN j.notifiers |-> unfiltered(j.notifiers[i])]
      BY <1>1 DEF Notifiers, resolve_notifiers
    <3>3. DOMAIN Notifiers' \subseteq 1 .. 1 \/ DOMAIN Notifiers' = DOMAIN j.notifiers
      BY <3>2
    <3> QED BY <3>1, <3>3
  <2>3. {k \in Asked' : k < run'.at} = {}
    BY <1>2, <2>2 DEF Asked
  <2> QED BY <1>2, <1>8, <2>1, <2>3 DEF ToldBooks
<1>11. AgentBooks'
  BY <1>1, <1>2 DEF RunBooks, AgentBooks
<1>12. OutputBooks'
  <2>1. Replies = {} /\ Replies' = {}
    BY <1>1, <1>3 DEF Replies
  <2> QED BY <1>1, <1>2, <1>3, <2>1 DEF RunBooks, OutputBooks
<1>13. SentBooks' /\ RateBooks'
  BY <1>1, <1>2, <1>3 DEF RunBooks, SentBooks, RateBooks, Quiet
<1> QED BY <1>4, <1>5, <1>6, <1>7, <1>9, <1>10, <1>11, <1>12, <1>13 DEF RunBooks

LEMMA TickKeeps ==
  ASSUME RunBooks, Tick
  PROVE  RunBooks'
<1>1. /\ minutes' = minutes + 1 /\ minutes \in Nat
      /\ UNCHANGED <<job, run, call, agent, output, env, beat, trail, sent, table, rate, runs>>
  BY DEF Tick, files, RunBooks, RunTyped
<1>2. Notifiers' = Notifiers /\ Asked' = Asked /\ (NothingToSay' <=> NothingToSay) /\ Notifier' = Notifier /\ (Pooled' <=> Pooled)
  BY <1>1, ListenersRest
<1>3. RunTyped' /\ OutcomeBooks' /\ EnvBooks'
  BY <1>1, <1>2 DEF RunBooks, RunTyped, OutcomeBooks, EnvBooks, apply_env_for, names_locale, default_locale
<1>4. TrailBooks' /\ ToldBooks'
  <2>1. (\A kind : Of(kind)' = Of(kind)) /\ (Recorded' <=> Recorded)
    BY <1>1 DEF Of, Recorded
  <2>2. ToldNow' = ToldNow
    BY <1>1, <2>1 DEF ToldNow
  <2>3. TrailBooks'
    BY <1>1, <2>1 DEF RunBooks, TrailBooks
  <2>4. ToldBooks'
    BY <1>1, <1>2, <2>1, <2>2 DEF RunBooks, ToldBooks
  <2> QED BY <2>3, <2>4
<1>5. CallBooks' /\ AgentBooks' /\ OutputBooks'
  BY <1>1, <1>2 DEF RunBooks, CallBooks, AgentBooks, Held, OutputBooks, Replies
<1>6. \A n : /\ (NoticeIs(n) => NoticeIs(n)') /\ (Noted(n)' <=> Noted(n)) /\ Path(n)' = Path(n)
             /\ NoticeIs(n) => n.clock \in Nat
  BY <1>1, <1>2 DEF NoticeIs, Noted, Path
<1>7. SentBooks'
  BY <1>1, <1>6 DEF RunBooks, SentBooks, ThisRun, Quiet
<1>8. RateBooks'
  <2>1. \A m, n : Apart(m, n) => Apart(m, n)'
    BY <1>2, <1>6 DEF Apart
  <2>2. \A p \in DOMAIN rate : rate[p] \in Nat /\ rate[p] <= minutes + 1
    BY <1>1 DEF RunBooks, RateBooks
  <2> QED BY <1>1, <1>6, <2>1, <2>2 DEF RunBooks, RateBooks
<1> QED BY <1>3, <1>4, <1>5, <1>7, <1>8 DEF RunBooks

LEMMA FirstBooks ==
  ASSUME RunnerAssumption, RunInit
  PROVE  RunBooks
<1>1. job \in Jobs
  BY DEF RunInit, RunnerAssumption
<1>2. RunTyped
  BY <1>1 DEF RunInit, RunTyped, AtRest, RunFields, RunPcs, NoCode
<1>3. OutcomeBooks
  BY DEF RunInit, OutcomeBooks, AtRest, Underway
<1>4. EnvBooks /\ CallBooks
  BY DEF RunInit, EnvBooks, CallBooks, NoCaller
<1>5. TrailBooks /\ ToldBooks
  <2>1. \A kind : Of(kind) = {}
    BY DEF RunInit, Of
  <2> QED BY <2>1 DEF RunInit, TrailBooks, ToldBooks, AtRest, Underway
<1>6. AgentBooks
  BY DEF RunInit, AgentBooks, NoAgent, AtRest, NoCode
<1>7. OutputBooks
  <2>1. /\ DOMAIN output = {"printed", "read", "tail", "tapped", "broken", "shaper"}
        /\ DOMAIN output.shaper = {"reply", "session"} /\ output.printed = 0 /\ output.read = 0
        /\ output.tapped = <<>> /\ output.tail = <<>> /\ output.shaper.reply = 0 /\ run.result = "none"
    BY DEF RunInit, NoOutput, AtRest
  <2>2. Replies = {}
    BY <2>1 DEF Replies
  <2>3. <<>> = [n \in 1 .. 0 |-> n] /\ <<>> \in Seq(Nat) /\ Len(<<>>) = 0
    OBVIOUS
  <2>4. ~(0 > TAIL_LINES)
    BY DEF RunnerAssumption
  <2> QED BY <2>1, <2>2, <2>3, <2>4 DEF OutputBooks
<1>8. SentBooks /\ RateBooks
  BY DEF RunInit, SentBooks, RateBooks, IsList, ThisRun, AtRest
<1> QED BY <1>2, <1>3, <1>4, <1>5, <1>6, <1>7, <1>8 DEF RunBooks

LEMMA RunNextKeeps ==
  ASSUME RunnerAssumption, RunBooks, [RunNext]_runVars
  PROVE  RunBooks'
<1>1. CASE UNCHANGED runVars
  BY <1>1, BesidesRest DEF runVars, RunBooks
<1>2. CASE \E j \in Jobs : run_with_hooks(j) \/ run_with(j)
  BY <1>2, FreshStart, SummaryStart
<1>3. CASE CodeSteps
  <2>1. CASE \E ok \in BOOLEAN : SpawnPlugin(ok) \/ begin(ok) \/ spawn_supervised(ok)
    BY <2>1, CallKeeps, BeginKeeps, SpawnKeeps
  <2>2. CASE WritePayload \/ WaitOutput
    BY <2>2, CallKeeps
  <2>3. CASE PreflightNext \/ run_preflight
    BY <2>3, PreflightNextKeeps, PreflightKeeps
  <2>4. CASE ReadLine \/ ReadBreaks \/ wait_status
    BY <2>4, ReadLineKeeps, PrintsKeep, WaitStatusKeeps
  <2>5. CASE \E ok \in BOOLEAN, said \in job.says \union {<<>>} : finish(ok, said)
    BY <2>5, FinishKeeps
  <2>6. CASE \E ok \in BOOLEAN : append_agent_run_audit(ok)
    BY <2>6, AuditKeeps
  <2>7. CASE fire_hooks \/ HookAnswered
    BY <2>7, FireHooksKeeps, HookAnsweredKeeps
  <2>8. CASE fire_notifiers \/ NotifierAnswered
    BY <2>8, FireNotifiersKeeps, NotifierAnsweredKeeps
  <2> QED BY <1>3, <2>1, <2>2, <2>3, <2>4, <2>5, <2>6, <2>7, <2>8 DEF CodeSteps
<1>4. CASE Sends
  BY <1>4, SendNoticeKeeps DEF Sends
<1>5. CASE PoolSteps
  <2>1. CASE \E ok \in BOOLEAN : RequestLost(ok)
    BY <2>1, LostKeeps
  <2>2. CASE \/ \E a \in AnswersRead, ok \in BOOLEAN, said \in job.says \union {<<>>} : PoolAnswers(a, ok, said)
             \/ PoolFails \/ \E ok \in BOOLEAN : PoolTimesOut(ok)
    BY <2>2, PoolEnds
  <2> QED BY <1>5, <2>1, <2>2 DEF PoolSteps
<1>6. CASE Others
  <2>1. CASE \/ PluginReads \/ \E says \in {"ok", "no"} : PluginExits(says)
             \/ \E file \in SecretFiles, op \in BOOLEAN : ReloadSecrets(file, op)
    BY <2>1, CallKeeps
  <2>2. CASE Prints
    BY <2>2, PrintsKeep
  <2>3. CASE (\E where \in {"group", "away"} : Forks(where)) \/ \E code \in Codes : AgentExits(code)
    BY <2>3, AgentKeeps
  <2>4. CASE Tick
    BY <2>4, TickKeeps
  <2> QED BY <1>6, <2>1, <2>2, <2>3, <2>4 DEF Others
<1>7. CASE Deadlines
  BY <1>7, CallKeeps, DeadlineKeeps DEF Deadlines
<1>8. CASE HeirExits
  BY <1>8, AgentKeeps
<1> QED BY <1>1, <1>2, <1>3, <1>4, <1>5, <1>6, <1>7, <1>8 DEF RunNext

\* What the books say of the record, and of whom was told.
LEMMA BooksOnRecord ==
  ASSUME RunBooks
  PROVE  RunIsOnRecord
<1>1. Cardinality({}) = 0 /\ \A i : Cardinality({i}) = 1
  BY FS_EmptySet, FS_Singleton
<1>2. Ended => Cardinality(Of("agent_run")) = IF Recorded THEN 1 ELSE 0
  BY <1>1 DEF RunBooks, TrailBooks, Ended
<1>3. Ended /\ run.result = "ran" /\ ~job.dry => beat = run.code
  BY DEF RunBooks, OutcomeBooks, Ended
<1>4. run.result = "preflight" => env = <<>> /\ Cardinality(Of("preflight_failed")) = 1
  BY <1>1 DEF RunBooks, TrailBooks, EnvBooks
<1>5. Ended /\ run.result \in {"lost", "error"} => ThisRun = {}
  BY DEF RunBooks, SentBooks, Quiet, Ended
<1>6. \A i \in Of("agent_run"), j \in Of("hook") \union Of("notifier") : i < j
  BY DEF RunBooks, TrailBooks
<1> QED BY <1>2, <1>3, <1>4, <1>5, <1>6 DEF RunIsOnRecord, Recorded

LEMMA BooksTold ==
  ASSUME RunnerAssumption, RunBooks
  PROVE  EverybodyIsTold
<1> DEFINE asked == {i \in DOMAIN Notifiers :
                       \/ job.summary
                       \/ /\ matches_event(Notifiers[i], run.event)
                          /\ Notifiers[i].driver = "plugin" => job.plugins}
<1>1. WellFormed(job) /\ DOMAIN Notifiers = 1 .. Len(Notifiers) /\ Len(Notifiers) \in Nat
  BY NotifiersAre DEF RunnerAssumption, RunBooks, RunTyped
<1>2. DOMAIN job.notifiers = 1 .. Len(job.notifiers) /\ Len(job.notifiers) \in Nat
  BY <1>1, ListIs DEF WellFormed
<1>3. job.summary /\ Ended => /\ asked = DOMAIN Notifiers /\ Asked = DOMAIN Notifiers /\ DOMAIN Notifiers # {} /\ ~NothingToSay
                             /\ DOMAIN job.notifiers \subseteq DOMAIN Notifiers
  <2>1. SUFFICES ASSUME job.summary, Ended
                 PROVE  /\ asked = DOMAIN Notifiers /\ Asked = DOMAIN Notifiers /\ DOMAIN Notifiers # {} /\ ~NothingToSay
                        /\ DOMAIN job.notifiers \subseteq DOMAIN Notifiers
    OBVIOUS
  <2>2. run.event = "daily_summary"
    BY <2>1 DEF RunBooks, OutcomeBooks, Ended
  <2>3. Notifiers = IF job.notifiers = <<>> THEN <<job.fallback>> ELSE [i \in DOMAIN job.notifiers |-> unfiltered(job.notifiers[i])]
    BY <2>1 DEF Notifiers, resolve_notifiers
  <2>4. \A i \in DOMAIN Notifiers : Notifiers[i].events = {} /\ Notifiers[i].pevents = {}
    <3>1. CASE job.notifiers = <<>>
      BY <1>1, <2>3, <3>1 DEF WellFormed
    <3>2. CASE job.notifiers # <<>>
      BY <1>1, <2>3, <3>2 DEF WellFormed, IsEntry, unfiltered
    <3> QED BY <3>1, <3>2
  <2>5. DOMAIN Notifiers # {} /\ DOMAIN job.notifiers \subseteq DOMAIN Notifiers
    <3>1. CASE job.notifiers = <<>>
      BY <2>3, <3>1
    <3>2. CASE job.notifiers # <<>>
      <4>1. DOMAIN Notifiers = DOMAIN job.notifiers
        BY <2>3, <3>2
      <4>2. job.notifiers \in Seq(ToSet(job.notifiers))
        BY <1>1 DEF WellFormed, IsList
      <4>3. Len(job.notifiers) # 0
        BY <3>2, <4>2, EmptySeq
      <4>4. 1 \in DOMAIN Notifiers
        BY <1>2, <4>1, <4>3
      <4> QED BY <4>1, <4>4
    <3> QED BY <3>1, <3>2
  <2>6. Asked = DOMAIN Notifiers
    BY <2>1, <2>4 DEF Asked, matches_event, HasPlugins
  <2>7. ~NothingToSay
    BY <2>2 DEF NothingToSay
  <2> QED BY <2>1, <2>5, <2>6, <2>7
<1>4. ~job.summary => asked = Asked
  BY DEF Asked, HasPlugins
<1>5. asked = Asked \/ ~Ended
  BY <1>3, <1>4
<1>6. Ended /\ run.result \in {"ran", "preflight", "summary"} => ToldNow = IF NothingToSay THEN {} ELSE Asked
  BY DEF RunBooks, ToldBooks, Ended
<1>7. \A i, j \in Of("notifier") : i < j => trail[i].at < trail[j].at
  BY DEF RunBooks, ToldBooks
<1>8. Ended /\ run.result \in {"ran", "preflight", "summary"} =>
         /\ {trail[i].at : i \in Of("notifier")} = IF NothingToSay THEN {} ELSE asked
         /\ job.summary => Of("notifier") # {} /\ DOMAIN job.notifiers \subseteq {trail[i].at : i \in Of("notifier")}
  <2> HIDE DEF asked
  <2> QED BY <1>3, <1>5, <1>6 DEF ToldNow
<1> QED BY <1>7, <1>8 DEF EverybodyIsTold

\* What they say of the lines and of the answer.
LEMMA BooksOutput ==
  ASSUME RunnerAssumption, RunBooks
  PROVE  OutputIsKept
<1>1. /\ output.read \in Nat /\ output.tapped = [n \in 1 .. output.read |-> n] /\ output.tail \in Seq(Nat)
      /\ Len(output.tail) = IF output.read > TAIL_LINES THEN TAIL_LINES ELSE output.read
      /\ \A k \in 1 .. Len(output.tail) : output.tail[k] = (output.read - Len(output.tail)) + k
      /\ run.result = "ran" /\ ~Pooled /\ ~output.broken => output.read = output.printed
  BY DEF RunBooks, OutputBooks
<1>2. TAIL_LINES \in Nat \ {0}
  BY DEF RunnerAssumption
<1>3. PICK tail, read, tapped : tail = output.tail /\ read = output.read /\ tapped = output.tapped
  OBVIOUS
<1> DEFINE first == IF read > TAIL_LINES THEN read - TAIL_LINES + 1 ELSE 1
<1>4. tail = SubSeq(tapped, first, read)
  <2>1. /\ read \in Nat /\ tapped = [n \in 1 .. read |-> n] /\ tail \in Seq(Nat)
        /\ Len(tail) = IF read > TAIL_LINES THEN TAIL_LINES ELSE read
        /\ \A k \in 1 .. Len(tail) : tail[k] = (read - Len(tail)) + k
    BY <1>1, <1>3
  <2>2. first \in 1 .. read + 1 /\ (read - first) + 1 = Len(tail)
    BY <1>2, <2>1
  <2> HIDE DEF first
  <2>3. tapped \in Seq(Nat) /\ Len(tapped) = read
    BY <2>1
  <2>4. /\ SubSeq(tapped, first, read) \in Seq(Nat)
        /\ Len(SubSeq(tapped, first, read)) = IF first <= read THEN (read - first) + 1 ELSE 0
        /\ \A i \in 1 .. (read - first) + 1 : SubSeq(tapped, first, read)[i] = tapped[(first + i) - 1]
    <3>1. \A i \in first .. read : tapped[i] \in Nat
      BY <2>1, <2>2
    <3> QED BY <2>1, <2>2, <2>3, <3>1, SubSeqProperties
  <2>5. Len(SubSeq(tapped, first, read)) = Len(tail)
    BY <2>1, <2>2, <2>4
  <2>6. \A i \in 1 .. Len(tail) : SubSeq(tapped, first, read)[i] = tail[i]
    <3>1. SUFFICES ASSUME NEW i \in 1 .. Len(tail)
                   PROVE  SubSeq(tapped, first, read)[i] = tail[i]
      OBVIOUS
    <3>2. i \in 1 .. (read - first) + 1 /\ (first + i) - 1 \in 1 .. read /\ (first + i) - 1 = (read - Len(tail)) + i
      BY <2>1, <2>2
    <3>3. SubSeq(tapped, first, read)[i] = tapped[(first + i) - 1]
      BY <2>4, <3>2
    <3>4. tapped[(first + i) - 1] = (first + i) - 1
      BY <2>1, <3>2
    <3> QED BY <2>1, <3>2, <3>3, <3>4
  <2> QED BY <2>1, <2>4, <2>5, <2>6, SeqEqual
<1> QED BY <1>1, <1>3, <1>4 DEF OutputIsKept

LEMMA BooksAnswer ==
  ASSUME RunBooks
  PROVE  AnsweredWithItsLastReply
<1>1. SUFFICES ASSUME Ended, ~job.summary
               PROVE  /\ shape_final_reply.is = "frame" <=> run.result = "ran" /\ run.event = "success" /\ Replies # {}
                      /\ shape_final_reply.is = "frame" =>
                            shape_final_reply.frame \in Replies /\ \A n \in Replies : n <= shape_final_reply.frame
  BY DEF AnsweredWithItsLastReply, Replies
<1>2. /\ run.result \in {"ran", "preflight", "error", "lost"}
      /\ run.result = "ran" => (run.event = "success" <=> run.code = 0)
  BY <1>1 DEF RunBooks, OutcomeBooks, Ended
<1>3. /\ output.shaper.reply > 0 <=> Replies # {}
      /\ Replies # {} => output.shaper.reply \in Replies /\ \A n \in Replies : n <= output.shaper.reply
      /\ Replies # {} => job.frames # <<>>
  BY DEF RunBooks, OutputBooks, Replies
<1>4. CASE run.result # "ran"
  BY <1>2, <1>4 DEF shape_final_reply
<1>5. CASE run.result = "ran" /\ run.code # 0
  BY <1>2, <1>5 DEF shape_final_reply
<1>6. CASE run.result = "ran" /\ run.code = 0 /\ Replies # {}
  <2>1. shape_final_reply = [is |-> "frame", frame |-> output.shaper.reply]
    BY <1>3, <1>6 DEF shape_final_reply
  <2> QED BY <1>2, <1>3, <1>6, <2>1
<1>7. CASE run.result = "ran" /\ run.code = 0 /\ Replies = {}
  <2>1. shape_final_reply = [is |-> IF trim(run.text) = <<>> THEN "no output" ELSE "tail", frame |-> 0]
    BY <1>3, <1>7 DEF shape_final_reply
  <2> QED BY <1>7, <2>1
<1> QED BY <1>4, <1>5, <1>6, <1>7

\* Of its environment, and of what was sent.
LEMMA BooksEnvironment ==
  ASSUME RunnerAssumption, RunBooks
  PROVE  EnvironmentIsItsOwn
<1>1. SUFFICES ASSUME env = apply_env_for(job)
               PROVE  EnvironmentIsItsOwn
  BY DEF RunBooks, EnvBooks, EnvironmentIsItsOwn
<1>2. \A k \in Variables : env[k] =
        IF k \in Own THEN "runner"
        ELSE IF k \in job.request /\ ~(job.persistent /\ ~job.dry /\ is_trigger_env(k)) THEN "request"
        ELSE IF k \in job.extra THEN "manifest"
        ELSE IF k = "LC_CTYPE" /\ ~names_locale(job) /\ default_locale(job) THEN "fallback"
        ELSE IF job.inherit /\ k \in job.parent /\ ~is_trigger_env(k) THEN "parent" ELSE "unset"
  BY <1>1 DEF apply_env_for
<1>3. \A k \in Triggers : k \in Variables /\ k \notin Own /\ is_trigger_env(k) /\ k # "LC_CTYPE"
  BY DEF Triggers, Variables, Own, is_trigger_env
<1>4. \A k \in Locales : k \in Variables /\ k \notin Own /\ ~is_trigger_env(k)
  BY DEF Triggers, Locales, Variables, Own, is_trigger_env
<1>5. \A k \in Own : k \in Variables
  BY DEF Variables
<1>6. \A k \in Triggers : env[k] \notin {"parent"} \union (IF Pooled THEN {"request"} ELSE {})
  BY <1>2, <1>3 DEF Pooled
<1>7. \A k \in Triggers \intersect job.request : env[k] = "request" \/ (Pooled /\ k \in from_env(job.request))
  <2>1. job.request \intersect Triggers # {} => "AGENT_TRIGGER_SOURCE" \in job.request
    BY DEF RunBooks, RunTyped, RunnerAssumption, WellFormed
  <2>2. Pooled => from_env(job.request) = job.request \intersect Triggers \/ job.request \intersect Triggers = {}
    BY <2>1 DEF from_env
  <2>3. \A k \in Triggers \intersect job.request : env[k] = "request" \/ Pooled
    BY <1>2, <1>3 DEF Pooled
  <2> QED BY <2>2, <2>3
<1>8. \A k \in Own : env[k] = "runner"
  BY <1>2, <1>5
<1>9. \E k \in Locales : env[k] # "unset"
  <2>1. \A k \in Locales : k \in job.extra => env[k] # "unset"
    BY <1>2, <1>4
  <2>2. \A k \in Locales : job.inherit /\ k \in job.parent => env[k] # "unset"
    BY <1>2, <1>4
  <2>3. "LC_CTYPE" \in Locales
    BY DEF Locales
  <2>4. ~names_locale(job) /\ default_locale(job) => env["LC_CTYPE"] # "unset"
    BY <1>2, <1>4, <2>3
  <2> QED BY <2>1, <2>2, <2>3, <2>4 DEF names_locale, default_locale
<1>10. names_locale(job) => \A k \in Locales : env[k] # "fallback"
  BY <1>2, <1>4
<1> QED BY <1>6, <1>7, <1>8, <1>9, <1>10 DEF EnvironmentIsItsOwn

LEMMA BooksSent ==
  ASSUME RunBooks
  PROVE  TableAndRate
<1>1. \A i \in DOMAIN table : /\ sent[table[i].id].event = table[i].event
                             /\ sent[table[i].id].run = table[i].run
                             /\ sent[table[i].id].driver = "telegram"
  BY DEF RunBooks, SentBooks
<1>2. ASSUME NEW i \in DOMAIN sent, NEW j \in DOMAIN sent, i < j, sent[i].kept, Notifiers[sent[i].to].rate > 0,
             sent[i].driver = "imessage", sent[j].driver = "imessage", sent[i].fields.to = sent[j].fields.to
      PROVE  sent[j].clock - sent[i].clock >= Notifiers[sent[j].to].rate
  <2>1. Apart(sent[i], sent[j])
    BY <1>2 DEF RunBooks, RateBooks
  <2> QED BY <1>2, <2>1 DEF Apart, Noted
<1> QED BY <1>1, <1>2 DEF TableAndRate

\* However a run ends it is on record once, and everybody who asked is told of it in order; what it
\* printed is kept, its answer is its last reply and its environment its own, and the table and the
\* distances tell of what was sent.  (run_with_hooks_streaming, fire_notifier_entries, apply_env_for)
THEOREM RunnerSafe == RunSpec => []RunnerInv
<1>1. RunInit => RunBooks
  BY RunnerAssumption, FirstBooks
<1>2. RunBooks /\ [RunNext]_runVars => RunBooks'
  BY RunnerAssumption, RunNextKeeps
<1>3. RunBooks => RunnerInv
  BY RunnerAssumption, BooksOnRecord, BooksTold, BooksOutput, BooksAnswer, BooksEnvironment, BooksSent DEF RunnerInv
<1> QED BY <1>1, <1>2, <1>3, PTL DEF RunSpec
=============================================================================
