--------------------------- MODULE DispatchProofs ---------------------------
(***************************************************************************)
(* Proofs about the tick, for every manifest, ladder, calendar and bound:  *)
(* what is expected does not move back, and the budget of runs; what the   *)
(* tick tells those it notifies, for any number of processes; what the     *)
(* tick of one process promises of schedules with files of their own; and  *)
(* the arithmetic of schedules against a walk over the calendar.           *)
(***************************************************************************)
EXTENDS Dispatch, ScheduleWalk, WellFoundedInduction, FiniteSetTheorems, TLAPS

-----------------------------------------------------------------------------
(* The arithmetic of windows, for every calendar and every schedule.       *)

\* A non-empty set of bounded naturals has a maximum, which Max denotes: the
\* due hour that cron_expected_at picks is one of the schedule's hours.
LEMMA MaxOfBounded ==
  ASSUME NEW n \in Nat, NEW S \in SUBSET (0 .. n), S # {}
  PROVE  Max(S) \in S /\ \A y \in S : y <= Max(S)
<1> DEFINE T == {k \in Nat : n - k \in S}
           R == OpToRel(<, Nat)
<1>1. \A y \in S : y \in Nat /\ n - y \in T
  OBVIOUS
<1>2. T \subseteq Nat /\ T # {}
  BY <1>1
<1>3. IsWellFoundedOn(R, Nat)
  BY NatLessThanWellFounded
<1>4. PICK x \in T : \A y \in T : ~(<<y, x>> \in R)
  <2> HIDE DEF T, R
  <2> QED BY <1>2, <1>3, WFMin
<1>5. \A y \in T : ~(y < x)
  BY <1>4 DEF OpToRel
<1>6. n - x \in S /\ \A y \in S : n - x >= y
  BY <1>5, <1>1
<1> QED BY <1>6 DEF Max

\* The instant of an hour and a minute of a day that has begun is a natural.
LEMMA InstantType ==
  ASSUME NEW t \in Nat, NEW h \in Nat, NEW m \in Nat
  PROVE  InstantOf(DayOf(t), h, m) \in Nat
<1>1. HourLen \in Nat \ {0}
  BY CalendarAssumption, Z3 DEF HourLen
<1>2. DayLen \in Nat \ {0}
  BY <1>1, CalendarAssumption, Z3 DEF DayLen
<1>3. DayOf(t) \in Nat
  BY <1>2, Z3 DEF DayOf
<1>4. DayOf(t) * DayLen \in Nat /\ h * HourLen \in Nat /\ m * SecPerMin \in Nat
  BY <1>1, <1>2, <1>3, CalendarAssumption, Z3
<1> QED BY <1>4 DEF InstantOf

-----------------------------------------------------------------------------
(* Division.                                                               *)

\* The quotient and the remainder of a division.
LEMMA DivFacts ==
  ASSUME NEW a \in Nat, NEW n \in Nat \ {0}
  PROVE  /\ a \div n \in Nat /\ a % n \in Nat /\ a % n < n
         /\ a = (a \div n) * n + (a % n)
         /\ (a \div n) * n <= a /\ a < (a \div n) * n + n
<1>1. a \div n \in Nat
  BY Z3
<1>2. a % n \in Nat /\ a % n < n
  BY Z3
<1>3. a = (a \div n) * n + (a % n)
  BY SMT
<1>4. (a \div n) * n \in Nat
  BY <1>1, Z3
<1> QED BY <1>1, <1>2, <1>3, <1>4

\* A product grows with its factor.
LEMMA MulMono ==
  ASSUME NEW a \in Int, NEW b \in Int, NEW n \in Nat, a <= b
  PROVE  a * n <= b * n
BY Z3

\* The next multiple is one step further.
LEMMA MulNext == ASSUME NEW a \in Int, NEW n \in Nat PROVE (a + 1) * n = a * n + n
BY Z3

\* They are the only ones.
LEMMA DivUnique ==
  ASSUME NEW q \in Nat, NEW r \in Nat, NEW n \in Nat \ {0}, r < n
  PROVE  (q * n + r) \div n = q /\ (q * n + r) % n = r
<1> DEFINE a == q * n + r
           k == a \div n
<1>1. a \in Nat
  BY Z3
<1> HIDE DEF a
<1>2. /\ k \in Nat /\ a % n \in Nat /\ a % n < n
      /\ a = k * n + (a % n) /\ k * n <= a /\ a < k * n + n
  BY <1>1, DivFacts
<1> HIDE DEF k
<1>3. q * n \in Nat /\ k * n \in Nat
  BY <1>2, Z3
<1>4. a = q * n + r
  BY DEF a
<1>5. ~(q < k)
  <2> SUFFICES ASSUME q < k PROVE FALSE
    OBVIOUS
  <2>1. (q + 1) * n <= k * n /\ (q + 1) * n = q * n + n
    BY <1>2, MulMono, MulNext
  <2> QED BY <1>2, <1>3, <1>4, <2>1
<1>6. ~(k < q)
  <2> SUFFICES ASSUME k < q PROVE FALSE
    OBVIOUS
  <2>1. (k + 1) * n <= q * n /\ (k + 1) * n = k * n + n
    BY <1>2, MulMono, MulNext
  <2> QED BY <1>2, <1>3, <1>4, <2>1
<1>7. k = q
  BY <1>2, <1>5, <1>6
<1>8. a % n = r
  BY <1>2, <1>3, <1>4, <1>7
<1> QED BY <1>7, <1>8 DEF a, k

\* A larger number has no smaller quotient.
LEMMA DivMono ==
  ASSUME NEW a \in Nat, NEW b \in Nat, NEW n \in Nat \ {0}, a <= b
  PROVE  a \div n <= b \div n
<1> DEFINE j == a \div n
           k == b \div n
<1>1. j \in Nat /\ k \in Nat /\ j * n <= a /\ b < k * n + n
  BY DivFacts
<1> HIDE DEF j, k
<1>2. j * n \in Nat /\ k * n \in Nat
  BY <1>1, Z3
<1>3. ~(k < j)
  <2> SUFFICES ASSUME k < j PROVE FALSE
    OBVIOUS
  <2>1. (k + 1) * n <= j * n /\ (k + 1) * n = k * n + n
    BY <1>1, MulMono, MulNext
  <2> QED BY <1>1, <1>2, <2>1
<1> QED BY <1>1, <1>3 DEF j, k

-----------------------------------------------------------------------------
(* The clock.                                                              *)

\* The lengths of the calendar's units.
LEMMA Lengths ==
  /\ SecPerMin \in Nat \ {0} /\ MinPerHour \in Nat \ {0} /\ HoursPerDay \in Nat \ {0}
  /\ HourLen \in Nat \ {0} /\ HourLen = MinPerHour * SecPerMin
  /\ DayLen \in Nat \ {0} /\ DayLen = HoursPerDay * HourLen
<1>1. HourLen \in Nat \ {0} /\ HourLen = MinPerHour * SecPerMin
  BY CalendarAssumption, Z3 DEF HourLen
<1>2. DayLen \in Nat \ {0} /\ DayLen = HoursPerDay * HourLen
  BY <1>1, CalendarAssumption, Z3 DEF DayLen
<1> QED BY <1>1, <1>2, CalendarAssumption

\* The second of the day and of the hour.
LEMMA ClockFacts ==
  ASSUME NEW t \in Nat
  PROVE  /\ DayOf(t) \in Nat /\ HourOf(t) \in Nat
         /\ t % DayLen \in Nat /\ t = DayOf(t) * DayLen + (t % DayLen)
         /\ t % HourLen \in Nat /\ t % DayLen = HourOf(t) * HourLen + (t % HourLen)
<1> DEFINE r == t % DayLen
           h == r \div HourLen
           s == r % HourLen
<1>1. DayOf(t) \in Nat /\ r \in Nat /\ t = DayOf(t) * DayLen + r
  BY Lengths, DivFacts DEF DayOf
<1> HIDE DEF r
<1>2. h \in Nat /\ s \in Nat /\ s < HourLen /\ r = h * HourLen + s
  BY <1>1, Lengths, DivFacts
<1> HIDE DEF h, s
<1> DEFINE q == DayOf(t) * HoursPerDay + h
<1>3. q \in Nat
  BY <1>1, <1>2, Lengths, Z3
<1>4. t = q * HourLen + s
  <2>1. DayOf(t) * DayLen = (DayOf(t) * HoursPerDay) * HourLen
    BY <1>1, Lengths, Z3
  <2>2. q * HourLen = (DayOf(t) * HoursPerDay) * HourLen + h * HourLen
    BY <1>1, <1>2, Lengths, Z3
  <2>3. DayOf(t) * DayLen \in Nat /\ h * HourLen \in Nat
    BY <1>1, <1>2, Lengths, Z3
  <2> HIDE DEF q
  <2> QED BY <1>1, <1>2, <2>1, <2>2, <2>3
<1> HIDE DEF q
<1>5. t % HourLen = s
  BY <1>2, <1>3, <1>4, Lengths, DivUnique
<1>6. HourOf(t) = h
  BY DEF HourOf, h, r
<1> QED BY <1>1, <1>2, <1>5, <1>6 DEF r

\* Days, and the hours and minutes of a day, only advance.
LEMMA ClockMono ==
  ASSUME NEW t1 \in Nat, NEW t2 \in Nat, t1 <= t2
  PROVE  /\ DayOf(t1) <= DayOf(t2)
         /\ DayOf(t1) = DayOf(t2) =>
              /\ HourOf(t1) <= HourOf(t2)
              /\ HourOf(t1) = HourOf(t2) => MinuteOf(t1) <= MinuteOf(t2)
<1>1. DayOf(t1) <= DayOf(t2)
  BY Lengths, DivMono DEF DayOf
<1>2. ASSUME DayOf(t1) = DayOf(t2)
      PROVE  HourOf(t1) <= HourOf(t2) /\ (HourOf(t1) = HourOf(t2) => MinuteOf(t1) <= MinuteOf(t2))
  <2>1. DayOf(t1) * DayLen \in Nat /\ DayOf(t1) * DayLen = DayOf(t2) * DayLen
    <3>1. DayOf(t1) \in Nat /\ DayLen \in Nat
      BY ClockFacts, Lengths
    <3>2. DayOf(t1) * DayLen \in Nat
      BY <3>1, Z3
    <3> QED BY <1>2, <3>2
  <2>2. t1 % DayLen \in Nat /\ t2 % DayLen \in Nat /\ t1 % DayLen <= t2 % DayLen
    BY <2>1, ClockFacts
  <2>3. HourOf(t1) <= HourOf(t2)
    BY <2>2, Lengths, DivMono DEF HourOf
  <2>4. ASSUME HourOf(t1) = HourOf(t2) PROVE MinuteOf(t1) <= MinuteOf(t2)
    <3>1. HourOf(t1) * HourLen \in Nat /\ HourOf(t1) * HourLen = HourOf(t2) * HourLen
      <4>1. HourOf(t1) \in Nat /\ HourLen \in Nat
        BY ClockFacts, Lengths
      <4>2. HourOf(t1) * HourLen \in Nat
        BY <4>1, Z3
      <4> QED BY <2>4, <4>2
    <3>2. t1 % HourLen \in Nat /\ t2 % HourLen \in Nat /\ t1 % HourLen <= t2 % HourLen
      BY <2>2, <3>1, ClockFacts
    <3> QED BY <3>2, Lengths, DivMono DEF MinuteOf
  <2> QED BY <2>3, <2>4
<1> QED BY <1>1, <1>2

\* Instants of a day, by their hours; and of two days.
LEMMA InstantMono ==
  ASSUME NEW d1 \in Nat, NEW d2 \in Nat, NEW h1 \in 0 .. HoursPerDay - 1,
         NEW h2 \in 0 .. HoursPerDay - 1, NEW m \in 0 .. MinPerHour - 1,
         d1 < d2 \/ (d1 = d2 /\ h1 <= h2)
  PROVE  InstantOf(d1, h1, m) <= InstantOf(d2, h2, m)
<1>1. /\ d1 * DayLen \in Nat /\ d2 * DayLen \in Nat
      /\ h1 * HourLen \in Nat /\ h2 * HourLen \in Nat /\ m * SecPerMin \in Nat
  BY Lengths, Z3
<1>2. CASE d1 = d2 /\ h1 <= h2
  <2>1. h1 * HourLen <= h2 * HourLen
    BY <1>2, Lengths, MulMono
  <2> QED BY <1>1, <1>2, <2>1 DEF InstantOf
<1>3. CASE d1 < d2
  <2>1. (d1 + 1) * DayLen <= d2 * DayLen /\ (d1 + 1) * DayLen = d1 * DayLen + DayLen
    BY <1>3, Lengths, MulMono, MulNext
  <2>2. (h1 + 1) * HourLen <= HoursPerDay * HourLen /\ (h1 + 1) * HourLen = h1 * HourLen + HourLen
    BY Lengths, MulMono, MulNext
  <2>3. (m + 1) * SecPerMin <= MinPerHour * SecPerMin
        /\ (m + 1) * SecPerMin = m * SecPerMin + SecPerMin
    BY Lengths, MulMono, MulNext
  <2> QED BY <1>1, <2>1, <2>2, <2>3, Lengths DEF InstantOf
<1> QED BY <1>2, <1>3

\* The hours of a schedule that have struck.
Struck(sched, t) ==
    {h \in sched.hours : h < HourOf(t) \/ (h = HourOf(t) /\ sched.minute <= MinuteOf(t))}

\* The window a cron schedule expects is the last hour of the day that struck.
LEMMA CronExpected ==
  ASSUME NEW sched \in CronSchedules, NEW t \in Nat, cron_expected_at(sched, t) # NoTime
  PROVE  /\ Struck(sched, t) \in SUBSET (0 .. HoursPerDay - 1) /\ Struck(sched, t) # {}
         /\ Max(Struck(sched, t)) \in Struck(sched, t)
         /\ \A h \in Struck(sched, t) : h <= Max(Struck(sched, t))
         /\ cron_expected_at(sched, t) = InstantOf(DayOf(t), Max(Struck(sched, t)), sched.minute)
<1>1. /\ Struck(sched, t) # {}
      /\ cron_expected_at(sched, t) = InstantOf(DayOf(t), Max(Struck(sched, t)), sched.minute)
  BY DEF cron_expected_at, Struck
<1>2. Struck(sched, t) \in SUBSET (0 .. HoursPerDay - 1)
  BY DEF Struck, CronSchedules
<1> DEFINE n == HoursPerDay - 1
<1>3. n \in Nat
  BY Lengths
<1>4. Struck(sched, t) \in SUBSET (0 .. n)
  BY <1>2
<1> HIDE DEF n
<1>5. /\ Max(Struck(sched, t)) \in Struck(sched, t)
      /\ \A h \in Struck(sched, t) : h <= Max(Struck(sched, t))
  BY <1>1, <1>3, <1>4, MaxOfBounded
<1> QED BY <1>1, <1>2, <1>5

\* The due hour of a calendar schedule never goes back.
LEMMA CronMono ==
  ASSUME NEW sched \in CronSchedules, NEW t1 \in Nat, NEW t2 \in Nat, t1 <= t2,
         cron_expected_at(sched, t1) # NoTime, cron_expected_at(sched, t2) # NoTime
  PROVE  cron_expected_at(sched, t1) <= cron_expected_at(sched, t2)
<1> DEFINE S1 == Struck(sched, t1)
           S2 == Struck(sched, t2)
<1>1. /\ S1 \in SUBSET (0 .. HoursPerDay - 1) /\ Max(S1) \in S1
      /\ cron_expected_at(sched, t1) = InstantOf(DayOf(t1), Max(S1), sched.minute)
  BY CronExpected
<1>2. /\ S2 \in SUBSET (0 .. HoursPerDay - 1) /\ Max(S2) \in S2 /\ \A h \in S2 : h <= Max(S2)
      /\ cron_expected_at(sched, t2) = InstantOf(DayOf(t2), Max(S2), sched.minute)
  BY CronExpected
<1>3. DayOf(t1) \in Nat /\ DayOf(t2) \in Nat /\ sched.minute \in 0 .. MinPerHour - 1
  BY ClockFacts DEF CronSchedules
<1>4. DayOf(t1) = DayOf(t2) => Max(S1) \in S2
  <2> SUFFICES ASSUME DayOf(t1) = DayOf(t2) PROVE S1 \subseteq S2
    BY <1>1
  <2>1. HourOf(t1) <= HourOf(t2) /\ (HourOf(t1) = HourOf(t2) => MinuteOf(t1) <= MinuteOf(t2))
    BY ClockMono
  <2>2. HourOf(t1) \in Nat /\ HourOf(t2) \in Nat
    BY ClockFacts
  <2>3. MinuteOf(t1) \in Int /\ MinuteOf(t2) \in Int
    BY ClockFacts, Lengths, Z3 DEF MinuteOf
  <2>4. \A h \in sched.hours : h \in Int
    BY DEF CronSchedules
  <2> QED BY <1>3, <2>1, <2>2, <2>3, <2>4 DEF Struck
<1>5. DayOf(t1) < DayOf(t2) \/ (DayOf(t1) = DayOf(t2) /\ Max(S1) <= Max(S2))
  BY <1>2, <1>3, <1>4, ClockMono
<1>6. Max(S1) \in 0 .. HoursPerDay - 1 /\ Max(S2) \in 0 .. HoursPerDay - 1
  BY <1>1, <1>2
<1> HIDE DEF S1, S2
<1>7. InstantOf(DayOf(t1), Max(S1), sched.minute) <= InstantOf(DayOf(t2), Max(S2), sched.minute)
  BY <1>3, <1>5, <1>6, InstantMono
<1> QED BY <1>1, <1>2, <1>7

\* A due hour is a whole minute.
LEMMA CronMinute ==
  ASSUME NEW sched \in CronSchedules, NEW t \in Nat, cron_expected_at(sched, t) # NoTime
  PROVE  \E q \in Nat : cron_expected_at(sched, t) = q * SecPerMin
<1> DEFINE d == DayOf(t)
           h == Max(Struck(sched, t))
           m == sched.minute
<1>1. cron_expected_at(sched, t) = InstantOf(d, h, m)
  BY CronExpected
<1>2. d \in Nat /\ h \in Nat /\ m \in Nat
  <2>1. h \in 0 .. HoursPerDay - 1
    BY CronExpected
  <2>2. m \in 0 .. MinPerHour - 1
    BY DEF CronSchedules
  <2> QED BY <2>1, <2>2, ClockFacts
<1> HIDE DEF d, h, m
<1>3. (d * HoursPerDay) * MinPerHour + h * MinPerHour + m \in Nat
  BY <1>2, Lengths, Z3
<1>4. d * DayLen = ((d * HoursPerDay) * MinPerHour) * SecPerMin
  BY <1>2, Lengths, Z3
<1>5. h * HourLen = (h * MinPerHour) * SecPerMin
  BY <1>2, Lengths, Z3
<1>6. ((d * HoursPerDay) * MinPerHour + h * MinPerHour + m) * SecPerMin
        = ((d * HoursPerDay) * MinPerHour) * SecPerMin + (h * MinPerHour) * SecPerMin + m * SecPerMin
  BY <1>2, Lengths, Z3
<1>7. InstantOf(d, h, m) = ((d * HoursPerDay) * MinPerHour + h * MinPerHour + m) * SecPerMin
  BY <1>4, <1>5, <1>6 DEF InstantOf
<1> QED BY <1>1, <1>3, <1>7

-----------------------------------------------------------------------------
(* Intervals.                                                              *)

\* An interval schedule counts whole intervals since its last success.
LEMMA IntervalExpected ==
  ASSUME NEW iv \in Nat \ {0}, NEW ls \in Nat, NEW t \in Nat
  PROVE  LET D == iv * SecPerMin
             e == interval_expected_at(iv, t, ls)
         IN  /\ D \in Nat \ {0} /\ D >= SecPerMin
             /\ t < ls => e = ls
             /\ ls <= t => \E k \in Nat : e = ls + k * D /\ e <= t /\ t < e + D
<1> DEFINE D == iv * SecPerMin
           e == interval_expected_at(iv, t, ls)
           elapsed == NumMinutes(t - ls) \div iv
           ticks == IF elapsed > 0 THEN elapsed ELSE 0
<1>1. D \in Nat \ {0} /\ D >= SecPerMin
  <2>1. 1 * SecPerMin <= iv * SecPerMin
    BY Lengths, MulMono
  <2>2. D \in Nat /\ 1 * SecPerMin = SecPerMin
    BY Lengths, Z3
  <2> QED BY <2>1, <2>2, Lengths
<1>2. e = ls + ticks * iv * SecPerMin
  BY DEF interval_expected_at, NoTime
<1>3. ASSUME t < ls PROVE e = ls
  <2>1. (ls - t) \in Nat
    BY <1>3
  <2>2. (ls - t) \div SecPerMin \in Nat
    BY <2>1, Lengths, DivFacts
  <2>3. NumMinutes(t - ls) = -((ls - t) \div SecPerMin)
    BY <1>3 DEF NumMinutes
  <2>4. NumMinutes(t - ls) \in Int /\ NumMinutes(t - ls) <= 0
    BY <2>2, <2>3
  <2>5. elapsed <= 0 /\ elapsed \in Int
    BY <2>4, SMT
  <2>6. ticks = 0
    BY <2>5
  <2> HIDE DEF ticks
  <2>7. ticks * iv * SecPerMin = 0
    BY <2>6, Lengths, Z3
  <2> QED BY <1>2, <2>7
<1>4. ASSUME ls <= t PROVE \E k \in Nat : e = ls + k * D /\ e <= t /\ t < e + D
  <2> DEFINE a == t - ls
             m == a \div SecPerMin
             k == m \div iv
  <2>1. a \in Nat
    BY <1>4
  <2>2. NumMinutes(t - ls) = m
    BY <2>1 DEF NumMinutes
  <2> HIDE DEF a
  <2>3. m \in Nat /\ m * SecPerMin <= a /\ a < m * SecPerMin + SecPerMin
    BY <2>1, Lengths, DivFacts
  <2>4. elapsed = k
    BY <2>2
  <2> HIDE DEF m
  <2>5. k \in Nat /\ k * iv <= m /\ m < k * iv + iv
    BY <2>3, DivFacts
  <2>6. ticks = k
    BY <2>4, <2>5
  <2> HIDE DEF k, ticks
  <2>7. k * iv \in Nat /\ m * SecPerMin \in Nat /\ k * D \in Nat
    BY <1>1, <2>3, <2>5, Lengths, Z3
  <2>8. k * iv * SecPerMin = k * D
    BY <2>5, Lengths, Z3
  <2>9. k * D <= m * SecPerMin
    BY <2>3, <2>5, <2>7, <2>8, Lengths, MulMono
  <2>10. (m + 1) * SecPerMin = m * SecPerMin + SecPerMin
    BY <2>3, Lengths, MulNext
  <2>11. m + 1 <= (k + 1) * iv /\ (k + 1) * iv \in Nat
    BY <2>3, <2>5, <2>7, MulNext
  <2>12. (m + 1) * SecPerMin <= ((k + 1) * iv) * SecPerMin
    BY <2>3, <2>11, Lengths, MulMono
  <2>13. ((k + 1) * iv) * SecPerMin = (k + 1) * D
    BY <2>5, Lengths, Z3
  <2>14. (k + 1) * D = k * D + D
    BY <1>1, <2>5, MulNext
  <2> HIDE DEF D
  <2>15. k * D <= a /\ a < k * D + D
    BY <1>1, <2>1, <2>3, <2>7, <2>9, <2>10, <2>12, <2>13, <2>14, Lengths
  <2>16. e = ls + k * D
    BY <1>2, <2>6, <2>8
  <2> HIDE DEF e
  <2>17. a = t - ls
    BY DEF a
  <2>18. e <= t /\ t < e + D
    BY <1>1, <2>7, <2>15, <2>16, <2>17
  <2> QED BY <2>5, <2>16, <2>18
<1> QED BY <1>1, <1>3, <1>4

\* No interval: the last success stands for the window.
LEMMA IntervalZero ==
  ASSUME NEW t, NEW ls
  PROVE  interval_expected_at(0, t, ls) = ls
BY DEF interval_expected_at

\* The window due never goes back as time passes.
THEOREM ExpectedNeverBack ==
  ASSUME NEW sched \in IntervalSchedules(Nat) \union CronSchedules,
         NEW ls \in Nat \union {NoTime}, NEW t1 \in Nat, NEW t2 \in Nat, t1 <= t2,
         expected_at(sched, t1, ls) # NoTime, expected_at(sched, t2, ls) # NoTime
  PROVE  expected_at(sched, t1, ls) <= expected_at(sched, t2, ls)
<1>1. CASE sched \in CronSchedules
  <2>1. sched.kind = "cron"
    BY <1>1 DEF CronSchedules
  <2> QED BY <1>1, <2>1, CronMono DEF expected_at
<1>2. CASE sched \in IntervalSchedules(Nat)
  <2> DEFINE iv == sched.interval_minutes
             D == iv * SecPerMin
             e1 == interval_expected_at(iv, t1, ls)
             e2 == interval_expected_at(iv, t2, ls)
  <2>1. sched.kind = "interval" /\ iv \in Nat
    BY <1>2 DEF IntervalSchedules
  <2>2. e1 = expected_at(sched, t1, ls) /\ e2 = expected_at(sched, t2, ls)
    BY <2>1 DEF expected_at
  <2>3. ls \in Nat
    BY <2>2 DEF interval_expected_at
  <2> HIDE DEF iv
  <2>4. CASE iv = 0
    BY <2>2, <2>3, <2>4, IntervalZero
  <2>5. CASE iv # 0
    <3>1. D \in Nat \ {0} /\ (t1 < ls => e1 = ls) /\ (t2 < ls => e2 = ls)
      BY <2>1, <2>3, <2>5, IntervalExpected
    <3>2. ls <= t1 => \E k \in Nat : e1 = ls + k * D /\ e1 <= t1 /\ t1 < e1 + D
      BY <2>1, <2>3, <2>5, IntervalExpected
    <3>3. ls <= t2 => \E k \in Nat : e2 = ls + k * D /\ e2 <= t2 /\ t2 < e2 + D
      BY <2>1, <2>3, <2>5, IntervalExpected
    <3> HIDE DEF D, e1, e2
    <3>4. CASE t2 < ls
      BY <2>2, <2>3, <3>1, <3>4
    <3>5. CASE ls <= t2
      <4>1. PICK k2 \in Nat : e2 = ls + k2 * D /\ e2 <= t2 /\ t2 < e2 + D
        BY <3>3, <3>5
      <4>2. k2 * D \in Nat
        BY <3>1, Z3
      <4>3. CASE t1 < ls
        BY <2>2, <2>3, <3>1, <4>1, <4>2, <4>3
      <4>4. CASE ls <= t1
        <5>1. PICK k1 \in Nat : e1 = ls + k1 * D /\ e1 <= t1 /\ t1 < e1 + D
          BY <3>2, <4>4
        <5>2. k1 * D \in Nat
          BY <3>1, Z3
        <5>3. ~(k2 < k1)
          <6> SUFFICES ASSUME k2 < k1 PROVE FALSE
            OBVIOUS
          <6>1. (k2 + 1) * D <= k1 * D /\ (k2 + 1) * D = k2 * D + D
            BY <3>1, MulMono, MulNext
          <6> QED BY <2>3, <3>1, <4>1, <4>2, <5>1, <5>2, <6>1
        <5>4. k1 * D <= k2 * D
          BY <3>1, <5>3, MulMono
        <5> QED BY <2>2, <2>3, <4>1, <4>2, <5>1, <5>2, <5>4
      <4> QED BY <2>3, <4>3, <4>4
    <3> QED BY <2>3, <3>4, <3>5
  <2> QED BY <2>4, <2>5
<1> QED BY <1>1, <1>2

-----------------------------------------------------------------------------
(* The types of what the tick computes.                                    *)

\* The manifest's entries have their types.
LEMMA EntryType ==
  ASSUME NEW i \in Ids
  PROVE  /\ Manifest[i].sched \in IntervalSchedules(Nat) \union CronSchedules
         /\ Manifest[i].max_retries \in Nat
         /\ Slug(i) \in Slugs
<1>1. Manifest[i] \in Entries
  BY DispatchAssumption DEF Ids
<1> QED BY <1>1 DEF Entries, Slug, Slugs

\* expected_at yields an instant or none.
LEMMA ExpectedType ==
  ASSUME NEW i \in Ids, NEW t \in Nat, NEW ls \in Nat \union {NoTime}
  PROVE  expected_at(Manifest[i].sched, t, ls) \in Nat \union {NoTime}
<1> DEFINE sched == Manifest[i].sched
<1>1. sched \in IntervalSchedules(Nat) \union CronSchedules
  BY EntryType
<1>2. CASE sched \in CronSchedules
  <2> DEFINE due == {h \in sched.hours :
                       \/ h < HourOf(t)
                       \/ h = HourOf(t) /\ sched.minute <= MinuteOf(t)}
  <2>1. sched.kind = "cron" /\ due \in SUBSET (0 .. HoursPerDay - 1) /\ sched.minute \in Nat
    BY <1>2 DEF CronSchedules
  <2>2. HoursPerDay - 1 \in Nat
    BY CalendarAssumption
  <2>3. CASE due = {}
    BY <2>1, <2>3 DEF expected_at, cron_expected_at
  <2>4. CASE due # {}
    <3> HIDE DEF due
    <3> DEFINE n == HoursPerDay - 1
    <3>1. n \in Nat /\ due \in SUBSET (0 .. n)
      BY <2>1, <2>2
    <3> HIDE DEF n
    <3>2. Max(due) \in due
      BY <3>1, <2>4, MaxOfBounded
    <3>3. due \subseteq Nat
      BY <3>1
    <3>4. Max(due) \in Nat
      BY <3>2, <3>3, Zenon
    <3>5. InstantOf(DayOf(t), Max(due), sched.minute) \in Nat
      BY <3>4, <2>1, InstantType
    <3> QED BY <3>5, <2>1 DEF expected_at, cron_expected_at, due
  <2> QED BY <2>3, <2>4
<1>3. CASE sched \in IntervalSchedules(Nat)
  <2> DEFINE iv == sched.interval_minutes
             elapsed == NumMinutes(t - ls) \div iv
             ticks == IF elapsed > 0 THEN elapsed ELSE 0
  <2>1. sched.kind = "interval" /\ iv \in Nat
    BY <1>3 DEF IntervalSchedules
  <2>2. CASE ls = NoTime \/ iv = 0
    BY <2>1, <2>2 DEF expected_at, interval_expected_at
  <2>3. CASE ls # NoTime /\ iv # 0
    <3> HIDE DEF iv
    <3>1. NumMinutes(t - ls) \in Int
      BY <2>3, CalendarAssumption, Z3 DEF NumMinutes
    <3>2. elapsed \in Int
      BY <3>1, <2>1, <2>3, Z3
    <3> HIDE DEF elapsed
    <3>3. ticks \in Nat
      BY <3>2
    <3> HIDE DEF ticks
    <3>4. ticks * iv * SecPerMin \in Nat
      BY <3>3, <2>1, CalendarAssumption, Z3
    <3>5. interval_expected_at(iv, t, ls) = ls + ticks * iv * SecPerMin
      BY <2>3 DEF interval_expected_at, ticks, elapsed
    <3>6. ls \in Nat
      BY <2>3
    <3> QED BY <3>4, <3>5, <3>6, <2>1 DEF expected_at, iv
  <2> QED BY <2>2, <2>3
<1> QED BY <1>1, <1>2, <1>3

\* A window's file is named after an instant no later than the window.
LEMMA LabelType ==
  ASSUME NEW t \in Time
  PROVE  WindowLabel(t) \in Time
<1>1. MaxTime \in Nat
  BY DispatchAssumption
<1>2. (t \div SecPerMin) * SecPerMin \in Nat /\ (t \div SecPerMin) * SecPerMin <= t
  BY <1>1, CalendarAssumption, Z3 DEF Time
<1> QED BY <1>1, <1>2 DEF WindowLabel, Time

\* What dispatch_one knows of the window it goes on to run or give up: it opened
\* after the last success and no later than the tick, and was not given up.
LEMMA GateFacts ==
  ASSUME TypeOK, NEW p \in Procs, AtSchedule(p, "dispatch"),
         PassesGates(pos[p], tick_now[p], power[p])
  PROVE  LET i == pos[p]
             e == Expected(i, tick_now[p])
         IN  /\ i \in Ids /\ Slug(i) \in Slugs
             /\ e \in Time /\ e <= tick_now[p]
             /\ heartbeat[Slug(i)] < e
             /\ WindowLabel(e) \in Time
             /\ ~read_window(i, e).given_up
<1> DEFINE i == pos[p]
           t == tick_now[p]
           e == Expected(i, t)
<1>1. i \in Ids /\ Slug(i) \in Slugs
  BY EntryType DEF AtSchedule
<1>2. t \in Nat /\ t \in Time /\ MaxTime \in Nat
  BY DispatchAssumption DEF TypeOK, LocalsType, Time
<1>3. heartbeat[Slug(i)] \in Nat \union {NoTime}
  BY <1>1, DispatchAssumption DEF TypeOK, FilesType, Time, OptTime
<1>4. e \in Nat \union {NoTime}
  BY <1>1, <1>2, <1>3, ExpectedType DEF Expected
<1> HIDE DEF e
<1>5. e # NoTime /\ e <= t /\ (heartbeat[Slug(i)] = NoTime \/ heartbeat[Slug(i)] < e)
  BY DEF PassesGates, Due, e
<1>6. e \in Time /\ heartbeat[Slug(i)] < e
  BY <1>2, <1>3, <1>4, <1>5 DEF Time, NoTime
<1>7. WindowLabel(e) \in Time
  BY <1>6, LabelType
<1>8. ~read_window(i, e).given_up
  BY DEF PassesGates, e
<1> QED BY <1>1, <1>5, <1>6, <1>7, <1>8 DEF e

-----------------------------------------------------------------------------
(* Type correctness.                                                       *)

\* A step of dispatch_one on a window file in memory yields a window file.
LEMMA WindowType ==
  ASSUME NEW w \in WindowState
  PROVE  /\ [w EXCEPT !.exists = TRUE] \in WindowState
         /\ [w EXCEPT !.given_up = TRUE] \in WindowState
         /\ \A o \in AllOutcomes \ {"error"}, t \in Time : Counted(w, o, t) \in WindowState
<1>1. [w EXCEPT !.exists = TRUE] \in WindowState
  BY DEF WindowState
<1>2. [w EXCEPT !.given_up = TRUE] \in WindowState
  BY DEF WindowState
<1>3. ASSUME NEW o \in AllOutcomes \ {"error"}, NEW t \in Time
      PROVE  Counted(w, o, t) \in WindowState
  <2>1. w.attempts + 1 \in Nat
    BY DEF WindowState
  <2>2. t \in OptTime
    BY DEF OptTime
  <2>3. o \in {NoExit, "ok", "fail", "preflight", "lost"}
    BY DEF AllOutcomes
  <2> QED BY <2>1, <2>2, <2>3 DEF WindowState, Counted
<1> QED BY <1>1, <1>2, <1>3

\* Recording a notice and ending a schedule's episodes keep a table a table.
LEMMA TableType ==
  ASSUME NEW tb \in Tables, NEW i \in Ids, NEW e \in Events, NEW t \in Time
  PROVE  /\ [tb EXCEPT ![i][e] = record(@, t)] \in Tables
         /\ clear_pair(tb, i) \in Tables
<1>1. tb[i][e] \in Episodes /\ t \in Nat
  BY DispatchAssumption DEF Tables, Time
<1>2. record(tb[i][e], t) \in Episodes
  BY <1>1 DEF record, Episodes
<1>3. [e2 \in Events |-> NoEpisode] \in [Events -> Episodes]
  BY DEF NoEpisode, Episodes
<1> QED BY <1>2, <1>3 DEF Tables, clear_pair

\* Counting one more run of a window.
LEMMA BumpType ==
  ASSUME NEW f \in [Ids -> [Time -> Nat]], NEW i \in Ids, NEW t \in Time
  PROVE  /\ [f EXCEPT ![i][t] = @ + 1] \in [Ids -> [Time -> Nat]]
         /\ \A j \in Ids, k \in Time :
               [f EXCEPT ![i][t] = @ + 1][j][k] = IF j = i /\ k = t THEN f[j][k] + 1
                                                                   ELSE f[j][k]
  OBVIOUS

\* What fresh files, tables and ticks start from.
LEMMA DefaultType ==
  /\ 0 \in Time /\ 0 \in 0 .. MaxFaults
  /\ NoWindow \in WindowState
  /\ Empty \in Tables
<1>1. 0 \in Time /\ 0 \in 0 .. MaxFaults
  BY DispatchAssumption DEF Time
<1>2. NoWindow \in WindowState
  BY DEF NoWindow, WindowState, OptTime
<1>3. Empty \in Tables
  BY DEF Empty, Tables, NoEpisode, Episodes
<1> QED BY <1>1, <1>2, <1>3

\* The types hold before the first tick.
LEMMA InitType == Init => TypeOK
<1> SUFFICES ASSUME Init PROVE TypeOK
  OBVIOUS
<1>1. battery \in BOOLEAN
  BY Zenon DEF Init
<1>2. WorldType
  BY <1>1, DefaultType DEF Init, WorldType
<1>3. FilesType
  BY DefaultType DEF Init, FilesType, OptTime
<1>4. LocalsType
  BY DefaultType DEF Init, LocalsType, PCs, InHand
<1>5. HistoryType
  BY DefaultType DEF Init, HistoryType, OptTime
<1>6. Positioned
  BY DEF Init, Positioned, InHand
<1> QED BY <1>2, <1>3, <1>4, <1>5, <1>6 DEF TypeOK

\* dispatch_one past its gates is working on a schedule of the manifest.
LEMMA NextPositioned == TypeOK /\ [Next]_vars => Positioned'
<1> SUFFICES ASSUME TypeOK, [Next]_vars, NEW q \in Procs, pc'[q] \in InHand
             PROVE  pos'[q] \in Ids
  BY DEF Positioned
<1> USE DEF TypeOK, LocalsType, Positioned, InHand, AtSchedule
<1>1. ASSUME NEW p \in Procs, BeginTick(p) \/ BeginSweep(p) \/ EndSweep(p) \/ Crash(p)
      PROVE  pos'[q] \in Ids
  BY <1>1 DEF BeginTick, BeginSweep, EndSweep, Crash, ForgetTick
<1>2. ASSUME NEW p \in Procs, GiveUpExhausted(p) \/ StartRun(p) \/ Announce(p)
      PROVE  pos'[q] \in Ids
  BY <1>2 DEF GiveUpExhausted, StartRun, Announce
<1>3. ASSUME NEW p \in Procs, Skip(p) \/ WriteWindow(p) \/ SweepOne(p)
      PROVE  pos'[q] \in Ids
  BY <1>3 DEF Skip, WriteWindow, SweepOne
<1>4. ASSUME NEW p \in Procs, EndRun(p) PROVE pos'[q] \in Ids
  BY <1>4 DEF EndRun, AfterRun
<1>5. ASSUME NEW p \in Procs, GiveUp(p) PROVE pos'[q] \in Ids
  BY <1>5 DEF GiveUp
<1>6. CASE Pass \/ Unplug \/ UNCHANGED vars \/ \E i \in Ids : ManualRun(i)
  BY <1>6 DEF Pass, Unplug, ManualRun, vars, locals
<1> QED BY <1>1, <1>2, <1>3, <1>4, <1>5, <1>6 DEF Next, Step

\* One step per action; the parts of the state an action leaves alone are
\* covered together.
LEMMA NextType == TypeOK /\ [Next]_vars => TypeOK'
<1> SUFFICES ASSUME TypeOK, [Next]_vars PROVE TypeOK'
  OBVIOUS
<1> SUFFICES (WorldType /\ FilesType /\ LocalsType /\ HistoryType)'
  BY NextPositioned DEF TypeOK
<1> DEFINE Typed == (WorldType /\ FilesType /\ LocalsType /\ HistoryType)'
<1> USE DEF TypeOK
<1>1. ASSUME NEW p \in Procs, BeginTick(p) PROVE Typed
  <2> USE <1>1 DEF BeginTick
  <2>1. WorldType' /\ FilesType' /\ HistoryType'
    BY DEF WorldType, FilesType, HistoryType, files, history
  <2>2. LocalsType'
    BY DEF LocalsType, WorldType, PCs, InHand
  <2> QED BY <2>1, <2>2
<1>2. ASSUME NEW p \in Procs, Skip(p) PROVE Typed
  <2> USE <1>2 DEF Skip
  <2>1. WorldType' /\ FilesType' /\ HistoryType'
    BY DEF WorldType, FilesType, HistoryType, files, history
  <2>2. LocalsType'
    BY DEF LocalsType
  <2> QED BY <2>1, <2>2
<1>3. ASSUME NEW p \in Procs, GiveUpExhausted(p) PROVE Typed
  <2> USE <1>3 DEF GiveUpExhausted
  <2>1. WorldType' /\ FilesType' /\ HistoryType'
    BY DEF WorldType, FilesType, HistoryType, files, history
  <2> DEFINE e == Expected(pos[p], tick_now[p])
             w == read_window(pos[p], e)
  <2>2. e \in Time /\ w \in WindowState
    BY GateFacts DEF FilesType, read_window
  <2>3. [w EXCEPT !.exists = TRUE] \in WindowState
    BY <2>2, WindowType
  <2>4. LocalsType'
    BY <2>2, <2>3 DEF LocalsType, PCs, InHand
  <2> QED BY <2>1, <2>4
<1>4. ASSUME NEW p \in Procs, StartRun(p) PROVE Typed
  <2> USE <1>4 DEF StartRun
  <2>1. WorldType' /\ FilesType'
    BY DEF WorldType, FilesType, files
  <2> DEFINE i == pos[p]
             e == Expected(i, tick_now[p])
             w == read_window(i, e)
  <2>2. i \in Ids /\ e \in Time /\ WindowLabel(e) \in Time /\ w \in WindowState
    BY GateFacts DEF FilesType, read_window
  <2>3. [w EXCEPT !.exists = TRUE] \in WindowState
    BY <2>2, WindowType
  <2>4. LocalsType'
    BY <2>2, <2>3 DEF LocalsType, PCs, InHand
  <2>5. HistoryType'
    BY <2>2 DEF HistoryType, WorldType, OptTime
  <2> QED BY <2>1, <2>4, <2>5
<1>5. ASSUME NEW p \in Procs, EndRun(p) PROVE Typed
  <2> PICK o \in Outcomes : EndRun(p)!(o)
    BY <1>5 DEF EndRun
  <2> DEFINE i == pos[p]
             ws == Counted(copy[p], o, tick_now[p])
  <2>1. /\ i \in Ids /\ Slug(i) \in Slugs /\ expected[p] \in Time
        /\ WindowLabel(expected[p]) \in Time
    BY EntryType, LabelType DEF AtSchedule, LocalsType
  <2>2. CASE o = "error"
    <3>1. uncounted' \in [Ids -> [Time -> Nat]]
      <4>1. uncounted' = [uncounted EXCEPT ![i][WindowLabel(expected[p])] = @ + 1]
        BY <2>2
      <4> QED BY <4>1, <2>1, BumpType DEF HistoryType
    <3>2. WorldType'
      BY <2>2, DispatchAssumption DEF WorldType
    <3>3. FilesType'
      BY <2>2 DEF FilesType
    <3>4. LocalsType'
      BY <2>2, DefaultType DEF LocalsType, PCs, InHand, AfterRun
    <3>5. HistoryType'
      BY <2>2, <3>1 DEF HistoryType
    <3> QED BY <3>2, <3>3, <3>4, <3>5
  <2>3. CASE o # "error"
    <3>1. ws \in WindowState
      BY <2>3, WindowType, DispatchAssumption DEF LocalsType
    <3>2. WorldType'
      BY <2>3 DEF WorldType
    <3>3. FilesType'
      BY <2>1, <2>3 DEF FilesType, WorldType, OptTime
    <3>4. LocalsType'
      BY <2>1, <2>3, <3>1 DEF LocalsType, PCs, InHand, AfterRun
    <3>5. succeeded' \in [Ids -> [Time -> Nat]]
      <4>1. succeeded \in [Ids -> [Time -> Nat]]
        BY DEF HistoryType
      <4>2. [succeeded EXCEPT ![i][expected[p]] = @ + 1] \in [Ids -> [Time -> Nat]]
        BY <4>1, <2>1, BumpType
      <4>3. \/ succeeded' = succeeded
            \/ succeeded' = [succeeded EXCEPT ![i][expected[p]] = @ + 1]
        BY <2>3
      <4> QED BY <4>1, <4>2, <4>3
    <3>6. recorded' \in [Ids -> OptTime]
      BY <2>3 DEF HistoryType, Unrecorded, OptTime
    <3>7. HistoryType'
      BY <2>3, <3>5, <3>6 DEF HistoryType
    <3> QED BY <3>2, <3>3, <3>4, <3>7
  <2> QED BY <2>2, <2>3
<1>6. ASSUME NEW p \in Procs, GiveUp(p) PROVE Typed
  <2> USE <1>6 DEF GiveUp
  <2>1. WorldType' /\ HistoryType'
    BY DEF WorldType, HistoryType, history
  <2>2. [copy[p] EXCEPT !.given_up = TRUE] \in WindowState
    BY WindowType DEF LocalsType
  <2>3. LocalsType'
    BY <2>2 DEF LocalsType, PCs, InHand
  <2>4. pos[p] \in Ids /\ "given_up" \in Events /\ now \in Time /\ alerts \in Tables
    BY DEF AtSchedule, Events, WorldType, FilesType
  <2>5. [alerts EXCEPT ![pos[p]]["given_up"] = record(@, now)] \in Tables
    BY <2>4, TableType
  <2>6. FilesType'
    BY <2>4, <2>5 DEF FilesType
  <2> QED BY <2>1, <2>3, <2>6
<1>7. ASSUME NEW p \in Procs, Announce(p) PROVE Typed
  <2> USE <1>7 DEF Announce
  <2>1. WorldType' /\ FilesType'
    BY DEF WorldType, FilesType, files
  <2>2. LocalsType'
    BY DEF LocalsType, PCs, InHand
  <2>3. pos[p] \in Ids /\ "given_up" \in Events /\ now \in Time /\ said \in Tables
    BY DEF AtSchedule, Events, WorldType, HistoryType
  <2>4. [said EXCEPT ![pos[p]]["given_up"] = record(@, now)] \in Tables
    BY <2>3, TableType
  <2>5. [told EXCEPT ![p] = @ \union {<<pos[p], "given_up">>}]
            \in [Procs -> SUBSET (Ids \X Events)]
    BY <2>3 DEF HistoryType
  <2>6. HistoryType'
    BY <2>4, <2>5 DEF HistoryType, Say
  <2> QED BY <2>1, <2>2, <2>6
<1>8. ASSUME NEW p \in Procs, WriteWindow(p) PROVE Typed
  <2> USE <1>8 DEF WriteWindow
  <2> DEFINE i == pos[p]
             l == WindowLabel(expected[p])
  <2>1. i \in Ids /\ Slug(i) \in Slugs /\ l \in Time /\ copy[p] \in WindowState
    BY EntryType, LabelType DEF AtSchedule, LocalsType
  <2>2. WorldType'
    BY DEF WorldType
  <2>3. FilesType'
    BY <2>1 DEF FilesType
  <2>4. LocalsType'
    BY DefaultType DEF LocalsType, PCs, InHand
  <2>5. recorded' \in [Ids -> OptTime]
    BY <2>1 DEF HistoryType, OptTime
  <2>6. HistoryType'
    BY <2>5 DEF HistoryType
  <2> QED BY <2>2, <2>3, <2>4, <2>6
<1>9. ASSUME NEW p \in Procs, BeginSweep(p) PROVE Typed
  <2> USE <1>9 DEF BeginSweep
  <2>1. WorldType' /\ FilesType' /\ HistoryType'
    BY DEF WorldType, FilesType, HistoryType, history
  <2>2. LocalsType'
    BY DEF LocalsType, FilesType, PCs, InHand
  <2> QED BY <2>1, <2>2
<1>10. ASSUME NEW p \in Procs, SweepOne(p) PROVE Typed
  <2> USE <1>10 DEF SweepOne
  <2> DEFINE i == pos[p]
             v == Verdict(i, tick_now[p])
  <2>1. WorldType' /\ FilesType'
    BY DEF WorldType, FilesType, files
  <2>2. /\ i \in Ids /\ now \in Time /\ tick_now[p] \in Time
        /\ table[p] \in Tables /\ said \in Tables
    BY DEF AtSchedule, WorldType, LocalsType, HistoryType
  <2> HIDE DEF i, v
  <2>3. CASE UNCHANGED <<table, said, told, parted>>
    <3>1. LocalsType'
      BY <2>3 DEF LocalsType
    <3>2. HistoryType'
      BY <2>3 DEF HistoryType
    <3> QED BY <2>1, <3>1, <3>2
  <2>4. CASE /\ table' = [table EXCEPT ![p] = clear_pair(@, i)]
             /\ said' = clear_pair(said, i)
             /\ parted' = IF \E q \in Procs : Announcing(q, i)
                          THEN parted \union {<<i, "given_up">>} ELSE parted
             /\ UNCHANGED told
    <3>1. clear_pair(table[p], i) \in Tables /\ clear_pair(said, i) \in Tables
      BY <2>2, TableType DEF Events
    <3>2. LocalsType'
      BY <2>4, <3>1 DEF LocalsType
    <3>3. parted' \subseteq Ids \X Events
      BY <2>4, <2>2 DEF HistoryType, Events
    <3>4. HistoryType'
      BY <2>4, <3>1, <3>3 DEF HistoryType
    <3> QED BY <2>1, <3>2, <3>4
  <2>5. CASE /\ v \in Events
             /\ table' = [table EXCEPT ![p][i][v] = record(@, tick_now[p])]
             /\ Say(p, i, v)
             /\ UNCHANGED parted
    <3>1. /\ [table[p] EXCEPT ![i][v] = record(@, tick_now[p])] \in Tables
          /\ [said EXCEPT ![i][v] = record(@, now)] \in Tables
      BY <2>5, <2>2, TableType
    <3>2. LocalsType'
      BY <2>5, <3>1 DEF LocalsType
    <3>3. told' \in [Procs -> SUBSET (Ids \X Events)]
      BY <2>5, <2>2 DEF HistoryType, Say
    <3>4. HistoryType'
      BY <2>5, <3>1, <3>3 DEF HistoryType, Say
    <3> QED BY <2>1, <3>2, <3>4
  <2> QED BY <2>3, <2>4, <2>5 DEF i, v
<1>11. ASSUME NEW p \in Procs, EndSweep(p) PROVE Typed
  <2> USE <1>11 DEF EndSweep, ForgetTick
  <2>1. WorldType'
    BY DEF WorldType
  <2>2. FilesType'
    BY DEF FilesType, LocalsType
  <2>3. LocalsType'
    BY DefaultType DEF LocalsType, PCs, InHand
  <2>4. HistoryType'
    BY DEF HistoryType
  <2> QED BY <2>1, <2>2, <2>3, <2>4
<1>12. ASSUME NEW p \in Procs, Crash(p) PROVE Typed
  <2> USE <1>12 DEF Crash, ForgetTick
  <2>1. WorldType'
    BY DispatchAssumption DEF WorldType
  <2>2. FilesType'
    BY DEF FilesType
  <2>3. LocalsType'
    BY DefaultType DEF LocalsType, PCs, InHand
  <2> DEFINE i == pos[p]
             l == WindowLabel(expected[p])
  <2>4. uncounted' \in [Ids -> [Time -> Nat]]
    <3>1. l \in Time
      BY LabelType DEF LocalsType
    <3>2. CASE i \in Ids
      BY <3>1, <3>2, BumpType DEF HistoryType
    <3>3. CASE i \notin Ids
      BY <3>3 DEF HistoryType
    <3> QED BY <3>2, <3>3
  <2>5. parted' \subseteq Ids \X Events
    BY DEF HistoryType, Positioned, InHand, Events
  <2>6. HistoryType'
    BY <2>4, <2>5 DEF HistoryType
  <2> QED BY <2>1, <2>2, <2>3, <2>6
<1>13. ASSUME NEW i \in Ids, ManualRun(i) PROVE Typed
  <2> USE <1>13 DEF ManualRun
  <2>1. WorldType' /\ LocalsType'
    BY DEF WorldType, LocalsType, locals
  <2>2. FilesType'
    BY EntryType DEF FilesType, WorldType, OptTime
  <2>3. HistoryType'
    BY DEF HistoryType, Unrecorded, OptTime
  <2> QED BY <2>1, <2>2, <2>3
<1>14. CASE Pass
  <2>1. now' \in Time
    BY <1>14, DispatchAssumption DEF Pass, WorldType, Time
  <2>2. WorldType'
    BY <1>14, <2>1 DEF Pass, WorldType
  <2>3. FilesType' /\ LocalsType' /\ HistoryType'
    BY <1>14 DEF Pass, FilesType, LocalsType, HistoryType, files, locals, history
  <2> QED BY <2>2, <2>3
<1>15. CASE Unplug
  <2>1. battery' \in BOOLEAN
    BY <1>15, Zenon DEF Unplug
  <2>2. now \in Time /\ faults \in 0 .. MaxFaults /\ UNCHANGED <<now, faults>>
    BY <1>15 DEF Unplug, WorldType
  <2>3. WorldType'
    BY <2>1, <2>2, Zenon DEF WorldType
  <2>4. FilesType' /\ LocalsType' /\ HistoryType'
    BY <1>15 DEF Unplug, FilesType, LocalsType, HistoryType, files, locals, history
  <2> QED BY <2>3, <2>4
<1>16. CASE UNCHANGED vars
  BY <1>16 DEF vars, WorldType, FilesType, LocalsType, HistoryType, files, locals, history
<1> QED BY <1>1, <1>2, <1>3, <1>4, <1>5, <1>6, <1>7, <1>8, <1>9, <1>10, <1>11, <1>12,
           <1>13, <1>14, <1>15, <1>16 DEF Next, Step

\* Every state of the tick is well typed, whatever the manifest and however many
\* processes tick at once.
THEOREM TypeCorrect == Spec => []TypeOK
<1>1. Init => TypeOK
  BY InitType
<1>2. TypeOK /\ [Next]_vars => TypeOK'
  BY NextType
<1> QED BY <1>1, <1>2, PTL DEF Spec

-----------------------------------------------------------------------------
(* A single ticking process keeps its books.                               *)

\* ... and so do the books: nothing has been run, nothing is on file.
LEMMA InitBooks == Init => Books /\ RunBudget /\ SucceedsOnce
<1> SUFFICES ASSUME Init PROVE Books /\ RunBudget /\ SucceedsOnce
  OBVIOUS
<1>1. HandBooks
  BY DEF Init, HandBooks, InHand
<1>2. HeartbeatBooks
  BY DEF Init, HeartbeatBooks, NoTime
<1>3. \A i \in Ids, l \in Time :
        started[i][l] = 0 /\ uncounted[i][l] = 0 /\ window[Slug(i)][l].attempts = 0
  BY EntryType DEF Init, NoWindow
<1>4. RunBooks
  BY <1>3 DEF RunBooks
<1>5. RunBudget
  BY <1>3, EntryType DEF RunBudget
<1>6. SucceedsOnce
  BY DEF Init, SucceedsOnce
<1> QED BY <1>1, <1>2, <1>4, <1>5, <1>6 DEF Books

\* Every action but the four that start, end, drop or file a run leaves the
\* history of runs and the window files alone.
Ledger == <<window, started, uncounted, succeeded, inflight>>

\* Where dispatch_one has nothing in hand, before and after, its books are
\* those of the files.
LEMMA IdleBooks ==
  ASSUME NEW d, Procs = {d}, TypeOK, Books, UNCHANGED Ledger, UNCHANGED <<now, heartbeat>>,
         pc[d] \notin InHand, pc'[d] \notin InHand, tick_now'[d] <= now
  PROVE  Books'
<1>1. ~inflight[d] /\ ~inflight'[d]
  BY DEF Books, HandBooks, Ledger
<1>2. HandBooks'
  BY <1>1 DEF HandBooks, InHand
<1>3. \A i \in Ids, l \in Time : ~Pending(i, l) /\ ~Pending(i, l)'
  BY <1>1 DEF Pending
<1>4. RunBooks'
  BY <1>3 DEF Books, RunBooks, Ledger
<1>5. HeartbeatBooks'
  BY DEF Books, HeartbeatBooks, Ledger
<1> QED BY <1>2, <1>4, <1>5 DEF Books

\* Steps of the world, which leave every process where it is.
LEMMA WorldBooks ==
  ASSUME NEW d, Procs = {d}, TypeOK, TypeOK', Books, UNCHANGED Ledger, UNCHANGED locals,
         now <= now',
         \/ UNCHANGED heartbeat
         \/ \E g \in Slugs : heartbeat' = [heartbeat EXCEPT ![g] = now]
  PROVE  Books'
<1>0. now \in Int /\ now' \in Int /\ tick_now[d] \in Int
  BY DispatchAssumption DEF TypeOK, WorldType, LocalsType, Time
<1>1. HandBooks'
  BY <1>0 DEF Books, HandBooks, InHandFile, Ledger, locals
<1>2. RunBooks'
  BY DEF Books, RunBooks, Pending, Ledger, locals
<1>3. \A g \in Slugs : heartbeat[g] <= now /\ heartbeat[g] \in Int /\ heartbeat'[g] \in Int
  BY DispatchAssumption
  DEF Books, HeartbeatBooks, TypeOK, FilesType, OptTime, Time, NoTime
<1>4. \A g \in Slugs : heartbeat[g] <= heartbeat'[g] /\ heartbeat'[g] <= now'
  BY <1>0, <1>3 DEF TypeOK, FilesType
<1>5. \A i \in Ids, t \in Time : succeeded'[i][t] > 0 => heartbeat'[Slug(i)] >= t
  <2> SUFFICES ASSUME NEW i \in Ids, NEW t \in Time, succeeded'[i][t] > 0
               PROVE  heartbeat'[Slug(i)] >= t
    OBVIOUS
  <2>1. Slug(i) \in Slugs /\ heartbeat[Slug(i)] >= t /\ t \in Int
    BY EntryType, DispatchAssumption DEF Books, HeartbeatBooks, Ledger, Time
  <2> QED BY <2>1, <1>3, <1>4
<1>6. HeartbeatBooks'
  BY <1>4, <1>5 DEF HeartbeatBooks
<1> QED BY <1>1, <1>2, <1>6 DEF Books

\* What the books speak of, at one schedule and one label, is in its type.
LEMMA BooksType ==
  ASSUME TypeOK, NEW i \in Ids, NEW l \in Time
  PROVE  /\ started[i][l] \in Nat /\ uncounted[i][l] \in Nat /\ succeeded[i][l] \in Nat
         /\ Slug(i) \in Slugs /\ window[Slug(i)][l] \in WindowState
         /\ window[Slug(i)][l].attempts \in Nat
  BY EntryType DEF TypeOK, HistoryType, FilesType, WindowState

\* A single process keeps its books: the inductive step of RunBudget,
\* SucceedsOnce and GivenUpIsFinal.
LEMMA NextBooks ==
  ASSUME NEW d, Procs = {d}, TypeOK, TypeOK', Books, [Next]_vars
  PROVE  Books'
<1> DEFINE i == pos[d]
           l == WindowLabel(expected[d])
<1>0. /\ now \in Int /\ tick_now[d] \in Int /\ expected[d] \in Time
      /\ pc[d] \in PCs /\ tick_now[d] <= now
  BY DispatchAssumption DEF TypeOK, WorldType, LocalsType, Time, Books, HandBooks
<1>1. CASE BeginTick(d)
  BY <1>0, <1>1, IdleBooks DEF BeginTick, InHand, files, history, Ledger, TypeOK, LocalsType
<1>2. CASE Skip(d)
  BY <1>0, <1>2, IdleBooks DEF Skip, InHand, files, history, Ledger, AtSchedule
<1>3. CASE BeginSweep(d)
  BY <1>0, <1>3, IdleBooks DEF BeginSweep, InHand, history, Ledger, TypeOK, LocalsType
<1>4. CASE SweepOne(d)
  BY <1>0, <1>4, IdleBooks DEF SweepOne, InHand, files, Ledger, AtSchedule
<1>5. CASE EndSweep(d)
  <2>1. 0 <= now
    BY DEF TypeOK, WorldType, Time
  <2>2. pc[d] \notin InHand /\ pc'[d] \notin InHand /\ tick_now'[d] = 0
    BY <1>5 DEF EndSweep, ForgetTick, InHand, TypeOK, LocalsType
  <2> QED BY <1>5, <2>1, <2>2, IdleBooks DEF EndSweep, Ledger
<1>6. CASE Pass
  BY <1>0, <1>6, WorldBooks DEF Pass, files, history, Ledger
<1>7. CASE Unplug
  BY <1>0, <1>7, WorldBooks DEF Unplug, files, history, Ledger
<1>8. ASSUME NEW j \in Ids, ManualRun(j) PROVE Books'
  <2>1. \E g \in Slugs : heartbeat' = [heartbeat EXCEPT ![g] = now]
    BY <1>8, EntryType DEF ManualRun
  <2>2. UNCHANGED Ledger /\ UNCHANGED locals /\ now <= now'
    BY <1>0, <1>8 DEF ManualRun, Ledger
  <2> QED BY <2>1, <2>2, WorldBooks
<1>9. CASE UNCHANGED vars
  BY <1>0, <1>9, WorldBooks DEF vars, files, history, Ledger
<1>10. CASE GiveUpExhausted(d)
  <2> USE <1>10 DEF GiveUpExhausted
  <2> DEFINE e == Expected(i, tick_now[d])
  <2>1. /\ e \in Time /\ e <= tick_now[d] /\ ~read_window(i, e).given_up
        /\ read_window(i, e) \in WindowState
    BY GateFacts DEF TypeOK, FilesType, read_window
  <2>2. ~inflight[d] /\ inflight' = inflight
    BY DEF Books, HandBooks, InHand, AtSchedule, history
  <2>3. pc'[d] = "giveup" /\ expected'[d] = e /\ pos' = pos /\ window' = window
    BY DEF TypeOK, LocalsType, files
  <2>4. copy'[d].attempts = read_window(i, e).attempts
    BY <2>1 DEF TypeOK, LocalsType, WindowState
  <2> HIDE DEF e
  <2>5. InHandFile(d)' = read_window(i, e)
    BY <2>3 DEF InHandFile, read_window
  <2>6. HandBooks'
    BY <1>0, <2>1, <2>2, <2>3, <2>4, <2>5 DEF HandBooks, InHand, WindowState
  <2>7. \A j \in Ids, k \in Time : ~Pending(j, k) /\ ~Pending(j, k)'
    BY <2>2 DEF Pending
  <2>8. RunBooks' /\ HeartbeatBooks'
    BY <2>7 DEF Books, RunBooks, HeartbeatBooks, files, history
  <2> QED BY <2>6, <2>8 DEF Books
<1>11. CASE StartRun(d)
  <2> USE <1>11 DEF StartRun
  <2> DEFINE e == Expected(i, tick_now[d])
  <2>1. /\ i \in Ids /\ Slug(i) \in Slugs /\ e \in Time /\ e <= tick_now[d]
        /\ heartbeat[Slug(i)] < e /\ WindowLabel(e) \in Time
        /\ ~read_window(i, e).given_up /\ read_window(i, e) \in WindowState
    BY GateFacts DEF TypeOK, FilesType, read_window
  <2>2. ~inflight[d] /\ inflight'[d]
    BY DEF Books, HandBooks, InHand, AtSchedule, TypeOK, HistoryType
  <2>3. pc'[d] = "running" /\ expected'[d] = e /\ pos' = pos /\ window' = window
    BY DEF TypeOK, LocalsType, files
  <2>4. copy'[d].attempts = read_window(i, e).attempts
    BY <2>1 DEF TypeOK, LocalsType, WindowState
  <2>5. succeeded[i][e] = 0
    <3> HIDE DEF e
    <3>1. succeeded[i][e] > 0 => heartbeat[Slug(i)] >= e
      BY <2>1 DEF Books, HeartbeatBooks
    <3>2. heartbeat[Slug(i)] \in Int /\ e \in Int
      BY <2>1, DispatchAssumption DEF TypeOK, FilesType, OptTime, NoTime, Time
    <3> QED BY <3>1, <3>2, <2>1, BooksType
  <2>6. started' = [started EXCEPT ![i][WindowLabel(e)] = @ + 1]
    OBVIOUS
  <2> HIDE DEF e
  <2>7. InHandFile(d)' = read_window(i, e)
    BY <2>3 DEF InHandFile, read_window
  <2>8. HandBooks'
    BY <1>0, <2>1, <2>2, <2>3, <2>4, <2>5, <2>7 DEF HandBooks, InHand
  <2>9. \A j \in Ids, k \in Time :
           ~Pending(j, k) /\ (Pending(j, k)' <=> j = i /\ k = WindowLabel(e))
    BY <2>2, <2>3 DEF Pending
  <2>10. RunBooks'
    <3> SUFFICES ASSUME NEW j \in Ids, NEW k \in Time
                 PROVE  started'[j][k] <= uncounted[j][k] + window[Slug(j)][k].attempts
                                            + IF Pending(j, k)' THEN 1 ELSE 0
      BY <2>3 DEF RunBooks
    <3>1. started[j][k] <= uncounted[j][k] + window[Slug(j)][k].attempts
      BY <2>9, BooksType DEF Books, RunBooks
    <3>2. started'[j][k] = IF j = i /\ k = WindowLabel(e) THEN started[j][k] + 1
                                                          ELSE started[j][k]
      <4>1. started \in [Ids -> [Time -> Nat]]
        BY DEF TypeOK, HistoryType
      <4> HIDE DEF i
      <4> QED BY <4>1, <2>1, <2>6, BumpType
    <3> QED BY <3>1, <3>2, <2>9, BooksType
  <2>11. HeartbeatBooks'
    BY DEF Books, HeartbeatBooks, files
  <2> QED BY <2>8, <2>10, <2>11 DEF Books
<1>12. CASE GiveUp(d)
  <2> USE <1>12 DEF GiveUp
  <2>1. UNCHANGED <<window, pos, expected, inflight, now, heartbeat, tick_now>>
    BY DEF history
  <2>2. copy[d] \in WindowState /\ copy'[d].attempts = copy[d].attempts
    BY DEF TypeOK, LocalsType, WindowState
  <2>3. pc[d] = "giveup" /\ pc'[d] \in {"announce", "write"}
    BY DEF TypeOK, LocalsType, AtSchedule
  <2>4. HandBooks'
    BY <2>1, <2>2, <2>3 DEF Books, HandBooks, InHandFile, InHand
  <2>5. RunBooks' /\ HeartbeatBooks'
    BY <2>1 DEF Books, RunBooks, HeartbeatBooks, Pending, history
  <2> QED BY <2>4, <2>5 DEF Books
<1>13. CASE Announce(d)
  <2> USE <1>13 DEF Announce
  <2>1. UNCHANGED <<window, pos, expected, inflight, now, heartbeat, tick_now, copy>>
    BY DEF files
  <2>2. pc[d] = "announce" /\ pc'[d] = "write"
    BY DEF TypeOK, LocalsType, AtSchedule
  <2>3. HandBooks'
    BY <2>1, <2>2 DEF Books, HandBooks, InHandFile, InHand
  <2>4. RunBooks' /\ HeartbeatBooks'
    BY <2>1 DEF Books, RunBooks, HeartbeatBooks, Pending
  <2> QED BY <2>3, <2>4 DEF Books
<1>14. CASE WriteWindow(d)
  <2> USE <1>14 DEF WriteWindow
  <2>1. /\ i \in Ids /\ Slug(i) \in Slugs /\ l \in Time
        /\ copy[d] \in WindowState /\ copy[d].attempts \in Nat
    BY <1>0, EntryType, LabelType DEF AtSchedule, TypeOK, LocalsType, WindowState
  <2>2. copy[d].attempts = window[Slug(i)][l].attempts + IF inflight[d] THEN 1 ELSE 0
    BY DEF Books, HandBooks, InHandFile, InHand, AtSchedule
  <2>3. ~inflight'[d] /\ pc'[d] = "dispatch" /\ UNCHANGED <<now, tick_now>>
    BY DEF TypeOK, LocalsType, HistoryType
  <2>4. HandBooks'
    BY <1>0, <2>3 DEF HandBooks, InHand
  <2>5. RunBooks'
    <3> SUFFICES ASSUME NEW j \in Ids, NEW k \in Time
                 PROVE  started[j][k] <= uncounted[j][k] + window'[Slug(j)][k].attempts
                                           + IF Pending(j, k)' THEN 1 ELSE 0
      BY DEF RunBooks
    <3>0. ~Pending(j, k)'
      BY <2>3 DEF Pending
    <3>1. started[j][k] <= uncounted[j][k] + window[Slug(j)][k].attempts
                             + IF Pending(j, k) THEN 1 ELSE 0
      BY DEF Books, RunBooks
    <3>2. Pending(j, k) => inflight[d] /\ j = i /\ k = l
      BY DEF Pending
    <3>3. window'[Slug(j)][k] = IF Slug(j) = Slug(i) /\ k = l THEN copy[d]
                                                              ELSE window[Slug(j)][k]
      BY <2>1, BooksType DEF TypeOK, FilesType
    <3> HIDE DEF i, l
    <3> QED BY <3>0, <3>1, <3>2, <3>3, <2>1, <2>2, BooksType
  <2>6. HeartbeatBooks'
    BY DEF Books, HeartbeatBooks
  <2> QED BY <2>4, <2>5, <2>6 DEF Books
<1>15. CASE Crash(d)
  <2> USE <1>15 DEF Crash, ForgetTick
  <2>1. /\ ~inflight'[d] /\ pc'[d] = "idle" /\ tick_now'[d] = 0
        /\ UNCHANGED <<now, window, started, succeeded, heartbeat>>
    BY DEF TypeOK, LocalsType, HistoryType
  <2>2. 0 <= now
    BY DEF TypeOK, WorldType, Time
  <2>3. HandBooks'
    BY <2>1, <2>2 DEF HandBooks, InHand
  <2>4. RunBooks'
    <3> SUFFICES ASSUME NEW j \in Ids, NEW k \in Time
                 PROVE  started[j][k] <= uncounted'[j][k] + window[Slug(j)][k].attempts
                                           + IF Pending(j, k)' THEN 1 ELSE 0
      BY <2>1 DEF RunBooks
    <3>0. ~Pending(j, k)'
      BY <2>1 DEF Pending
    <3>1. started[j][k] <= uncounted[j][k] + window[Slug(j)][k].attempts
                             + IF Pending(j, k) THEN 1 ELSE 0
      BY DEF Books, RunBooks
    <3>2. Pending(j, k) <=> inflight[d] /\ j = i /\ k = l
      BY DEF Pending
    <3>3. l \in Time /\ (inflight[d] => i \in Ids) /\ uncounted \in [Ids -> [Time -> Nat]]
      BY <1>0, LabelType
      DEF Books, HandBooks, TypeOK, Positioned, HistoryType
    <3>4. CASE inflight[d]
      <4>1. uncounted' = [uncounted EXCEPT ![i][l] = @ + 1]
        BY <3>4
      <4> HIDE DEF i, l
      <4>2. uncounted'[j][k] = IF j = i /\ k = l THEN uncounted[j][k] + 1 ELSE uncounted[j][k]
        BY <3>3, <3>4, <4>1, BumpType
      <4> QED BY <3>0, <3>1, <3>2, <4>2, BooksType
    <3>5. CASE ~inflight[d]
      BY <3>0, <3>1, <3>2, <3>5, BooksType
    <3> QED BY <3>4, <3>5
  <2>5. HeartbeatBooks'
    BY <2>1 DEF Books, HeartbeatBooks
  <2> QED BY <2>3, <2>4, <2>5 DEF Books
<1>16. CASE EndRun(d)
  <2> PICK o \in Outcomes : EndRun(d)!(o)
    BY <1>16 DEF EndRun
  <2>1. /\ i \in Ids /\ Slug(i) \in Slugs /\ l \in Time /\ pc[d] = "running"
        /\ copy[d] \in WindowState /\ copy[d].attempts \in Nat
    BY <1>0, EntryType, LabelType DEF AtSchedule, TypeOK, LocalsType, WindowState
  <2>2. /\ inflight[d] /\ copy[d].attempts = InHandFile(d).attempts
        /\ succeeded[i][expected[d]] = 0 /\ expected[d] <= tick_now[d]
        /\ ~InHandFile(d).given_up
    BY <2>1 DEF Books, HandBooks, InHand
  <2>3. \A j \in Ids, k \in Time : Pending(j, k) <=> j = i /\ k = l
    BY <2>2 DEF Pending
  <2>4. CASE o = "error"
    <3>1. ~inflight'[d] /\ pc'[d] = "dispatch" /\ UNCHANGED <<now, tick_now>>
      BY <2>4 DEF TypeOK, LocalsType, HistoryType, AfterRun
    <3>2. HandBooks'
      BY <1>0, <3>1 DEF HandBooks, InHand
    <3>3. RunBooks'
      <4> SUFFICES ASSUME NEW j \in Ids, NEW k \in Time
                   PROVE  started[j][k] <= uncounted'[j][k] + window[Slug(j)][k].attempts
                                             + IF Pending(j, k)' THEN 1 ELSE 0
        BY DEF RunBooks
      <4>0. ~Pending(j, k)'
        BY <3>1 DEF Pending
      <4>1. started[j][k] <= uncounted[j][k] + window[Slug(j)][k].attempts
                               + IF Pending(j, k) THEN 1 ELSE 0
        BY DEF Books, RunBooks
      <4>2. uncounted' = [uncounted EXCEPT ![i][l] = @ + 1]
        BY <2>4
      <4>3. uncounted \in [Ids -> [Time -> Nat]]
        BY DEF TypeOK, HistoryType
      <4> HIDE DEF i, l
      <4>4. uncounted'[j][k] = IF j = i /\ k = l THEN uncounted[j][k] + 1 ELSE uncounted[j][k]
        BY <2>1, <4>2, <4>3, BumpType
      <4> QED BY <4>0, <4>1, <4>4, <2>3, BooksType
    <3>4. HeartbeatBooks'
      BY <2>4 DEF Books, HeartbeatBooks
    <3> QED BY <3>2, <3>3, <3>4 DEF Books
  <2>5. CASE o # "error"
    <3>1. UNCHANGED <<now, tick_now, window, pos, expected, inflight, started, uncounted>>
      BY <2>5
    <3>2. copy'[d].attempts = copy[d].attempts + 1
      <4>1. copy'[d] = Counted(copy[d], o, tick_now[d])
        BY <2>5 DEF TypeOK, LocalsType
      <4> QED BY <4>1, <2>1 DEF Counted, WindowState
    <3>3. pc'[d] \in {"giveup", "write"}
      BY <2>5 DEF AfterRun, TypeOK, LocalsType
    <3>4. InHandFile(d)' = InHandFile(d)
      BY <3>1 DEF InHandFile
    <3>5. HandBooks'
      BY <1>0, <2>2, <3>1, <3>2, <3>3, <3>4 DEF HandBooks, InHand
    <3>6. RunBooks'
      BY <3>1 DEF Books, RunBooks, Pending
    <3>7. HeartbeatBooks'
      <4> DEFINE e == expected[d]
      <4>1. CASE o # "ok"
        BY <2>5, <4>1 DEF Books, HeartbeatBooks
      <4>2. CASE o = "ok"
        <5>1. /\ heartbeat' = [heartbeat EXCEPT ![Slug(i)] = now] /\ now' = now
              /\ succeeded' = [succeeded EXCEPT ![i][e] = @ + 1]
          BY <4>2
        <5>2. \A g \in Slugs : heartbeat[g] <= now /\ heartbeat[g] \in Int
          BY DispatchAssumption
          DEF Books, HeartbeatBooks, TypeOK, FilesType, OptTime, Time, NoTime
        <5>3. e \in Time /\ e \in Int /\ e <= now
          BY <1>0, <2>2, DispatchAssumption DEF Time
        <5>4. \A g \in Slugs : heartbeat'[g] = IF g = Slug(i) THEN now ELSE heartbeat[g]
          BY <5>1 DEF TypeOK, FilesType
        <5>5. ASSUME NEW j \in Ids, NEW k \in Time, succeeded'[j][k] > 0
              PROVE  heartbeat'[Slug(j)] >= k
          <6>0. k \in Int
            BY DispatchAssumption DEF Time
          <6>1. succeeded \in [Ids -> [Time -> Nat]]
            BY DEF TypeOK, HistoryType
          <6> HIDE DEF i, e
          <6>2. succeeded'[j][k] = IF j = i /\ k = e THEN succeeded[j][k] + 1
                                                     ELSE succeeded[j][k]
            BY <6>1, <5>1, <5>3, <2>1, BumpType
          <6>3. CASE j = i /\ k = e
            BY <6>3, <5>3, <5>4, <2>1, <1>0
          <6>4. CASE ~(j = i /\ k = e)
            <7>1. heartbeat[Slug(j)] >= k /\ Slug(j) \in Slugs
              BY <5>5, <6>2, <6>4, EntryType DEF Books, HeartbeatBooks
            <7> QED BY <7>1, <5>2, <5>4, <6>0, <1>0
          <6> QED BY <6>3, <6>4
        <5>6. \A g \in Slugs : heartbeat'[g] <= now'
          BY <5>1, <5>2, <5>4, <1>0
        <5> QED BY <5>5, <5>6 DEF HeartbeatBooks
      <4> QED BY <4>1, <4>2
    <3> QED BY <3>5, <3>6, <3>7 DEF Books
  <2> QED BY <2>4, <2>5
<1> QED BY <1>1, <1>2, <1>3, <1>4, <1>5, <1>6, <1>7, <1>8, <1>9, <1>10, <1>11, <1>12,
           <1>13, <1>14, <1>15, <1>16 DEF Next, Step

\* StartRun is the only action that starts a run, and it starts one of a window
\* that is not given up and has attempts left; EndRun is the only one after
\* which a window has succeeded once more.
LEMMA RunSteps ==
  ASSUME NEW d, Procs = {d}, TypeOK, [Next]_vars, NEW i \in Ids, NEW l \in Time
  PROVE  /\ \/ started'[i][l] = started[i][l]
            \/ /\ pc[d] = "dispatch" /\ started'[i][l] = started[i][l] + 1
               /\ window[Slug(i)][l].attempts < Manifest[i].max_retries
               /\ ~window[Slug(i)][l].given_up
         /\ uncounted'[i][l] >= uncounted[i][l]
         /\ \/ succeeded'[i][l] = succeeded[i][l]
            \/ /\ pc[d] = "running" /\ i = pos[d] /\ l = expected[d]
               /\ succeeded'[i][l] = succeeded[i][l] + 1
<1>1. /\ started \in [Ids -> [Time -> Nat]] /\ uncounted \in [Ids -> [Time -> Nat]]
      /\ succeeded \in [Ids -> [Time -> Nat]]
      /\ started[i][l] \in Nat /\ uncounted[i][l] \in Nat /\ succeeded[i][l] \in Nat
  BY DEF TypeOK, HistoryType
<1>2. CASE UNCHANGED <<started, uncounted, succeeded>>
  BY <1>1, <1>2
<1>3. CASE StartRun(d)
  <2> DEFINE e == Expected(pos[d], tick_now[d])
  <2>1. /\ pos[d] \in Ids /\ WindowLabel(e) \in Time /\ pc[d] = "dispatch"
        /\ Slug(pos[d]) \in Slugs
        /\ ~read_window(pos[d], e).given_up
        /\ ~Exhausted(pos[d], read_window(pos[d], e))
        /\ started' = [started EXCEPT ![pos[d]][WindowLabel(e)] = @ + 1]
        /\ UNCHANGED <<uncounted, succeeded>>
    BY <1>3, GateFacts DEF StartRun, AtSchedule
  <2> HIDE DEF e
  <2>2. started'[i][l] = IF i = pos[d] /\ l = WindowLabel(e) THEN started[i][l] + 1
                                                             ELSE started[i][l]
    BY <1>1, <2>1, BumpType
  <2>3. read_window(pos[d], e) \in WindowState
    BY <2>1 DEF read_window, TypeOK, FilesType
  <2>4. read_window(pos[d], e).attempts < Manifest[pos[d]].max_retries
    BY <2>1, <2>3, EntryType DEF Exhausted, WindowState
  <2> QED BY <1>1, <2>1, <2>2, <2>4 DEF read_window
<1>4. CASE EndRun(d)
  <2> PICK o \in Outcomes : EndRun(d)!(o)
    BY <1>4 DEF EndRun
  <2> DEFINE k == WindowLabel(expected[d])
  <2>1. /\ pos[d] \in Ids /\ expected[d] \in Time /\ k \in Time
        /\ pc[d] = "running" /\ started' = started
    BY LabelType DEF AtSchedule, TypeOK, LocalsType
  <2>2. uncounted' = uncounted \/ uncounted' = [uncounted EXCEPT ![pos[d]][k] = @ + 1]
    OBVIOUS
  <2>3. succeeded' = succeeded
          \/ succeeded' = [succeeded EXCEPT ![pos[d]][expected[d]] = @ + 1]
    OBVIOUS
  <2> HIDE DEF k
  <2>4. uncounted'[i][l] >= uncounted[i][l]
    <3>1. CASE uncounted' = uncounted
      BY <1>1, <3>1
    <3>2. CASE uncounted' = [uncounted EXCEPT ![pos[d]][k] = @ + 1]
      <4>1. uncounted'[i][l] \in {uncounted[i][l], uncounted[i][l] + 1}
        BY <1>1, <2>1, <3>2, BumpType
      <4> QED BY <1>1, <4>1
    <3> QED BY <2>2, <3>1, <3>2
  <2>5. \/ succeeded'[i][l] = succeeded[i][l]
        \/ /\ i = pos[d] /\ l = expected[d]
           /\ succeeded'[i][l] = succeeded[i][l] + 1
    BY <1>1, <2>1, <2>3, BumpType
  <2> QED BY <2>1, <2>4, <2>5
<1>5. CASE Crash(d)
  <2> DEFINE k == WindowLabel(expected[d])
  <2>1. k \in Time /\ UNCHANGED <<started, succeeded>>
    BY <1>5, LabelType DEF Crash, TypeOK, LocalsType
  <2>2. uncounted' = uncounted \/ uncounted' = [uncounted EXCEPT ![pos[d]][k] = @ + 1]
    BY <1>5 DEF Crash
  <2> HIDE DEF k
  <2>3. CASE uncounted' = uncounted \/ pos[d] \notin Ids
    BY <1>1, <2>1, <2>2, <2>3
  <2>4. CASE pos[d] \in Ids /\ uncounted' = [uncounted EXCEPT ![pos[d]][k] = @ + 1]
    <3>1. uncounted'[i][l] \in {uncounted[i][l], uncounted[i][l] + 1}
      BY <1>1, <2>1, <2>4, BumpType
    <3> QED BY <1>1, <2>1, <3>1
  <2> QED BY <2>2, <2>3, <2>4
<1>6. CASE BeginTick(d) \/ Skip(d) \/ GiveUpExhausted(d) \/ GiveUp(d) \/ Announce(d)
  BY <1>6, <1>2 DEF BeginTick, Skip, GiveUpExhausted, GiveUp, Announce, history
<1>7. CASE WriteWindow(d) \/ BeginSweep(d) \/ SweepOne(d) \/ EndSweep(d)
  BY <1>7, <1>2 DEF WriteWindow, BeginSweep, SweepOne, EndSweep, history
<1>8. CASE Pass \/ Unplug \/ UNCHANGED vars \/ \E j \in Ids : ManualRun(j)
  BY <1>8, <1>2 DEF Pass, Unplug, ManualRun, vars, history
<1> QED BY <1>3, <1>4, <1>5, <1>6, <1>7, <1>8 DEF Next, Step

\* The inductive step of the run budget and of single success.
LEMMA NextBudget ==
  ASSUME NEW d, Procs = {d}, TypeOK, Books, RunBudget, SucceedsOnce, [Next]_vars
  PROVE  RunBudget' /\ SucceedsOnce'
<1>1. ASSUME NEW i \in Ids, NEW l \in Time
      PROVE  started'[i][l] <= Manifest[i].max_retries + uncounted'[i][l]
  <2>1. /\ started[i][l] <= Manifest[i].max_retries + uncounted[i][l]
        /\ started[i][l] <= uncounted[i][l] + window[Slug(i)][l].attempts
                               + IF Pending(i, l) THEN 1 ELSE 0
    BY DEF RunBudget, Books, RunBooks
  <2>2. /\ started[i][l] \in Nat /\ uncounted[i][l] \in Nat
        /\ window[Slug(i)][l].attempts \in Nat /\ Manifest[i].max_retries \in Nat
    BY BooksType, EntryType
  <2>3. uncounted'[i][l] >= uncounted[i][l] /\ uncounted'[i][l] \in Nat
    BY RunSteps, NextType DEF TypeOK, HistoryType
  <2>4. CASE started'[i][l] = started[i][l]
    BY <2>1, <2>2, <2>3, <2>4
  <2>5. CASE /\ pc[d] = "dispatch" /\ started'[i][l] = started[i][l] + 1
             /\ window[Slug(i)][l].attempts < Manifest[i].max_retries
    <3>1. ~Pending(i, l)
      BY <2>5 DEF Pending, Books, HandBooks, InHand
    <3> QED BY <2>1, <2>2, <2>3, <2>5, <3>1
  <2> QED BY <2>4, <2>5, RunSteps
<1>2. ASSUME NEW i \in Ids, NEW t \in Time
      PROVE  succeeded'[i][t] <= 1
  <2>1. succeeded[i][t] <= 1 /\ succeeded[i][t] \in Nat
    BY BooksType DEF SucceedsOnce
  <2>2. pc[d] = "running" => succeeded[pos[d]][expected[d]] = 0
    BY DEF Books, HandBooks
  <2> QED BY <2>1, <2>2, RunSteps
<1> QED BY <1>1, <1>2 DEF RunBudget, SucceedsOnce

\* With one process ticking, no window is run more often than max_retries plus
\* the runs that dispatch_one could not count, and none succeeds twice: for
\* every manifest (schedules that share a slug included), every ladder, every
\* number of deaths.
THEOREM BudgetKept ==
  ASSUME NEW d, Procs = {d}
  PROVE  Spec => [](RunBudget /\ SucceedsOnce)
<1> DEFINE IInv == TypeOK /\ Books /\ RunBudget /\ SucceedsOnce
<1>1. Init => IInv
  BY InitType, InitBooks
<1>2. IInv /\ [Next]_vars => IInv'
  BY NextType, NextBooks, NextBudget
<1>3. IInv => RunBudget /\ SucceedsOnce
  OBVIOUS
<1> QED BY <1>1, <1>2, <1>3, PTL DEF Spec

\* With one process ticking, a window that was given up stays given up and is
\* never run again.
THEOREM GiveUpIsFinal ==
  ASSUME NEW d, Procs = {d}
  PROVE  Spec => GivenUpIsFinal
<1> DEFINE IInv == TypeOK /\ Books
           Final == \A i \in Ids, l \in Time :
                      window[Slug(i)][l].given_up =>
                          /\ window'[Slug(i)][l].given_up
                          /\ started'[i][l] = started[i][l]
<1>1. Init => IInv
  BY InitType, InitBooks
<1>2. IInv /\ [Next]_vars => IInv'
  BY NextType, NextBooks
<1>3. IInv /\ [Next]_vars => Final
  <2> SUFFICES ASSUME IInv, [Next]_vars, NEW i \in Ids, NEW l \in Time,
                      window[Slug(i)][l].given_up
               PROVE  window'[Slug(i)][l].given_up /\ started'[i][l] = started[i][l]
    OBVIOUS
  <2>1. started'[i][l] = started[i][l]
    BY RunSteps
  <2>2. CASE window' = window
    BY <2>1, <2>2
  <2>3. CASE WriteWindow(d)
    <3>1. /\ pos[d] \in Ids /\ Slug(pos[d]) \in Slugs /\ Slug(i) \in Slugs
          /\ WindowLabel(expected[d]) \in Time
      BY <2>3, EntryType, LabelType DEF WriteWindow, AtSchedule, TypeOK, LocalsType
    <3>2. ~InHandFile(d).given_up
      BY <2>3 DEF WriteWindow, AtSchedule, Books, HandBooks, InHand
    <3>3. ~(Slug(i) = Slug(pos[d]) /\ l = WindowLabel(expected[d]))
      BY <3>2 DEF InHandFile
    <3>4. window'[Slug(i)][l] = window[Slug(i)][l]
      BY <2>3, <3>1, <3>3 DEF WriteWindow, TypeOK, FilesType
    <3> QED BY <2>1, <3>4
  <2>4. window' = window \/ WriteWindow(d)
    <3>1. CASE BeginTick(d) \/ Skip(d) \/ GiveUpExhausted(d) \/ StartRun(d) \/ EndRun(d)
      BY <3>1 DEF BeginTick, Skip, GiveUpExhausted, StartRun, EndRun, files
    <3>2. CASE GiveUp(d) \/ Announce(d) \/ BeginSweep(d) \/ SweepOne(d) \/ EndSweep(d) \/ Crash(d)
      BY <3>2 DEF GiveUp, Announce, BeginSweep, SweepOne, EndSweep, Crash, files
    <3>3. CASE Pass \/ Unplug \/ UNCHANGED vars \/ \E j \in Ids : ManualRun(j)
      BY <3>3 DEF Pass, Unplug, ManualRun, vars, files
    <3> QED BY <3>1, <3>2, <3>3 DEF Next, Step
  <2> QED BY <2>2, <2>3, <2>4
<1>4. IInv /\ [Next]_vars => [Final]_vars
  BY <1>3
<1> QED BY <1>1, <1>2, <1>4, PTL DEF Spec, GivenUpIsFinal

-----------------------------------------------------------------------------
(* The alert table and the notices.                                        *)

\* The processes between the record of a give-up and its notice.
Announcers(i) == {p \in Procs : Announcing(p, i)}

\* Notices of an alert that are recorded and still to be sent.
Owed(i, e) == IF e = "given_up" THEN Cardinality(Announcers(i)) ELSE 0

\* The alert table that counts: the copy of the sweep that holds the lock, or
\* else the file.
InForce == IF lock = NoProc THEN alerts ELSE table[lock]

\* The lock is held by the process that sweeps, and by no other.
SweeperHolds == \A p \in Procs : pc[p] = "sweep" <=> lock = p

\* The table in force is ahead of the notices by those still owed.
NoticeBooks ==
    \A i \in Ids, e \in Events :
        <<i, e>> \in parted \/ InForce[i][e].count = said[i][e].count + Owed(i, e)

AlertInv == SweeperHolds /\ NoticeBooks

\* Announcing starts at GiveUp and ends at Announce or with the process.
LEMMA AnnouncerSteps ==
  ASSUME TypeOK, [Next]_vars
  PROVE  \/ \A q \in Procs, i \in Ids : Announcing(q, i)' <=> Announcing(q, i)
         \/ \E p \in Procs :
              /\ GiveUp(p) \/ Announce(p) \/ Crash(p)
              /\ \A q \in Procs \ {p} : pc'[q] = pc[q] /\ pos'[q] = pos[q]
<1> USE DEF TypeOK, LocalsType, AtSchedule, Announcing
<1> DEFINE Goal ==
       \/ \A q \in Procs, i \in Ids : Announcing(q, i)' <=> Announcing(q, i)
       \/ \E p \in Procs :
            /\ GiveUp(p) \/ Announce(p) \/ Crash(p)
            /\ \A q \in Procs \ {p} : pc'[q] = pc[q] /\ pos'[q] = pos[q]
<1>1. ASSUME NEW p \in Procs, BeginTick(p) \/ BeginSweep(p) \/ EndSweep(p) PROVE Goal
  BY <1>1 DEF BeginTick, BeginSweep, EndSweep, ForgetTick
<1>2. ASSUME NEW p \in Procs, GiveUpExhausted(p) \/ StartRun(p) PROVE Goal
  BY <1>2 DEF GiveUpExhausted, StartRun
<1>3. ASSUME NEW p \in Procs, Skip(p) \/ WriteWindow(p) \/ SweepOne(p) PROVE Goal
  BY <1>3 DEF Skip, WriteWindow, SweepOne
<1>4. ASSUME NEW p \in Procs, EndRun(p) PROVE Goal
  BY <1>4 DEF EndRun, AfterRun
<1>5. ASSUME NEW p \in Procs, GiveUp(p) PROVE Goal
  BY <1>5 DEF GiveUp
<1>6. ASSUME NEW p \in Procs, Announce(p) PROVE Goal
  BY <1>6 DEF Announce
<1>7. ASSUME NEW p \in Procs, Crash(p) PROVE Goal
  BY <1>7 DEF Crash, ForgetTick
<1>8. CASE Pass \/ Unplug \/ UNCHANGED vars \/ \E i \in Ids : ManualRun(i)
  BY <1>8 DEF Pass, Unplug, ManualRun, vars, locals
<1> QED BY <1>1, <1>2, <1>3, <1>4, <1>5, <1>6, <1>7, <1>8 DEF Next, Step

\* Whoever is announcing, the others owe what they owed before.
LEMMA OwedOne ==
  ASSUME IsFiniteSet(Procs), TypeOK, NEW p \in Procs, NEW i \in Ids,
         \A q \in Procs \ {p} : pc'[q] = pc[q] /\ pos'[q] = pos[q]
  PROVE  /\ Announcing(p, i) /\ ~Announcing(p, i)' =>
                Owed(i, "given_up")' = Owed(i, "given_up") - 1
         /\ ~Announcing(p, i) /\ Announcing(p, i)' =>
                Owed(i, "given_up")' = Owed(i, "given_up") + 1
         /\ (Announcing(p, i) <=> Announcing(p, i)') =>
                Owed(i, "given_up")' = Owed(i, "given_up")
         /\ Owed(i, "given_up") \in Nat
<1>1. IsFiniteSet(Announcers(i)) /\ IsFiniteSet(Announcers(i)')
  BY FS_Subset DEF Announcers
<1>2. Cardinality(Announcers(i)) \in Nat
  BY <1>1, FS_CardinalityType
<1>3. ASSUME Announcing(p, i), ~Announcing(p, i)'
      PROVE  Cardinality(Announcers(i)') = Cardinality(Announcers(i)) - 1
  <2>1. p \in Announcers(i) /\ Announcers(i)' = Announcers(i) \ {p}
    BY <1>3 DEF Announcers, Announcing
  <2> QED BY <1>1, <2>1, FS_RemoveElement
<1>4. ASSUME ~Announcing(p, i), Announcing(p, i)'
      PROVE  Cardinality(Announcers(i)') = Cardinality(Announcers(i)) + 1
  <2>1. p \notin Announcers(i) /\ Announcers(i)' = Announcers(i) \union {p}
    BY <1>4 DEF Announcers, Announcing
  <2> QED BY <1>1, <2>1, FS_AddElement
<1>5. ASSUME Announcing(p, i) <=> Announcing(p, i)'
      PROVE  Cardinality(Announcers(i)') = Cardinality(Announcers(i))
  <2>1. Announcers(i)' = Announcers(i)
    BY <1>5 DEF Announcers, Announcing
  <2> QED BY <2>1
<1> QED BY <1>2, <1>3, <1>4, <1>5 DEF Owed

\* The lock is taken by BeginSweep and let go by EndSweep or a crash.
LEMMA SweeperStep == ASSUME TypeOK, SweeperHolds, [Next]_vars PROVE SweeperHolds'
<1> USE DispatchAssumption DEF TypeOK, LocalsType, FilesType, SweeperHolds, AtSchedule
<1>1. ASSUME NEW p \in Procs, BeginTick(p) \/ BeginSweep(p) PROVE SweeperHolds'
  BY <1>1 DEF BeginTick, BeginSweep, files
<1>2. ASSUME NEW p \in Procs, EndSweep(p) \/ Crash(p) PROVE SweeperHolds'
  BY <1>2 DEF EndSweep, Crash, ForgetTick
<1>3. ASSUME NEW p \in Procs, GiveUpExhausted(p) \/ StartRun(p) \/ Announce(p) PROVE SweeperHolds'
  BY <1>3 DEF GiveUpExhausted, StartRun, Announce, files
<1>4. ASSUME NEW p \in Procs, Skip(p) \/ WriteWindow(p) \/ SweepOne(p) PROVE SweeperHolds'
  BY <1>4 DEF Skip, WriteWindow, SweepOne, files
<1>5. ASSUME NEW p \in Procs, EndRun(p) PROVE SweeperHolds'
  BY <1>5 DEF EndRun, AfterRun
<1>6. ASSUME NEW p \in Procs, GiveUp(p) PROVE SweeperHolds'
  BY <1>6 DEF GiveUp
<1>7. CASE Pass \/ Unplug \/ UNCHANGED vars \/ \E i \in Ids : ManualRun(i)
  BY <1>7 DEF Pass, Unplug, ManualRun, vars, locals, files
<1> QED BY <1>1, <1>2, <1>3, <1>4, <1>5, <1>6, <1>7 DEF Next, Step

\* The table in force is a table.
LEMMA InForceType ==
  ASSUME TypeOK
  PROVE  /\ InForce \in Tables
         /\ \A i \in Ids, e \in Events :
              /\ InForce[i][e].count \in Nat /\ alerts[i][e].count \in Nat
              /\ said[i][e].count \in Nat
<1>1. InForce \in Tables
  BY DEF TypeOK, LocalsType, FilesType, InForce
<1> QED BY <1>1 DEF TypeOK, FilesType, HistoryType, Tables, Episodes

\* One more notice recorded.
LEMMA RecordCount == ASSUME NEW ep, NEW t PROVE record(ep, t).count = ep.count + 1
BY DEF record

\* A schedule's episodes dropped.
LEMMA ClearSteps ==
  ASSUME NEW tb \in Tables, NEW i \in Ids, NEW tb2, tb2 = clear_pair(tb, i)
  PROVE  \A j \in Ids, f \in Events : tb2[j][f].count = IF j = i THEN 0 ELSE tb[j][f].count
BY DEF Tables, clear_pair, NoEpisode

\* What is owed is a number.
LEMMA OwedType ==
  ASSUME IsFiniteSet(Procs), NEW i, NEW e PROVE Owed(i, e) \in Nat
BY FS_Subset, FS_CardinalityType DEF Owed, Announcers

\* Where the announcers, the table in force and the notices stand still.
LEMMA QuietNotices ==
  ASSUME TypeOK, NoticeBooks, InForce' = InForce, said' = said, parted \subseteq parted',
         \A q \in Procs, i \in Ids : Announcing(q, i)' <=> Announcing(q, i)
  PROVE  NoticeBooks'
<1>1. \A i \in Ids : Announcers(i)' = Announcers(i)
  BY DEF Announcers
<1>2. \A i \in Ids, e \in Events : Owed(i, e)' = Owed(i, e)
  BY <1>1 DEF Owed
<1> QED BY <1>2 DEF NoticeBooks

\* The inductive step of the notice books.
LEMMA NoticeStep ==
  ASSUME IsFiniteSet(Procs), "given_up" \in Listens, TypeOK, AlertInv, [Next]_vars
  PROVE  NoticeBooks'
<1> USE DispatchAssumption DEF TypeOK, LocalsType, FilesType, AlertInv, SweeperHolds, AtSchedule, InForce
<1> DEFINE Same == \A q \in Procs, i \in Ids : Announcing(q, i)' <=> Announcing(q, i)
<1>1. ASSUME NEW p \in Procs, BeginTick(p) PROVE NoticeBooks'
  BY <1>1, QuietNotices DEF BeginTick, files, history, Announcing
<1>2. ASSUME NEW p \in Procs, Skip(p) PROVE NoticeBooks'
  BY <1>2, QuietNotices DEF Skip, files, history, Announcing
<1>3. ASSUME NEW p \in Procs, GiveUpExhausted(p) PROVE NoticeBooks'
  BY <1>3, QuietNotices DEF GiveUpExhausted, files, history, Announcing
<1>4. ASSUME NEW p \in Procs, StartRun(p) PROVE NoticeBooks'
  BY <1>4, QuietNotices DEF StartRun, files, Announcing
<1>5. ASSUME NEW p \in Procs, EndRun(p) PROVE NoticeBooks'
  BY <1>5, QuietNotices DEF EndRun, AfterRun, Announcing
<1>6. ASSUME NEW p \in Procs, WriteWindow(p) PROVE NoticeBooks'
  BY <1>6, QuietNotices DEF WriteWindow, Announcing
<1>7. ASSUME NEW p \in Procs, BeginSweep(p) PROVE NoticeBooks'
  BY <1>7, QuietNotices DEF BeginSweep, history, Announcing
<1>8. ASSUME NEW p \in Procs, EndSweep(p) PROVE NoticeBooks'
  BY <1>8, QuietNotices DEF EndSweep, ForgetTick, Announcing
<1>9. CASE Pass \/ Unplug \/ UNCHANGED vars \/ \E i \in Ids : ManualRun(i)
  BY <1>9, QuietNotices DEF Pass, Unplug, ManualRun, vars, locals, files, history, Announcing
<1>10. ASSUME NEW p \in Procs, GiveUp(p) PROVE NoticeBooks'
  <2> USE <1>10 DEF GiveUp
  <2> SUFFICES ASSUME NEW i \in Ids, NEW e \in Events, <<i, e>> \notin parted
               PROVE  InForce'[i][e].count = said[i][e].count + Owed(i, e)'
    BY DEF NoticeBooks, history
  <2>1. \A q \in Procs \ {p} : pc'[q] = pc[q] /\ pos'[q] = pos[q]
    OBVIOUS
  <2>2. InForce[i][e].count = said[i][e].count + Owed(i, e) /\ InForce = alerts /\ InForce' = alerts'
    BY DEF NoticeBooks
  <2>3. CASE should_notify(alerts[pos[p]]["given_up"], now)
    <3>1. /\ alerts' = [alerts EXCEPT ![pos[p]]["given_up"] = record(@, now)]
          /\ pc'[p] = "announce" /\ pos' = pos /\ pos[p] \in Ids /\ "given_up" \in Events
      BY <2>3 DEF Events
    <3>2. alerts'[i][e].count = alerts[i][e].count + IF i = pos[p] /\ e = "given_up" THEN 1 ELSE 0
      <4>1. alerts \in Tables
        OBVIOUS
      <4>2. alerts'[i][e] = IF i = pos[p] /\ e = "given_up" THEN record(alerts[i][e], now)
                                                            ELSE alerts[i][e]
        BY <3>1, <4>1 DEF Tables
      <4>3. record(alerts[i][e], now).count = alerts[i][e].count + 1 /\ alerts[i][e].count \in Nat
        BY RecordCount, InForceType
      <4> QED BY <4>2, <4>3
    <3>3. Announcing(p, i)' <=> i = pos[p]
      BY <3>1 DEF Announcing
    <3>4. ~Announcing(p, i)
      BY DEF Announcing
    <3>5. Owed(i, e)' = Owed(i, e) + IF i = pos[p] /\ e = "given_up" THEN 1 ELSE 0
      <4>1. CASE e = "given_up"
        BY <2>1, <3>3, <3>4, <4>1, OwedOne
      <4>2. CASE e # "given_up"
        BY <4>2 DEF Owed
      <4> QED BY <4>1, <4>2
    <3>6. Owed(i, e) \in Nat /\ said[i][e].count \in Nat
      BY OwedType, InForceType
    <3>7. alerts[i][e].count \in Nat
      BY InForceType
    <3>8. alerts[i][e].count = said[i][e].count + Owed(i, e) /\ InForce'[i][e].count = alerts'[i][e].count
      BY <2>2
    <3> QED
      <4> DEFINE a == alerts[i][e].count
                 b == alerts'[i][e].count
                 c == said[i][e].count
                 m == Owed(i, e)
                 n == Owed(i, e)'
      <4>1. a \in Nat /\ c \in Nat /\ m \in Nat
        BY <3>6, <3>7
      <4>2. b = a + (IF i = pos[p] /\ e = "given_up" THEN 1 ELSE 0)
        BY <3>2
      <4>3. n = m + (IF i = pos[p] /\ e = "given_up" THEN 1 ELSE 0)
        BY <3>5
      <4>4. a = c + m
        BY <3>8
      <4>5. SUFFICES b = c + n
        BY <3>8
      <4> HIDE DEF a, b, c, m, n
      <4> QED BY <4>1, <4>2, <4>3, <4>4
  <2>4. CASE ~should_notify(alerts[pos[p]]["given_up"], now)
    BY <2>4, QuietNotices DEF history, Announcing, NoticeBooks
  <2> QED BY <2>3, <2>4
<1>11. ASSUME NEW p \in Procs, Announce(p) PROVE NoticeBooks'
  <2> USE <1>11 DEF Announce
  <2> SUFFICES ASSUME NEW i \in Ids, NEW e \in Events, <<i, e>> \notin parted
               PROVE  InForce'[i][e].count = said'[i][e].count + Owed(i, e)'
    BY DEF NoticeBooks
  <2>1. \A q \in Procs \ {p} : pc'[q] = pc[q] /\ pos'[q] = pos[q]
    OBVIOUS
  <2>2. InForce[i][e].count = said[i][e].count + Owed(i, e) /\ InForce' = InForce
    BY DEF NoticeBooks, files
  <2>3. said' = [said EXCEPT ![pos[p]]["given_up"] = record(@, now)] /\ said \in Tables
        /\ "given_up" \in Events /\ pos[p] \in Ids
    BY DEF Say, HistoryType, Events
  <2>4. said'[i][e].count = said[i][e].count + IF i = pos[p] /\ e = "given_up" THEN 1 ELSE 0
    <3>1. said'[i][e] = IF i = pos[p] /\ e = "given_up" THEN record(said[i][e], now)
                                                        ELSE said[i][e]
      BY <2>3 DEF Tables
    <3>2. record(said[i][e], now).count = said[i][e].count + 1 /\ said[i][e].count \in Nat
      BY RecordCount, InForceType
    <3> QED BY <3>1, <3>2
  <2>5. Announcing(p, i) <=> i = pos[p]
    BY DEF Announcing
  <2>6. ~Announcing(p, i)'
    BY DEF Announcing
  <2>7. Owed(i, e)' = Owed(i, e) - IF i = pos[p] /\ e = "given_up" THEN 1 ELSE 0
    BY <2>1, <2>5, <2>6, OwedOne DEF Owed
  <2>8. Owed(i, e) \in Nat
    BY <2>1, OwedOne DEF Owed
  <2>9. said[i][e].count \in Nat
    BY InForceType
  <2> DEFINE a == InForce[i][e].count
             b == said'[i][e].count
             c == said[i][e].count
             m == Owed(i, e)
             n == Owed(i, e)'
  <2>10. b = c + (IF i = pos[p] /\ e = "given_up" THEN 1 ELSE 0)
    BY <2>4
  <2>11. n = m - (IF i = pos[p] /\ e = "given_up" THEN 1 ELSE 0)
    BY <2>7
  <2>12. a = c + m /\ c \in Nat /\ m \in Nat
    BY <2>2, <2>8, <2>9
  <2>13. SUFFICES a = b + n
    BY <2>2
  <2> HIDE DEF a, b, c, m, n
  <2> QED BY <2>10, <2>11, <2>12
<1>12. ASSUME NEW p \in Procs, SweepOne(p) PROVE NoticeBooks'
  <2> DEFINE k == pos[p]
             v == Verdict(k, tick_now[p])
  <2>1. /\ k \in Ids /\ lock = p /\ lock' = p /\ InForce = table[p] /\ InForce' = table'[p]
        /\ alerts' = alerts /\ pc' = pc
    BY <1>12 DEF SweepOne, files
  <2>2. \A i \in Ids, e \in Events : Owed(i, e)' = Owed(i, e)
    <3>1. \A i \in Ids : Announcers(i)' = Announcers(i)
      BY <1>12 DEF SweepOne, Announcers, Announcing
    <3> QED BY <3>1 DEF Owed
  <2>3. CASE UNCHANGED <<table, said, told, parted>>
    <3>1. \A q \in Procs, i \in Ids : Announcing(q, i)' <=> Announcing(q, i)
      BY <1>12 DEF SweepOne, Announcing
    <3> QED BY <2>1, <2>3, <3>1, QuietNotices
  <2>4. CASE v = "healthy" /\ ~Defers(k, power[p])
    <3> SUFFICES ASSUME NEW i \in Ids, NEW e \in Events, <<i, e>> \notin parted'
                 PROVE  table'[p][i][e].count = said'[i][e].count + Owed(i, e)'
      BY <2>1 DEF NoticeBooks
    <3>1. /\ table' = [table EXCEPT ![p] = clear_pair(@, k)] /\ said' = clear_pair(said, k)
          /\ parted' = IF \E q \in Procs : Announcing(q, k)
                       THEN parted \union {<<k, "given_up">>} ELSE parted
      BY <1>12, <2>4 DEF SweepOne, Events
    <3>2. table'[p] = clear_pair(table[p], k) /\ table[p] \in Tables /\ said \in Tables
      BY <3>1 DEF HistoryType
    <3>3. /\ table'[p][i][e].count = IF i = k THEN 0 ELSE table[p][i][e].count
          /\ said'[i][e].count = IF i = k THEN 0 ELSE said[i][e].count
      BY <3>1, <3>2, <2>1, ClearSteps
    <3>4. CASE i # k
      BY <3>1, <3>3, <3>4, <2>1, <2>2 DEF NoticeBooks
    <3>5. CASE i = k
      <4>1. Owed(i, e) = 0
        <5>1. e = "given_up" => Announcers(k) = {}
          BY <3>1, <3>5 DEF Announcers
        <5> QED BY <5>1, <3>5, FS_EmptySet DEF Owed
      <4> QED BY <3>3, <3>5, <4>1, <2>2
    <3> QED BY <3>4, <3>5
  <2>5. CASE /\ v \in Events /\ table' = [table EXCEPT ![p][k][v] = record(@, tick_now[p])]
             /\ Say(p, k, v) /\ parted' = parted
    <3> HIDE DEF k, v
    <3> SUFFICES ASSUME NEW i \in Ids, NEW e \in Events, <<i, e>> \notin parted
                 PROVE  table'[p][i][e].count = said'[i][e].count + Owed(i, e)'
      BY <2>1, <2>5 DEF NoticeBooks
    <3>1. /\ table'[p] = [table[p] EXCEPT ![k][v] = record(@, tick_now[p])]
          /\ table[p] \in Tables /\ said \in Tables
          /\ said' = [said EXCEPT ![k][v] = record(@, now)]
      BY <2>5, <2>1 DEF Say, HistoryType
    <3>2. /\ table'[p][i][e].count = table[p][i][e].count + IF i = k /\ e = v THEN 1 ELSE 0
          /\ said'[i][e].count = said[i][e].count + IF i = k /\ e = v THEN 1 ELSE 0
      <4>1. /\ table'[p][i][e] = IF i = k /\ e = v THEN record(table[p][i][e], tick_now[p])
                                                   ELSE table[p][i][e]
            /\ said'[i][e] = IF i = k /\ e = v THEN record(said[i][e], now) ELSE said[i][e]
        BY <3>1, <2>1, <2>5 DEF Tables
      <4>2. /\ record(table[p][i][e], tick_now[p]).count = table[p][i][e].count + 1
            /\ record(said[i][e], now).count = said[i][e].count + 1
            /\ table[p][i][e].count \in Nat /\ said[i][e].count \in Nat
        BY <3>1, <2>1, RecordCount, InForceType
      <4> QED BY <4>1, <4>2
    <3>3. table[p][i][e].count = said[i][e].count + Owed(i, e)
      BY <2>1 DEF NoticeBooks
    <3>4. Owed(i, e) \in Nat
      BY OwedType
    <3> QED BY <3>2, <3>3, <3>4, <2>1, <2>2, InForceType
  <2> QED BY <1>12, <2>3, <2>4, <2>5 DEF SweepOne
<1>13. ASSUME NEW p \in Procs, Crash(p) PROVE NoticeBooks'
  <2> USE <1>13 DEF Crash, ForgetTick
  <2> SUFFICES ASSUME NEW i \in Ids, NEW e \in Events, <<i, e>> \notin parted'
               PROVE  InForce'[i][e].count = said[i][e].count + Owed(i, e)'
    BY DEF NoticeBooks
  <2>1. \A q \in Procs \ {p} : pc'[q] = pc[q] /\ pos'[q] = pos[q]
    OBVIOUS
  <2>2. InForce[i][e].count = said[i][e].count + Owed(i, e)
    BY DEF NoticeBooks
  <2>3. InForce'[i][e] = InForce[i][e]
    <3>1. CASE lock = p
      <4>1. parted' = parted \union {k \in Ids \X Events : table[p][k[1]][k[2]] # alerts[k[1]][k[2]]}
        BY <3>1
      <4>2. table[p][i][e] = alerts[i][e]
        BY <4>1
      <4> QED BY <3>1, <4>2
    <3>2. CASE lock # p
      BY <3>2
    <3> QED BY <3>1, <3>2
  <2>4. ~Announcing(p, i)'
    BY DEF Announcing
  <2>5. Owed(i, e)' = Owed(i, e)
    <3>1. e = "given_up" => ~Announcing(p, i)
      BY DEF Announcing
    <3> QED BY <2>1, <2>4, <3>1, OwedOne DEF Owed
  <2> QED BY <2>2, <2>3, <2>5
<1> QED BY <1>1, <1>2, <1>3, <1>4, <1>5, <1>6, <1>7, <1>8, <1>9, <1>10, <1>11, <1>12, <1>13
        DEF Next, Step

\* No notice is owed to begin with.
LEMMA AlertInit == Init => AlertInv
<1> SUFFICES ASSUME Init PROVE AlertInv
  OBVIOUS
<1>1. SweeperHolds
  BY DispatchAssumption DEF Init, SweeperHolds
<1>2. \A i \in Ids, e \in Events : Owed(i, e) = 0
  <2>1. \A i \in Ids : Announcers(i) = {}
    BY DEF Init, Announcers, Announcing
  <2> QED BY <2>1, FS_EmptySet DEF Owed
<1>3. NoticeBooks
  BY <1>2 DEF Init, NoticeBooks, InForce, Empty, NoEpisode
<1> QED BY <1>1, <1>3 DEF AlertInv

\* With nobody sweeping or announcing, the table in force is the file and no
\* notice is owed.
LEMMA AlertTells == TypeOK /\ AlertInv => TableTellsTheNotices
<1> SUFFICES ASSUME TypeOK, AlertInv, NEW i \in Ids, NEW e \in Events, lock = NoProc,
                    \A p \in Procs : ~Announcing(p, i), <<i, e>> \notin parted
             PROVE  alerts[i][e].count = said[i][e].count
  BY DEF TableTellsTheNotices
<1>1. Announcers(i) = {}
  BY DEF Announcers
<1>2. Owed(i, e) = 0
  BY <1>1, FS_EmptySet DEF Owed
<1>3. alerts[i][e].count = said[i][e].count + 0 /\ said[i][e].count \in Nat
  BY <1>2, InForceType DEF AlertInv, NoticeBooks, InForce
<1> QED BY <1>3

\* However many processes tick at once, and wherever they die, the alert table
\* counts the notices that were sent, as long as somebody asks for give-ups
\* (GiveUp records one whether or not it is asked for).
THEOREM TableTells ==
  ASSUME IsFiniteSet(Procs), "given_up" \in Listens
  PROVE  Spec => []TableTellsTheNotices
<1> DEFINE IInv == TypeOK /\ AlertInv
<1>1. Init => IInv
  BY InitType, AlertInit
<1>2. IInv /\ [Next]_vars => IInv'
  BY NextType, SweeperStep, NoticeStep DEF AlertInv
<1>3. IInv => TableTellsTheNotices
  BY AlertTells
<1> QED BY <1>1, <1>2, <1>3, PTL DEF Spec

-----------------------------------------------------------------------------
(* What is given up was tried.                                             *)

\* A window of a slug in which a run was started.
Tried(g, l) == \E j \in Ids : Slug(j) = g /\ started[j][l] > 0

\* A window that has a file, and one that dispatch_one has in hand, had a run.
TriedBooks ==
    /\ \A g \in Slugs, l \in Time :
          window[g][l] # NoWindow => Tried(g, l)
    /\ \A p \in Procs : pc[p] \in InHand => Tried(Slug(pos[p]), WindowLabel(expected[p]))

\* Runs are only ever added.
LEMMA TriedStays ==
  ASSUME TypeOK, [Next]_vars, NEW g, NEW l \in Time, Tried(g, l)
  PROVE  Tried(g, l)'
<1>1. PICK j \in Ids : Slug(j) = g /\ started[j][l] > 0
  BY DEF Tried
<1>2. started \in [Ids -> [Time -> Nat]]
  BY DEF TypeOK, HistoryType
<1>3. started'[j][l] > 0
  <2>1. ASSUME NEW p \in Procs, StartRun(p) PROVE started'[j][l] > 0
    <3> DEFINE k == WindowLabel(Expected(pos[p], tick_now[p]))
    <3>1. started' = [started EXCEPT ![pos[p]][k] = @ + 1]
      BY <2>1 DEF StartRun
    <3>2. pos[p] \in Ids /\ k \in Time
      BY <2>1, GateFacts DEF StartRun, AtSchedule
    <3> HIDE DEF k
    <3>3. started'[j][l] \in {started[j][l], started[j][l] + 1}
      BY <1>2, <3>1, <3>2, BumpType
    <3> QED BY <1>1, <1>2, <3>3
  <2>2. ASSUME NEW p \in Procs, BeginTick(p) \/ Skip(p) \/ GiveUpExhausted(p) PROVE started' = started
    BY <2>2 DEF BeginTick, Skip, GiveUpExhausted, history
  <2>3. ASSUME NEW p \in Procs, EndRun(p) PROVE started' = started
    BY <2>3 DEF EndRun
  <2>4. ASSUME NEW p \in Procs, GiveUp(p) \/ Announce(p) \/ WriteWindow(p) PROVE started' = started
    BY <2>4 DEF GiveUp, Announce, WriteWindow, history
  <2>5. ASSUME NEW p \in Procs, BeginSweep(p) \/ SweepOne(p) \/ EndSweep(p) \/ Crash(p)
        PROVE  started' = started
    BY <2>5 DEF BeginSweep, SweepOne, EndSweep, Crash, history
  <2>6. CASE Pass \/ Unplug \/ UNCHANGED vars \/ \E i \in Ids : ManualRun(i)
    BY <2>6, <1>1 DEF Pass, Unplug, ManualRun, vars, history
  <2> QED BY <1>1, <2>1, <2>2, <2>3, <2>4, <2>5, <2>6 DEF Next, Step
<1> QED BY <1>1, <1>3 DEF Tried, Slug

\* The files: only WriteWindow replaces one, by the copy of a window in hand.
LEMMA TriedFiles ==
  ASSUME TypeOK, TriedBooks, [Next]_vars, NEW g \in Slugs, NEW l \in Time,
         window'[g][l] # NoWindow
  PROVE  Tried(g, l)
<1>1. CASE window' = window
  BY <1>1 DEF TriedBooks
<1>2. ASSUME NEW p \in Procs, WriteWindow(p) PROVE Tried(g, l)
  <2>1. window' = [window EXCEPT ![Slug(pos[p])][WindowLabel(expected[p])] = copy[p]]
    BY <1>2 DEF WriteWindow
  <2>2. CASE g = Slug(pos[p]) /\ l = WindowLabel(expected[p])
    BY <1>2, <2>2 DEF WriteWindow, AtSchedule, TriedBooks, InHand
  <2>3. CASE ~(g = Slug(pos[p]) /\ l = WindowLabel(expected[p]))
    <3>1. window'[g][l] = window[g][l]
      BY <2>1, <2>3 DEF TypeOK, FilesType
    <3> QED BY <3>1 DEF TriedBooks
  <2> QED BY <2>2, <2>3
<1>3. window' = window \/ \E p \in Procs : WriteWindow(p)
  <2>1. ASSUME NEW p \in Procs, BeginTick(p) \/ Skip(p) \/ GiveUpExhausted(p) \/ StartRun(p)
        PROVE window' = window
    BY <2>1 DEF BeginTick, Skip, GiveUpExhausted, StartRun, files
  <2>2. ASSUME NEW p \in Procs, EndRun(p) PROVE window' = window
    BY <2>2 DEF EndRun
  <2>3. ASSUME NEW p \in Procs, GiveUp(p) \/ Announce(p) PROVE window' = window
    BY <2>3 DEF GiveUp, Announce, files
  <2>4. ASSUME NEW p \in Procs, BeginSweep(p) \/ SweepOne(p) \/ EndSweep(p) \/ Crash(p)
        PROVE  window' = window
    BY <2>4 DEF BeginSweep, SweepOne, EndSweep, Crash, files
  <2>5. CASE Pass \/ Unplug \/ UNCHANGED vars \/ \E i \in Ids : ManualRun(i)
    BY <2>5 DEF Pass, Unplug, ManualRun, vars, files
  <2> QED BY <2>1, <2>2, <2>3, <2>4, <2>5 DEF Next, Step
<1> QED BY <1>1, <1>2, <1>3

\* What a process takes in hand it runs, or finds exhausted by runs.
LEMMA TriedInHand ==
  ASSUME TypeOK, TriedBooks, [Next]_vars, \A i \in Ids : Manifest[i].max_retries > 0,
         NEW q \in Procs, pc'[q] \in InHand
  PROVE  Tried(Slug(pos[q]), WindowLabel(expected[q]))'
<1> USE DEF TypeOK, LocalsType, AtSchedule
<1>0. ASSUME pc[q] \in InHand, pos'[q] = pos[q], expected'[q] = expected[q]
      PROVE  Tried(Slug(pos[q]), WindowLabel(expected[q]))'
  <2>1. Tried(Slug(pos[q]), WindowLabel(expected[q]))
    BY <1>0 DEF TriedBooks
  <2>2. WindowLabel(expected[q]) \in Time
    BY LabelType
  <2>3. PICK g \in {Slug(pos[q])}, l \in Time : g = Slug(pos[q]) /\ l = WindowLabel(expected[q])
    BY <2>2
  <2>4. Tried(g, l)'
    BY <2>1, <2>3, TriedStays
  <2>5. g = Slug(pos'[q]) /\ l = WindowLabel(expected'[q])
    BY <1>0, <2>3
  <2> QED BY <2>4, <2>5
<1> DEFINE Kept == pc[q] \in InHand /\ pos'[q] = pos[q] /\ expected'[q] = expected[q]
<1>1. ASSUME NEW p \in Procs, GiveUpExhausted(p) PROVE Kept \/ p = q
  BY <1>1 DEF GiveUpExhausted
<1>2. ASSUME NEW p \in Procs, StartRun(p) PROVE Kept \/ p = q
  BY <1>2 DEF StartRun
<1>3. ASSUME NEW p \in Procs, EndRun(p) PROVE Kept
  BY <1>3 DEF EndRun, AfterRun, InHand
<1>4. ASSUME NEW p \in Procs, GiveUp(p) PROVE Kept
  BY <1>4 DEF GiveUp, InHand
<1>5. ASSUME NEW p \in Procs, Announce(p) PROVE Kept
  BY <1>5 DEF Announce, InHand
<1>6. ASSUME NEW p \in Procs, WriteWindow(p) \/ Skip(p) \/ BeginTick(p) PROVE Kept
  BY <1>6 DEF WriteWindow, Skip, BeginTick, InHand
<1>7. ASSUME NEW p \in Procs, BeginSweep(p) \/ SweepOne(p) PROVE Kept
  BY <1>7 DEF BeginSweep, SweepOne, InHand
<1>8. ASSUME NEW p \in Procs, EndSweep(p) \/ Crash(p) PROVE Kept
  BY <1>8 DEF EndSweep, Crash, ForgetTick, InHand
<1>9. CASE Pass \/ Unplug \/ UNCHANGED vars \/ \E i \in Ids : ManualRun(i)
  <2>1. pc'[q] = pc[q] /\ pos'[q] = pos[q] /\ expected'[q] = expected[q]
    BY <1>9 DEF Pass, Unplug, ManualRun, vars, locals
  <2> QED BY <2>1, <1>0
<1>10. ASSUME GiveUpExhausted(q) PROVE Tried(Slug(pos[q]), WindowLabel(expected[q]))'
  <2> DEFINE e == Expected(pos[q], tick_now[q])
  <2>1. /\ pos[q] \in Ids /\ Slug(pos[q]) \in Slugs /\ e \in Time /\ WindowLabel(e) \in Time
    BY <1>10, GateFacts DEF GiveUpExhausted
  <2>2. pos'[q] = pos[q] /\ expected'[q] = e
    BY <1>10, <2>1 DEF GiveUpExhausted
  <2>3. window[Slug(pos[q])][WindowLabel(e)].attempts > 0
    <3>1. read_window(pos[q], e) \in WindowState
      BY <2>1 DEF read_window, FilesType
    <3>2. read_window(pos[q], e).attempts >= Manifest[pos[q]].max_retries
      BY <1>10 DEF GiveUpExhausted, Exhausted
    <3>3. Manifest[pos[q]].max_retries \in Nat /\ Manifest[pos[q]].max_retries > 0
      BY <2>1, EntryType
    <3>4. read_window(pos[q], e).attempts \in Nat
      BY <3>1 DEF WindowState
    <3>5. read_window(pos[q], e).attempts > 0
      BY <3>2, <3>3, <3>4
    <3> QED BY <3>5 DEF read_window
  <2> HIDE DEF e
  <2>4. PICK g \in {Slug(pos[q])}, l \in Time : g = Slug(pos[q]) /\ l = WindowLabel(e)
    BY <2>1
  <2>5. Tried(g, l)
    BY <2>1, <2>3, <2>4 DEF TriedBooks, NoWindow
  <2>6. Tried(g, l)'
    BY <2>5, TriedStays
  <2>7. g = Slug(pos'[q]) /\ l = WindowLabel(expected'[q])
    BY <2>2, <2>4
  <2> QED BY <2>6, <2>7
<1>11. ASSUME StartRun(q) PROVE Tried(Slug(pos[q]), WindowLabel(expected[q]))'
  <2> DEFINE e == Expected(pos[q], tick_now[q])
  <2>1. /\ pos[q] \in Ids /\ Slug(pos[q]) \in Slugs /\ e \in Time /\ WindowLabel(e) \in Time
    BY <1>11, GateFacts DEF StartRun
  <2>2. pos'[q] = pos[q] /\ expected'[q] = e
    BY <1>11, <2>1 DEF StartRun
  <2>3. started' = [started EXCEPT ![pos[q]][WindowLabel(e)] = @ + 1]
    BY <1>11 DEF StartRun
  <2> HIDE DEF e
  <2>4. started'[pos[q]][WindowLabel(e)] = started[pos[q]][WindowLabel(e)] + 1
        /\ started[pos[q]][WindowLabel(e)] \in Nat
    BY <2>1, <2>3 DEF HistoryType
  <2>5. started'[pos[q]][WindowLabel(e)] > 0
    BY <2>4
  <2> QED BY <2>1, <2>2, <2>5 DEF Tried
<1> HIDE DEF TypeOK, LocalsType, AtSchedule
<1> QED BY <1>0, <1>1, <1>2, <1>3, <1>4, <1>5, <1>6, <1>7, <1>8, <1>9, <1>10, <1>11 DEF Next, Step

\* There is no file, and no window in hand, before the first tick.
LEMMA TriedInit == Init => TriedBooks
BY DEF Init, TriedBooks, NoWindow, InHand

\* Every step keeps it: a file appears, and a window is in hand, only after a run.
LEMMA TriedStep ==
  ASSUME TypeOK, TriedBooks, [Next]_vars, \A i \in Ids : Manifest[i].max_retries > 0
  PROVE  TriedBooks'
<1>1. ASSUME NEW g \in Slugs, NEW l \in Time, window'[g][l] # NoWindow
      PROVE  Tried(g, l)'
  BY <1>1, TriedFiles, TriedStays
<1>2. ASSUME NEW p \in Procs, pc'[p] \in InHand
      PROVE  Tried(Slug(pos[p]), WindowLabel(expected[p]))'
  BY <1>2, TriedInHand
<1> QED BY <1>1, <1>2 DEF TriedBooks

\* However many processes tick at once, a window is given up only after a run of
\* it was started: for every manifest whose schedules have at least one attempt
\* (one with max_retries = 0 is given up without any).
THEOREM GivenUpTried ==
  ASSUME \A i \in Ids : Manifest[i].max_retries > 0
  PROVE  Spec => []GivenUpWasTried
<1> DEFINE IInv == TypeOK /\ TriedBooks
<1>1. Init => IInv
  BY InitType, TriedInit
<1>2. IInv /\ [Next]_vars => IInv'
  BY NextType, TriedStep
<1>3. IInv => GivenUpWasTried
  BY EntryType DEF TriedBooks, GivenUpWasTried, Tried, NoWindow
<1> QED BY <1>1, <1>2, <1>3, PTL DEF Spec

-----------------------------------------------------------------------------
(* Which windows the files are of, when each schedule has its own.         *)

\* No two schedules of the agent share their arguments, and so their files.
OwnFiles == \A i \in Ids, j \in Ids : Slug(i) = Slug(j) => i = j

\* No instant has been judged later than this one: the clock, or the instant the
\* tick in progress began.
Latest(p) == IF pc[p] = "idle" THEN now ELSE tick_now[p]

\* A window that was due at an instant: counted from the last success, or over
\* by the time of it.
Opened(i, w, t) == w <= heartbeat[Slug(i)] \/ (w <= t /\ w = Expected(i, t))

\* A window file was written for a window; one that tells of a success lies
\* behind the last success.
FileDates ==
    \A p \in Procs, i \in Ids, l \in Time :
        /\ window[Slug(i)][l] # NoWindow =>
              /\ window[Slug(i)][l].exists
              /\ \E w, t \in Time : WindowLabel(w) = l /\ t <= Latest(p) /\ Opened(i, w, t)
        /\ window[Slug(i)][l].exit = "ok" => l <= heartbeat[Slug(i)]

\* The window in hand was due when the tick began and stays so until its
\* schedule succeeds; its file is the newest of the schedule; a copy that tells
\* of a success is behind the heartbeat, and a success on record before it.
HandDates ==
    \A p \in Procs : pc[p] \in InHand =>
        LET i == pos[p]
            e == expected[p]
            h == heartbeat[Slug(i)]
        IN  /\ \E ls \in OptTime : e = expected_at(Manifest[i].sched, tick_now[p], ls)
            /\ h >= tick_now[p] \/ (h < e /\ e = Expected(i, tick_now[p]))
            /\ \A l \in Time : window[Slug(i)][l] # NoWindow => l <= WindowLabel(e)
            /\ copy[p].exit = "ok" => e <= h
            /\ recorded[i] # NoTime => h < e
            /\ copy[p].exists

\* The file on record for the latest success is of a window that was due by
\* then; every newer file is of a window after it.
RecordDates ==
    \A p \in Procs, i \in Ids : recorded[i] # NoTime =>
        /\ window[Slug(i)][recorded[i]].exists
        /\ \E w, t \in Time, ls \in OptTime :
              /\ WindowLabel(w) = recorded[i] /\ w <= heartbeat[Slug(i)]
              /\ t <= Latest(p) /\ w = expected_at(Manifest[i].sched, t, ls)
        /\ \A l \in Time :
              window[Slug(i)][l].exists /\ recorded[i] < l => heartbeat[Slug(i)] < l

\* An interval schedule that the power policy lets run, as NeverAbandoned has it.
Watched(p, i) ==
    /\ Manifest[i].sched.kind = "interval" /\ Manifest[i].sched.interval_minutes > 0
    /\ Manifest[i].stale_after >= Manifest[i].sched.interval_minutes
    /\ ~Defers(i, power[p])

\* A schedule the tick is done with, or has in hand.
Passed(p, i) ==
    \/ pc[p] \in InHand \union {"dispatch"} /\ i < pos[p]
    \/ pc[p] \in InHand /\ i = pos[p]
    \/ pc[p] = "sweep"

\* It succeeded since the tick began, or its newest window has been run.
PassedTried ==
    \A p \in Procs, i \in Ids :
        Passed(p, i) /\ Watched(p, i) /\ heartbeat[Slug(i)] # NoTime =>
            LET e == Expected(i, tick_now[p])
            IN  heartbeat[Slug(i)] < e /\ heartbeat[Slug(i)] < tick_now[p] =>
                    started[i][WindowLabel(e)] > 0

\* What the sweep has dropped it dropped for a success.
SweptForSuccess ==
    \A p \in Procs, i \in Ids, e \in Events, l \in Time :
        /\ pc[p] = "sweep" /\ alerts[i][e].count > 0 /\ table[p][i][e].count = 0
        /\ window[Slug(i)][l].given_up
        => l <= heartbeat[Slug(i)]

\* A file that is no longer blank had a run.
FileTried ==
    \A i \in Ids, l \in Time :
        window[Slug(i)][l] # NoWindow => started[i][l] > 0

-----------------------------------------------------------------------------
(* The labels of windows.                                                  *)

\* A window's file is named after its minute.
LEMMA LabelFacts ==
  ASSUME NEW t \in Nat
  PROVE  /\ WindowLabel(t) \in Nat /\ WindowLabel(t) <= t /\ t < WindowLabel(t) + SecPerMin
         /\ WindowLabel(WindowLabel(t)) = WindowLabel(t)
<1> DEFINE q == t \div SecPerMin
<1>1. q \in Nat /\ q * SecPerMin <= t /\ t < q * SecPerMin + SecPerMin
  BY Lengths, DivFacts
<1> HIDE DEF q
<1>2. q * SecPerMin \in Nat
  BY <1>1, Lengths, Z3
<1>3. (q * SecPerMin + 0) \div SecPerMin = q
  BY <1>1, Lengths, DivUnique
<1>4. (q * SecPerMin) \div SecPerMin = q
  BY <1>2, <1>3
<1>5. WindowLabel(t) = q * SecPerMin
  BY DEF WindowLabel, q
<1> QED BY <1>1, <1>2, <1>4, <1>5 DEF WindowLabel

\* Labels do not go back as time passes.
LEMMA LabelMono ==
  ASSUME NEW t1 \in Nat, NEW t2 \in Nat, t1 <= t2
  PROVE  WindowLabel(t1) <= WindowLabel(t2)
<1>1. t1 \div SecPerMin \in Nat /\ t2 \div SecPerMin \in Nat
  BY Lengths, DivFacts
<1>2. t1 \div SecPerMin <= t2 \div SecPerMin
  BY Lengths, DivMono
<1> QED BY <1>1, <1>2, Lengths, MulMono DEF WindowLabel

\* A window due after a success is filed under a minute after it.
LEMMA FreshLabel ==
  ASSUME NEW i \in Ids, NEW t \in Nat, NEW ls \in Nat \union {NoTime},
         expected_at(Manifest[i].sched, t, ls) # NoTime,
         ls < expected_at(Manifest[i].sched, t, ls)
  PROVE  ls < WindowLabel(expected_at(Manifest[i].sched, t, ls))
<1> DEFINE sched == Manifest[i].sched
           e == expected_at(sched, t, ls)
<1>0. e \in Nat
  BY ExpectedType
<1>1. CASE sched \in CronSchedules
  <2>1. e = cron_expected_at(sched, t)
    BY <1>1 DEF expected_at, CronSchedules
  <2>2. PICK q \in Nat : e = q * SecPerMin
    BY <1>1, <2>1, CronMinute
  <2> HIDE DEF e
  <2>3. (q * SecPerMin + 0) \div SecPerMin = q
    BY Lengths, DivUnique
  <2>4. e \div SecPerMin = q
    BY <1>0, <2>2, <2>3
  <2>5. WindowLabel(e) = e
    BY <2>2, <2>4 DEF WindowLabel
  <2> QED BY <2>5 DEF e
<1>2. CASE sched \in IntervalSchedules(Nat)
  <2> DEFINE iv == sched.interval_minutes
             D == iv * SecPerMin
  <2>1. e = interval_expected_at(iv, t, ls) /\ iv \in Nat
    BY <1>2 DEF expected_at, IntervalSchedules
  <2>2. ls \in Nat /\ iv # 0
    BY <2>1 DEF interval_expected_at
  <2> HIDE DEF iv
  <2>3. /\ D \in Nat \ {0} /\ D >= SecPerMin
        /\ t < ls => e = ls
        /\ ls <= t => \E k \in Nat : e = ls + k * D /\ e <= t /\ t < e + D
    BY <2>1, <2>2, IntervalExpected
  <2> HIDE DEF D
  <2>4. ls < e
    OBVIOUS
  <2>5. PICK k \in Nat : e = ls + k * D
    BY <2>2, <2>3, <2>4
  <2> HIDE DEF e
  <2>6. k # 0
    <3>1. 0 * D = 0
      BY <2>3, Z3
    <3> QED BY <2>2, <2>4, <2>5, <3>1
  <2>7. 1 * D <= k * D /\ 1 * D = D
    BY <2>3, <2>6, MulMono, Z3
  <2>8. /\ WindowLabel(e) \in Nat /\ e < WindowLabel(e) + SecPerMin
    BY <1>0, LabelFacts
  <2>9. k * D \in Nat
    BY <2>3, Z3
  <2>10. ls < WindowLabel(e)
    BY <1>0, <2>2, <2>3, <2>5, <2>7, <2>8, <2>9, Lengths
  <2> QED BY <2>10 DEF e
<1> QED BY <1>1, <1>2, EntryType

\* The newest window of an interval schedule is the one that is due, and not
\* stale for a policy that waits an interval.
LEMMA NewestFacts ==
  ASSUME NEW i \in Ids, NEW t \in Time, NEW h \in Time,
         Manifest[i].sched.kind = "interval", Manifest[i].sched.interval_minutes > 0,
         Manifest[i].stale_after >= Manifest[i].sched.interval_minutes
  PROVE  LET e == expected_at(Manifest[i].sched, t, h)
             D == Manifest[i].sched.interval_minutes * SecPerMin
             opened == {x \in Time : /\ x <= t /\ x > h /\ (x - h) % D = 0}
         IN  /\ e \in Nat
             /\ h < t => e <= t
             /\ e <= t => ~is_stale(e, Manifest[i].stale_after, t)
             /\ opened # {} => Max(opened) = e /\ h < e /\ e <= t
<1> DEFINE iv == Manifest[i].sched.interval_minutes
           sa == Manifest[i].stale_after
           D == iv * SecPerMin
           e == expected_at(Manifest[i].sched, t, h)
           opened == {x \in Time : /\ x <= t /\ x > h /\ (x - h) % D = 0}
<1>1. iv \in Nat \ {0} /\ sa \in Nat /\ sa >= iv
  <2>1. Manifest[i] \in Entries
    BY DispatchAssumption DEF Ids
  <2>2. Manifest[i].sched \in IntervalSchedules(Nat) /\ sa \in Nat
    BY <2>1 DEF Entries, CronSchedules
  <2>3. iv \in Nat
    BY <2>2 DEF IntervalSchedules
  <2> QED BY <2>2, <2>3
<1>2. t \in Nat /\ h \in Nat /\ MaxTime \in Nat /\ t <= MaxTime
  BY DispatchAssumption DEF Time
<1>3. e = interval_expected_at(iv, t, h)
  BY DEF expected_at
<1> HIDE DEF iv, sa, e
<1>4. /\ D \in Nat \ {0} /\ D >= SecPerMin
      /\ t < h => e = h
      /\ h <= t => \E k \in Nat : e = h + k * D /\ e <= t /\ t < e + D
  <2> DEFINE x == interval_expected_at(iv, t, h)
  <2>1. /\ D \in Nat \ {0} /\ D >= SecPerMin
        /\ t < h => x = h
        /\ h <= t => \E k \in Nat : x = h + k * D /\ x <= t /\ t < x + D
    BY <1>1, <1>2, IntervalExpected
  <2> QED BY <1>3, <2>1
<1> HIDE DEF D
<1>5. ASSUME h <= t, e <= t PROVE ~is_stale(e, sa, t)
  <2>1. PICK k \in Nat : e = h + k * D /\ e <= t /\ t < e + D
    BY <1>4, <1>5
  <2>2. k * D \in Nat
    BY <1>4, Z3
  <2>3. t - e \in Nat /\ t - e < D
    BY <1>2, <1>4, <2>1, <2>2
  <2> DEFINE m == (t - e) \div SecPerMin
  <2>4. m \in Nat /\ m * SecPerMin <= t - e
    BY <2>3, Lengths, DivFacts
  <2>5. NumMinutes(t - e) = m
    BY <2>3 DEF NumMinutes
  <2> HIDE DEF m
  <2>6. ~(iv <= m)
    <3> SUFFICES ASSUME iv <= m PROVE FALSE
      OBVIOUS
    <3>1. D <= m * SecPerMin
      BY <1>1, <2>4, Lengths, MulMono DEF D
    <3>2. m * SecPerMin \in Nat
      BY <2>4, Lengths, Z3
    <3> QED BY <1>4, <2>3, <2>4, <3>1, <3>2
  <2> QED BY <1>1, <2>4, <2>5, <2>6 DEF is_stale
<1>6. ASSUME t < h PROVE e = h /\ ~(e <= t) /\ opened = {}
  BY <1>2, <1>4, <1>6 DEF Time
<1>7. e \in Nat /\ (h < t => e <= t)
  <2>1. CASE t < h
    BY <1>2, <1>6, <2>1
  <2>2. CASE h <= t
    <3>1. PICK k \in Nat : e = h + k * D /\ e <= t
      BY <1>4, <2>2
    <3>2. k * D \in Nat
      BY <1>4, Z3
    <3> QED BY <1>2, <3>1, <3>2
  <2> QED BY <1>2, <2>1, <2>2
<1>8. ASSUME opened # {} PROVE Max(opened) = e /\ h < e /\ e <= t
  <2>1. h <= t
    BY <1>2, <1>6, <1>8
  <2>2. PICK k \in Nat : e = h + k * D /\ e <= t /\ t < e + D
    BY <1>4, <2>1
  <2>3. k * D \in Nat
    BY <1>4, Z3
  <2>4. ASSUME NEW x \in opened PROVE x <= e /\ k > 0
    <3>1. x \in Nat /\ x <= t /\ x > h /\ (x - h) % D = 0
      BY <1>2 DEF Time
    <3> DEFINE m == (x - h) \div D
    <3>2. x - h \in Nat /\ m \in Nat /\ x - h = m * D + 0
      <4> DEFINE a == x - h
      <4>1. a \in Nat /\ a % D = 0
        BY <1>2, <3>1
      <4> HIDE DEF a
      <4>2. a \div D \in Nat /\ a = (a \div D) * D + (a % D)
        BY <1>4, <4>1, DivFacts
      <4> QED BY <4>1, <4>2 DEF a
    <3> HIDE DEF m
    <3>3. ~(k < m)
      <4> SUFFICES ASSUME k < m PROVE FALSE
        OBVIOUS
      <4>1. (k + 1) * D <= m * D /\ (k + 1) * D = k * D + D /\ m * D \in Nat
        <5>1. m * D \in Nat
          BY <1>4, <3>2, Z3
        <5> QED BY <1>4, <3>2, <5>1, MulMono, MulNext
      <4> HIDE DEF D
      <4> QED BY <1>2, <1>4, <2>2, <2>3, <3>1, <3>2, <4>1
    <3>4. m * D <= k * D /\ m * D \in Nat
      <4>1. m * D \in Nat
        BY <1>4, <3>2, Z3
      <4> QED BY <1>4, <3>2, <3>3, <4>1, MulMono
    <3>5. x <= e
      BY <1>2, <2>2, <2>3, <3>1, <3>2, <3>4
    <3>6. k # 0
      <4>1. 0 * D = 0
        BY <1>4, Z3
      <4> QED BY <1>2, <2>2, <3>1, <3>5, <4>1
    <3> QED BY <3>5, <3>6
  <2>5. k > 0
    BY <1>8, <2>4
  <2>6. h < e
    <3>1. 1 * D <= k * D /\ 1 * D = D
      BY <1>4, <2>5, MulMono, Z3
    <3> QED BY <1>2, <1>4, <2>2, <2>3, <3>1
  <2>7. e \in opened
    <3>1. e - h = k * D + 0 /\ e \in Time
      BY <1>2, <1>7, <2>2, <2>3 DEF Time
    <3>2. (k * D + 0) % D = 0
      BY <1>4, DivUnique
    <3> QED BY <2>2, <2>6, <3>1, <3>2
  <2>8. opened \in SUBSET (0 .. t)
    BY <1>2 DEF Time
  <2> HIDE DEF opened
  <2>9. Max(opened) \in opened /\ \A y \in opened : y <= Max(opened)
    BY <1>2, <1>8, <2>8, MaxOfBounded
  <2>10. Max(opened) <= e /\ e <= Max(opened) /\ Max(opened) \in Int /\ e \in Int
    <3>1. Max(opened) \in 0 .. t
      BY <2>8, <2>9
    <3>2. Max(opened) <= e
      BY <2>4, <2>9
    <3>3. e <= Max(opened)
      BY <2>7, <2>9
    <3> QED BY <1>2, <1>7, <3>1, <3>2, <3>3
  <2> QED BY <2>2, <2>6, <2>10
<1>9. e <= t => h <= t
  BY <1>2, <1>6
<1> QED BY <1>5, <1>7, <1>8, <1>9 DEF iv, sa, e, D

\* The window of a watched schedule is due as soon as its last success is past.
LEMMA WatchedDue ==
  ASSUME NEW p, NEW i \in Ids, Watched(p, i), NEW t \in Time, NEW h \in Time,
         NEW e, e = expected_at(Manifest[i].sched, t, h)
  PROVE  /\ e \in Nat
         /\ h < t => e <= t
         /\ e <= t => ~is_stale(e, Manifest[i].stale_after, t)
BY NewestFacts DEF Watched

-----------------------------------------------------------------------------
(* What single steps of the one ticking process do.                        *)

\* A heartbeat only moves to the instant of a success, which is not on record
\* until its file is written.
LEMMA HeartSteps ==
  ASSUME NEW d, Procs = {d}, TypeOK, Books, [Next]_vars, NEW i \in Ids
  PROVE  /\ heartbeat[Slug(i)] \in Int /\ heartbeat'[Slug(i)] \in Int /\ now \in Nat
         /\ heartbeat[Slug(i)] <= now
         /\ \/ heartbeat'[Slug(i)] = heartbeat[Slug(i)]
            \/ heartbeat'[Slug(i)] = now /\ recorded'[i] = NoTime
<1>1. /\ \A g \in Slugs : heartbeat[g] \in Int /\ heartbeat[g] <= now
      /\ now \in Nat /\ Slug(i) \in Slugs /\ heartbeat \in [Slugs -> OptTime]
  BY EntryType, DispatchAssumption
  DEF Books, HeartbeatBooks, TypeOK, WorldType, FilesType, OptTime, Time, NoTime
<1> DEFINE Goal == \/ heartbeat'[Slug(i)] = heartbeat[Slug(i)]
                   \/ heartbeat'[Slug(i)] = now /\ recorded'[i] = NoTime
<1>2. CASE heartbeat' = heartbeat
  BY <1>1, <1>2
<1>3. ASSUME NEW g \in Slugs, heartbeat' = [heartbeat EXCEPT ![g] = now], recorded' = Unrecorded(g)
      PROVE  Goal /\ heartbeat'[Slug(i)] \in Int
  BY <1>1, <1>3 DEF Unrecorded
<1>4. CASE EndRun(d)
  <2> PICK o \in Outcomes : EndRun(d)!(o)
    BY <1>4 DEF EndRun
  <2>1. Slug(pos[d]) \in Slugs
    BY EntryType DEF AtSchedule
  <2>2. CASE o = "ok"
    BY <2>1, <2>2, <1>1, <1>3
  <2>3. CASE o # "ok"
    <3>1. heartbeat' = heartbeat
      BY <2>3
    <3> QED BY <3>1, <1>1
  <2> QED BY <2>2, <2>3, <1>1
<1>5. ASSUME NEW j \in Ids, ManualRun(j) PROVE Goal /\ heartbeat'[Slug(i)] \in Int
  BY <1>5, <1>3, EntryType DEF ManualRun
<1>6. CASE BeginTick(d) \/ Skip(d) \/ GiveUpExhausted(d) \/ StartRun(d)
  BY <1>6, <1>2, <1>1 DEF BeginTick, Skip, GiveUpExhausted, StartRun, files
<1>7. CASE GiveUp(d) \/ Announce(d) \/ WriteWindow(d)
  BY <1>7, <1>2, <1>1 DEF GiveUp, Announce, WriteWindow, files
<1>8. CASE BeginSweep(d) \/ SweepOne(d) \/ EndSweep(d) \/ Crash(d)
  BY <1>8, <1>2, <1>1 DEF BeginSweep, SweepOne, EndSweep, Crash, files
<1>9. CASE Pass \/ Unplug \/ UNCHANGED vars
  BY <1>9, <1>2, <1>1 DEF Pass, Unplug, vars, files
<1> QED BY <1>1, <1>2, <1>4, <1>5, <1>6, <1>7, <1>8, <1>9 DEF Next, Step

\* Nor does the instant of the latest judgement go back.
LEMMA LatestSteps ==
  ASSUME NEW d, Procs = {d}, TypeOK, Books, [Next]_vars
  PROVE  /\ Latest(d) \in Time /\ Latest(d) <= Latest(d)' /\ Latest(d) <= now
         /\ pc[d] # "idle" /\ pc'[d] # "idle" => tick_now'[d] = tick_now[d] /\ power'[d] = power[d]
         /\ tick_now[d] \in Time
<1>1. /\ now \in Time /\ tick_now[d] \in Time /\ tick_now[d] <= now
      /\ \A t \in Time : t \in Nat
  BY DispatchAssumption DEF TypeOK, WorldType, LocalsType, Time, Books, HandBooks
<1> USE <1>1 DEF Latest, TypeOK, LocalsType
<1>2. CASE BeginTick(d)
  BY <1>2 DEF BeginTick
<1>3. CASE Skip(d) \/ GiveUpExhausted(d) \/ StartRun(d)
  BY <1>3 DEF Skip, GiveUpExhausted, StartRun, AtSchedule
<1>4. CASE EndRun(d)
  BY <1>4 DEF EndRun, AtSchedule
<1>5. CASE GiveUp(d) \/ Announce(d) \/ WriteWindow(d)
  BY <1>5 DEF GiveUp, Announce, WriteWindow, AtSchedule
<1>6. CASE BeginSweep(d) \/ SweepOne(d)
  BY <1>6 DEF BeginSweep, SweepOne, AtSchedule
<1>7. CASE EndSweep(d) \/ Crash(d)
  BY <1>7 DEF EndSweep, Crash, ForgetTick
<1>8. CASE Unplug \/ UNCHANGED vars \/ \E j \in Ids : ManualRun(j)
  BY <1>8 DEF Unplug, ManualRun, vars, locals
<1>9. CASE Pass
  BY <1>9 DEF Pass, locals
<1> QED BY <1>2, <1>3, <1>4, <1>5, <1>6, <1>7, <1>8, <1>9 DEF Next, Step

\* A window once opened stays open or over.
LEMMA OpenedStays ==
  ASSUME NEW d, Procs = {d}, TypeOK, Books, [Next]_vars, NEW i \in Ids,
         NEW w \in Time, NEW t \in Time, t <= Latest(d), Opened(i, w, t)
  PROVE  Opened(i, w, t)' /\ t <= Latest(d)'
<1>1. t <= Latest(d)' /\ t <= now /\ w \in Nat /\ t \in Nat
  <2>1. /\ Latest(d) \in Time /\ Latest(d) <= Latest(d)' /\ Latest(d) <= now
    BY LatestSteps
  <2>2. Latest(d)' \in Time /\ now \in Time
    BY NextType DEF Latest, TypeOK, WorldType, LocalsType
  <2>3. \A x \in Time : x \in Nat
    BY DispatchAssumption DEF Time
  <2> QED BY <2>1, <2>2, <2>3
<1>2. CASE heartbeat'[Slug(i)] = heartbeat[Slug(i)]
  BY <1>1, <1>2 DEF Opened, Expected, Slug
<1>3. CASE heartbeat'[Slug(i)] = now
  <2>1. heartbeat[Slug(i)] \in Int /\ heartbeat[Slug(i)] <= now /\ now \in Nat
    BY HeartSteps
  <2>2. w <= now
    BY <1>1, <2>1 DEF Opened
  <2> QED BY <1>1, <1>3, <2>2 DEF Opened, Slug
<1> QED BY <1>1, <1>2, <1>3, HeartSteps

\* Only WriteWindow touches a file, and only it puts a success on record.
LEMMA FileSteps ==
  ASSUME NEW d, Procs = {d}, TypeOK, [Next]_vars
  PROVE  \/ WriteWindow(d)
         \/ window' = window /\ \A i \in Ids : recorded'[i] \in {recorded[i], NoTime}
<1> USE DEF TypeOK, HistoryType, Unrecorded
<1> DEFINE Goal == window' = window /\ \A i \in Ids : recorded'[i] \in {recorded[i], NoTime}
<1>1. CASE BeginTick(d) \/ Skip(d) \/ GiveUpExhausted(d) \/ StartRun(d)
  BY <1>1 DEF BeginTick, Skip, GiveUpExhausted, StartRun, files, history
<1>2. CASE EndRun(d)
  BY <1>2 DEF EndRun
<1>3. CASE GiveUp(d) \/ Announce(d)
  BY <1>3 DEF GiveUp, Announce, files, history
<1>4. CASE BeginSweep(d) \/ SweepOne(d) \/ EndSweep(d) \/ Crash(d)
  BY <1>4 DEF BeginSweep, SweepOne, EndSweep, Crash, files, history
<1>5. CASE Pass \/ Unplug \/ UNCHANGED vars \/ \E j \in Ids : ManualRun(j)
  BY <1>5 DEF Pass, Unplug, ManualRun, vars, files, history
<1> QED BY <1>1, <1>2, <1>3, <1>4, <1>5 DEF Next, Step

\* What WriteWindow does, where each schedule has its own files.
LEMMA WriteFacts ==
  ASSUME NEW d, Procs = {d}, OwnFiles, TypeOK, Books, HandDates, WriteWindow(d)
  PROVE  LET i == pos[d]
             e == expected[d]
             l == WindowLabel(e)
         IN  /\ i \in Ids /\ e \in Time /\ l \in Time /\ pc[d] \in InHand /\ pc'[d] = "dispatch"
             /\ heartbeat' = heartbeat /\ tick_now' = tick_now /\ now' = now
             /\ e <= tick_now[d] /\ copy[d].exists
             /\ \A j \in Ids, k \in Time :
                   window'[Slug(j)][k] = IF j = i /\ k = l THEN copy[d] ELSE window[Slug(j)][k]
             /\ \A j \in Ids :
                   recorded'[j] = IF j = i /\ copy[d].exit = "ok" THEN l ELSE recorded[j]
<1> USE DEF WriteWindow, AtSchedule, TypeOK, LocalsType
<1>1. /\ pos[d] \in Ids /\ expected[d] \in Time /\ WindowLabel(expected[d]) \in Time
      /\ pc[d] \in InHand /\ pc'[d] = "dispatch" /\ d \in Procs
  BY LabelType DEF InHand
<1>2. heartbeat' = heartbeat /\ tick_now' = tick_now /\ now' = now
  OBVIOUS
<1>3. expected[d] <= tick_now[d] /\ copy[d].exists
  BY <1>1 DEF Books, HandBooks, HandDates
<1>4. \A j \in Ids : Slug(j) \in Slugs /\ (Slug(j) = Slug(pos[d]) => j = pos[d])
  BY <1>1, EntryType DEF OwnFiles
<1>5. ASSUME NEW j \in Ids, NEW k \in Time
      PROVE  window'[Slug(j)][k] = IF j = pos[d] /\ k = WindowLabel(expected[d]) THEN copy[d]
                                                                  ELSE window[Slug(j)][k]
  BY <1>1, <1>4 DEF FilesType
<1>6. \A j \in Ids : recorded'[j] = IF j = pos[d] /\ copy[d].exit = "ok" THEN WindowLabel(expected[d])
                                                                       ELSE recorded[j]
  BY <1>1 DEF HistoryType
<1> QED BY <1>1, <1>2, <1>3, <1>5, <1>6

-----------------------------------------------------------------------------
(* The dates of files, of the window in hand and of the record.            *)

DatesInv == FileDates /\ HandDates /\ RecordDates

\* There are no files before the first tick.
LEMMA DatesInit == Init => DatesInv
<1> SUFFICES ASSUME Init PROVE DatesInv
  OBVIOUS
<1>1. \A i \in Ids, l \in Time : window[Slug(i)][l] = NoWindow
  BY EntryType DEF Init
<1>2. FileDates
  <2>1. NoWindow.exit # "ok"
    BY DEF NoWindow, NoExit
  <2> QED BY <1>1, <2>1 DEF FileDates
<1>3. HandDates
  BY DEF Init, HandDates, InHand
<1>4. RecordDates
  BY DEF Init, RecordDates
<1> QED BY <1>2, <1>3, <1>4 DEF DatesInv

\* Every step keeps the dates of files,
LEMMA FileDatesStep ==
  ASSUME NEW d, Procs = {d}, OwnFiles, TypeOK, Books, FileDates, HandDates, [Next]_vars
  PROVE  FileDates'
<1> SUFFICES ASSUME NEW i \in Ids, NEW l \in Time
             PROVE  /\ window'[Slug(i)][l] # NoWindow =>
                          /\ window'[Slug(i)][l].exists
                          /\ \E w, t \in Time : /\ WindowLabel(w) = l /\ t <= Latest(d)'
                                                /\ Opened(i, w, t)'
                    /\ window'[Slug(i)][l].exit = "ok" => l <= heartbeat'[Slug(i)]
  BY DEF FileDates, Slug
<1>0. \A x \in Time : x \in Nat
  BY DispatchAssumption DEF Time
<1>1. ASSUME window'[Slug(i)][l] = window[Slug(i)][l]
      PROVE  /\ window'[Slug(i)][l] # NoWindow =>
                  /\ window'[Slug(i)][l].exists
                  /\ \E w, t \in Time : /\ WindowLabel(w) = l /\ t <= Latest(d)'
                                        /\ Opened(i, w, t)'
             /\ window'[Slug(i)][l].exit = "ok" => l <= heartbeat'[Slug(i)]
  <2>1. window[Slug(i)][l].exit = "ok" => l <= heartbeat[Slug(i)]
    BY DEF FileDates
  <2>2. heartbeat[Slug(i)] \in Int /\ heartbeat'[Slug(i)] \in Int
        /\ heartbeat[Slug(i)] <= heartbeat'[Slug(i)]
    BY HeartSteps
  <2>3. window'[Slug(i)][l].exit = "ok" => l <= heartbeat'[Slug(i)]
    BY <1>0, <1>1, <2>1, <2>2
  <2>4. ASSUME window[Slug(i)][l] # NoWindow
        PROVE  /\ window[Slug(i)][l].exists
               /\ \E w, t \in Time : WindowLabel(w) = l /\ t <= Latest(d)' /\ Opened(i, w, t)'
    <3>1. window[Slug(i)][l].exists
      BY <2>4 DEF FileDates
    <3>2. PICK w \in Time, t \in Time : WindowLabel(w) = l /\ t <= Latest(d) /\ Opened(i, w, t)
      BY <2>4 DEF FileDates
    <3>3. t <= Latest(d)' /\ Opened(i, w, t)'
      BY <3>2, OpenedStays
    <3> QED BY <3>1, <3>2, <3>3
  <2> QED BY <1>1, <2>3, <2>4
<1>2. CASE WriteWindow(d) /\ i = pos[d] /\ l = WindowLabel(expected[d])
  <2> DEFINE e == expected[d]
  <2>1. /\ e \in Time /\ pc[d] \in InHand /\ pc'[d] = "dispatch" /\ e <= tick_now[d]
        /\ heartbeat' = heartbeat /\ tick_now' = tick_now /\ copy[d].exists
        /\ window'[Slug(i)][l] = copy[d]
    BY <1>2, WriteFacts
  <2>2. tick_now[d] \in Time /\ heartbeat[Slug(i)] \in Int
    BY LatestSteps, HeartSteps
  <2>3. heartbeat[Slug(i)] >= tick_now[d] \/ e = Expected(i, tick_now[d])
    BY <1>2, <2>1 DEF HandDates
  <2>4. PICK w \in Time, t \in Time : w = e /\ t = tick_now[d]
    BY <2>1, <2>2
  <2>5. Opened(i, w, t)
    BY <1>0, <2>1, <2>2, <2>3, <2>4 DEF Opened
  <2>6. Opened(i, w, t)'
    BY <2>1, <2>5 DEF Opened, Expected, Slug
  <2>7. t <= Latest(d)'
    BY <1>0, <2>1, <2>4 DEF Latest
  <2>8. copy[d].exit = "ok" => e <= heartbeat[Slug(i)]
    BY <1>2, <2>1 DEF HandDates
  <2>9. l <= e /\ l = WindowLabel(w)
    BY <1>0, <1>2, <2>1, <2>4, LabelFacts
  <2> HIDE DEF e
  <2>10. copy[d].exit = "ok" => l <= heartbeat[Slug(i)]
    BY <1>0, <2>1, <2>2, <2>8, <2>9
  <2> QED BY <2>1, <2>6, <2>7, <2>9, <2>10
<1>3. WriteWindow(d) \/ window'[Slug(i)][l] = window[Slug(i)][l]
  BY FileSteps
<1>4. WriteWindow(d) => (i = pos[d] /\ l = WindowLabel(expected[d])) \/ window'[Slug(i)][l] = window[Slug(i)][l]
  BY WriteFacts
<1> QED BY <1>1, <1>2, <1>3, <1>4

\* The window in hand, from one step of dispatch_one to the next.
LEMMA HandStays ==
  ASSUME NEW d, Procs = {d}, TypeOK, Books, HandDates, [Next]_vars,
         pc[d] \in InHand, pc'[d] \in InHand, pos' = pos, expected' = expected, window' = window,
         copy'[d].exists, copy'[d].exit = "ok" => expected[d] <= heartbeat'[Slug(pos[d])]
  PROVE  HandDates'
<1> DEFINE i == pos[d]
           e == expected[d]
<1>0. \A x \in Time : x \in Nat
  BY DispatchAssumption DEF Time
<1>1. i \in Ids /\ Slug(i) \in Slugs /\ e \in Time /\ e <= tick_now[d] /\ tick_now[d] \in Time
  BY EntryType DEF TypeOK, LocalsType, Positioned, Books, HandBooks
<1>2. tick_now'[d] = tick_now[d] /\ tick_now[d] <= now
  BY LatestSteps DEF InHand, Books, HandBooks
<1>3. /\ heartbeat[Slug(i)] \in Int /\ heartbeat'[Slug(i)] \in Int /\ now \in Nat
      /\ heartbeat[Slug(i)] <= now
      /\ \/ heartbeat'[Slug(i)] = heartbeat[Slug(i)]
         \/ heartbeat'[Slug(i)] = now /\ recorded'[i] = NoTime
  BY <1>1, HeartSteps
<1>4. /\ \E ls \in OptTime : e = expected_at(Manifest[i].sched, tick_now[d], ls)
      /\ heartbeat[Slug(i)] >= tick_now[d]
           \/ (heartbeat[Slug(i)] < e /\ e = Expected(i, tick_now[d]))
      /\ \A l \in Time : window[Slug(i)][l] # NoWindow => l <= WindowLabel(e)
      /\ recorded[i] # NoTime => heartbeat[Slug(i)] < e
  BY DEF HandDates
<1>5. ASSUME heartbeat'[Slug(i)] = heartbeat[Slug(i)] PROVE Expected(i, tick_now[d])' = Expected(i, tick_now[d])
  BY <1>2, <1>5 DEF Expected, Slug
<1>6. heartbeat'[Slug(i)] >= tick_now[d]
        \/ (heartbeat'[Slug(i)] < e /\ e = Expected(i, tick_now[d])')
  BY <1>0, <1>1, <1>2, <1>3, <1>4, <1>5
<1>7. recorded'[i] # NoTime => heartbeat'[Slug(i)] < e
  <2>1. SUFFICES ASSUME recorded'[i] # NoTime PROVE heartbeat'[Slug(i)] < e
    OBVIOUS
  <2>2. ~WriteWindow(d)
    BY DEF WriteWindow, InHand, TypeOK, LocalsType
  <2>3. recorded[i] = recorded'[i]
    BY <1>1, <2>1, <2>2, FileSteps
  <2> QED BY <1>3, <1>4, <2>1, <2>3
<1>8. pos'[d] = i /\ expected'[d] = e
  OBVIOUS
<1> HIDE DEF i, e
<1>9. Slug(pos[d])' = Slug(i)
  BY <1>8 DEF Slug
<1> QED BY SMTT(20), <1>2, <1>4, <1>6, <1>7, <1>8, <1>9 DEF HandDates, i, e, Slug, Expected

\* A window comes in hand when it is due: it is newer than every file.
LEMMA HandStarts ==
  ASSUME NEW d, Procs = {d}, TypeOK, Books, FileDates, [Next]_vars,
         GiveUpExhausted(d) \/ StartRun(d)
  PROVE  HandDates'
<1> DEFINE i == pos[d]
           t == tick_now[d]
           e == Expected(i, t)
           h == heartbeat[Slug(i)]
<1>0. \A x \in Time : x \in Nat
  BY DispatchAssumption DEF Time
<1>1. /\ AtSchedule(d, "dispatch") /\ PassesGates(i, t, power[d])
      /\ i \in Ids /\ Slug(i) \in Slugs /\ e \in Time /\ e <= t /\ h < e /\ WindowLabel(e) \in Time
      /\ expected'[d] = e /\ pos' = pos /\ tick_now' = tick_now /\ heartbeat' = heartbeat
      /\ window' = window
      /\ copy'[d] = [read_window(i, e) EXCEPT !.exists = TRUE]
  BY GateFacts DEF GiveUpExhausted, StartRun, files, AtSchedule, TypeOK, LocalsType
<1>2. h \in OptTime /\ t \in Time /\ h \in Nat \union {NoTime} /\ t \in Nat
  BY <1>0, <1>1 DEF TypeOK, FilesType, LocalsType, OptTime
<1>3. e = expected_at(Manifest[i].sched, t, h) /\ e # NoTime
  BY <1>0, <1>1 DEF Expected, NoTime
<1>4. h < WindowLabel(e)
  BY <1>1, <1>2, <1>3, FreshLabel
<1>5. ASSUME NEW l \in Time, window[Slug(i)][l] # NoWindow PROVE l <= WindowLabel(e)
  <2>1. PICK w \in Time, u \in Time : WindowLabel(w) = l /\ u <= Latest(d) /\ Opened(i, w, u)
    BY <1>1, <1>5 DEF FileDates
  <2>2. Latest(d) = t
    BY <1>1 DEF Latest, AtSchedule
  <2>3. w <= e
    <3>1. CASE w <= h
      BY <1>0, <1>1, <1>2, <3>1 DEF NoTime
    <3>2. CASE w = Expected(i, u)
      <4>1. w = expected_at(Manifest[i].sched, u, h) /\ w # NoTime
        BY <1>0, <3>2 DEF Expected, NoTime
      <4>2. Manifest[i].sched \in IntervalSchedules(Nat) \union CronSchedules
        BY <1>1, EntryType
      <4> HIDE DEF h, t, i, e
      <4> QED BY <1>0, <1>2, <1>3, <2>1, <2>2, <4>1, <4>2, ExpectedNeverBack
    <3> QED BY <2>1, <3>1, <3>2 DEF Opened
  <2> HIDE DEF e
  <2> QED BY <1>0, <1>1, <2>1, <2>3, LabelMono
<1>6. copy'[d].exists /\ copy'[d].exit # "ok"
  <2>1. read_window(i, e) \in WindowState /\ read_window(i, e) = window[Slug(i)][WindowLabel(e)]
    BY <1>1 DEF read_window, TypeOK, FilesType
  <2>2. read_window(i, e).exit # "ok"
    <3>1. read_window(i, e).exit = "ok" => WindowLabel(e) <= h
      BY <1>1, <2>1 DEF FileDates
    <3> HIDE DEF h, e
    <3> QED BY <1>0, <1>1, <1>2, <1>4, <3>1 DEF NoTime
  <2> HIDE DEF e
  <2> QED BY <1>1, <2>1, <2>2 DEF WindowState
<1>7. \E ls \in OptTime : expected'[d] = expected_at(Manifest[pos'[d]].sched, tick_now'[d], ls)
  BY <1>1, <1>2, <1>3
<1>8. /\ heartbeat'[Slug(pos'[d])] < expected'[d]
      /\ expected'[d] = expected_at(Manifest[pos'[d]].sched, tick_now'[d], heartbeat'[Slug(pos'[d])])
  BY <1>1, <1>3
<1>9. \A l \in Time : window'[Slug(pos'[d])][l] # NoWindow => l <= WindowLabel(expected'[d])
  BY <1>1, <1>5
<1> QED BY <1>6, <1>7, <1>8, <1>9 DEF HandDates, Expected, Slug

\* ... those of the window in hand,
LEMMA HandDatesStep ==
  ASSUME NEW d, Procs = {d}, TypeOK, Books, FileDates, HandDates, [Next]_vars
  PROVE  HandDates'
<1> USE DEF TypeOK, LocalsType
<1>1. CASE pc'[d] \notin InHand
  BY <1>1 DEF HandDates
<1>2. CASE GiveUpExhausted(d) \/ StartRun(d)
  BY <1>2, HandStarts
<1>3. CASE EndRun(d) /\ pc'[d] \in InHand
  <2> PICK o \in Outcomes : EndRun(d)!(o)
    BY <1>3 DEF EndRun
  <2>1. o # "error"
    BY <1>3 DEF AfterRun, InHand
  <2>2. copy' = [copy EXCEPT ![d] = Counted(copy[d], o, tick_now[d])]
    BY <2>1
  <2>3. copy'[d].exit = o /\ copy'[d].exists = copy[d].exists
    BY <2>2 DEF Counted, WindowState
  <2>4. pc[d] \in InHand /\ copy[d].exists /\ pos[d] \in Ids /\ Slug(pos[d]) \in Slugs
    BY EntryType DEF AtSchedule, InHand, HandDates
  <2>5. o = "ok" => heartbeat'[Slug(pos[d])] = now
    BY <2>1, <2>4 DEF FilesType
  <2>6. expected[d] <= now
    BY <2>4, DispatchAssumption DEF Books, HandBooks, WorldType, Time
  <2> HIDE DEF TypeOK, LocalsType
  <2> QED BY <1>3, <2>1, <2>3, <2>4, <2>5, <2>6, HandStays
<1>4. CASE GiveUp(d)
  <2>1. copy'[d].exit = copy[d].exit /\ copy'[d].exists = copy[d].exists
    BY <1>4 DEF GiveUp, WindowState
  <2>2. pc[d] \in InHand /\ pc'[d] \in InHand /\ pos' = pos /\ expected' = expected
        /\ window' = window /\ heartbeat' = heartbeat
    BY <1>4 DEF GiveUp, AtSchedule, InHand
  <2> QED BY <2>1, <2>2, HandStays DEF HandDates
<1>5. CASE Announce(d)
  <2>1. pc[d] \in InHand /\ pc'[d] \in InHand /\ pos' = pos /\ expected' = expected
        /\ window' = window /\ heartbeat' = heartbeat /\ copy' = copy
    BY <1>5 DEF Announce, AtSchedule, InHand, files
  <2> QED BY <2>1, HandStays DEF HandDates
<1>6. CASE pc'[d] \in InHand /\ (Pass \/ Unplug \/ UNCHANGED vars \/ \E j \in Ids : ManualRun(j))
  <2>1. pc' = pc /\ pos' = pos /\ expected' = expected /\ window' = window /\ copy' = copy
    BY <1>6 DEF Pass, Unplug, ManualRun, vars, files, locals
  <2>2. pos[d] \in Ids /\ expected[d] \in Time /\ expected[d] \in Int
    BY <1>6, <2>1, DispatchAssumption DEF Positioned, Time
  <2>3. heartbeat[Slug(pos[d])] <= heartbeat'[Slug(pos[d])]
        /\ heartbeat[Slug(pos[d])] \in Int /\ heartbeat'[Slug(pos[d])] \in Int
    BY <2>2, HeartSteps
  <2> HIDE DEF TypeOK, LocalsType
  <2> QED BY <1>6, <2>1, <2>2, <2>3, HandStays DEF HandDates
<1>7. CASE BeginTick(d) \/ Skip(d) \/ WriteWindow(d)
  BY <1>7, <1>1 DEF BeginTick, Skip, WriteWindow, AtSchedule, InHand
<1>8. CASE BeginSweep(d) \/ SweepOne(d) \/ EndSweep(d) \/ Crash(d)
  BY <1>8, <1>1 DEF BeginSweep, SweepOne, EndSweep, Crash, AtSchedule, InHand
<1> QED BY <1>1, <1>2, <1>3, <1>4, <1>5, <1>6, <1>7, <1>8 DEF Next, Step

\* The record of one schedule.
RecordOf(p, i) == recorded[i] # NoTime =>
    /\ window[Slug(i)][recorded[i]].exists
    /\ \E w, t \in Time, ls \in OptTime :
          /\ WindowLabel(w) = recorded[i] /\ w <= heartbeat[Slug(i)]
          /\ t <= Latest(p) /\ w = expected_at(Manifest[i].sched, t, ls)
    /\ \A l \in Time :
          window[Slug(i)][l].exists /\ recorded[i] < l => heartbeat[Slug(i)] < l

\* It stays where neither it, nor the files, nor the heartbeat move.
LEMMA RecordStays ==
  ASSUME NEW d, Procs = {d}, TypeOK, Books, RecordDates, [Next]_vars, NEW i \in Ids,
         recorded'[i] = recorded[i], heartbeat'[Slug(i)] = heartbeat[Slug(i)],
         \A l \in Time : window'[Slug(i)][l] = window[Slug(i)][l]
  PROVE  RecordOf(d, i)'
<1> SUFFICES ASSUME recorded[i] # NoTime PROVE RecordOf(d, i)'
  BY DEF RecordOf
<1>1. /\ window[Slug(i)][recorded[i]].exists
      /\ \A l \in Time :
           window[Slug(i)][l].exists /\ recorded[i] < l => heartbeat[Slug(i)] < l
      /\ recorded[i] \in Time
  BY DEF RecordDates, TypeOK, HistoryType, OptTime
<1>2. PICK w \in Time, t \in Time, ls \in OptTime :
          /\ WindowLabel(w) = recorded[i] /\ w <= heartbeat[Slug(i)]
          /\ t <= Latest(d) /\ w = expected_at(Manifest[i].sched, t, ls)
  BY DEF RecordDates
<1>3. t <= Latest(d)'
  <2>1. Latest(d) \in Time /\ Latest(d) <= Latest(d)' /\ Latest(d)' \in Time
    BY LatestSteps, NextType DEF Latest, TypeOK, WorldType, LocalsType
  <2>2. \A x \in Time : x \in Nat
    BY DispatchAssumption DEF Time
  <2> QED BY <1>2, <2>1, <2>2
<1> QED BY <1>1, <1>2, <1>3 DEF RecordOf, Slug

\* ... and of the file on record for the latest success.
LEMMA RecordDatesStep ==
  ASSUME NEW d, Procs = {d}, OwnFiles, TypeOK, Books, FileDates, HandDates, RecordDates, [Next]_vars
  PROVE  RecordDates'
<1> SUFFICES ASSUME NEW i \in Ids, recorded'[i] # NoTime PROVE RecordOf(d, i)'
  BY DEF RecordDates, RecordOf
<1>0. (\A x \in Time : x \in Nat) /\ \A x \in OptTime : x \in Int
  BY DispatchAssumption DEF Time, OptTime, NoTime
<1>1. heartbeat'[Slug(i)] = heartbeat[Slug(i)]
  BY HeartSteps, <1>0 DEF NoTime
<1>2. CASE ~WriteWindow(d)
  <2>1. window' = window /\ recorded'[i] = recorded[i]
    BY <1>2, FileSteps
  <2> QED BY <1>1, <2>1, RecordStays
<1>3. CASE WriteWindow(d) /\ i # pos[d]
  <2>1. recorded'[i] = recorded[i] /\ \A l \in Time : window'[Slug(i)][l] = window[Slug(i)][l]
    BY <1>3, WriteFacts
  <2> QED BY <1>1, <2>1, RecordStays
<1>4. CASE WriteWindow(d) /\ i = pos[d]
  <2> DEFINE e == expected[d]
             m == WindowLabel(e)
             h == heartbeat[Slug(i)]
             t0 == tick_now[d]
  <2>1. /\ e \in Time /\ m \in Time /\ pc[d] \in InHand /\ pc'[d] = "dispatch"
        /\ heartbeat' = heartbeat /\ tick_now' = tick_now
        /\ e <= t0 /\ copy[d].exists
        /\ \A k \in Time : window'[Slug(i)][k] = IF k = m THEN copy[d] ELSE window[Slug(i)][k]
        /\ recorded'[i] = IF copy[d].exit = "ok" THEN m ELSE recorded[i]
    BY <1>4, WriteFacts
  <2>2. /\ \E ls \in OptTime : e = expected_at(Manifest[i].sched, t0, ls)
        /\ h >= t0 \/ (h < e /\ e = Expected(i, t0))
        /\ \A l \in Time : window[Slug(i)][l] # NoWindow => l <= m
        /\ copy[d].exit = "ok" => e <= h
        /\ recorded[i] # NoTime => h < e
    BY <1>4, <2>1 DEF HandDates
  <2>3. /\ t0 \in Time /\ h \in Int /\ h \in OptTime
    BY LatestSteps, HeartSteps, EntryType DEF TypeOK, FilesType
  <2>4. Latest(d)' = t0
    BY <2>1 DEF Latest
  <2>5. CASE copy[d].exit = "ok"
    <3>1. recorded'[i] = m /\ window'[Slug(i)][m].exists
      BY <2>1, <2>5
    <3>2. e <= heartbeat'[Slug(i)]
      BY <2>1, <2>2, <2>5
    <3>3. ASSUME NEW l \in Time, window'[Slug(i)][l].exists PROVE l <= m
      <4>1. CASE l = m
        BY <1>0, <2>1, <4>1
      <4>2. CASE l # m
        <5>1. window[Slug(i)][l].exists
          BY <2>1, <3>3, <4>2
        <5>2. window[Slug(i)][l] # NoWindow
          BY <5>1 DEF NoWindow
        <5> QED BY <2>2, <5>2
      <4> QED BY <4>1, <4>2
    <3> HIDE DEF m
    <3>4. \A l \in Time : ~(window'[Slug(i)][l].exists /\ m < l)
      BY <1>0, <2>1, <3>3
    <3>5. \E w, t \in Time, ls \in OptTime :
             /\ WindowLabel(w) = m /\ w <= heartbeat'[Slug(i)]
             /\ t <= Latest(d)' /\ w = expected_at(Manifest[i].sched, t, ls)
      <4>1. t0 <= t0
        BY <1>0, <2>3
      <4>2. WindowLabel(e) = m
        BY DEF m
      <4> HIDE DEF e, t0
      <4> QED BY <2>1, <2>2, <2>3, <2>4, <3>2, <4>1, <4>2
    <3> QED BY <3>1, <3>4, <3>5 DEF RecordOf, Slug
  <2>6. CASE copy[d].exit # "ok"
    <3>1. recorded'[i] = recorded[i] /\ recorded[i] # NoTime
      BY <2>1, <2>6
    <3>2. h < e /\ e = Expected(i, t0)
      BY <1>0, <2>1, <2>2, <2>3, <3>1
    <3>3. e = expected_at(Manifest[i].sched, t0, h) /\ e # NoTime /\ h \in Nat \union {NoTime} /\ t0 \in Nat
      BY <1>0, <2>1, <2>3, <3>2 DEF Expected, NoTime, OptTime
    <3>4. h < m
      <4> HIDE DEF h, t0
      <4> QED BY <3>2, <3>3, FreshLabel
    <3>5. /\ window[Slug(i)][recorded[i]].exists
          /\ \A l \in Time :
               window[Slug(i)][l].exists /\ recorded[i] < l => h < l
          /\ recorded[i] \in Time
      BY <3>1 DEF RecordDates, TypeOK, HistoryType, OptTime
    <3>6. PICK w \in Time, t \in Time, ls \in OptTime :
              /\ WindowLabel(w) = recorded[i] /\ w <= h
              /\ t <= Latest(d) /\ w = expected_at(Manifest[i].sched, t, ls)
      BY <3>1 DEF RecordDates
    <3>7. t <= Latest(d)'
      <4>1. Latest(d) = t0
        BY <2>1 DEF Latest, InHand
      <4> QED BY <2>4, <3>6, <4>1
    <3>8. window'[Slug(i)][recorded[i]].exists
      BY <2>1, <3>5
    <3>9. \A l \in Time : window'[Slug(i)][l].exists /\ recorded[i] < l => h < l
      <4> HIDE DEF h, m
      <4> QED BY <2>1, <3>4, <3>5
    <3>10. heartbeat'[Slug(i)] = h
      BY <2>1
    <3> HIDE DEF h
    <3> QED BY <3>1, <3>6, <3>7, <3>8, <3>9, <3>10 DEF RecordOf, Slug
  <2> QED BY <2>5, <2>6
<1> QED BY <1>2, <1>3, <1>4

\* The newest file written, no later than a clock that is ahead of it.
LEMMA NewestFile ==
  ASSUME NEW g \in Slugs, NEW t \in Time, NEW l \in Time, window[g][l].exists, l <= t,
         \A k \in Time : window[g][k].exists /\ k <= t => k <= l
  PROVE  last_dispatched_window(g, t) = l
<1> DEFINE labels == {k \in Time : window[g][k].exists /\ k <= t}
<1>0. \A x \in Time : x \in Nat
  BY DispatchAssumption DEF Time
<1>1. l \in labels /\ labels \in SUBSET (0 .. t) /\ t \in Nat /\ \A k \in labels : k <= l
  BY <1>0
<1>2. last_dispatched_window(g, t) = Max(labels)
  BY <1>1 DEF last_dispatched_window
<1> HIDE DEF labels
<1>3. Max(labels) \in labels /\ \A y \in labels : y <= Max(labels)
  BY <1>1, MaxOfBounded
<1>4. Max(labels) <= l /\ l <= Max(labels) /\ Max(labels) \in 0 .. t
  BY <1>1, <1>3
<1> QED BY <1>0, <1>2, <1>4

\* Whoever reads the health of a satisfied schedule finds the file of the run
\* that satisfied it.
LEMMA ReaderFinds ==
  ASSUME NEW d, Procs = {d}, TypeOK, Books, FileDates, RecordDates
  PROVE  ReaderFindsTheRun
<1> SUFFICES ASSUME NEW i \in Ids, recorded[i] # NoTime, Expected(i, now) # NoTime,
                    heartbeat[Slug(i)] >= Expected(i, now)
             PROVE  WindowLabel(ReportedKey(i, now)) = recorded[i]
  BY DEF ReaderFindsTheRun
<1> DEFINE r == recorded[i]
           h == heartbeat[Slug(i)]
           e == Expected(i, now)
           sched == Manifest[i].sched
<1>0. (\A x \in Time : x \in Nat) /\ Slug(i) \in Slugs /\ sched \in IntervalSchedules(Nat) \union CronSchedules
  BY EntryType, DispatchAssumption DEF Time
<1>1. /\ now \in Time /\ r \in Time /\ h \in Int /\ h \in Nat \union {NoTime} /\ h <= now
      /\ Latest(d) \in Time /\ Latest(d) <= now
  <2>1. now \in Time /\ r \in Time /\ h \in OptTime /\ h <= now
    BY <1>0 DEF TypeOK, WorldType, FilesType, HistoryType, OptTime, Books, HeartbeatBooks
  <2>2. Latest(d) \in Time /\ Latest(d) <= now
    BY <1>0, <2>1 DEF TypeOK, LocalsType, Latest, Books, HandBooks
  <2> QED BY <1>0, <2>1, <2>2 DEF OptTime, NoTime
<1>2. e = expected_at(sched, now, h) /\ e \in Nat /\ e # NoTime /\ e <= h
  <2>1. e = expected_at(sched, now, h) /\ e # NoTime
    BY DEF Expected
  <2>2. expected_at(sched, now, h) \in Nat \union {NoTime}
    BY <1>0, <1>1, ExpectedType
  <2> QED BY <2>1, <2>2
<1>3. /\ window[Slug(i)][r].exists
      /\ \A l \in Time : window[Slug(i)][l].exists /\ r < l => h < l
  BY DEF RecordDates
<1>4. PICK w \in Time, t \in Time, ls \in OptTime :
          WindowLabel(w) = r /\ w <= h /\ t <= Latest(d) /\ w = expected_at(sched, t, ls)
  BY DEF RecordDates
<1>5. r <= w /\ WindowLabel(r) = r
  BY <1>0, <1>4, LabelFacts
<1> HIDE DEF e, h, r
<1>6. r <= now
  BY <1>0, <1>1, <1>4, <1>5
<1>7. ASSUME NEW k \in Time, window[Slug(i)][k].exists PROVE k <= r
  <2> SUFFICES ASSUME r < k PROVE FALSE
    BY <1>0, <1>1
  <2>1. h < k
    BY <1>3, <1>7
  <2>2. PICK x \in Time, u \in Time : WindowLabel(x) = k /\ u <= Latest(d) /\ Opened(i, x, u)
    BY <1>7 DEF FileDates, NoWindow
  <2>3. k <= x
    BY <1>0, <2>2, LabelFacts
  <2>4. ~(x <= h)
    BY <1>0, <1>1, <2>1, <2>3
  <2>5. x = expected_at(sched, u, h) /\ x # NoTime
    BY <1>0, <2>2, <2>4 DEF Opened, Expected, h, NoTime
  <2>6. u <= now
    BY <1>0, <1>1, <2>2
  <2> HIDE DEF sched
  <2>7. x <= e
    BY <1>0, <1>1, <1>2, <2>5, <2>6, ExpectedNeverBack
  <2> QED BY <1>0, <1>1, <1>2, <2>4, <2>7
<1>8. last_dispatched_window(Slug(i), now) = r
  BY <1>0, <1>1, <1>3, <1>6, <1>7, NewestFile
<1>9. r <= e
  <2>1. CASE sched \in CronSchedules
    <3>1. sched.kind = "cron"
      BY <2>1 DEF CronSchedules
    <3>2. w = cron_expected_at(sched, t) /\ e = cron_expected_at(sched, now)
      BY <1>2, <1>4, <3>1 DEF expected_at
    <3>3. t <= now /\ w # NoTime
      BY <1>0, <1>1, <1>4 DEF NoTime
    <3> HIDE DEF sched
    <3>4. w <= e
      BY <1>0, <1>1, <1>2, <2>1, <3>2, <3>3, CronMono
    <3> QED BY <1>0, <1>1, <1>2, <1>5, <3>4
  <2>2. CASE sched \in IntervalSchedules(Nat)
    <3> DEFINE iv == sched.interval_minutes
               D == iv * SecPerMin
    <3>1. e = interval_expected_at(iv, now, h) /\ iv \in Nat
      BY <1>2, <2>2 DEF expected_at, IntervalSchedules
    <3>2. h \in Nat
      BY <1>0, <1>1, <1>4 DEF NoTime
    <3> HIDE DEF iv, sched
    <3>3. h <= e
      <4>1. CASE iv = 0
        <5>1. e = h
          BY <3>1, <4>1, IntervalZero
        <5> QED BY <3>2, <5>1
      <4>2. CASE iv # 0
        <5>1. /\ D \in Nat /\ now \in Nat
              /\ h <= now => \E k \in Nat : interval_expected_at(iv, now, h) = h + k * D
          BY <1>0, <1>1, <3>1, <3>2, <4>2, IntervalExpected
        <5>2. PICK k \in Nat : e = h + k * D
          BY <1>1, <3>1, <5>1
        <5> HIDE DEF D
        <5>3. k * D \in Nat
          BY <5>1, Z3
        <5> QED BY <3>2, <5>2, <5>3
      <4> QED BY <4>1, <4>2
    <3> QED BY <1>0, <1>1, <1>2, <1>4, <1>5, <3>2, <3>3
  <2> QED BY <1>0, <2>1, <2>2
<1>10. ReportedKey(i, now) = r
  <2>1. ~(h = NoTime \/ h < e)
    BY <1>0, <1>1, <1>2, <1>4 DEF NoTime
  <2>2. r # NoTime
    BY <1>0, <1>1 DEF NoTime
  <2>3. window_key(sched, h, r, now) = r
    BY <1>2, <1>9, <2>1, <2>2 DEF window_key
  <2> QED BY <1>8, <2>3 DEF ReportedKey, h
<1> QED BY <1>5, <1>10 DEF r

-----------------------------------------------------------------------------
(* What the tick is done with was tried.                                   *)

\* Where each schedule has its own files, a blank file is the only one without a
\* run, and a window in hand has had its run.
LEMMA OwnTried ==
  ASSUME OwnFiles, TypeOK, TriedBooks
  PROVE  /\ FileTried
         /\ \A p \in Procs : pc[p] \in InHand => started[pos[p]][WindowLabel(expected[p])] > 0
<1>1. ASSUME NEW i \in Ids, NEW l \in Time, Tried(Slug(i), l) PROVE started[i][l] > 0
  BY <1>1 DEF Tried, OwnFiles
<1>2. FileTried
  BY <1>1, EntryType DEF FileTried, TriedBooks
<1>3. ASSUME NEW p \in Procs, pc[p] \in InHand
      PROVE  started[pos[p]][WindowLabel(expected[p])] > 0
  BY <1>1, <1>3, LabelType DEF TriedBooks, TypeOK, Positioned, LocalsType
<1> QED BY <1>2, <1>3

\* A schedule is passed when the tick skips it or takes it in hand.
LEMMA PassedSteps ==
  ASSUME NEW d, Procs = {d}, TypeOK, [Next]_vars, NEW i \in Ids, Passed(d, i)'
  PROVE  /\ pc[d] # "idle" /\ pc'[d] # "idle"
         /\ Passed(d, i) \/ (i = pos[d] /\ (Skip(d) \/ GiveUpExhausted(d) \/ StartRun(d)))
<1>1. i \in 1 .. Len(Manifest) /\ Ids = 1 .. Len(Manifest) /\ Len(Manifest) \in Nat
  BY DispatchAssumption DEF Ids
<1>p. \/ i < pos'[d] /\ pc'[d] \in InHand \union {"dispatch"}
      \/ i = pos'[d] /\ pc'[d] \in InHand
      \/ pc'[d] = "sweep"
  BY DEF Passed
<1>q. pos[d] \in Nat \ {0} /\ d \in Procs
  BY DEF TypeOK, LocalsType
<1>r. ASSUME pc[d] \in InHand, i <= pos[d] PROVE Passed(d, i)
  BY <1>1, <1>q, <1>r DEF Passed
<1>s. ASSUME pc[d] = "dispatch", i < pos[d] PROVE Passed(d, i)
  BY <1>s DEF Passed
<1> USE <1>1, <1>p DEF TypeOK, LocalsType, Passed, InHand, AtSchedule
<1>2. CASE BeginTick(d)
  BY <1>2 DEF BeginTick
<1>3. CASE Skip(d) \/ StartRun(d) \/ GiveUpExhausted(d)
  <2>1. /\ pc[d] = "dispatch" /\ pc'[d] \in InHand \union {"dispatch"}
        /\ (pos'[d] = pos[d] + 1 /\ pc'[d] = "dispatch") \/ pos'[d] = pos[d]
    BY <1>3 DEF Skip, StartRun, GiveUpExhausted
  <2>2. i < pos[d] \/ i = pos[d]
    BY <1>q, <2>1
  <2> QED BY <1>3, <1>s, <2>1, <2>2
<1>4. CASE EndRun(d)
  <2>1. /\ pc[d] = "running" /\ pc'[d] # "idle"
        /\ (pos'[d] = pos[d] + 1 /\ pc'[d] = "dispatch") \/ pos'[d] = pos[d]
        /\ pc'[d] # "sweep"
    BY <1>4 DEF EndRun, AfterRun
  <2>2. i <= pos[d]
    BY <1>q, <2>1
  <2> QED BY <1>r, <2>1, <2>2
<1>5. CASE GiveUp(d) \/ Announce(d) \/ WriteWindow(d)
  <2>1. /\ pc[d] \in InHand /\ pc'[d] \in InHand \union {"dispatch"}
        /\ (pos'[d] = pos[d] + 1 /\ pc'[d] = "dispatch") \/ pos'[d] = pos[d]
    BY <1>5 DEF GiveUp, Announce, WriteWindow
  <2>2. i <= pos[d]
    BY <1>q, <2>1
  <2> QED BY <1>r, <2>1, <2>2
<1>6. CASE BeginSweep(d) \/ SweepOne(d)
  BY <1>6 DEF BeginSweep, SweepOne
<1>7. CASE EndSweep(d) \/ Crash(d)
  BY <1>7 DEF EndSweep, Crash, ForgetTick
<1>8. CASE Pass \/ Unplug \/ UNCHANGED vars \/ \E j \in Ids : ManualRun(j)
  BY <1>8 DEF Pass, Unplug, ManualRun, vars, locals
<1> QED BY <1>2, <1>3, <1>4, <1>5, <1>6, <1>7, <1>8 DEF Next, Step

\* A watched schedule whose newest window is still open is skipped only for
\* what its window file says, and that file is not blank.
LEMMA SkippedTried ==
  ASSUME NEW d, Procs = {d}, OwnFiles, TypeOK, TriedBooks, NEW i \in Ids,
         pc[d] = "dispatch", pos[d] = i, Watched(d, i), heartbeat[Slug(i)] # NoTime,
         heartbeat[Slug(i)] < Expected(i, tick_now[d]), heartbeat[Slug(i)] < tick_now[d],
         ~PassesGates(i, tick_now[d], power[d])
  PROVE  started[i][WindowLabel(Expected(i, tick_now[d]))] > 0
<1> DEFINE t == tick_now[d]
           h == heartbeat[Slug(i)]
           e == Expected(i, t)
           sa == Manifest[i].stale_after
           w == read_window(i, e)
<1>0. (\A x \in Time : x \in Nat) /\ MaxTime \in Nat
  BY DispatchAssumption DEF Time
<1>1. t \in Time /\ h \in Time /\ Slug(i) \in Slugs
  BY EntryType DEF TypeOK, LocalsType, FilesType, OptTime
<1>2. e = expected_at(Manifest[i].sched, t, h)
  BY DEF Expected
<1>3. /\ e \in Nat
      /\ h < t => e <= t
      /\ e <= t => ~is_stale(e, sa, t)
  <2> HIDE DEF t, h, e, sa
  <2> QED BY <1>1, <1>2, WatchedDue DEF sa
<1>4. e <= t /\ ~is_stale(e, sa, t) /\ e \in Time /\ e # NoTime
  <2>1. e <= t
    BY <1>3
  <2> HIDE DEF e, t
  <2> QED BY <1>0, <1>1, <1>3, <2>1 DEF Time, NoTime
<1>5. Due(i, t)
  BY <1>4 DEF Due
<1>6. w.given_up \/ ~should_retry(w.attempts, w.last_attempt_at, Manifest[i].backoff, t)
  BY <1>4, <1>5 DEF PassesGates, Watched
<1>7. w # NoWindow
  BY <1>6 DEF NoWindow, should_retry
<1>8. WindowLabel(e) \in Time
  BY <1>4, LabelType
<1> HIDE DEF e
<1> QED BY <1>7, <1>8, OwnTried DEF FileTried, read_window, e

\* Every step keeps it: a schedule that was passed succeeded since, or its newest window was run.
LEMMA PassedTriedStep ==
  ASSUME NEW d, Procs = {d}, OwnFiles, \A i \in Ids : Manifest[i].max_retries > 0,
         TypeOK, Books, TriedBooks, PassedTried, [Next]_vars
  PROVE  PassedTried'
<1> SUFFICES ASSUME NEW i \in Ids, Passed(d, i)', Watched(d, i)', heartbeat'[Slug(i)] # NoTime,
                    heartbeat'[Slug(i)] < Expected(i, tick_now[d])',
                    heartbeat'[Slug(i)] < tick_now'[d]
             PROVE  started'[i][WindowLabel(Expected(i, tick_now[d])')] > 0
  BY DEF PassedTried, Expected, Slug, WindowLabel
<1>0. \A x \in Time : x \in Nat
  BY DispatchAssumption DEF Time
<1>1. /\ pc[d] # "idle" /\ pc'[d] # "idle"
      /\ Passed(d, i) \/ (i = pos[d] /\ (Skip(d) \/ GiveUpExhausted(d) \/ StartRun(d)))
  BY PassedSteps
<1>2. /\ tick_now'[d] = tick_now[d] /\ power'[d] = power[d] /\ tick_now[d] \in Time
      /\ tick_now[d] <= now /\ now \in Nat
  BY <1>1, LatestSteps, HeartSteps DEF Books, HandBooks
<1>3. heartbeat'[Slug(i)] = heartbeat[Slug(i)]
  BY <1>0, <1>2, HeartSteps
<1>4. Expected(i, tick_now[d])' = Expected(i, tick_now[d]) /\ Watched(d, i)
  BY <1>2, <1>3 DEF Expected, Slug, Watched, Defers
<1> DEFINE e == Expected(i, tick_now[d])
           h == heartbeat[Slug(i)]
<1>5. h # NoTime /\ h < e /\ h < tick_now[d]
  BY <1>2, <1>3, <1>4
<1>6. WindowLabel(e) \in Time
  <2>1. h \in Time /\ Slug(i) \in Slugs
    BY <1>5, EntryType DEF TypeOK, FilesType, OptTime
  <2>2. e = expected_at(Manifest[i].sched, tick_now[d], h)
    BY DEF Expected
  <2>3. e \in Nat /\ (h < tick_now[d] => e <= tick_now[d])
    <3> HIDE DEF h, e
    <3> QED BY <1>2, <1>4, <2>1, <2>2, WatchedDue
  <2>4. e \in Time
    <3>1. e <= tick_now[d] /\ tick_now[d] \in 0 .. MaxTime /\ MaxTime \in Nat
      BY <1>2, <1>5, <2>3, DispatchAssumption DEF Time
    <3> HIDE DEF e
    <3> QED BY <2>3, <3>1 DEF Time
  <2> QED BY <2>4, LabelType
<1>7. started'[i][WindowLabel(e)] \in Nat /\ started[i][WindowLabel(e)] \in Nat
      /\ started'[i][WindowLabel(e)] >= started[i][WindowLabel(e)]
  <2>1. started' \in [Ids -> [Time -> Nat]] /\ started \in [Ids -> [Time -> Nat]]
    BY NextType DEF TypeOK, HistoryType
  <2> HIDE DEF e
  <2>2. \/ started'[i][WindowLabel(e)] = started[i][WindowLabel(e)]
        \/ started'[i][WindowLabel(e)] = started[i][WindowLabel(e)] + 1
    BY <1>6, RunSteps
  <2> QED BY <1>6, <2>1, <2>2
<1>8. CASE Passed(d, i)
  <2>1. started[i][WindowLabel(e)] > 0
    BY <1>4, <1>5, <1>8 DEF PassedTried
  <2> QED BY <1>4, <1>7, <2>1
<1>9. CASE i = pos[d] /\ Skip(d)
  <2>1. started[i][WindowLabel(e)] > 0
    BY <1>4, <1>5, <1>9, SkippedTried DEF Skip, AtSchedule
  <2> QED BY <1>4, <1>7, <2>1
<1>10. CASE i = pos[d] /\ (GiveUpExhausted(d) \/ StartRun(d))
  <2>1. pc'[d] \in InHand /\ pos'[d] = i /\ expected'[d] = e
    BY <1>10 DEF GiveUpExhausted, StartRun, AtSchedule, InHand, TypeOK, LocalsType
  <2>2. Tried(Slug(pos[d]), WindowLabel(expected[d]))'
    BY <2>1, TriedStep DEF TriedBooks
  <2>3. started'[i][WindowLabel(e)] > 0
    BY <2>1, <2>2 DEF Tried, OwnFiles, Slug, WindowLabel
  <2> QED BY <1>4, <2>3
<1> QED BY <1>1, <1>8, <1>9, <1>10

\* The newest window of a watched schedule is the one that is due.
LEMMA AbandonedNone ==
  ASSUME TypeOK, PassedTried
  PROVE  NeverAbandoned
<1> SUFFICES ASSUME NEW p \in Procs, NEW i \in Ids, pc[p] = "sweep", Watched(p, i),
                    heartbeat[Slug(i)] # NoTime, NewestWindow(i, tick_now[p]) # NoTime
             PROVE  started[i][WindowLabel(NewestWindow(i, tick_now[p]))] > 0
  BY DEF NeverAbandoned, Watched
<1> DEFINE t == tick_now[p]
           h == heartbeat[Slug(i)]
           e == expected_at(Manifest[i].sched, t, h)
           D == Manifest[i].sched.interval_minutes * SecPerMin
           opened == {x \in Time : /\ x <= t /\ x > h /\ (x - h) % D = 0}
<1>1. t \in Time /\ h \in Time /\ \A x \in Time : x \in Nat
  BY EntryType, DispatchAssumption DEF TypeOK, LocalsType, FilesType, OptTime, Time
<1>2. NewestWindow(i, t) = IF opened = {} THEN NoTime ELSE Max(opened)
  BY DEF NewestWindow
<1>3. opened # {} /\ NewestWindow(i, t) = Max(opened)
  BY <1>2
<1>4. e \in Nat /\ Max(opened) = e /\ h < e /\ e <= t
  <2>1. e \in Nat /\ (opened # {} => Max(opened) = e /\ h < e /\ e <= t)
    <3> HIDE DEF t, h
    <3> QED BY <1>1, NewestFacts DEF Watched
  <2> QED BY <1>3, <2>1
<1>5. h < t
  <2> HIDE DEF e, t, h
  <2> QED BY <1>1, <1>4
<1>6. e = Expected(i, t) /\ Passed(p, i)
  BY DEF Expected, Passed
<1> HIDE DEF opened
<1> QED BY <1>3, <1>4, <1>5, <1>6 DEF PassedTried

-----------------------------------------------------------------------------
(* What the sweep drops.                                                   *)

\* A schedule is healthy only once it has succeeded at or after every window of
\* its that was given up.
LEMMA HealthySucceeded ==
  ASSUME NEW d, Procs = {d}, TypeOK, Books, FileDates, pc[d] = "sweep", NEW i \in Ids,
         Verdict(i, tick_now[d]) = "healthy", NEW l \in Time, window[Slug(i)][l].given_up
  PROVE  l <= heartbeat[Slug(i)]
<1> DEFINE t == tick_now[d]
           h == heartbeat[Slug(i)]
           e == Expected(i, t)
           sched == Manifest[i].sched
<1>0. /\ \A x \in Time : x \in Nat
      /\ Slug(i) \in Slugs /\ sched \in IntervalSchedules(Nat) \union CronSchedules
  BY EntryType, DispatchAssumption DEF Time
<1>1. t \in Time /\ h \in OptTime /\ h \in Nat \union {NoTime} /\ Latest(d) = t
  BY <1>0 DEF TypeOK, LocalsType, FilesType, OptTime, Latest
<1>2. e # NoTime /\ h # NoTime /\ h >= e
  <2> DEFINE k == ReportedKey(i, t)
             ws == IF k = NoTime THEN NoWindow ELSE read_window(i, k)
             health == health_state(sched, [stale_after |-> Manifest[i].stale_after], h, ws, t)
  <2>1. alert_verdict(health, e, h, ws) = "healthy"
    BY DEF Verdict
  <2> HIDE DEF k, ws
  <2>2. e = expected_at(sched, t, h)
    BY DEF Expected
  <2>3. health # "stale" /\ health # "failing" /\ e # NoTime
    <3> HIDE DEF health, e, h
    <3> QED BY <2>1 DEF alert_verdict
  <2> HIDE DEF e, h, t, sched
  <2> QED BY <2>2, <2>3 DEF health_state, health
<1>3. PICK w \in Time, u \in Time : WindowLabel(w) = l /\ u <= t /\ Opened(i, w, u)
  BY <1>1 DEF FileDates, NoWindow
<1>4. l <= w
  BY <1>0, <1>3, LabelFacts
<1>5. CASE w <= h
  <2> HIDE DEF h
  <2> QED BY <1>0, <1>1, <1>2, <1>4, <1>5 DEF NoTime, h
<1>6. CASE w = Expected(i, u)
  <2>1. w = expected_at(sched, u, h) /\ w # NoTime
    BY <1>0, <1>6 DEF Expected, NoTime
  <2>2. e = expected_at(sched, t, h) /\ e \in Nat \union {NoTime}
    <3>1. e = expected_at(sched, t, h)
      BY DEF Expected
    <3>2. expected_at(sched, t, h) \in Nat \union {NoTime}
      BY <1>0, <1>1, ExpectedType
    <3> QED BY <3>1, <3>2
  <2> HIDE DEF e, h, t, sched
  <2>3. w <= e
    BY <1>0, <1>1, <1>2, <1>3, <2>1, <2>2, ExpectedNeverBack
  <2> QED BY <1>0, <1>1, <1>2, <1>4, <2>2, <2>3 DEF NoTime, h
<1> QED BY <1>3, <1>5, <1>6 DEF Opened

\* Within a sweep the copy of the table only moves under SweepOne.
LEMMA SweepSteps ==
  ASSUME NEW d, Procs = {d}, TypeOK, [Next]_vars, pc'[d] = "sweep"
  PROVE  /\ window' = window
         /\ \/ BeginSweep(d)
            \/ SweepOne(d)
            \/ pc[d] = "sweep" /\ table' = table /\ alerts' = alerts
<1> USE DEF TypeOK, LocalsType, AtSchedule
<1>1. CASE BeginTick(d) \/ Skip(d) \/ GiveUpExhausted(d) \/ StartRun(d)
  BY <1>1 DEF BeginTick, Skip, GiveUpExhausted, StartRun
<1>2. CASE EndRun(d)
  BY <1>2 DEF EndRun, AfterRun
<1>3. CASE GiveUp(d) \/ Announce(d) \/ WriteWindow(d)
  BY <1>3 DEF GiveUp, Announce, WriteWindow
<1>4. CASE BeginSweep(d) \/ SweepOne(d)
  BY <1>4 DEF BeginSweep, SweepOne, files
<1>5. CASE EndSweep(d) \/ Crash(d)
  BY <1>5 DEF EndSweep, Crash
<1>6. CASE Pass \/ Unplug \/ UNCHANGED vars \/ \E j \in Ids : ManualRun(j)
  BY <1>6 DEF Pass, Unplug, ManualRun, vars, files, locals
<1> QED BY <1>1, <1>2, <1>3, <1>4, <1>5, <1>6 DEF Next, Step

\* SweepOne drops an episode only of the schedule it finds healthy.
LEMMA SweepDrops ==
  ASSUME NEW d, Procs = {d}, TypeOK, SweepOne(d), NEW i \in Ids, NEW e \in Events,
         table[d][i][e].count # 0, table'[d][i][e].count = 0
  PROVE  i = pos[d] /\ Verdict(i, tick_now[d]) = "healthy"
<1> DEFINE j == pos[d]
           v == Verdict(j, tick_now[d])
           t == tick_now[d]
<1>1. /\ j \in Ids /\ table[d] \in Tables /\ d \in Procs /\ table \in [Procs -> Tables]
  BY DEF SweepOne, AtSchedule, TypeOK, LocalsType
<1>2. \/ table' = table
      \/ v = "healthy" /\ table' = [table EXCEPT ![d] = clear_pair(@, j)]
      \/ v \in Events /\ table' = [table EXCEPT ![d][j][v] = record(@, t)]
  BY DEF SweepOne
<1> HIDE DEF v, j, t
<1>3. CASE v = "healthy" /\ table' = [table EXCEPT ![d] = clear_pair(@, j)]
  <2>1. i = j
    BY <1>1, <1>3 DEF clear_pair, Tables
  <2> QED BY <1>3, <2>1 DEF v, j
<1>4. CASE v \in Events /\ table' = [table EXCEPT ![d][j][v] = record(@, t)]
  <2>1. table'[d][i][e] = IF i = j /\ e = v THEN record(table[d][j][v], t) ELSE table[d][i][e]
    BY <1>1, <1>4 DEF Tables
  <2>2. table[d][j][v].count \in Nat
    BY <1>1, <1>4 DEF Tables, Episodes
  <2>3. record(table[d][j][v], t).count = table[d][j][v].count + 1
    BY RecordCount
  <2> QED BY <2>1, <2>2, <2>3
<1> QED BY <1>2, <1>3, <1>4

\* A sweep ends an episode only for a success that came after it.
LEMMA SweptStep ==
  ASSUME NEW d, Procs = {d}, TypeOK, Books, FileDates, SweptForSuccess, [Next]_vars
  PROVE  SweptForSuccess'
<1> SUFFICES ASSUME NEW i \in Ids, NEW e \in Events, NEW l \in Time,
                    pc'[d] = "sweep", alerts'[i][e].count > 0, table'[d][i][e].count = 0,
                    window'[Slug(i)][l].given_up
             PROVE  l <= heartbeat'[Slug(i)]
  BY DEF SweptForSuccess, Slug
<1>1. /\ window' = window
      /\ BeginSweep(d) \/ SweepOne(d) \/ (pc[d] = "sweep" /\ table' = table /\ alerts' = alerts)
  BY SweepSteps
<1>2. SUFFICES l <= heartbeat[Slug(i)]
  <2>1. l \in Nat
    BY DispatchAssumption DEF Time
  <2>2. heartbeat[Slug(i)] \in Int /\ heartbeat'[Slug(i)] \in Int
        /\ heartbeat[Slug(i)] <= heartbeat'[Slug(i)]
    BY SMTT(20), HeartSteps
  <2> QED BY <2>1, <2>2
<1>3. CASE pc[d] = "sweep" /\ alerts' = alerts /\ table[d][i][e].count = 0
  BY <1>1, <1>3 DEF SweptForSuccess
<1>4. CASE BeginSweep(d)
  BY <1>4 DEF BeginSweep, TypeOK, LocalsType
<1>5. CASE SweepOne(d)
  <2>1. pc[d] = "sweep" /\ alerts' = alerts
    BY <1>5 DEF SweepOne, AtSchedule, files
  <2>2. CASE table[d][i][e].count # 0
    BY <1>1, <1>5, <2>1, <2>2, SweepDrops, HealthySucceeded
  <2> QED BY <1>3, <2>1, <2>2
<1> QED BY <1>1, <1>3, <1>4, <1>5

-----------------------------------------------------------------------------
(* What a tick owes.                                                       *)

\* tick_dry_run's own copy of the gates agrees with those of dispatch_one.
LEMMA DryRunAgrees == ASSUME TypeOK PROVE DryRunPredictsDispatch
<1> SUFFICES ASSUME NEW i \in Ids, NEW b \in {battery}
             PROVE  WouldDispatch(i, now, b) <=>
                        /\ PassesGates(i, now, b)
                        /\ ~Exhausted(i, read_window(i, Expected(i, now)))
  BY DEF DryRunPredictsDispatch
<1> DEFINE e == Expected(i, now)
           h == heartbeat[Slug(i)]
           w == read_window(i, e)
<1>1. now \in Nat /\ h \in Nat \union {NoTime} /\ Manifest[i].max_retries \in Nat
  BY EntryType, DispatchAssumption DEF TypeOK, WorldType, FilesType, OptTime, Time
<1>2. e \in Nat \union {NoTime}
  BY <1>1, ExpectedType DEF Expected
<1>3. ASSUME e # NoTime, e <= now PROVE w.attempts \in Nat
  <2>1. e \in Time /\ Slug(i) \in Slugs
    <3>1. now \in 0 .. MaxTime /\ MaxTime \in Nat
      BY DispatchAssumption DEF TypeOK, WorldType, Time
    <3> HIDE DEF e
    <3> QED BY <1>2, <1>3, <3>1, EntryType DEF Time
  <2>2. w \in WindowState
    BY <2>1, LabelType DEF read_window, TypeOK, FilesType
  <2> QED BY <2>2 DEF WindowState
<1> HIDE DEF e, h, w
<1>4. (h # NoTime /\ h >= e) <=> ~(h = NoTime \/ h < e)
  BY <1>1, <1>2 DEF NoTime
<1>5. ASSUME e # NoTime, e <= now
      PROVE  w.attempts < Manifest[i].max_retries <=> ~(w.attempts >= Manifest[i].max_retries)
  BY <1>1, <1>3, <1>5
<1> QED BY <1>4, <1>5 DEF WouldDispatch, PassesGates, Due, Exhausted, e, h, w

\* All that the single ticking process keeps.
TickBooks ==
    /\ TypeOK /\ Books /\ RunBudget /\ SucceedsOnce /\ AlertInv /\ TriedBooks
    /\ DatesInv /\ PassedTried /\ SweptForSuccess

\* The books of the tick hold before the first.
LEMMA TickInit == Init => TickBooks
<1> SUFFICES ASSUME Init PROVE PassedTried /\ SweptForSuccess
  BY InitType, InitBooks, AlertInit, TriedInit, DatesInit DEF TickBooks
<1> QED BY DEF Init, PassedTried, Passed, InHand, SweptForSuccess

\* ... and every step keeps them.
LEMMA TickStep ==
  ASSUME NEW d, Procs = {d}, OwnFiles, "given_up" \in Listens,
         \A i \in Ids : Manifest[i].max_retries > 0,
         TickBooks, [Next]_vars
  PROVE  TickBooks'
<1> USE DEF TickBooks, DatesInv
<1>1. TypeOK' /\ Books' /\ RunBudget' /\ SucceedsOnce'
  BY NextType, NextBooks, NextBudget
<1>2. AlertInv'
  <2>1. IsFiniteSet(Procs)
    BY FS_Singleton
  <2> QED BY <2>1, SweeperStep, NoticeStep DEF AlertInv
<1>3. TriedBooks' /\ PassedTried'
  BY TriedStep, PassedTriedStep
<1>4. FileDates' /\ HandDates' /\ RecordDates'
  BY FileDatesStep, HandDatesStep, RecordDatesStep
<1>5. SweptForSuccess'
  BY SweptStep
<1> QED BY <1>1, <1>2, <1>3, <1>4, <1>5

\* One process ticks an agent whose schedules each have their own files and at
\* least one attempt, and somebody listens to give-ups: then, wherever it dies,
\* it never abandons a failing interval schedule, never runs a window to success
\* twice, shows its readers the file of the run that satisfied a schedule, is
\* foretold by its dry run and keeps the alert table true.
THEOREM TickKept ==
  ASSUME NEW d, Procs = {d}, OwnFiles, "given_up" \in Listens,
         \A i \in Ids : Manifest[i].max_retries > 0
  PROVE  Spec => []TickInv
<1>1. Init => TickBooks
  BY TickInit
<1>2. TickBooks /\ [Next]_vars => TickBooks'
  BY TickStep
<1>3. TickBooks => TickInv
  BY AbandonedNone, ReaderFinds, DryRunAgrees, AlertTells DEF TickBooks, DatesInv, TickInv
<1> QED BY <1>1, <1>2, <1>3, PTL DEF Spec

\* With one process ticking and files of its own for each schedule, an episode of
\* alerts ends only for a success that came at or after every window of the
\* schedule that was given up.
THEOREM EpisodesEndInSuccess ==
  ASSUME NEW d, Procs = {d}, OwnFiles
  PROVE  Spec => SuccessEndsTheEpisode
<1> DEFINE Ends == \A i \in Ids, e \in Events :
                      alerts[i][e].count > 0 /\ alerts'[i][e].count = 0 =>
                          \A l \in Time : window[Slug(i)][l].given_up => heartbeat[Slug(i)] >= l
           IInv == TypeOK /\ Books /\ DatesInv /\ SweptForSuccess
<1>1. Init => IInv
  BY TickInit DEF TickBooks
<1>2. IInv /\ [Next]_vars => IInv'
  BY NextType, NextBooks, FileDatesStep, HandDatesStep, RecordDatesStep, SweptStep DEF DatesInv
<1>3. IInv /\ [Next]_vars => Ends
  <2> SUFFICES ASSUME IInv, [Next]_vars, NEW i \in Ids, NEW e \in Events,
                      alerts[i][e].count > 0, alerts'[i][e].count = 0,
                      NEW l \in Time, window[Slug(i)][l].given_up
               PROVE  heartbeat[Slug(i)] >= l
    OBVIOUS
  <2> USE DEF TypeOK, FilesType
  <2>1. CASE alerts' = alerts
    BY <2>1
  <2>2. CASE GiveUp(d)
    <3> DEFINE j == pos[d]
    <3>1. j \in Ids /\ alerts \in Tables
      BY <2>2 DEF GiveUp, AtSchedule
    <3>2. CASE alerts' = [alerts EXCEPT ![j]["given_up"] = record(alerts[j]["given_up"], now)]
      <4> HIDE DEF j
      <4>1. alerts'[i][e] = IF i = j /\ e = "given_up" THEN record(alerts[j]["given_up"], now)
                                                       ELSE alerts[i][e]
        BY <3>1, <3>2 DEF Tables
      <4>2. alerts[i][e].count \in Nat
        BY <3>1 DEF Tables, Episodes
      <4> QED BY <4>1, <4>2, RecordCount
    <3> QED BY <2>1, <2>2, <3>2 DEF GiveUp
  <2>3. CASE EndSweep(d)
    <3>1. pc[d] = "sweep" /\ table[d][i][e].count = 0
      BY <2>3 DEF EndSweep
    <3>2. l <= heartbeat[Slug(i)]
      BY <3>1 DEF SweptForSuccess
    <3>3. heartbeat[Slug(i)] \in Int
      <4> HIDE DEF TypeOK, FilesType
      <4> QED BY HeartSteps
    <3>4. l \in Int
      BY DispatchAssumption DEF Time
    <3> QED BY <3>2, <3>3, <3>4
  <2>4. CASE BeginTick(d) \/ Skip(d) \/ GiveUpExhausted(d) \/ StartRun(d) \/ EndRun(d)
    BY <2>1, <2>4 DEF BeginTick, Skip, GiveUpExhausted, StartRun, EndRun, files
  <2>5. CASE Announce(d) \/ WriteWindow(d) \/ BeginSweep(d) \/ SweepOne(d) \/ Crash(d)
    BY <2>1, <2>5 DEF Announce, WriteWindow, BeginSweep, SweepOne, Crash, files
  <2>6. CASE Pass \/ Unplug \/ UNCHANGED vars \/ \E j \in Ids : ManualRun(j)
    BY <2>1, <2>6 DEF Pass, Unplug, ManualRun, vars, files
  <2> QED BY <2>2, <2>3, <2>4, <2>5, <2>6 DEF Next, Step
<1>4. IInv /\ [Next]_vars => [Ends]_vars
  BY <1>3
<1> QED BY <1>1, <1>2, <1>4, PTL DEF Spec, SuccessEndsTheEpisode
-----------------------------------------------------------------------------
(* The walk over the calendar.                                             *)

\* The instant of an hour and a minute lies in that day, hour and minute.
LEMMA InstantIs ==
  ASSUME NEW d \in Nat, NEW h \in 0 .. HoursPerDay - 1, NEW m \in 0 .. MinPerHour - 1, NEW t, t = InstantOf(d, h, m)
  PROVE  t \in Nat /\ DayOf(t) = d /\ HourOf(t) = h /\ t % HourLen = m * SecPerMin /\ MinuteOf(t) = m
<1> DEFINE s == m * SecPerMin
           r == h * HourLen + s
<1>1. s \in Nat /\ s < HourLen
  <2>1. (m + 1) * SecPerMin <= MinPerHour * SecPerMin /\ (m + 1) * SecPerMin = m * SecPerMin + SecPerMin
    BY Lengths, MulMono, MulNext
  <2>2. s \in Nat
    BY Lengths, Z3
  <2> QED BY <2>1, <2>2, Lengths
<1>2. s \div SecPerMin = m
  <2>1. (m * SecPerMin + 0) \div SecPerMin = m
    BY Lengths, DivUnique
  <2>2. m * SecPerMin + 0 = m * SecPerMin
    BY <1>1
  <2> QED BY <2>1, <2>2
<1> HIDE DEF s
<1>3. r \in Nat /\ r < DayLen
  <2>1. (h + 1) * HourLen <= HoursPerDay * HourLen /\ (h + 1) * HourLen = h * HourLen + HourLen
    BY Lengths, MulMono, MulNext
  <2>2. h * HourLen \in Nat
    BY Lengths, Z3
  <2> QED BY <1>1, <2>1, <2>2, Lengths
<1>4. r \div HourLen = h
  BY <1>1, Lengths, DivUnique
<1>5. r = h * HourLen + s /\ h * HourLen \in Nat
  BY Lengths, Z3
<1> HIDE DEF r
<1>6. t = d * DayLen + r /\ d * DayLen \in Nat
  <2>1. d * DayLen \in Nat
    BY Lengths, Z3
  <2>2. t = d * DayLen + h * HourLen + s
    BY DEF InstantOf, s
  <2> QED BY <1>1, <1>3, <1>5, <2>1, <2>2
<1>7. t \in Nat /\ t \div DayLen = d /\ t % DayLen = r
  <2>1. (d * DayLen + r) \div DayLen = d /\ (d * DayLen + r) % DayLen = r
    BY <1>3, Lengths, DivUnique
  <2>2. t \in Nat
    BY <1>3, <1>6
  <2> QED BY <1>6, <2>1, <2>2
<1>8. DayOf(t) = d /\ HourOf(t) = h
  BY <1>4, <1>7 DEF DayOf, HourOf
<1>9. t % HourLen = s
  <2>1. t % HourLen \in Nat /\ t % DayLen = HourOf(t) * HourLen + (t % HourLen)
    BY <1>7, ClockFacts
  <2> QED BY <1>1, <1>5, <1>7, <1>8, <2>1
<1>10. MinuteOf(t) = m
  BY <1>2, <1>9 DEF MinuteOf
<1> QED BY <1>7, <1>8, <1>9, <1>10 DEF s

\* A calendar schedule opens at its hours and minute of its days, and at no other instant.
LEMMA CronOpens ==
  ASSUME plan \in CronSchedules, NEW t \in Nat
  PROVE  Opens(t) <=> /\ WeekdayOf(t) \in plan.weekdays
                      /\ \E h \in plan.hours : t = InstantOf(DayOf(t), h, plan.minute)
<1>1. plan.kind = "cron" /\ plan.hours \subseteq 0 .. HoursPerDay - 1 /\ plan.minute \in 0 .. MinPerHour - 1
  BY DEF CronSchedules
<1>2. DayOf(t) \in Nat
  BY ClockFacts
<1>3. ASSUME HourOf(t) \in plan.hours, t % HourLen = plan.minute * SecPerMin
      PROVE  t = InstantOf(DayOf(t), HourOf(t), plan.minute)
  <2>1. /\ t % DayLen \in Nat /\ t = DayOf(t) * DayLen + (t % DayLen)
        /\ t % HourLen \in Nat /\ t % DayLen = HourOf(t) * HourLen + (t % HourLen) /\ HourOf(t) \in Nat
    BY ClockFacts
  <2>2. DayOf(t) * DayLen \in Nat /\ HourOf(t) * HourLen \in Nat /\ plan.minute * SecPerMin \in Nat
    <3>1. DayLen \in Nat /\ HourLen \in Nat /\ SecPerMin \in Nat /\ plan.minute \in Nat
      BY <1>1, Lengths
    <3> QED BY <1>2, <2>1, <3>1, Z3
  <2> QED BY <1>3, <2>1, <2>2 DEF InstantOf
<1>4. ASSUME NEW h \in plan.hours, t = InstantOf(DayOf(t), h, plan.minute)
      PROVE  HourOf(t) = h /\ t % HourLen = plan.minute * SecPerMin
  <2>1. h \in 0 .. HoursPerDay - 1
    BY <1>1
  <2> QED BY <1>1, <1>2, <1>4, <2>1, InstantIs
<1> QED BY <1>1, <1>3, <1>4 DEF Opens

\* Of the hours of a day, those that have struck are those whose instant is not ahead.
LEMMA StruckIsPast ==
  ASSUME NEW sched \in CronSchedules, NEW t \in Nat, NEW h \in sched.hours
  PROVE  InstantOf(DayOf(t), h, sched.minute) <= t <=> h \in Struck(sched, t)
<1> DEFINE m == sched.minute
           i == InstantOf(DayOf(t), h, m)
<1>1. h \in 0 .. HoursPerDay - 1 /\ m \in 0 .. MinPerHour - 1 /\ DayOf(t) \in Nat
  BY ClockFacts DEF CronSchedules
<1>2. i \in Nat /\ DayOf(i) = DayOf(t) /\ HourOf(i) = h /\ MinuteOf(i) = m
  BY <1>1, InstantIs
<1>3. HourOf(t) \in Nat /\ MinuteOf(t) \in Nat
  BY ClockFacts, Lengths, DivFacts DEF MinuteOf
<1>4. ASSUME i <= t PROVE h \in Struck(sched, t)
  <2>1. HourOf(i) <= HourOf(t) /\ (HourOf(i) = HourOf(t) => MinuteOf(i) <= MinuteOf(t))
    <3> HIDE DEF i
    <3> QED BY <1>2, <1>4, ClockMono
  <2>2. h <= HourOf(t) /\ (h = HourOf(t) => m <= MinuteOf(t))
    BY <1>2, <2>1
  <2> QED BY <1>1, <1>3, <2>2 DEF Struck
<1>5. ASSUME h \in Struck(sched, t), t < i PROVE FALSE
  <2>1. HourOf(t) <= h /\ (HourOf(t) = h => MinuteOf(t) <= m)
    <3> HIDE DEF i
    <3> QED BY <1>2, <1>5, ClockMono
  <2>2. HourOf(t) = h /\ MinuteOf(t) = m
    BY <1>1, <1>3, <1>5, <2>1 DEF Struck
  <2>3. t % HourLen \in Nat /\ m * SecPerMin <= t % HourLen
    BY <2>2, ClockFacts, Lengths, DivFacts DEF MinuteOf
  <2>4. /\ t % DayLen \in Nat /\ t = DayOf(t) * DayLen + (t % DayLen)
        /\ t % DayLen = h * HourLen + (t % HourLen)
    BY <2>2, ClockFacts
  <2>5. DayOf(t) * DayLen \in Nat /\ h * HourLen \in Nat /\ m * SecPerMin \in Nat
    BY <1>1, Lengths, Z3
  <2>6. i = DayOf(t) * DayLen + h * HourLen + m * SecPerMin
    BY DEF InstantOf
  <2> HIDE DEF i, m
  <2> QED BY <1>5, <2>3, <2>4, <2>5, <2>6
<1> QED BY <1>2, <1>4, <1>5

-----------------------------------------------------------------------------
(* The types of a walk: its success is behind it.                          *)

WalkTyped ==
    /\ plan \in CronSchedules \union IntervalSchedules(Nat)
    /\ instant \in Nat
    /\ succeeded_at \in Nat \union {NoTime} /\ succeeded_at <= instant

\* Of a set of instants that have passed, Max and Min are what they say.
LEMMA MinOfBounded ==
  ASSUME NEW S \in SUBSET Nat, S # {}
  PROVE  Min(S) \in S /\ \A y \in S : Min(S) <= y
<1> DEFINE R == OpToRel(<, Nat)
<1>1. IsWellFoundedOn(R, Nat)
  BY NatLessThanWellFounded
<1>2. PICK x \in S : \A y \in S : ~(<<y, x>> \in R)
  <2> HIDE DEF R
  <2> QED BY <1>1, WFMin
<1>3. \A y \in S : x <= y
  <2> SUFFICES ASSUME NEW y \in S PROVE ~(y < x)
    OBVIOUS
  <2> QED BY <1>2 DEF OpToRel
<1> QED BY <1>3 DEF Min

\* The greatest of a set of instants is the one that no other exceeds.
LEMMA MaxIsTheOne ==
  ASSUME NEW n \in Nat, NEW S \in SUBSET (0 .. n), NEW x \in S, \A y \in S : y <= x
  PROVE  x = Max(S)
<1>1. Max(S) \in S /\ \A y \in S : y <= Max(S)
  BY MaxOfBounded
<1> DEFINE m == Max(S)
<1>2. m \in S /\ x <= m
  BY <1>1
<1> HIDE DEF m
<1>3. m \in Nat /\ x \in Nat
  BY <1>2
<1>4. m <= x
  BY <1>2
<1> QED BY <1>2, <1>3, <1>4 DEF m

\* A calendar schedule: the last hour that has struck today is the newest window of today.
LEMMA CronDue ==
  ASSUME WalkTyped, plan \in CronSchedules
  PROVE  DueIsTheNewestMissed
<1> DEFINE e == expected_at(plan, instant, succeeded_at)
           today == {t \in Missed : plan.kind = "cron" => DayOf(t) = DayOf(instant)}
           m == plan.minute
<1>1. plan.kind = "cron" /\ m \in 0 .. MinPerHour - 1 /\ plan.hours \subseteq 0 .. HoursPerDay - 1 /\ DayOf(instant) \in Nat
  BY ClockFacts DEF CronSchedules, WalkTyped
<1>2. e = cron_expected_at(plan, instant)
  BY <1>1 DEF expected_at
<1>3. instant \in Nat /\ today \in SUBSET (0 .. instant)
  BY DEF WalkTyped, Missed
<1>4. \A t \in today : /\ t \in Nat /\ t > succeeded_at /\ WeekdayOf(instant) \in plan.weekdays
                       /\ \E h \in Struck(plan, instant) : t = InstantOf(DayOf(instant), h, m)
  <2> SUFFICES ASSUME NEW t \in today
               PROVE  /\ t \in Nat /\ t > succeeded_at /\ WeekdayOf(instant) \in plan.weekdays
                      /\ \E h \in Struck(plan, instant) : t = InstantOf(DayOf(instant), h, m)
    OBVIOUS
  <2>1. t \in Nat /\ t <= instant /\ Opens(t) /\ t > succeeded_at /\ DayOf(t) = DayOf(instant)
    BY <1>1, <1>3 DEF Missed
  <2>2. WeekdayOf(t) \in plan.weekdays /\ \E h \in plan.hours : t = InstantOf(DayOf(t), h, m)
    BY <2>1, CronOpens
  <2>3. PICK h \in plan.hours : t = InstantOf(DayOf(instant), h, m)
    BY <2>1, <2>2
  <2>4. h \in Struck(plan, instant)
    BY <2>1, <2>3, <1>3, StruckIsPast
  <2> QED BY <2>1, <2>2, <2>3, <2>4 DEF WeekdayOf
<1>5. CASE e = NoTime
  <2>1. WeekdayOf(instant) \notin plan.weekdays \/ Struck(plan, instant) = {}
    <3> SUFFICES ASSUME WeekdayOf(instant) \in plan.weekdays, Struck(plan, instant) # {} PROVE FALSE
      OBVIOUS
    <3>1. e = InstantOf(DayOf(instant), Max(Struck(plan, instant)), m)
      BY <1>2 DEF cron_expected_at, Struck
    <3>2. HoursPerDay - 1 \in Nat /\ Struck(plan, instant) \in SUBSET (0 .. HoursPerDay - 1)
      BY <1>1, Lengths DEF Struck
    <3>3. Max(Struck(plan, instant)) \in 0 .. HoursPerDay - 1
      BY <3>2, MaxOfBounded
    <3>4. e \in Nat
      BY <1>1, <3>1, <3>3, InstantIs
    <3> QED BY <3>4, <1>5 DEF NoTime
  <2>2. today = {}
    BY <2>1, <1>4
  <2> QED BY <1>5, <2>2 DEF DueIsTheNewestMissed
<1>6. CASE e # NoTime
  <2> DEFINE h == Max(Struck(plan, instant))
  <2>1. /\ h \in Struck(plan, instant) /\ h \in 0 .. HoursPerDay - 1 /\ \A k \in Struck(plan, instant) : k <= h /\ k \in 0 .. HoursPerDay - 1
        /\ e = InstantOf(DayOf(instant), h, m)
    BY <1>2, <1>3, <1>6, CronExpected
  <2>2. h \in plan.hours /\ WeekdayOf(instant) \in plan.weekdays
    BY <2>1, <1>2, <1>6 DEF Struck, cron_expected_at
  <2> HIDE DEF h, e
  <2>3. e \in Nat /\ DayOf(e) = DayOf(instant)
    BY <1>1, <2>1, InstantIs
  <2>4. e <= instant
    BY <2>1, <2>2, <1>3, StruckIsPast
  <2>5. Opens(e)
    BY <2>1, <2>2, <2>3, CronOpens DEF WeekdayOf
  <2>6. \A t \in today : t <= e
    <3> SUFFICES ASSUME NEW t \in today PROVE t <= e
      OBVIOUS
    <3>1. PICK k \in Struck(plan, instant) : t = InstantOf(DayOf(instant), k, m)
      BY <1>4
    <3>2. k <= h /\ k \in 0 .. HoursPerDay - 1
      BY <2>1
    <3> QED BY <1>1, <2>1, <3>1, <3>2, InstantMono
  <2>7. CASE e > succeeded_at
    <3>1. e \in today
      BY <1>3, <2>3, <2>4, <2>5, <2>7 DEF Missed
    <3> HIDE DEF today
    <3>2. e = Max(today)
      BY <1>3, <2>6, <3>1, MaxIsTheOne
    <3> QED BY <3>1, <3>2, <2>7, <1>6 DEF DueIsTheNewestMissed, today, e
  <2>8. CASE ~(e > succeeded_at)
    <3>1. \A t \in today : FALSE
      <4> SUFFICES ASSUME NEW t \in today PROVE FALSE
        OBVIOUS
      <4>1. t \in Nat /\ t > succeeded_at /\ t <= e
        BY <1>4, <2>6
      <4> QED BY <4>1, <2>3, <2>8 DEF WalkTyped, NoTime
    <3>2. today = {}
      BY <3>1
    <3> QED BY <3>2, <2>8 DEF DueIsTheNewestMissed, e
  <2> QED BY <2>7, <2>8
<1> QED BY <1>5, <1>6

\* An interval schedule with a success behind it opens every interval after that, and the last of these windows
\* is the one that is due.
LEMMA IntervalOpens ==
  ASSUME WalkTyped, plan \in IntervalSchedules(Nat), plan.interval_minutes # 0, succeeded_at # NoTime,
         NEW D, D = plan.interval_minutes * SecPerMin
  PROVE  /\ plan.kind = "interval" /\ D \in Nat \ {0} /\ succeeded_at \in Nat
         /\ \A t \in Nat : Opens(t) <=> \E j \in Nat \ {0} : t = succeeded_at + j * D
         /\ \A t \in Nat : t >= succeeded_at =>
               \E k \in Nat : LET e == expected_at(plan, t, succeeded_at)
                            IN  e = succeeded_at + k * D /\ e <= t /\ t < e + D
<1>1. plan.kind = "interval" /\ plan.interval_minutes \in Nat \ {0} /\ succeeded_at \in Nat
  BY DEF IntervalSchedules, WalkTyped
<1>2. D \in Nat \ {0}
  BY <1>1, IntervalExpected
<1>3. ASSUME NEW t \in Nat, Opens(t) PROVE \E j \in Nat \ {0} : t = succeeded_at + j * D
  <2> DEFINE a == t - succeeded_at
             j == a \div D
  <2>1. a \in Nat \ {0} /\ a % D = 0
    BY <1>1, <1>3 DEF Opens
  <2>2. j \in Nat /\ a = j * D + (a % D)
    <3> HIDE DEF a, j
    <3>1. a \in Nat
      BY <2>1
    <3>2. a \div D \in Nat /\ a = (a \div D) * D + (a % D)
      BY <1>2, <3>1, DivFacts
    <3> QED BY <3>2 DEF j
  <2>3. t = succeeded_at + a
    BY <1>1
  <2> HIDE DEF a, j
  <2>4. a = j * D /\ j * D \in Nat
    BY <1>2, <2>1, <2>2, Z3
  <2>5. j # 0
    BY <2>1, <2>4, <1>2, Z3
  <2> QED BY <2>2, <2>3, <2>4, <2>5
<1>4. ASSUME NEW t \in Nat, NEW j \in Nat \ {0}, t = succeeded_at + j * D PROVE Opens(t)
  <2>1. j * D \in Nat /\ 1 * D <= j * D /\ 1 * D = D
    <3>1. 1 \in Int /\ j \in Int /\ 1 <= j
      OBVIOUS
    <3>2. 1 * D <= j * D
      BY <3>1, <1>2, MulMono
    <3> QED BY <3>2, <1>2, Z3
  <2>2. (j * D + 0) % D = 0
    BY <1>2, DivUnique
  <2> DEFINE p == j * D
  <2>3. p \in Nat /\ p > 0 /\ p % D = 0 /\ t = succeeded_at + p
    <3>1. j * D + 0 = j * D
      BY <2>1
    <3> QED BY <1>2, <1>4, <2>1, <2>2, <3>1
  <2> HIDE DEF p
  <2>4. t > succeeded_at /\ t - succeeded_at = p
    BY <1>1, <2>3
  <2> QED BY <1>1, <2>3, <2>4 DEF Opens
<1>5. ASSUME NEW t \in Nat, t >= succeeded_at
      PROVE  \E k \in Nat : LET e == expected_at(plan, t, succeeded_at)
                            IN  e = succeeded_at + k * D /\ e <= t /\ t < e + D
  <2>1. expected_at(plan, t, succeeded_at) = interval_expected_at(plan.interval_minutes, t, succeeded_at)
    BY <1>1 DEF expected_at
  <2> QED BY <1>1, <1>5, <2>1, IntervalExpected
<1> QED BY <1>1, <1>2, <1>3, <1>4, <1>5

\* Without an interval or a success nothing opens, and what is expected is the success itself.
LEMMA IntervalIdle ==
  ASSUME WalkTyped, plan \in IntervalSchedules(Nat), plan.interval_minutes = 0 \/ succeeded_at = NoTime
  PROVE  /\ plan.kind = "interval" /\ expected_at(plan, instant, succeeded_at) = succeeded_at
         /\ \A t : ~Opens(t)
BY DEF IntervalSchedules, expected_at, interval_expected_at, Opens

\* Windows of an interval, by their numbers.
LEMMA Numbered ==
  ASSUME NEW D \in Nat \ {0}, NEW s \in Nat, NEW j \in Nat, NEW k \in Nat
  PROVE  /\ s + j * D \in Nat
         /\ j <= k => s + j * D <= s + k * D
         /\ s + j * D < s + (k + 1) * D => j <= k
         /\ s + (k + 1) * D = s + k * D + D
<1>1. j * D \in Nat /\ k * D \in Nat /\ (k + 1) * D = k * D + D
  BY Z3, MulNext
<1>2. j <= k => j * D <= k * D
  BY MulMono
<1>3. k + 1 <= j => (k + 1) * D <= j * D
  BY MulMono
<1> QED BY <1>1, <1>2, <1>3

\* An interval schedule: the last whole interval since the success is the newest window.
LEMMA IntervalDue ==
  ASSUME WalkTyped, plan \in IntervalSchedules(Nat)
  PROVE  DueIsTheNewestMissed
<1> DEFINE e == expected_at(plan, instant, succeeded_at)
           today == {t \in Missed : plan.kind = "cron" => DayOf(t) = DayOf(instant)}
<1>1. CASE plan.interval_minutes = 0 \/ succeeded_at = NoTime
  <2>1. e = succeeded_at /\ \A t : ~Opens(t)
    BY <1>1, IntervalIdle
  <2>2. today = {} /\ ~(e > succeeded_at)
    BY <2>1 DEF Missed, WalkTyped, NoTime
  <2> QED BY <2>2 DEF DueIsTheNewestMissed
<1>2. CASE plan.interval_minutes # 0 /\ succeeded_at # NoTime
  <2> DEFINE D == plan.interval_minutes * SecPerMin
  <2>1. /\ plan.kind = "interval" /\ D \in Nat \ {0} /\ succeeded_at \in Nat
        /\ \A t \in Nat : Opens(t) <=> \E j \in Nat \ {0} : t = succeeded_at + j * D
        /\ \A t \in Nat : t >= succeeded_at =>
              \E k \in Nat : LET x == expected_at(plan, t, succeeded_at)
                           IN  x = succeeded_at + k * D /\ x <= t /\ t < x + D
    BY <1>2, IntervalOpens
  <2>2. instant \in Nat /\ instant >= succeeded_at
    BY <2>1 DEF WalkTyped
  <2>3. PICK k \in Nat : e = succeeded_at + k * D /\ e <= instant /\ instant < e + D
    BY <2>1, <2>2
  <2> HIDE DEF D, e
  <2>4. \A j \in Nat : succeeded_at + j * D <= instant => j <= k
    <3> SUFFICES ASSUME NEW j \in Nat, succeeded_at + j * D <= instant PROVE j <= k
      OBVIOUS
    <3>1. succeeded_at + j * D \in Nat /\ succeeded_at + (k + 1) * D = succeeded_at + k * D + D /\ succeeded_at + k * D \in Nat
      BY <2>1, Numbered
    <3>2. succeeded_at + j * D < succeeded_at + (k + 1) * D
      BY <3>1, <2>1, <2>2, <2>3
    <3> QED BY <3>2, <2>1, Numbered
  <2>5. \A t \in Missed : \E j \in Nat \ {0} : t = succeeded_at + j * D /\ j <= k
    <3> SUFFICES ASSUME NEW t \in Missed PROVE \E j \in Nat \ {0} : t = succeeded_at + j * D /\ j <= k
      OBVIOUS
    <3>1. t \in Nat /\ t <= instant /\ Opens(t)
      BY <2>2 DEF Missed
    <3>2. PICK j \in Nat \ {0} : t = succeeded_at + j * D
      BY <2>1, <3>1
    <3>3. j <= k
      BY <2>4, <3>1, <3>2
    <3> QED BY <3>2, <3>3
  <2>6. \A t \in Missed : t <= e
    <3> SUFFICES ASSUME NEW t \in Missed PROVE t <= e
      OBVIOUS
    <3>1. PICK j \in Nat \ {0} : t = succeeded_at + j * D /\ j <= k
      BY <2>5
    <3> QED BY <3>1, <2>1, <2>3, Numbered
  <2>7. today = Missed /\ today \in SUBSET (0 .. instant)
    BY <2>1 DEF Missed
  <2>8. CASE k = 0
    <3>1. e = succeeded_at
      BY <2>1, <2>3, <2>8
    <3>2. Missed = {}
      BY <2>5, <2>8
    <3> QED BY <2>1, <2>7, <3>1, <3>2 DEF DueIsTheNewestMissed, e
  <2>9. CASE k # 0
    <3>1. e \in Nat /\ Opens(e)
      <4>1. e \in Nat
        BY <2>1, <2>3, Numbered
      <4> QED BY <4>1, <2>1, <2>3, <2>9
    <3>2. e > succeeded_at
      <4>1. succeeded_at + (k - 1) * D \in Nat /\ succeeded_at + ((k - 1) + 1) * D = succeeded_at + (k - 1) * D + D
            /\ succeeded_at + 0 * D <= succeeded_at + (k - 1) * D
        <5>1. k - 1 \in Nat /\ 0 \in Nat /\ 0 <= k - 1
          BY <2>9
        <5> QED BY <5>1, <2>1, Numbered
      <4>2. (k - 1) + 1 = k /\ 0 * D = 0
        BY <2>1
      <4>3. succeeded_at + k * D = succeeded_at + (k - 1) * D + D
        BY <4>1, <4>2
      <4> QED BY <4>1, <4>2, <4>3, <2>1, <2>3
    <3>3. e \in today
      BY <2>3, <2>7, <3>1, <3>2, <2>2 DEF Missed
    <3> HIDE DEF today
    <3>4. e = Max(today)
      BY <2>2, <2>6, <2>7, <3>3, MaxIsTheOne
    <3> QED BY <3>1, <3>2, <3>3, <3>4 DEF DueIsTheNewestMissed, e, today, NoTime
  <2> QED BY <2>8, <2>9
<1> QED BY <1>1, <1>2

\* An interval schedule sleeps until the interval after the one that is due.
LEMMA IntervalSleep ==
  ASSUME WalkTyped, plan \in IntervalSchedules(Nat)
  PROVE  SleepMeetsTheNextWindow
<1> DEFINE iv == plan.interval_minutes
           D == iv * SecPerMin
           next == next_occurrence(plan, instant, succeeded_at)
           e == expected_at(plan, instant, succeeded_at)
<1>1. plan.kind = "interval" /\ iv \in Nat /\ instant \in Nat /\ next = interval_next_occurrence(iv, instant, succeeded_at)
  BY DEF IntervalSchedules, WalkTyped, next_occurrence
<1>2. CASE iv = 0
  <2>1. next = NoTime /\ \A t : ~Opens(t)
    BY <1>1, <1>2, IntervalIdle DEF interval_next_occurrence
  <2> QED BY <2>1 DEF SleepMeetsTheNextWindow
<1>3. CASE iv # 0 /\ succeeded_at = NoTime
  <2>1. D \in Nat \ {0}
    BY <1>1, <1>3, IntervalExpected
  <2>2. next = instant + D
    <3> HIDE DEF next
    <3>1. instant + D > instant
      BY <1>1, <2>1
    <3> QED BY <1>1, <1>3, <3>1 DEF interval_next_occurrence
  <2>3. next > instant
    BY <1>1, <2>1, <2>2
  <2> QED BY <1>1, <1>3, <2>3 DEF SleepMeetsTheNextWindow
<1>4. CASE iv # 0 /\ succeeded_at # NoTime
  <2>1. /\ D \in Nat \ {0} /\ succeeded_at \in Nat
        /\ \A t \in Nat : Opens(t) <=> \E j \in Nat \ {0} : t = succeeded_at + j * D
        /\ \A t \in Nat : t >= succeeded_at =>
              \E k \in Nat : LET x == expected_at(plan, t, succeeded_at)
                           IN  x = succeeded_at + k * D /\ x <= t /\ t < x + D
    BY <1>4, IntervalOpens
  <2>2. instant >= succeeded_at
    BY <2>1 DEF WalkTyped
  <2>3. PICK k \in Nat : e = succeeded_at + k * D /\ e <= instant /\ instant < e + D
    BY <1>1, <2>1, <2>2
  <2>4. succeeded_at + k * D \in Nat /\ succeeded_at + (k + 1) * D = succeeded_at + k * D + D
    <3> HIDE DEF D
    <3> QED BY <2>1, Numbered
  <2>5. next = succeeded_at + (k + 1) * D
    <3> DEFINE q == NumMinutes(instant - succeeded_at) \div iv
    <3>1. q \in Nat
      <4>1. NumMinutes(instant - succeeded_at) = (instant - succeeded_at) \div SecPerMin /\ instant - succeeded_at \in Nat
        BY <1>1, <2>1, <2>2 DEF NumMinutes
      <4>2. NumMinutes(instant - succeeded_at) \in Nat
        BY <4>1, Lengths, DivFacts
      <4> QED BY <4>2, <1>1, <1>4, DivFacts
    <3>2. e = succeeded_at + (IF q > 0 THEN q ELSE 0) * iv * SecPerMin
      BY <1>1, <1>4 DEF expected_at, interval_expected_at
    <3>3. (IF q > 0 THEN q ELSE 0) = q
      BY <3>1
    <3> HIDE DEF q
    <3>4. q * iv * SecPerMin = q * D /\ q * D \in Nat
      BY <1>1, <3>1, Lengths, Z3
    <3>5. e = succeeded_at + q * D
      BY <3>2, <3>3, <3>4
    <3>6. succeeded_at + q * D = succeeded_at + k * D
      BY <2>3, <3>5
    <3> HIDE DEF D, e
    <3>7. k * D \in Nat /\ q * D \in Nat /\ (q + 1) * D = q * D + D /\ (k + 1) * D = k * D + D
      BY <2>1, <3>1, <3>4, MulNext, Z3
    <3>8. q * D = k * D
      BY <2>1, <3>6, <3>7
    <3>9. CASE succeeded_at + D > instant
      <4>1. next = succeeded_at + D
        BY <1>1, <1>4, <3>9 DEF interval_next_occurrence, D, next
      <4>2. k = 0
        <5> SUFFICES ASSUME k # 0 PROVE FALSE
          OBVIOUS
        <5>1. D <= k * D
          <6>1. 1 \in Int /\ k \in Int /\ 1 <= k
            OBVIOUS
          <6>2. 1 * D <= k * D
            BY <6>1, <2>1, MulMono
          <6> QED BY <6>2, <2>1
        <5> DEFINE P == k * D
        <5>2. P \in Nat /\ D <= P /\ e = succeeded_at + P
          BY <2>3, <3>7, <5>1
        <5> HIDE DEF P
        <5> QED BY <5>2, <1>1, <2>1, <2>3, <3>9
      <4>3. (k + 1) * D = D
        BY <4>2, <2>1
      <4> QED BY <4>1, <4>3
    <3>10. CASE ~(succeeded_at + D > instant)
      <4>1. next = succeeded_at + (q + 1) * D
        BY <1>1, <1>4, <3>10 DEF interval_next_occurrence, D, next, q
      <4> QED BY <4>1, <3>7, <3>8
    <3> QED BY <3>9, <3>10
  <2> HIDE DEF D, e, next
  <2>6. next \in Nat /\ next = e + D /\ next > instant
    BY <1>1, <2>1, <2>3, <2>4, <2>5
  <2>7. \A t \in instant + 1 .. next - 1 : ~Opens(t)
    <3> SUFFICES ASSUME NEW t \in instant + 1 .. next - 1, Opens(t) PROVE FALSE
      OBVIOUS
    <3>1. t \in Nat /\ t < next /\ t > instant
      BY <1>1, <2>6
    <3>2. PICK j \in Nat : t = succeeded_at + j * D
      BY <2>1, <3>1
    <3>3. j <= k
      BY <2>1, <2>5, <3>1, <3>2, Numbered
    <3>4. t <= e
      BY <2>1, <2>3, <3>2, <3>3, Numbered
    <3> QED BY <1>1, <2>3, <2>4, <3>1, <3>4
  <2>8. expected_at(plan, next, succeeded_at) = next
    <3> DEFINE x == expected_at(plan, next, succeeded_at)
    <3>1. PICK i \in Nat : x = succeeded_at + i * D /\ x <= next /\ next < x + D
      <4>1. next >= succeeded_at
        BY <1>1, <2>1, <2>2, <2>6
      <4> QED BY <2>1, <2>6, <4>1
    <3> HIDE DEF x
    <3>2. k + 1 \in Nat /\ succeeded_at + i * D \in Nat /\ succeeded_at + (i + 1) * D = succeeded_at + i * D + D
          /\ succeeded_at + ((k + 1) + 1) * D = succeeded_at + (k + 1) * D + D
      BY <2>1, Numbered
    <3>3. succeeded_at + (k + 1) * D < succeeded_at + (i + 1) * D
      BY <2>5, <3>1, <3>2
    <3>4. k + 1 <= i
      BY <2>1, <3>2, <3>3, Numbered
    <3>5. succeeded_at + i * D < succeeded_at + ((k + 1) + 1) * D
      BY <2>1, <2>5, <2>6, <3>1, <3>2
    <3>6. i <= k + 1
      BY <2>1, <3>2, <3>5, Numbered
    <3>7. i = k + 1
      BY <3>4, <3>6
    <3> QED BY <2>5, <3>1, <3>7 DEF x
  <2>9. next # NoTime
    BY <2>6 DEF NoTime
  <2> QED BY <1>4, <2>6, <2>7, <2>8, <2>9 DEF SleepMeetsTheNextWindow, next
<1> QED BY <1>2, <1>3, <1>4

\* Each day of the week comes round within a week.
LEMMA WeekComesRound ==
  ASSUME NEW a \in Nat, NEW w \in 0 .. DaysPerWeek - 1
  PROVE  \E d \in 1 .. DaysPerWeek : (a + d) % DaysPerWeek = w
<1> DEFINE W == DaysPerWeek
           q == a \div W
           r == a % W
<1>1. W \in Nat \ {0} /\ q \in Nat /\ r \in Nat /\ r < W /\ a = q * W + r
  BY CalendarAssumption, DivFacts
<1> HIDE DEF W, q, r
<1>2. w \in Nat /\ w < W /\ q * W \in Nat /\ (q + 1) * W = q * W + W
  BY <1>1, MulNext, Z3 DEF W
<1>3. CASE r < w
  <2>1. (q * W + w) % W = w
    BY <1>1, <1>2, DivUnique
  <2>2. a + (w - r) = q * W + w /\ w - r \in 1 .. W
    BY <1>1, <1>2, <1>3
  <2> QED BY <2>1, <2>2 DEF W
<1>4. CASE w <= r
  <2>1. ((q + 1) * W + w) % W = w
    <3>1. q + 1 \in Nat
      BY <1>1
    <3> QED BY <1>1, <1>2, <3>1, DivUnique
  <2>2. a + (W + w - r) = (q + 1) * W + w /\ W + w - r \in 1 .. W
    BY <1>1, <1>2, <1>4
  <2> QED BY <2>1, <2>2 DEF W
<1> QED BY <1>1, <1>2, <1>3, <1>4

\* A calendar schedule sleeps until the first hour of its days that is ahead, which a week and a day cover.
LEMMA CronSleep ==
  ASSUME WalkTyped, plan \in CronSchedules
  PROVE  SleepMeetsTheNextWindow
<1> DEFINE m == plan.minute
           d0 == DayOf(instant)
           later == {t \in {InstantOf(d0 + d, h, m) : d \in 0 .. DaysPerWeek, h \in plan.hours} :
                       t > instant /\ WeekdayOf(t) \in plan.weekdays}
           next == next_occurrence(plan, instant, succeeded_at)
<1>1. /\ plan.kind = "cron" /\ m \in 0 .. MinPerHour - 1 /\ plan.hours \subseteq 0 .. HoursPerDay - 1
      /\ plan.weekdays \subseteq 0 .. DaysPerWeek - 1 /\ d0 \in Nat /\ instant \in Nat
  BY ClockFacts DEF CronSchedules, WalkTyped
<1>2. next = IF later = {} THEN NoTime ELSE Min(later)
  BY <1>1 DEF next_occurrence, cron_next_occurrence
<1> HIDE DEF d0, m, next
<1>3. \A d \in Nat, h \in plan.hours : LET t == InstantOf(d, h, m) IN t \in Nat /\ DayOf(t) = d /\ HourOf(t) = h /\ MinuteOf(t) = m
  <2> TAKE d \in Nat, h \in plan.hours
  <2>1. h \in 0 .. HoursPerDay - 1
    BY <1>1
  <2> QED BY <1>1, <2>1, InstantIs
<1>4. \A t \in later : t \in Nat /\ t > instant /\ DayOf(t) <= d0 + DaysPerWeek /\ WeekdayOf(t) \in plan.weekdays
                       /\ \E h \in plan.hours : t = InstantOf(DayOf(t), h, m)
  <2> SUFFICES ASSUME NEW t \in later
               PROVE  t \in Nat /\ t > instant /\ DayOf(t) <= d0 + DaysPerWeek /\ WeekdayOf(t) \in plan.weekdays
                      /\ \E h \in plan.hours : t = InstantOf(DayOf(t), h, m)
    OBVIOUS
  <2>1. PICK d \in 0 .. DaysPerWeek, h \in plan.hours : t = InstantOf(d0 + d, h, m)
    OBVIOUS
  <2>2. d0 + d \in Nat /\ d0 + d <= d0 + DaysPerWeek
    BY <1>1, CalendarAssumption
  <2>3. t \in Nat /\ DayOf(t) = d0 + d
    BY <1>3, <2>1, <2>2
  <2> QED BY <2>1, <2>2, <2>3
<1>5. \A t \in Nat : Opens(t) /\ t > instant /\ DayOf(t) <= d0 + DaysPerWeek => t \in later
  <2> SUFFICES ASSUME NEW t \in Nat, Opens(t), t > instant, DayOf(t) <= d0 + DaysPerWeek PROVE t \in later
    OBVIOUS
  <2>1. WeekdayOf(t) \in plan.weekdays /\ \E h \in plan.hours : t = InstantOf(DayOf(t), h, m)
    BY CronOpens DEF m
  <2>2. d0 <= DayOf(t) /\ DayOf(t) \in Nat
    BY <1>1, ClockMono, ClockFacts DEF d0
  <2>3. DayOf(t) - d0 \in 0 .. DaysPerWeek /\ DayOf(t) = d0 + (DayOf(t) - d0)
    BY <1>1, <2>2, CalendarAssumption
  <2> QED BY <2>1, <2>3
<1>6. CASE later = {}
  <2>1. ASSUME NEW t \in Nat, t > instant, Opens(t) PROVE FALSE
    <3>1. WeekdayOf(t) \in plan.weekdays /\ \E h \in plan.hours : t = InstantOf(DayOf(t), h, m)
      BY <2>1, CronOpens DEF m
    <3>2. PICK h \in plan.hours : t = InstantOf(DayOf(t), h, m)
      BY <3>1
    <3>3. PICK d \in 1 .. DaysPerWeek : (d0 + d) % DaysPerWeek = WeekdayOf(t)
      BY <1>1, <3>1, WeekComesRound
    <3> DEFINE u == InstantOf(d0 + d, h, m)
    <3>4. d0 + d \in Nat /\ d0 < d0 + d /\ d \in 0 .. DaysPerWeek
      BY <1>1, Lengths
    <3>5. u \in Nat /\ DayOf(u) = d0 + d
      BY <1>3, <3>4
    <3>6. u \in {InstantOf(d0 + x, y, m) : x \in 0 .. DaysPerWeek, y \in plan.hours}
      BY <3>4
    <3> HIDE DEF u
    <3>7. u > instant
      <4>1. ~(u <= instant)
        <5> SUFFICES ASSUME u <= instant PROVE FALSE
          OBVIOUS
        <5>1. DayOf(u) <= d0
          BY <1>1, <3>5, ClockMono DEF d0
        <5> QED BY <5>1, <3>4, <3>5, <1>1
      <4> QED BY <4>1, <3>5, <1>1
    <3>8. WeekdayOf(u) \in plan.weekdays
      BY <3>1, <3>3, <3>5 DEF WeekdayOf
    <3> QED BY <3>6, <3>7, <3>8, <1>6
  <2>2. \A t \in Horizon : t > instant => ~Opens(t)
    <3>1. Horizon \subseteq Int /\ \A t \in Horizon : t >= 0
      BY DEF Horizon
    <3> QED BY <2>1, <3>1
  <2>3. next = NoTime
    BY <1>2, <1>6
  <2> QED BY <1>1, <2>2, <2>3 DEF SleepMeetsTheNextWindow, next
<1>7. CASE later # {}
  <2>1. next \in later /\ \A y \in later : next <= y
    <3>1. later \in SUBSET Nat
      BY <1>4
    <3> HIDE DEF later
    <3> QED BY <1>2, <1>7, <3>1, MinOfBounded
  <2> HIDE DEF later
  <2>2. next \in Nat /\ next > instant /\ DayOf(next) <= d0 + DaysPerWeek /\ WeekdayOf(next) \in plan.weekdays
        /\ \E h \in plan.hours : next = InstantOf(DayOf(next), h, m)
    BY <1>4, <2>1
  <2>3. \A t \in instant + 1 .. next - 1 : ~Opens(t)
    <3> SUFFICES ASSUME NEW t \in instant + 1 .. next - 1, Opens(t) PROVE FALSE
      OBVIOUS
    <3>1. t \in Nat /\ t > instant /\ t < next
      BY <1>1, <2>2
    <3>2. DayOf(t) <= DayOf(next) /\ DayOf(t) \in Nat /\ DayOf(next) \in Nat
      BY <2>2, <3>1, ClockMono, ClockFacts
    <3>3. DayOf(t) <= d0 + DaysPerWeek
      BY <1>1, <2>2, <3>2, CalendarAssumption
    <3>4. next <= t
      BY <1>5, <2>1, <3>1, <3>3
    <3> QED BY <2>2, <3>1, <3>4
  <2>4. expected_at(plan, next, succeeded_at) = next
    <3> DEFINE S == Struck(plan, next)
    <3>1. PICK h \in plan.hours : next = InstantOf(DayOf(next), h, m)
      BY <2>2
    <3>2. DayOf(next) \in Nat /\ HourOf(next) = h /\ MinuteOf(next) = m /\ h \in Nat
      <4>1. DayOf(next) \in Nat
        BY <2>2, ClockFacts
      <4>2. HourOf(next) = h /\ MinuteOf(next) = m
        BY <1>3, <3>1, <4>1
      <4> QED BY <4>1, <4>2, <1>1
    <3>3. S = {x \in plan.hours : x <= h} /\ S \in SUBSET (0 .. h) /\ h \in S
      <4>1. \A x \in plan.hours : x \in Nat
        BY <1>1
      <4>2. m <= m
        BY <1>1
      <4>3. \A x \in plan.hours : (x < h \/ (x = h /\ m <= m)) <=> x <= h
        BY <3>2, <4>1, <4>2
      <4>4. S = {x \in plan.hours : x <= h}
        BY <3>2, <4>3 DEF Struck, m
      <4> QED BY <4>1, <4>4, <3>2
    <3>4. h = Max(S)
      <4>1. \A y \in S : y <= h
        BY <3>3
      <4> HIDE DEF S
      <4> QED BY <3>2, <3>3, <4>1, MaxIsTheOne
    <3>5. cron_expected_at(plan, next) = InstantOf(DayOf(next), Max(S), m)
      BY <2>2, <3>3 DEF cron_expected_at, Struck, m
    <3> QED BY <1>1, <3>1, <3>4, <3>5 DEF expected_at
  <2>5. next # NoTime
    BY <2>2 DEF NoTime
  <2> QED BY <1>1, <2>2, <2>3, <2>4, <2>5 DEF SleepMeetsTheNextWindow, next
<1> QED BY <1>6, <1>7

\* The first window missed is the one that health is judged by.
LEMMA BrokenIsStale ==
  ASSUME WalkTyped, plan \in IntervalSchedules(Nat)
  PROVE  IntervalBrokenLongIsStale
<1> DEFINE iv == plan.interval_minutes
           D == iv * SecPerMin
           e == expected_at(plan, instant, succeeded_at)
<1>1. SUFFICES ASSUME plan.kind = "interval", Missed # {}
               PROVE  health_state(plan, Policy, succeeded_at, NoWindow, instant) = "stale"
                        <=> is_stale(Min(Missed), StaleAfter, instant)
  BY DEF IntervalBrokenLongIsStale
<1>2. iv # 0 /\ succeeded_at # NoTime
  BY <1>1, IntervalIdle DEF Missed
<1>3. /\ D \in Nat \ {0} /\ succeeded_at \in Nat
      /\ \A t \in Nat : Opens(t) <=> \E j \in Nat \ {0} : t = succeeded_at + j * D
  BY <1>2, IntervalOpens
<1>4. instant \in Nat
  BY DEF WalkTyped
<1> HIDE DEF D
<1>5. \A t \in Missed : succeeded_at + D <= t
  <2> SUFFICES ASSUME NEW t \in Missed PROVE succeeded_at + D <= t
    OBVIOUS
  <2>1. t \in Nat /\ Opens(t)
    BY <1>4 DEF Missed
  <2>2. PICK j \in Nat \ {0} : t = succeeded_at + j * D
    BY <1>3, <2>1
  <2>3. 1 * D <= j * D /\ 1 * D = D /\ j * D \in Nat
    <3>1. 1 \in Int /\ j \in Int /\ 1 <= j
      OBVIOUS
    <3>2. 1 * D <= j * D
      BY <3>1, <1>3, MulMono
    <3> QED BY <3>2, <1>3, Z3
  <2> QED BY <2>2, <2>3, <1>3
<1>6. succeeded_at + D \in Missed
  <2>1. PICK t \in Missed : succeeded_at + D <= t
    BY <1>1, <1>5
  <2>2. succeeded_at + D \in 0 .. instant /\ succeeded_at + D > succeeded_at
    BY <2>1, <1>3, <1>4 DEF Missed
  <2>3. succeeded_at + D = succeeded_at + 1 * D
    BY <1>3
  <2>4. 1 \in Nat \ {0}
    OBVIOUS
  <2>5. Opens(succeeded_at + D)
    BY <1>3, <2>2, <2>3, <2>4
  <2> QED BY <2>2, <2>5 DEF Missed
<1>7. Min(Missed) = succeeded_at + D
  <2>1. Missed \in SUBSET Nat
    BY <1>4 DEF Missed
  <2>2. Min(Missed) \in Missed /\ \A y \in Missed : Min(Missed) <= y
    BY <1>1, <2>1, MinOfBounded
  <2> DEFINE n == Min(Missed)
  <2>3. n \in Missed /\ n <= succeeded_at + D /\ succeeded_at + D <= n
    BY <2>2, <1>5, <1>6
  <2> HIDE DEF n
  <2>4. n \in Nat /\ succeeded_at + D \in Nat
    BY <2>1, <2>3, <1>3
  <2>5. n = succeeded_at + D
    BY <2>3, <2>4
  <2> QED BY <2>5 DEF n
<1>8. e # NoTime /\ e > succeeded_at
  <2>1. DueIsTheNewestMissed
    BY IntervalDue
  <2>2. {t \in Missed : plan.kind = "cron" => DayOf(t) = DayOf(instant)} # {}
    BY <1>1
  <2> QED BY <2>1, <2>2 DEF DueIsTheNewestMissed
<1>9. first_missed_window(plan, succeeded_at) = succeeded_at + D /\ succeeded_at + D # NoTime
  BY <1>1, <1>2, <1>3 DEF first_missed_window, NoTime, D
<1>10. succeeded_at < e /\ e \in Int
  <2>1. PICK k \in Nat : e = succeeded_at + k * D
    <3>1. instant \in Nat /\ instant >= succeeded_at
      BY <1>3 DEF WalkTyped
    <3> QED BY <3>1, <1>2, IntervalOpens DEF D
  <2> QED BY <1>3, <1>8, <2>1, Numbered
<1> HIDE DEF e
<1>11. ~(succeeded_at >= e)
  BY <1>3, <1>10
<1>12. health_state(plan, Policy, succeeded_at, NoWindow, instant)
         = IF is_stale(succeeded_at + D, Policy.stale_after, instant) THEN "stale" ELSE "failing"
  BY <1>8, <1>9, <1>11 DEF health_state, e
<1> QED BY <1>7, <1>12 DEF Policy

\* WalkInv: for every calendar, schedule and instant, the window that dispatch_one judges is the newest missed, the daemon sleeps
\* to the next opening, and an interval schedule is stale by its first missed window (expected_at, next_occurrence, health_state).
THEOREM WalkSafe == WalkSpec => []WalkInv
<1>1. WalkInit => WalkTyped
  BY WalkAssumption DEF WalkInit, WalkTyped, NoTime
<1>2. WalkTyped /\ [WalkNext]_walkVars => WalkTyped'
  BY DEF WalkTyped, WalkNext, Elapse, Succeed, walkVars, NoTime
<1>3. WalkTyped => WalkInv
  <2> SUFFICES ASSUME WalkTyped PROVE WalkInv
    OBVIOUS
  <2>1. CASE plan \in CronSchedules
    <3>1. IntervalBrokenLongIsStale
      BY <2>1 DEF IntervalBrokenLongIsStale, CronSchedules
    <3> QED BY <2>1, <3>1, CronDue, CronSleep DEF WalkInv
  <2>2. CASE plan \in IntervalSchedules(Nat)
    BY <2>2, IntervalDue, IntervalSleep, BrokenIsStale DEF WalkInv
  <2> QED BY <2>1, <2>2 DEF WalkTyped
<1> QED BY <1>1, <1>2, <1>3, PTL DEF WalkSpec
=============================================================================
