------------------------------ MODULE Dispatch ------------------------------
(***************************************************************************)
(* The scheduler's tick: crates/dotagent/src/commands/daemon.rs,           *)
(* tick_once and what it calls (dispatch_one, give_up, claim_alert,        *)
(* sweep_health_notifications), on the files it shares with every other    *)
(* dotagent process: heartbeats, window files and the alert table.         *)
(*                                                                         *)
(* Procs are the processes that run tick_once: the daemon, and a           *)
(* `dotagent tick' typed beside it.  Each walks the manifest's schedules   *)
(* twice, first to dispatch what is due, then to sweep for alerts, judging *)
(* everything at the instant its tick began.  A process can die between    *)
(* any two steps; what it had not written is gone.                         *)
(***************************************************************************)
EXTENDS Schedule, NotifyDedup

CONSTANTS
    Procs,        \* processes running tick_once
    Manifest,     \* the schedules of an agent, in manifest order
    Listens,      \* events some notifier or on_failure hook asks for
    Outcomes,     \* how a run may end
    MaxTime,      \* bound: the last instant
    MaxFaults     \* bound: deaths and runner errors

NoProc == "no process"
Ids    == DOMAIN Manifest
Slugs  == {Manifest[i].slug : i \in Ids}
Time   == 0 .. MaxTime
OptTime == Time \union {NoTime}

AllOutcomes == {"ok", "fail", "preflight", "lost", "error"}

\* slug_from_args maps the schedule's args to the name of its state files, so
\* two schedules of an agent may share them.  `defer' is the schedule's
\* effective on_battery policy, the rest its resolved retry policy.
Entries == [sched : IntervalSchedules(Nat) \union CronSchedules,
            slug : STRING, defer : BOOLEAN,
            max_retries : Nat, backoff : Seq(Nat), stale_after : Nat]

ASSUME DispatchAssumption ==
    /\ NoProc \notin Procs
    /\ MaxTime \in Nat /\ MaxFaults \in Nat
    /\ Outcomes \subseteq AllOutcomes
    /\ Listens \subseteq Events
    /\ Manifest \in Seq(Entries)

VARIABLES
    now,          \* the wall clock
    battery,      \* the machine is on battery
    heartbeat,    \* last_success_at of each slug's heartbeat file
    window,       \* the window files, by slug and label
    alerts,       \* alerts.json
    lock,         \* who holds alerts.lock
    pc, pos,      \* where each process is in its tick, and at which schedule
    tick_now,     \* the instant its tick began
    power,        \* its reading of the power source, taken once per tick
    expected,     \* the window it is dispatching
    copy,         \* the window file it read, as updated in memory
    table,        \* the alert table its sweep loaded, as updated in memory
    faults        \* deaths and runner errors so far

\* History: runs started in a window; started runs whose count never reached
\* the file; runs that succeeded in a window; whether the run in hand is still
\* uncounted; notices sent in the current episode; alert keys whose record and
\* notice were parted, by a death between the two or by a sweep that ended the
\* episode while another process was still announcing it; when a schedule's last
\* run started; the window file that recorded a schedule's latest success; the
\* alerts a process announced in this tick.
VARIABLES started, uncounted, succeeded, inflight, said, parted, recorded, told

files   == <<heartbeat, window, alerts, lock>>
locals  == <<pc, pos, tick_now, power, expected, copy, table>>
history == <<started, uncounted, succeeded, inflight, said, parted, recorded,
             told>>
vars    == <<now, battery, files, locals, faults, history>>

WindowState ==
    [exists : BOOLEAN, attempts : Nat, last_attempt_at : OptTime,
     exit : {NoExit, "ok", "fail", "preflight", "lost"}, given_up : BOOLEAN]
Tables == [Ids -> [Events -> Episodes]]
InHand == {"running", "giveup", "announce", "write"}    \* dispatch_one past its gates
PCs == {"idle", "dispatch", "sweep"} \union InHand
Empty == [i \in Ids |-> [e \in Events |-> NoEpisode]]

-----------------------------------------------------------------------------
(* The files.                                                              *)

Slug(i) == Manifest[i].slug

\* Window files are named after the minute their window opened.
WindowLabel(t) == (t \div SecPerMin) * SecPerMin
read_window(i, t) == window[Slug(i)][WindowLabel(t)]

\* The newest window a file was written for, none of them in the future.
last_dispatched_window(slug, t) ==
    LET labels == {l \in Time : window[slug][l].exists /\ l <= t}
    IN  IF labels = {} THEN NoTime ELSE Max(labels)

Expected(i, t) == expected_at(Manifest[i].sched, t, heartbeat[Slug(i)])

-----------------------------------------------------------------------------
(* dispatch_one: whether a schedule is dispatched at instant t.            *)

Due(i, t) ==
    LET e == Expected(i, t)
    IN  e # NoTime /\ e <= t /\ (heartbeat[Slug(i)] = NoTime \/ heartbeat[Slug(i)] < e)

Defers(i, on_battery) == on_battery /\ Manifest[i].defer

\* Mutant: a given-up window is taken up again.
PassesGatesIgnoringGiveUp(i, t, on_battery) ==
    /\ Due(i, t)
    /\ ~is_stale(Expected(i, t), Manifest[i].stale_after, t)
    /\ ~Defers(i, on_battery)
    /\ LET w == read_window(i, Expected(i, t))
       IN  should_retry(w.attempts, w.last_attempt_at, Manifest[i].backoff, t)

PassesGates(i, t, on_battery) ==
    /\ Due(i, t)
    /\ ~is_stale(Expected(i, t), Manifest[i].stale_after, t)
    /\ ~Defers(i, on_battery)
    /\ LET w == read_window(i, Expected(i, t))
       IN  ~w.given_up /\ should_retry(w.attempts, w.last_attempt_at, Manifest[i].backoff, t)

\* Mutant: a window is given up one attempt early.
ExhaustedEarly(i, w) == w.attempts + 1 >= Manifest[i].max_retries

\* The retries of a window are burned.
Exhausted(i, w) == w.attempts >= Manifest[i].max_retries

\* tick_dry_run repeats the gates on its own: what `dotagent tick --dry-run'
\* counts as a dispatch.
WouldDispatch(i, t, on_battery) ==
    LET e == Expected(i, t)
        w == read_window(i, e)
    IN  /\ e # NoTime /\ e <= t
        /\ ~(heartbeat[Slug(i)] # NoTime /\ heartbeat[Slug(i)] >= e)
        /\ ~is_stale(e, Manifest[i].stale_after, t)
        /\ ~Defers(i, on_battery)
        /\ ~w.given_up
        /\ w.attempts < Manifest[i].max_retries
        /\ should_retry(w.attempts, w.last_attempt_at, Manifest[i].backoff, t)

-----------------------------------------------------------------------------
Init ==
    /\ now = 0
    /\ battery = FALSE
    /\ heartbeat \in [Slugs -> {NoTime, 0}]
    /\ window = [g \in Slugs |-> [l \in Time |-> NoWindow]]
    /\ alerts = Empty
    /\ lock = NoProc
    /\ pc = [p \in Procs |-> "idle"]
    /\ pos = [p \in Procs |-> 1]
    /\ tick_now = [p \in Procs |-> 0]
    /\ power = [p \in Procs |-> FALSE]
    /\ expected = [p \in Procs |-> 0]
    /\ copy = [p \in Procs |-> NoWindow]
    /\ table = [p \in Procs |-> Empty]
    /\ faults = 0
    /\ started = [i \in Ids |-> [l \in Time |-> 0]]
    /\ uncounted = [i \in Ids |-> [l \in Time |-> 0]]
    /\ succeeded = [i \in Ids |-> [t \in Time |-> 0]]
    /\ inflight = [p \in Procs |-> FALSE]
    /\ said = Empty
    /\ parted = {}
    /\ recorded = [i \in Ids |-> NoTime]
    /\ told = [p \in Procs |-> {}]

\* tick_once: the clock and the power source are read once, for all of it.
BeginTick(p) ==
    /\ pc[p] = "idle"
    /\ pc' = [pc EXCEPT ![p] = "dispatch"]
    /\ pos' = [pos EXCEPT ![p] = 1]
    /\ tick_now' = [tick_now EXCEPT ![p] = now]
    /\ power' = [power EXCEPT ![p] = battery]
    /\ UNCHANGED <<now, battery, files, expected, copy, table, faults, history>>

AtSchedule(p, stage) == pc[p] = stage /\ pos[p] \in Ids

\* dispatch_one returns before it reads or writes anything that matters.
Skip(p) ==
    /\ AtSchedule(p, "dispatch")
    /\ ~PassesGates(pos[p], tick_now[p], power[p])
    /\ pos' = [pos EXCEPT ![p] = @ + 1]
    /\ UNCHANGED <<now, battery, files, pc, tick_now, power, expected, copy, table,
                   faults, history>>

\* The retries were burned by attempts that could not give up themselves
\* (a preflight that kept failing).
GiveUpExhausted(p) ==
    LET i == pos[p]
        e == Expected(i, tick_now[p])
    IN  /\ AtSchedule(p, "dispatch")
        /\ PassesGates(i, tick_now[p], power[p])
        /\ Exhausted(i, read_window(i, e))
        /\ expected' = [expected EXCEPT ![p] = e]
        /\ copy' = [copy EXCEPT ![p] = [read_window(i, e) EXCEPT !.exists = TRUE]]
        /\ pc' = [pc EXCEPT ![p] = "giveup"]
        /\ UNCHANGED <<now, battery, files, pos, tick_now, power, table, faults, history>>

StartRun(p) ==
    LET i == pos[p]
        e == Expected(i, tick_now[p])
    IN  /\ AtSchedule(p, "dispatch")
        /\ PassesGates(i, tick_now[p], power[p])
        /\ ~Exhausted(i, read_window(i, e))
        /\ expected' = [expected EXCEPT ![p] = e]
        /\ copy' = [copy EXCEPT ![p] = [read_window(i, e) EXCEPT !.exists = TRUE]]
        /\ pc' = [pc EXCEPT ![p] = "running"]
        /\ started' = [started EXCEPT ![i][WindowLabel(e)] = @ + 1]
        /\ inflight' = [inflight EXCEPT ![p] = TRUE]
        /\ UNCHANGED <<now, battery, files, pos, tick_now, power, table, faults,
                       uncounted, succeeded, said, parted, recorded, told>>

\* Mutant: a runner error falls through to the write of the window.
AfterRunFallingThrough(i, o, attempts) ==
    CASE o = "lost" -> "giveup"
      [] o = "fail" /\ attempts >= Manifest[i].max_retries -> "giveup"
      [] OTHER -> "write"

\* Where dispatch_one goes once run_with_hooks has returned.
AfterRun(i, o, attempts) ==
    CASE o = "error" -> "dispatch"
      [] o = "lost" -> "giveup"
      [] o = "fail" /\ attempts >= Manifest[i].max_retries -> "giveup"
      [] OTHER -> "write"

\* Mutant: a failed preflight is not counted as an attempt.
CountedFreePreflight(ws, o, t) ==
    IF o = "preflight" THEN [ws EXCEPT !.last_attempt_at = t, !.exit = o]
    ELSE [ws EXCEPT !.attempts = @ + 1, !.last_attempt_at = t, !.exit = o]

\* The attempt is stamped with the instant the tick began.
Counted(ws, o, t) ==
    [ws EXCEPT !.attempts = @ + 1, !.last_attempt_at = t, !.exit = o]

\* History: a success whose window file, if any, is not written yet.
Unrecorded(slug) == [i \in Ids |-> IF Slug(i) = slug THEN NoTime ELSE recorded[i]]

\* run_with_hooks returns: the heartbeat is on disk, the window file is not.
\* A runner error leaves no trace in the window at all.
EndRun(p) ==
    \E o \in Outcomes :
        LET i  == pos[p]
            ws == Counted(copy[p], o, tick_now[p])
        IN  /\ AtSchedule(p, "running")
            /\ pc' = [pc EXCEPT ![p] = AfterRun(i, o, ws.attempts)]
            /\ IF o = "error"
               THEN /\ faults < MaxFaults
                    /\ faults' = faults + 1
                    /\ pos' = [pos EXCEPT ![p] = @ + 1]
                    /\ uncounted' = [uncounted EXCEPT ![i][WindowLabel(expected[p])] = @ + 1]
                    /\ inflight' = [inflight EXCEPT ![p] = FALSE]
                    /\ expected' = [expected EXCEPT ![p] = 0]
                    /\ copy' = [copy EXCEPT ![p] = NoWindow]
                    /\ UNCHANGED <<heartbeat, succeeded, recorded>>
               ELSE /\ copy' = [copy EXCEPT ![p] = ws]
                    /\ heartbeat' = IF o = "ok" THEN [heartbeat EXCEPT ![Slug(i)] = now]
                                                ELSE heartbeat
                    /\ succeeded' = IF o = "ok"
                                    THEN [succeeded EXCEPT ![i][expected[p]] = @ + 1]
                                    ELSE succeeded
                    /\ recorded' = IF o = "ok" THEN Unrecorded(Slug(i)) ELSE recorded
                    /\ UNCHANGED <<pos, uncounted, inflight, expected, faults>>
            /\ UNCHANGED <<now, battery, window, alerts, lock, tick_now, power, table,
                           started, said, parted, told>>

\* give_up, up to and including claim_alert: the alert table is loaded and
\* saved under its lock, at the instant of the clock.
GiveUp(p) ==
    LET k == alerts[pos[p]]["given_up"]
    IN  /\ AtSchedule(p, "giveup")
        /\ lock = NoProc
        /\ copy' = [copy EXCEPT ![p].given_up = TRUE]
        /\ IF should_notify(k, now)
           THEN /\ alerts' = [alerts EXCEPT ![pos[p]]["given_up"] = record(k, now)]
                /\ pc' = [pc EXCEPT ![p] = "announce"]
           ELSE /\ pc' = [pc EXCEPT ![p] = "write"]
                /\ UNCHANGED alerts
        /\ UNCHANGED <<now, battery, heartbeat, window, lock, pos, tick_now, power,
                       expected, table, faults, history>>

\* A notice that somebody listens to goes out.
Say(p, i, e) ==
    /\ said' = [said EXCEPT ![i][e] = record(@, now)]
    /\ told' = [told EXCEPT ![p] = @ \union {<<i, e>>}]

Announcing(p, i) == pc[p] = "announce" /\ pos[p] = i

\* give_up's fire_on_failure_event.
Announce(p) ==
    /\ AtSchedule(p, "announce")
    /\ pc' = [pc EXCEPT ![p] = "write"]
    /\ IF "given_up" \in Listens THEN Say(p, pos[p], "given_up") ELSE UNCHANGED <<said, told>>
    /\ UNCHANGED <<now, battery, files, pos, tick_now, power, expected, copy, table,
                   faults, started, uncounted, succeeded, inflight, parted,
                   recorded>>

\* write_window: the file is replaced whole by the copy in memory.
WriteWindow(p) ==
    LET i == pos[p]
    IN  /\ AtSchedule(p, "write")
        /\ window' = [window EXCEPT ![Slug(i)][WindowLabel(expected[p])] = copy[p]]
        /\ pc' = [pc EXCEPT ![p] = "dispatch"]
        /\ pos' = [pos EXCEPT ![p] = @ + 1]
        /\ inflight' = [inflight EXCEPT ![p] = FALSE]
        /\ expected' = [expected EXCEPT ![p] = 0]
        /\ copy' = [copy EXCEPT ![p] = NoWindow]
        /\ recorded' = IF copy[p].exit = "ok"
                       THEN [recorded EXCEPT ![i] = WindowLabel(expected[p])]
                       ELSE recorded
        /\ UNCHANGED <<now, battery, heartbeat, alerts, lock, tick_now, power, table,
                       faults, started, uncounted, succeeded, said, parted, told>>

-----------------------------------------------------------------------------
(* sweep_health_notifications.                                             *)

\* Mutant: no window in scope is read as a recovery.
alert_verdict_forgetful(health, e, last_success, ws) ==
    CASE health = "stale" -> IF e # NoTime \/ last_success # NoTime THEN "stale" ELSE "quiet"
      [] health = "failing" -> IF ws.given_up THEN "given_up" ELSE "quiet"
      [] OTHER -> "healthy"

alert_verdict(health, e, last_success, ws) ==
    CASE health = "stale" -> IF e # NoTime \/ last_success # NoTime THEN "stale" ELSE "quiet"
      [] health = "failing" -> IF ws.given_up THEN "given_up" ELSE "quiet"
      [] OTHER -> IF e = NoTime THEN "quiet" ELSE "healthy"

\* The window file whose health is reported at instant t.
ReportedKey(i, t) ==
    window_key(Manifest[i].sched, heartbeat[Slug(i)],
               last_dispatched_window(Slug(i), t), t)

Verdict(i, t) ==
    LET ls == heartbeat[Slug(i)]
        k  == ReportedKey(i, t)
        ws == IF k = NoTime THEN NoWindow ELSE read_window(i, k)
        h  == health_state(Manifest[i].sched, [stale_after |-> Manifest[i].stale_after],
                           ls, ws, t)
    IN  alert_verdict(h, Expected(i, t), ls, ws)

\* stale is delivered on the given_up channel when nothing lists it.
HasChannel(e) == e \in Listens \/ (e = "stale" /\ "given_up" \in Listens)

\* Mutant: the table is read before the lock is taken.
BeginSweepUnlocked(p) ==
    /\ pc[p] = "dispatch" /\ pos[p] \notin Ids
    /\ table' = [table EXCEPT ![p] = alerts]
    /\ pc' = [pc EXCEPT ![p] = "sweep"]
    /\ pos' = [pos EXCEPT ![p] = 1]
    /\ UNCHANGED <<now, battery, files, tick_now, power, expected, copy, faults, history>>

\* The locals of tick_once go out of scope.
ForgetTick(p) ==
    /\ pos' = [pos EXCEPT ![p] = 1]
    /\ tick_now' = [tick_now EXCEPT ![p] = 0]
    /\ power' = [power EXCEPT ![p] = FALSE]
    /\ table' = [table EXCEPT ![p] = Empty]
    /\ told' = [told EXCEPT ![p] = {}]

\* NotifyDedupStore::load takes the lock and keeps it until save.
BeginSweep(p) ==
    /\ pc[p] = "dispatch" /\ pos[p] \notin Ids
    /\ lock = NoProc
    /\ lock' = p
    /\ table' = [table EXCEPT ![p] = alerts]
    /\ pc' = [pc EXCEPT ![p] = "sweep"]
    /\ pos' = [pos EXCEPT ![p] = 1]
    /\ UNCHANGED <<now, battery, heartbeat, window, alerts, tick_now, power, expected,
                   copy, faults, history>>

\* One schedule of the sweep, judged at the instant the tick began.
SweepOne(p) ==
    LET i == pos[p]
        v == Verdict(i, tick_now[p])
    IN  /\ AtSchedule(p, "sweep")
        /\ pos' = [pos EXCEPT ![p] = @ + 1]
        /\ CASE Defers(i, power[p]) -> UNCHANGED <<table, said, told, parted>>
             [] ~Defers(i, power[p]) /\ v = "healthy" ->
                  /\ table' = [table EXCEPT ![p] = clear_pair(@, i)]
                  /\ said' = clear_pair(said, i)
                  /\ parted' = IF \E q \in Procs : Announcing(q, i)
                               THEN parted \union {<<i, "given_up">>} ELSE parted
                  /\ UNCHANGED told
             [] /\ ~Defers(i, power[p]) /\ v \in Events /\ HasChannel(v)
                /\ should_notify(table[p][i][v], tick_now[p]) ->
                  /\ table' = [table EXCEPT ![p][i][v] = record(@, tick_now[p])]
                  /\ Say(p, i, v)
                  /\ UNCHANGED parted
             [] OTHER -> UNCHANGED <<table, said, told, parted>>
        /\ UNCHANGED <<now, battery, files, pc, tick_now, power, expected, copy, faults,
                       started, uncounted, succeeded, inflight, recorded>>

\* Mutant: the lock outlives the sweep.
EndSweepKeepingLock(p) ==
    /\ pc[p] = "sweep" /\ pos[p] \notin Ids
    /\ alerts' = table[p]
    /\ pc' = [pc EXCEPT ![p] = "idle"]
    /\ ForgetTick(p)
    /\ UNCHANGED <<now, battery, heartbeat, window, lock, expected, copy, faults, started,
                   uncounted, succeeded, inflight, said, parted, recorded>>

\* The table is saved and the lock released.  (The code skips the save of a
\* table it did not change: under the lock, that table still is the file.)
EndSweep(p) ==
    /\ pc[p] = "sweep" /\ pos[p] \notin Ids
    /\ alerts' = table[p]
    /\ lock' = NoProc
    /\ pc' = [pc EXCEPT ![p] = "idle"]
    /\ ForgetTick(p)
    /\ UNCHANGED <<now, battery, heartbeat, window, expected, copy, faults, started,
                   uncounted, succeeded, inflight, said, parted, recorded>>

-----------------------------------------------------------------------------
(* The rest of the world.                                                  *)

\* The process is killed: the OS drops its lock, memory is gone.  Alerts the
\* sweep had sent and not saved, or saved and not sent, are out of step.
Crash(p) ==
    LET i == pos[p]
    IN  /\ pc[p] # "idle"
        /\ faults < MaxFaults
        /\ faults' = faults + 1
        /\ pc' = [pc EXCEPT ![p] = "idle"]
        /\ ForgetTick(p)
        /\ expected' = [expected EXCEPT ![p] = 0]
        /\ copy' = [copy EXCEPT ![p] = NoWindow]
        /\ lock' = IF lock = p THEN NoProc ELSE lock
        /\ inflight' = [inflight EXCEPT ![p] = FALSE]
        /\ uncounted' = IF inflight[p]
                        THEN [uncounted EXCEPT ![i][WindowLabel(expected[p])] = @ + 1]
                        ELSE uncounted
        /\ parted' = parted \union
                   CASE pc[p] = "announce" -> {<<i, "given_up">>}
                     [] pc[p] = "sweep" -> {k \in Ids \X Events :
                                              table[p][k[1]][k[2]] # alerts[k[1]][k[2]]}
                     [] OTHER -> {}
        /\ UNCHANGED <<now, battery, heartbeat, window, alerts, started, succeeded, said, recorded>>

\* `dotagent run' succeeds: it shares the schedule's slug and writes only the
\* heartbeat.
ManualRun(i) ==
    /\ heartbeat[Slug(i)] # now
    /\ heartbeat' = [heartbeat EXCEPT ![Slug(i)] = now]
    /\ recorded' = Unrecorded(Slug(i))
    /\ UNCHANGED <<now, battery, window, alerts, lock, locals, faults, started, uncounted,
                   succeeded, inflight, said, parted, told>>

Pass ==
    /\ now < MaxTime
    /\ now' = now + 1
    /\ UNCHANGED <<battery, files, locals, faults, history>>

\* The charger goes in or out.
Unplug ==
    /\ \E i \in Ids : Manifest[i].defer
    /\ battery' = ~battery
    /\ UNCHANGED <<now, files, locals, faults, history>>

\* What a tick in progress does next.
Step(p) ==
    \/ Skip(p) \/ GiveUpExhausted(p) \/ StartRun(p) \/ EndRun(p)
    \/ GiveUp(p) \/ Announce(p) \/ WriteWindow(p)
    \/ BeginSweep(p) \/ SweepOne(p) \/ EndSweep(p)

Next ==
    \/ \E p \in Procs : BeginTick(p) \/ Step(p) \/ Crash(p)
    \/ \E i \in Ids : ManualRun(i)
    \/ Pass
    \/ Unplug

Spec == Init /\ [][Next]_vars

\* The runtime keeps scheduling the task of a live process, and a run ends: the
\* supervisor kills it at its deadline.  A process blocked in flock gets the
\* lock in the end: its holder lets go and sleeps before it asks again.
\* Nothing obliges a process to begin a tick.
FairSpec ==
    /\ Spec
    /\ \A p \in Procs : WF_vars(Step(p)) /\ SF_vars(GiveUp(p) \/ BeginSweep(p))

-----------------------------------------------------------------------------
WorldType ==
    /\ now \in Time
    /\ battery \in BOOLEAN
    /\ faults \in 0 .. MaxFaults

FilesType ==
    /\ heartbeat \in [Slugs -> OptTime]
    /\ window \in [Slugs -> [Time -> WindowState]]
    /\ alerts \in Tables
    /\ lock \in Procs \union {NoProc}

LocalsType ==
    /\ pc \in [Procs -> PCs]
    /\ pos \in [Procs -> Nat \ {0}]
    /\ tick_now \in [Procs -> Time]
    /\ power \in [Procs -> BOOLEAN]
    /\ expected \in [Procs -> Time]
    /\ copy \in [Procs -> WindowState]
    /\ table \in [Procs -> Tables]

Positioned == \A p \in Procs : pc[p] \in InHand => pos[p] \in Ids

HistoryType ==
    /\ started \in [Ids -> [Time -> Nat]]
    /\ uncounted \in [Ids -> [Time -> Nat]]
    /\ succeeded \in [Ids -> [Time -> Nat]]
    /\ inflight \in [Procs -> BOOLEAN]
    /\ said \in Tables
    /\ parted \subseteq Ids \X Events
    /\ recorded \in [Ids -> OptTime]
    /\ told \in [Procs -> SUBSET (Ids \X Events)]

TypeOK == WorldType /\ FilesType /\ LocalsType /\ Positioned /\ HistoryType

\* No window of a schedule is run more often than max_retries allows, beyond
\* the runs whose count dispatch_one never wrote: the process died before
\* write_window, or run_with_hooks failed.
RunBudget ==
    \A i \in Ids, l \in Time :
        started[i][l] <= Manifest[i].max_retries + uncounted[i][l]

\* A window that succeeded is never run to success again: the heartbeat is on
\* disk before the window file, so not even a death in between repeats it.
SucceedsOnce == \A i \in Ids, t \in Time : succeeded[i][t] <= 1

\* A schedule is only ever given up after it was run.
GivenUpWasTried ==
    \A i \in Ids, l \in Time :
        window[Slug(i)][l].given_up => \E j \in Ids : Slug(j) = Slug(i) /\ started[j][l] > 0

\* give_up is final for its window: the marker is never taken back and no run
\* starts there again.
GivenUpIsFinal ==
    [][\A i \in Ids, l \in Time :
          window[Slug(i)][l].given_up =>
              /\ window'[Slug(i)][l].given_up
              /\ started'[i][l] = started[i][l]]_vars

\* The window file that status, the summary and the alert sweep read for a
\* satisfied schedule is the one the successful run was dispatched against,
\* although a success re-phases an interval schedule.
ReaderFindsTheRun ==
    \A i \in Ids :
        LET e == Expected(i, now)
        IN  recorded[i] # NoTime /\ e # NoTime /\ heartbeat[Slug(i)] >= e
                => WindowLabel(ReportedKey(i, now)) = recorded[i]

\* The books of a single ticking process, which the budget rests on: the window
\* file it has in hand is open, its copy is ahead of the file by the run it has
\* just made, and a run that is still going has not succeeded before.
InHandFile(p) == window[Slug(pos[p])][WindowLabel(expected[p])]
HandBooks ==
    \A p \in Procs :
        /\ tick_now[p] <= now
        /\ inflight[p] => pc[p] \in InHand
        /\ pc[p] \in InHand => expected[p] <= tick_now[p] /\ ~InHandFile(p).given_up
        /\ pc[p] = "running" =>
               /\ inflight[p]
               /\ copy[p].attempts = InHandFile(p).attempts
               /\ succeeded[pos[p]][expected[p]] = 0
        /\ pc[p] \in InHand \ {"running"} =>
               copy[p].attempts = InHandFile(p).attempts + IF inflight[p] THEN 1 ELSE 0

\* Every run started is in the window file, in hand, or known not to be counted.
Pending(i, l) ==
    \E p \in Procs : inflight[p] /\ pos[p] = i /\ WindowLabel(expected[p]) = l
RunBooks ==
    \A i \in Ids, l \in Time :
        started[i][l] <=
            uncounted[i][l] + window[Slug(i)][l].attempts + IF Pending(i, l) THEN 1 ELSE 0

\* A heartbeat is never ahead of the clock nor behind a window that succeeded.
HeartbeatBooks ==
    /\ \A g \in Slugs : heartbeat[g] <= now
    /\ \A i \in Ids, t \in Time : succeeded[i][t] > 0 => heartbeat[Slug(i)] >= t

Books == HandBooks /\ RunBooks /\ HeartbeatBooks

\* The newest window open at instant t, counted from the last success.
NewestWindow(i, t) ==
    LET opened == {x \in Time : /\ x <= t /\ x > heartbeat[Slug(i)]
                                /\ (x - heartbeat[Slug(i)]) %
                                     (Manifest[i].sched.interval_minutes * SecPerMin) = 0}
    IN  IF opened = {} THEN NoTime ELSE Max(opened)

\* A failing interval schedule is never abandoned: once a tick has dispatched,
\* the newest window it saw has been tried, unless the power policy held it
\* back.  (stale_after of at least one interval.)
NeverAbandoned ==
    \A p \in Procs, i \in Ids :
        LET w == NewestWindow(i, tick_now[p])
        IN  /\ pc[p] = "sweep"
            /\ Manifest[i].sched.kind = "interval" /\ Manifest[i].sched.interval_minutes > 0
            /\ Manifest[i].stale_after >= Manifest[i].sched.interval_minutes
            /\ heartbeat[Slug(i)] # NoTime
            /\ w # NoTime
            /\ ~Defers(i, power[p])
            => started[i][WindowLabel(w)] > 0

\* `dotagent tick --dry-run' announces a dispatch exactly when a tick at the
\* same instant would start a run.
DryRunPredictsDispatch ==
    \A i \in Ids, b \in {battery} :
        WouldDispatch(i, now, b) <=>
            /\ PassesGates(i, now, b)
            /\ ~Exhausted(i, read_window(i, Expected(i, now)))

\* The alert table says what was really said: whenever nobody is in the middle
\* of a sweep or an announcement, an alert's episode counts the notices sent
\* since the schedule was last seen healthy, except where the two were parted.
TableTellsTheNotices ==
    \A i \in Ids, e \in Events :
        \/ lock # NoProc
        \/ \E p \in Procs : Announcing(p, i)
        \/ <<i, e>> \in parted
        \/ alerts[i][e].count = said[i][e].count

\* Only an actual success ends an episode: the sweep drops the episodes of a
\* schedule when it has succeeded since its last given-up window opened, never
\* because a calendar schedule has no window in scope.  (One ticking process.)
SuccessEndsTheEpisode ==
    [][\A i \in Ids, e \in Events :
          alerts[i][e].count > 0 /\ alerts'[i][e].count = 0 =>
              \A l \in Time : window[Slug(i)][l].given_up => heartbeat[Slug(i)] >= l]_vars

\* What a tick owes its schedules, its readers and those it notifies: tick_once, dispatch_one, window_key
\* and sweep_health_notifications.
TickInv ==
    /\ Books /\ SucceedsOnce /\ NeverAbandoned
    /\ ReaderFindsTheRun /\ DryRunPredictsDispatch /\ TableTellsTheNotices

\* Every tick comes to its end: nobody waits for alerts.lock for ever.
TicksEnd == \A p \in Procs : pc[p] # "idle" ~> pc[p] = "idle"

-----------------------------------------------------------------------------
(* What the documentation says of the tick, and the code does not do.      *)

\* daemon.rs: `Runs once per tick, after dispatch, so a give-up that just
\* happened is already on record and does not get announced twice.'
NotAnnouncedTwice ==
    [][\A p \in Procs : \A k \in told[p] :
          pc[p] = "sweep" => said'[k[1]][k[2]].count <= said[k[1]][k[2]].count]_vars
=============================================================================
