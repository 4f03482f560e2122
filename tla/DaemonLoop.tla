----------------------------- MODULE DaemonLoop -----------------------------
(***************************************************************************)
(* The daemon's main loop: tick, chores, sleep, signals, reload and the    *)
(* order in which it stops.  commands/daemon.rs (run, wait_for_event,      *)
(* compute_sleep_target and the windows of the daily summary and of the    *)
(* retention sweep, load_secrets_at_startup, the start and the stop of the *)
(* Telegram ingress).                                                      *)
(*                                                                         *)
(* Time is in minutes, scaled down; Day minutes make a day and no clock    *)
(* change falls into the windows.  A tick takes as long as the agents it   *)
(* runs: what it does is Dispatch.                                         *)
(***************************************************************************)
EXTENDS Integers, FiniteSets, FiniteSetsExt

CONSTANTS
    Day,
    MaxSleep,                 \* MAX_SLEEP_MINUTES
    Fallback,                 \* the sleep when the target is past: 60 s
    RetentionHour,            \* when the retention window opens
    RetentionWindow,          \* RETENTION_WINDOW_MINUTES
    Configs,                  \* what config.toml may say, the default included
    Durations,                \* how long a tick and its chores may take
    Events,                   \* how far off the agents' next event may be; 0: none
    Horizon                   \* bound: the clock

ASSUME LoopAssumption ==
    /\ Day \in Nat \ {0} /\ MaxSleep \in Nat \ {0} /\ Fallback \in Nat \ {0}
    /\ RetentionHour \in 0 .. Day - 1 /\ RetentionWindow \in 1 .. Day
    /\ 0 \in Durations /\ Durations \subseteq Nat /\ Events \subseteq Nat /\ Horizon \in Nat
    /\ \A c \in Configs : /\ c.time \in 0 .. Day - 1 /\ c.grace \in 0 .. Day
                          /\ c.enabled \in BOOLEAN /\ c.ingress \in BOOLEAN

Never == -1                   \* no date, no time

VARIABLES
    wall,            \* the clock
    phase,           \* where run is
    cycle_start,
    idle_from,       \* when the sleep began
    wake_at,         \* when it will end
    cfg,             \* app_config
    last_summary,    \* last_summary_date
    last_retention,  \* last_retention_date
    summaries,       \* dates of the windows a summary was delivered for
    doubled,         \* some window got two
    pending,         \* signals that have arrived
    serving,         \* of the gateway and the local API, what runs
    pollers,         \* Telegram ingress tasks that exist
    secrets,         \* the installed store: the config it was loaded for
    kids             \* does a supervised process run

loopVars == <<wall, phase, cycle_start, idle_from, wake_at, cfg, last_summary, last_retention,
              summaries, doubled, pending, serving, pollers, secrets, kids>>

-----------------------------------------------------------------------------
(* The windows of the day.                                                 *)

DateOf(t) == t \div Day
Grace(c) == IF c.grace = 0 THEN 1 ELSE c.grace          \* effective_grace_minutes
local_at(date, time) == date * Day + time

\* Mutant: the date of now, whatever day the window opened on.
summary_window_today(t, c) ==
    IF \E date \in {DateOf(t), DateOf(t) - 1} :
         local_at(date, c.time) <= t /\ t < local_at(date, c.time) + Grace(c)
    THEN DateOf(t) ELSE Never

\* The date the window that t falls into opened on: today's, or yesterday's.
summary_window_date(t, c) ==
    LET In(date) == local_at(date, c.time) <= t /\ t < local_at(date, c.time) + Grace(c)
    IN  IF In(DateOf(t)) THEN DateOf(t)
        ELSE IF DateOf(t) > 0 /\ In(DateOf(t) - 1) THEN DateOf(t) - 1
        ELSE Never

should_run_daily_summary(t, last, c) ==
    c.enabled /\ summary_window_date(t, c) \notin {Never, last}

should_run_retention(t, last) ==
    /\ RetentionHour <= t % Day /\ t % Day < RetentionHour + RetentionWindow
    /\ DateOf(t) # last

\* The next time of day `time' after t, today's or tomorrow's.
NextAt(t, time) ==
    Min({u \in {local_at(DateOf(t), time), local_at(DateOf(t) + 1, time)} : u > t})

next_summary_at(t, c) == IF c.enabled THEN {NextAt(t, c.time)} ELSE {}
next_retention_at(t) == {NextAt(t, RetentionHour)}

\* Mutant: only what the agents have scheduled wakes the loop.
target_of_agents(t, events, c) ==
    Min({t + MaxSleep} \union {u \in events : t < u /\ u < t + MaxSleep})

\* compute_sleep_target: the earliest reason to be awake, or the safety cap.
compute_sleep_target(t, events, c) ==
    Min({t + MaxSleep} \union
        {u \in events \union next_summary_at(t, c) \union next_retention_at(t) :
           t < u /\ u < t + MaxSleep})

-----------------------------------------------------------------------------
(* What a config starts.                                                   *)

\* load_secrets_at_startup: a file that is refused or gone drops the store.
load_secrets_at_startup(c) == IF c.secrets = "ok" THEN c.name ELSE "none"

Poller(c) == [config |-> c.name, aborted |-> FALSE]
start_telegram_ingress(c) == IF c.ingress THEN {Poller(c)} ELSE {}

\* restart_telegram_ingress: the old task is aborted and joined; one that will not
\* end within a second stays, and nothing replaces it.
restart_telegram_ingress(c, stops) ==
    IF stops \/ pollers = {} THEN start_telegram_ingress(c)
    ELSE {[p EXCEPT !.aborted = TRUE] : p \in pollers}

-----------------------------------------------------------------------------
LoopInit ==
    /\ wall = 0 /\ phase = "boot" /\ cycle_start = 0 /\ idle_from = 0 /\ wake_at = 0
    /\ cfg \in Configs
    /\ last_summary = Never /\ last_retention = Never /\ summaries = {} /\ doubled = FALSE
    /\ pending = {} /\ serving = {} /\ pollers = {} /\ secrets = "none" /\ kids = FALSE

Clocks == <<wall, cycle_start, idle_from, wake_at>>
Dates == <<last_summary, last_retention, summaries, doubled>>

\* The start of run, after the boot reap: a log that cannot be appended to ends it,
\* a socket that cannot be bound ends it too, with the gateway stopped.
Start(api) ==
    /\ phase = "boot"
    /\ IF api = "fails"
       THEN phase' = "failed" /\ UNCHANGED <<serving, pollers, secrets>>
       ELSE /\ phase' = "tick"
            /\ serving' = {"gateway"} \union (IF api = "on" THEN {"local_api"} ELSE {})
            /\ secrets' = load_secrets_at_startup(cfg)
            /\ pollers' = start_telegram_ingress(cfg)
    /\ UNCHANGED <<Clocks, cfg, Dates, pending, kids>>

\* tick_once, the pool's sweep, the summary, the retention sweep: the rest of one
\* cycle, judged by the time it began.  events: next_event, if any.
Cycle(d, events) ==
    LET summary == should_run_daily_summary(cycle_start, last_summary, cfg)
        date == summary_window_date(cycle_start, cfg)
        opened == IF cfg.time <= cycle_start % Day THEN DateOf(cycle_start)
                  ELSE DateOf(cycle_start) - 1
        target == compute_sleep_target(cycle_start, events, cfg)
    IN  /\ phase = "tick"
        /\ wall + d <= Horizon
        /\ wall' = wall + d
        /\ last_summary' = IF summary THEN date ELSE last_summary
        /\ summaries' = IF summary THEN summaries \union {opened} ELSE summaries
        /\ doubled' = (doubled \/ (summary /\ opened \in summaries))
        /\ last_retention' = IF should_run_retention(cycle_start, last_retention)
                             THEN DateOf(cycle_start) ELSE last_retention
        /\ idle_from' = wall'
        /\ wake_at' = IF target >= wall' THEN target ELSE wall' + Fallback
        /\ phase' = "asleep"
        /\ UNCHANGED <<cycle_start, cfg, pending, serving, pollers, secrets, kids>>

\* Nothing is ready, and a minute of the sleep passes.
Sleep ==
    /\ phase = "asleep" /\ pending = {} /\ "gateway" \in serving
    /\ wall < wake_at /\ wall < Horizon
    /\ wall' = wall + 1
    /\ UNCHANGED <<phase, cycle_start, idle_from, wake_at, cfg, Dates, pending, serving, pollers,
                   secrets, kids>>

\* The branches of wait_for_event; among several that are ready select! takes any.
WakeTick ==
    /\ phase = "asleep" /\ wall >= wake_at
    /\ phase' = "tick" /\ cycle_start' = wall
    /\ UNCHANGED <<wall, idle_from, wake_at, cfg, Dates, pending, serving, pollers, secrets, kids>>

\* Mutant: the signals are registered again.
ReloadForgetsSignals(c, stops) ==
    /\ phase = "asleep" /\ "hup" \in pending
    /\ pending' = {}
    /\ secrets' = load_secrets_at_startup(c)
    /\ pollers' = restart_telegram_ingress(c, stops)
    /\ cfg' = c
    /\ phase' = "tick" /\ cycle_start' = wall
    /\ UNCHANGED <<wall, idle_from, wake_at, Dates, serving, kids>>

\* SIGHUP: the config is read again, a bad one as the default; secrets, ingress and
\* all that the loop reads follow it.  The local API stays as it is.
Reload(c, stops) ==
    /\ phase = "asleep" /\ "hup" \in pending
    /\ pending' = pending \ {"hup"}
    /\ secrets' = load_secrets_at_startup(c)
    /\ pollers' = restart_telegram_ingress(c, stops)
    /\ cfg' = c
    /\ phase' = "tick" /\ cycle_start' = wall
    /\ UNCHANGED <<wall, idle_from, wake_at, Dates, serving, kids>>

\* SIGTERM or SIGINT, the gateway's supervisor is dead, or the local API's task.
Stop ==
    /\ phase = "asleep"
    /\ "term" \in pending \/ "gateway" \notin serving \/ "api_died" \in serving
    /\ phase' = "stop_telegram"
    /\ UNCHANGED <<Clocks, cfg, Dates, pending, serving, pollers, secrets, kids>>

\* The end of run, in its order.
StopTelegram(stops) ==
    /\ phase = "stop_telegram"
    /\ pollers' = IF stops THEN {} ELSE {[p EXCEPT !.aborted = TRUE] : p \in pollers}
    /\ phase' = "stop_api"
    /\ UNCHANGED <<Clocks, cfg, Dates, pending, serving, secrets, kids>>

StopApi ==
    /\ phase = "stop_api"
    /\ serving' = serving \ {"local_api", "api_died"}
    /\ phase' = "stop_gateway"
    /\ UNCHANGED <<Clocks, cfg, Dates, pending, pollers, secrets, kids>>

\* gateway_handle.shutdown: no worker runs afterwards.
StopGateway ==
    /\ phase = "stop_gateway"
    /\ serving' = serving \ {"gateway"}
    /\ phase' = "stop_pool"
    /\ UNCHANGED <<Clocks, cfg, Dates, pending, pollers, secrets, kids>>

\* pool.shutdown ends a process that is an instance.
StopPool(instance) ==
    /\ phase = "stop_pool"
    /\ kids' = (kids /\ ~instance)
    /\ phase' = "stop_supervisor"
    /\ UNCHANGED <<Clocks, cfg, Dates, pending, serving, pollers, secrets>>

\* supervisor.shutdown ends what is left; then the snapshot and the last entry.
StopSupervisor ==
    /\ phase = "stop_supervisor"
    /\ kids' = FALSE
    /\ phase' = "exited"
    /\ UNCHANGED <<Clocks, cfg, Dates, pending, serving, pollers, secrets>>

-----------------------------------------------------------------------------
(* What runs beside the loop.                                              *)

Down == phase \in {"boot", "failed"}

Signal(s) ==
    /\ ~Down /\ phase # "exited" /\ s \notin pending
    /\ pending' = pending \union {s}
    /\ UNCHANGED <<Clocks, phase, cfg, Dates, serving, pollers, secrets, kids>>

\* A worker of the gateway runs an agent, or gets a persistent instance for it.
Work ==
    /\ "gateway" \in serving /\ ~kids
    /\ kids' = TRUE
    /\ UNCHANGED <<Clocks, phase, cfg, Dates, pending, serving, pollers, secrets>>

WorkEnds ==
    /\ kids
    /\ kids' = FALSE
    /\ UNCHANGED <<Clocks, phase, cfg, Dates, pending, serving, pollers, secrets>>

\* An aborted ingress comes to its next await; any ingress may panic.
PollerEnds(p) ==
    /\ p \in pollers
    /\ pollers' = pollers \ {p}
    /\ UNCHANGED <<Clocks, phase, cfg, Dates, pending, serving, secrets, kids>>

ServiceDies(s) ==
    /\ s \in serving /\ phase \in {"tick", "asleep"}
    /\ serving' = (serving \ {s}) \union (IF s = "local_api" THEN {"api_died"} ELSE {})
    /\ UNCHANGED <<Clocks, phase, cfg, Dates, pending, pollers, secrets, kids>>

Loop == \/ \E d \in Durations, e \in Events : Cycle(d, {cycle_start + e} \ {cycle_start})
        \/ Sleep \/ WakeTick
        \/ \E c \in Configs, stops \in BOOLEAN : Reload(c, stops)

Stopping == (\E stops \in BOOLEAN : StopTelegram(stops)) \/ StopApi \/ StopGateway
            \/ (\E instance \in BOOLEAN : StopPool(instance)) \/ StopSupervisor

LoopNext ==
    \/ \E api \in {"on", "off", "fails"} : Start(api)
    \/ Loop \/ Stop \/ Stopping
    \/ \E s \in {"hup", "term"} : Signal(s)
    \/ Work \/ WorkEnds
    \/ \E p \in pollers : PollerEnds(p)
    \/ \E s \in {"gateway", "local_api"} : ServiceDies(s)

LoopSpec == LoopInit /\ [][LoopNext]_loopVars

\* The runtime polls the loop's task; select! picks among ready branches at random,
\* so a branch that is ready again and again is taken.
LoopFairness == WF_loopVars(Loop) /\ SF_loopVars(Stop) /\ WF_loopVars(Stopping)

-----------------------------------------------------------------------------
LoopTypeOK ==
    /\ wall \in 0 .. Horizon /\ cfg \in Configs
    /\ pending \subseteq {"hup", "term"} /\ kids \in BOOLEAN
    /\ serving \subseteq {"gateway", "local_api", "api_died"}
    /\ \A p \in pollers : p.config \in {c.name : c \in Configs}

Opens(c, t) == {local_at(date, c.time) : date \in 0 .. DateOf(t)}

\* No summary window and no retention window passes while the loop sleeps: one that
\* opens and closes between two cycles was closed, or about to, when the first ended.
NoWindowSleptThrough ==
    [][(phase = "asleep" /\ phase' = "tick") =>
         LET Lost(open, width) == /\ cycle_start < open /\ open + width <= cycle_start'
                                  /\ idle_from + Fallback < open + width
         IN  /\ cfg.enabled => \A o \in Opens(cfg, cycle_start') : ~Lost(o, Grace(cfg))
             /\ \A date \in 0 .. DateOf(cycle_start') :
                  ~Lost(local_at(date, RetentionHour), RetentionWindow)]_loopVars

\* The guard `avoids a double-fire when the daemon re-enters' a window (the comment in
\* run): no window gets two summaries, across midnight and across reloads.
FiresOncePerWindow == ~doubled

\* ... and a cycle that begins in a window leaves its summary delivered.
SummaryPerWindow ==
    /\ FiresOncePerWindow
    /\ phase = "asleep" /\ cfg.enabled =>
         \A o \in Opens(cfg, cycle_start) :
            cycle_start < o + Grace(cfg) /\ o <= cycle_start => DateOf(o) \in summaries

\* Once a reload is through, nobody is served under the old allowlist: an ingress of
\* another config has been aborted, and a secrets store of another config is gone.
\* There is never a second poller.
IngressFollowsConfig ==
    /\ Cardinality(pollers) <= 1
    /\ phase \in {"tick", "asleep"} => \A p \in pollers : p.config = cfg.name \/ p.aborted
    /\ phase \in {"tick", "asleep"} => secrets \in {"none", cfg.name}

\* When run returns, nothing it supervised is left, whatever was started while
\* it was stopping.
NothingOutlivesRun == phase = "exited" => ~kids /\ serving = {}

\* LoopInv: the summary once a window, an ingress for every bot and only those, and an exit that leaves
\* nothing behind, of run and restart_telegram_ingress.
LoopInv == LoopTypeOK /\ SummaryPerWindow /\ IngressFollowsConfig /\ NothingOutlivesRun

\* A SIGTERM ends the daemon, whatever it is doing and however often it is reloaded.
TermStops == ("term" \in pending) ~> (phase = "exited")
=============================================================================
