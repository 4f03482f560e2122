------------------------------- MODULE Runner -------------------------------
(***************************************************************************)
(* One run of an agent from preflight to the last notifier (dotagent-runner *)
(* lib.rs, hooks.rs, notifiers.rs) with the plugins it calls                *)
(* (dotagent-plugin) and the notifications it sends (Notify).               *)
(*                                                                         *)
(* The agent, its descendants, the plugins and the backends are other       *)
(* processes: each moves when it likes.  A persistent agent is handed to    *)
(* the pool, of which only the result is seen here (PersistentPool).        *)
(***************************************************************************)
EXTENDS Notify, FiniteSets

CONSTANTS
    Jobs,          \* what may be run: manifest, request and machine, a record
    Installed,     \* plugins that resolve() finds
    Environ,       \* the daemon's environment, as lookup sees it
    state_path,    \* the rate-limit file of each imessage recipient
    SecretFiles,   \* what secrets.env may hold
    TAIL_LINES,    \* lines of stdout kept
    Budget         \* bounds for each job: its runs, its lines, the ticks and reloads beside it

Triggers == {"AGENT_TRIGGER_SOURCE", "AGENT_TRIGGER_PAYLOAD", "AGENT_SESSION_ID"}
Locales == {"LANG", "LC_ALL", "LC_CTYPE"}
Own == {"AGENT_NAME", "AGENT_ARGV"}
Variables == Triggers \union Locales \union Own \union {"EXTRA"}

IsList(s) == s \in Seq(ToSet(s))

IsEntry(e) == {"rate", "events", "pevents"} \subseteq DOMAIN e /\ e.rate \in Nat

\* A trigger's variables come with its source; the desktop that stands in for an empty list names
\* no events.
WellFormed(j) ==
    /\ {j.plugins, j.persistent, j.dry, j.reaper, j.big, j.inherit, j.summary} \subseteq BOOLEAN
    /\ IsList(j.preflight) /\ IsList(j.on_success) /\ IsList(j.on_failure)
    /\ IsList(j.notifiers) /\ \A i \in DOMAIN j.notifiers : IsEntry(j.notifiers[i])
    /\ IsEntry(j.fallback) /\ j.fallback.events = {} /\ j.fallback.pevents = {}
    /\ j.request \intersect Triggers # {} => "AGENT_TRIGGER_SOURCE" \in j.request

ASSUME RunnerAssumption ==
    /\ TAIL_LINES \in Nat \ {0}
    /\ Budget \in [Jobs -> [runs : Nat, ticks : Nat, reloads : Nat, lines : Nat]]
    /\ Jobs # {} /\ \A j \in Jobs : WellFormed(j)

VARIABLES
    job,      \* the run's manifest and request
    run,      \* where it is, the event and the text it decided on, how it ended
    call,     \* the plugin call in progress
    plug,     \* the plugin's process
    agent,    \* the agent's process and who holds its pipes
    output,   \* lines printed, read, kept in the tail and shown to the tap
    env,      \* where each variable the agent was given comes from
    beat,     \* this slug's heartbeat
    trail,    \* what this run appended to the audit log
    sent,     \* what the backends received, over all runs
    table,    \* sent_messages: which run a Telegram message told of
    rate,     \* imessage's last_send_at
    store,    \* the secrets store
    minutes, runs, reloads

runVars == <<job, run, call, plug, agent, output, env, beat, trail, sent, table, rate, store,
             minutes, runs, reloads>>
files == <<sent, table, rate>>
counters == <<store, minutes, runs, reloads>>

TIMED_OUT_EXIT_CODE == 124
REQUEST_LOST_EXIT_CODE == -1
NoCode == 1000
Started == 1001
NoCaller == [stage |-> "none", ok |-> FALSE]
NoPlug == [up |-> FALSE, reads |-> FALSE, says |-> "none"]
NoAgent == [up |-> FALSE, heir |-> "none", code |-> NoCode]
NoOutput == [printed |-> 0, read |-> 0, tail |-> <<>>, tapped |-> <<>>, broken |-> FALSE,
             shaper |-> [reply |-> 0, session |-> 0]]
AtRest == [pc |-> "idle", at |-> 1, event |-> "none", text |-> <<>>, code |-> NoCode,
           timed |-> FALSE, missed |-> FALSE, result |-> "none"]

-----------------------------------------------------------------------------
(* Operators.                                                              *)

\* What the daemon sets for a trigger: its source, and what else it has.  A scheduled run has none.
trigger_env(has) == {"AGENT_TRIGGER_SOURCE"} \union has

is_trigger_env(k) == k \in Triggers

\* TriggerFrame: what a request to a persistent agent carries instead, read back from those variables.
from_env(request) == IF "AGENT_TRIGGER_SOURCE" \in request THEN request \intersect Triggers ELSE {}

names_locale(j) == j.extra \intersect Locales # {}

\* default_locale: fills a gap, never overrules.
default_locale(j) == ~(j.inherit /\ j.parent \intersect Locales # {})

\* Mutant: what the daemon itself was started with is inherited with the rest.
apply_env_for_inherited(j) ==
    [k \in Variables |->
        IF k \in Own THEN "runner"
        ELSE IF k \in j.request /\ ~(j.persistent /\ ~j.dry /\ is_trigger_env(k)) THEN "request"
        ELSE IF k \in j.extra THEN "manifest"
        ELSE IF k = "LC_CTYPE" /\ ~names_locale(j) /\ default_locale(j) THEN "fallback"
        ELSE IF j.inherit /\ k \in j.parent THEN "parent" ELSE "unset"]

\* apply_env_for: who has the last word on each variable.  j.parent, j.extra and j.request are
\* the names that the daemon's environment, [env.extra] and this request set.
apply_env_for(j) ==
    [k \in Variables |->
        IF k \in Own THEN "runner"
        ELSE IF k \in j.request /\ ~(j.persistent /\ ~j.dry /\ is_trigger_env(k)) THEN "request"
        ELSE IF k \in j.extra THEN "manifest"
        ELSE IF k = "LC_CTYPE" /\ ~names_locale(j) /\ default_locale(j) THEN "fallback"
        ELSE IF j.inherit /\ k \in j.parent /\ ~is_trigger_env(k) THEN "parent" ELSE "unset"]

event_matches(filter, event) == filter = {} \/ event \in filter

\* The event of an outcome, and its message: stdout's tail, or a line that says how it ended.
EventOf(code, timed) ==
    CASE code = 0 -> "success" [] code # 0 /\ timed -> "timed_out" [] OTHER -> "attempt_failed"
Message(code, tail) == IF code = 0 THEN tail ELSE <<"a", "n">> \o tail

\* resolve_body: nothing to say about a silent success; any other event is news by itself.
NothingToSay == run.event = "success" /\ trim(run.text) = <<>>
resolve_body(text) == IF trim(text) # <<>> THEN text ELSE <<"a", "a">>

\* The daily summary goes to whoever is listed, whatever events the entry names, and to the desktop
\* where nobody is.
unfiltered(e) == [e EXCEPT !.events = {}, !.pevents = {}]
resolve_notifiers(entries) ==
    IF entries = <<>> THEN <<job.fallback>> ELSE [i \in DOMAIN entries |-> unfiltered(entries[i])]

Notifiers == IF job.summary THEN resolve_notifiers(job.notifiers) ELSE job.notifiers
HasPlugins == job.plugins \/ job.summary

\* ReplyShaper::feed: of a run that speaks the assistant protocol, the last reply and the last session.
feed(shaper, n) ==
    CASE job.frames[n] = "reply" -> [shaper EXCEPT !.reply = n]
      [] job.frames[n] = "session" -> [shaper EXCEPT !.session = n]
      [] OTHER -> shaper

\* What the conversation is told: the last reply frame, or the tail, or how it ended.
shape_final_reply ==
    IF run.result = "preflight" THEN [is |-> "blocked", frame |-> 0]
    ELSE IF run.result \in {"error", "lost"} THEN [is |-> "could not run", frame |-> 0]
    ELSE IF run.code # 0 THEN [is |-> IF run.timed THEN "timed out" ELSE "exited", frame |-> 0]
    ELSE IF job.frames # <<>> /\ output.shaper.reply > 0 THEN [is |-> "frame", frame |-> output.shaper.reply]
    ELSE [is |-> IF trim(run.text) = <<>> THEN "no output" ELSE "tail", frame |-> 0]

Hooks == IF run.event = "success" THEN job.on_success ELSE job.on_failure
Audits(what) == trail' = Append(trail, what)
Goto(pc) == run' = [run EXCEPT !.pc = pc, !.at = 1]
Step == run' = [run EXCEPT !.at = @ + 1]
Fails == run' = [run EXCEPT !.pc = "done", !.result = "error"]

-----------------------------------------------------------------------------
RunInit ==
    /\ job = (CHOOSE j \in Jobs : TRUE) /\ run = AtRest /\ call = NoCaller /\ plug = NoPlug /\ agent = NoAgent
    /\ output = NoOutput /\ env = <<>> /\ beat = NoCode /\ trail = <<>> /\ sent = <<>>
    /\ table = <<>> /\ rate = <<>> /\ store = NoStore /\ minutes = 0 /\ runs = 0 /\ reloads = 0

\* run_with_hooks_streaming begins.
run_with_hooks(j) ==
    /\ run.pc \in {"idle", "done"} /\ runs < Budget[j].runs /\ ~j.summary
    /\ runs > 0 => j = job    \* bound: the runs of one behaviour are of one job
    /\ job' = j /\ runs' = runs + 1
    /\ run' = [AtRest EXCEPT !.pc = IF j.plugins THEN "preflight" ELSE "launch"]
    /\ agent' = NoAgent /\ output' = NoOutput /\ env' = <<>> /\ trail' = <<>>
    /\ UNCHANGED <<call, plug, beat, files, store, minutes, reloads>>

\* daily_summary::run_with: no run, only its notices.
run_with(j) ==
    /\ run.pc = "idle" /\ runs < Budget[j].runs /\ j.summary
    /\ job' = j /\ runs' = runs + 1
    /\ \E text \in j.says :
          run' = [AtRest EXCEPT !.pc = "notify", !.event = "daily_summary", !.text = text, !.result = "summary"]
    /\ UNCHANGED <<call, plug, agent, output, env, beat, trail, files, store, minutes, reloads>>

-----------------------------------------------------------------------------
(* PluginClient::run_with_stdin: resolve and spawn, write the payload, wait *)
(* for the output.  call.stage is "answered" when it has returned.          *)

Invoke(p, big) ==
    /\ call.stage = "none"
    /\ call' = [stage |-> IF p \in Installed THEN "spawn" ELSE "answered", ok |-> FALSE, big |-> big]

Answers(ok) == call' = [call EXCEPT !.stage = "answered", !.ok = ok]

\* A payload that a pipe holds is written at once; a large one when the plugin reads.
SpawnPlugin(ok) ==
    /\ call.stage = "spawn"
    /\ IF ok THEN /\ plug' = [up |-> TRUE, reads |-> FALSE, says |-> "none"]
                  /\ call' = [call EXCEPT !.stage = "write"]
       ELSE Answers(FALSE) /\ UNCHANGED plug
    /\ UNCHANGED <<job, run, agent, output, env, beat, trail, files, counters>>

\* A plugin that has gone breaks the pipe: the call fails, whatever it had answered.
WritePayload ==
    /\ call.stage = "write"
    /\ \/ /\ plug.up /\ (call.big => plug.reads)
          /\ call' = [call EXCEPT !.stage = "wait"]
       \/ ~plug.up /\ Answers(FALSE)
    /\ UNCHANGED <<job, run, plug, agent, output, env, beat, trail, files, counters>>

PluginReads ==
    /\ plug.up /\ ~plug.reads
    /\ plug' = [plug EXCEPT !.reads = TRUE]
    /\ UNCHANGED <<job, run, call, agent, output, env, beat, trail, files, counters>>

\* It exits: with ok, with a refusal, or with an exit status or an output that is no answer.
PluginExits(says) ==
    /\ plug.up
    /\ plug' = [plug EXCEPT !.up = FALSE, !.says = says]
    /\ UNCHANGED <<job, run, call, agent, output, env, beat, trail, files, counters>>

WaitOutput ==
    /\ call.stage = "wait" /\ ~plug.up
    /\ Answers(plug.says = "ok")
    /\ UNCHANGED <<job, run, plug, agent, output, env, beat, trail, files, counters>>

\* Mutant: only the wait is under a deadline.
PluginDeadlineOfTheWait ==
    /\ call.stage = "wait" /\ plug.up
    /\ plug' = [plug EXCEPT !.up = FALSE, !.says = "killed"]
    /\ UNCHANGED <<job, run, call, agent, output, env, beat, trail, files, counters>>

\* The deadline of the wait or, while the payload is written, the daemon's reaper.
PluginDeadline ==
    /\ plug.up /\ call.stage \in IF job.reaper THEN {"write", "wait"} ELSE {"wait"}
    /\ plug' = [plug EXCEPT !.up = FALSE, !.says = "killed"]
    /\ UNCHANGED <<job, run, call, agent, output, env, beat, trail, files, counters>>

-----------------------------------------------------------------------------
(* Preflight.                                                              *)

PreflightNext ==
    /\ run.pc = "preflight"
    /\ IF run.at <= Len(job.preflight)
       THEN Invoke(job.preflight[run.at], FALSE) /\ UNCHANGED run
       ELSE Goto("launch") /\ UNCHANGED call
    /\ UNCHANGED <<job, plug, agent, output, env, beat, trail, files, counters>>

\* The run does not happen; its failure hooks and its notifiers do.
PreflightFailed ==
    run' = [run EXCEPT !.pc = "hooks", !.at = 1, !.event = "preflight", !.text = <<"a">>,
                       !.result = "preflight"]

\* The first failure ends the list: the run does not happen.
run_preflight ==
    /\ run.pc = "preflight" /\ call.stage = "answered"
    /\ call' = NoCaller /\ plug' = NoPlug
    /\ IF call.ok
       THEN Step /\ Audits([kind |-> "plugin", ok |-> TRUE, at |-> run.at])
       ELSE /\ trail' = trail \o <<[kind |-> "plugin", ok |-> FALSE, at |-> run.at],
                                   [kind |-> "preflight_failed", ok |-> FALSE, at |-> run.at]>>
            /\ PreflightFailed
    /\ UNCHANGED <<job, agent, output, env, beat, files, counters>>

-----------------------------------------------------------------------------
(* The run itself.                                                         *)

Pooled == job.persistent /\ ~job.dry

\* begin_heartbeat; a dry run writes none.
begin(ok) ==
    /\ run.pc = "launch"
    /\ IF job.dry THEN Goto("spawn") /\ UNCHANGED beat
       ELSE IF ok THEN Goto(IF Pooled THEN "pool" ELSE "spawn") /\ beat' = Started
       ELSE Fails /\ UNCHANGED beat
    /\ UNCHANGED <<job, call, plug, agent, output, env, trail, files, counters>>

\* The temporary directory and spawn_supervised.
spawn_supervised(ok) ==
    /\ run.pc = "spawn"
    /\ IF ok THEN /\ Goto("running")
                  /\ agent' = [NoAgent EXCEPT !.up = TRUE]
                  /\ env' = apply_env_for(job)
       ELSE Fails /\ UNCHANGED <<agent, env>>
    /\ UNCHANGED <<job, call, plug, output, beat, trail, files, counters>>

Held == agent.up \/ agent.heir # "none"

Prints ==
    /\ Held /\ output.printed < Budget[job].lines
    /\ output' = [output EXCEPT !.printed = @ + 1]
    /\ UNCHANGED <<job, run, call, plug, agent, env, beat, trail, files, counters>>

\* The stdout task: log, tap, ring of the last lines.
ReadLine ==
    /\ run.pc \in {"running", "drain"} /\ output.read < output.printed /\ ~output.broken
    /\ LET n == output.read + 1 IN
       output' = [output EXCEPT !.read = n, !.tapped = Append(@, n),
                    !.shaper = IF n \in DOMAIN job.frames THEN feed(@, n) ELSE @,
                    !.tail = Append(IF Len(@) = TAIL_LINES THEN Tail(@) ELSE @, n)]
    /\ UNCHANGED <<job, run, call, plug, agent, env, beat, trail, files, counters>>

\* A line that cannot be read (it is not UTF-8) ends the task with what it has.
ReadBreaks ==
    /\ run.pc \in {"running", "drain"} /\ output.read < output.printed /\ ~output.broken
    /\ output' = [output EXCEPT !.broken = TRUE]
    /\ UNCHANGED <<job, run, call, plug, agent, env, beat, trail, files, counters>>

\* The agent leaves a descendant with its pipes, in its process group or away from it.
Forks(where) ==
    /\ agent.up /\ agent.heir = "none"
    /\ agent' = [agent EXCEPT !.heir = where]
    /\ UNCHANGED <<job, run, call, plug, output, env, beat, trail, files, counters>>

HeirExits ==
    /\ agent.heir # "none"
    /\ agent' = [agent EXCEPT !.heir = "none"]
    /\ UNCHANGED <<job, run, call, plug, output, env, beat, trail, files, counters>>

AgentExits(code) ==
    /\ agent.up
    /\ agent' = [agent EXCEPT !.up = FALSE, !.code = code]
    /\ UNCHANGED <<job, run, call, plug, output, env, beat, trail, files, counters>>

\* wait_status returns.  A process that a signal ended has no code.
wait_status ==
    /\ run.pc = "running" /\ ~agent.up
    /\ run' = [run EXCEPT !.pc = "drain",
                          !.code = CASE agent.code # NoCode -> agent.code
                                     [] agent.code = NoCode /\ run.timed -> TIMED_OUT_EXIT_CODE
                                     [] OTHER -> -1]
    /\ UNCHANGED <<job, call, plug, agent, output, env, beat, trail, files, counters>>

\* The deadline: SIGTERM, on which the agent may still exit with a code of its own, then
\* SIGKILL to what is left of its group.
Deadline(code) ==
    /\ run.pc = "running" /\ agent.up
    /\ run' = [run EXCEPT !.timed = TRUE]
    /\ agent' = [agent EXCEPT !.up = FALSE, !.code = code,
                              !.heir = IF @ = "group" THEN "none" ELSE @]
    /\ UNCHANGED <<job, call, plug, output, env, beat, trail, files, counters>>

Decided(code, timed, tail) ==
    run' = [run EXCEPT !.pc = "audit", !.code = code, !.timed = timed, !.result = "ran",
                       !.event = EventOf(code, timed), !.text = Message(code, tail)]

\* Both pipes are closed and read: finish_heartbeat, and the outcome is known.
finish(ok, said) ==
    /\ run.pc = "drain" /\ ~Held /\ (~output.broken => output.read = output.printed)
    /\ said = <<>> <=> (run.code = 0 /\ output.read = 0)
    /\ IF job.dry THEN Decided(run.code, run.timed, said) /\ UNCHANGED beat
       ELSE IF ok THEN Decided(run.code, run.timed, said) /\ beat' = run.code
       ELSE Fails /\ UNCHANGED beat
    /\ UNCHANGED <<job, call, plug, agent, output, env, trail, files, counters>>

\* InboundFrame: a line a persistent agent may print, its id that of this request or another's.
InboundFrame == [json : BOOLEAN, kind : {"none", "ready", "response", "other"}, id : {"none", "this", "other"},
                 ok : BOOLEAN, code : {NoCode, 1, TIMED_OUT_EXIT_CODE}, says : BOOLEAN]

\* A log line, a banner or JSON of another kind is no frame.
parse_frame(f) ==
    f.json /\ (\/ f.kind \in {"ready", "response"}
               \/ f.kind = "none" /\ (f.id # "none" \/ f.code # NoCode \/ f.says))

\* The simplest agent answers without an id.
answers(f) == f.kind \in {"response", "none"} /\ f.id \in {"this", "none"}

resolved_exit_code(f) == CASE f.code # NoCode -> f.code [] f.code = NoCode /\ f.ok -> 0 [] OTHER -> 1

\* PersistentPool::dispatch, after its begin_heartbeat: an answer, a timeout, a request lost on the
\* way, or no process at all.
PoolDecides(code, timed, ok, said) ==
    /\ run.pc = "pool"
    /\ env' = apply_env_for(job)
    /\ IF ok THEN Decided(code, timed, said) /\ beat' = code
       ELSE Fails /\ UNCHANGED beat
    /\ UNCHANGED <<job, call, plug, agent, output, trail, files, counters>>

\* What read_answer can return: a code, and whether there is an output or an error to go with it.
AnswersRead ==
    {[code |-> resolved_exit_code(f), says |-> f.says] :
       f \in {g \in InboundFrame : parse_frame(g) /\ answers(g)}}

PoolAnswers(a, ok, said) == (a.says <=> said # <<>>) /\ PoolDecides(a.code, FALSE, ok, said)

PoolTimesOut(ok) == PoolDecides(TIMED_OUT_EXIT_CODE, TRUE, ok, <<>>)

PoolFails ==
    /\ run.pc = "pool" /\ Fails
    /\ UNCHANGED <<job, call, plug, agent, output, env, beat, trail, files, counters>>

\* A lost request is audited and nothing else: the dispatcher counts it and speaks of it.
RequestLost(ok) ==
    /\ run.pc = "pool"
    /\ beat' = IF ok THEN REQUEST_LOST_EXIT_CODE ELSE beat
    /\ run' = [run EXCEPT !.pc = "done", !.result = "lost", !.code = REQUEST_LOST_EXIT_CODE]
    /\ Audits([kind |-> "agent_run", ok |-> FALSE, code |-> REQUEST_LOST_EXIT_CODE])
    /\ UNCHANGED <<job, call, plug, agent, output, env, files, counters>>

\* append_agent_run_audit: an append that fails is a warning.
append_agent_run_audit(ok) ==
    /\ run.pc = "audit"
    /\ IF ok THEN Audits([kind |-> "agent_run", ok |-> run.code = 0, code |-> run.code])
       ELSE UNCHANGED trail
    /\ run' = [run EXCEPT !.pc = IF job.plugins THEN "hooks" ELSE "notify", !.missed = ~ok]
    /\ UNCHANGED <<job, call, plug, agent, output, env, beat, files, counters>>

-----------------------------------------------------------------------------
(* Hooks and notifiers.                                                    *)

fire_hooks ==
    /\ run.pc = "hooks" /\ call.stage = "none"
    /\ IF run.at > Len(Hooks) THEN Goto("notify") /\ UNCHANGED call
       ELSE IF ~event_matches(Hooks[run.at].events, run.event) THEN Step /\ UNCHANGED call
       ELSE Invoke(Hooks[run.at].plugin, job.big) /\ UNCHANGED run
    /\ UNCHANGED <<job, plug, agent, output, env, beat, trail, files, counters>>

HookAnswered ==
    /\ run.pc = "hooks" /\ call.stage = "answered"
    /\ Audits([kind |-> "hook", ok |-> call.ok, at |-> run.at])
    /\ call' = NoCaller /\ plug' = NoPlug /\ Step
    /\ UNCHANGED <<job, agent, output, env, beat, files, counters>>

Notifier == Notifiers[run.at]
Done == run' = [run EXCEPT !.pc = "done"]

\* fire_notifier_entries, up to a built-in driver: entries that do not match, a plugin
\* without a client, a plugin.
fire_notifiers ==
    /\ run.pc = "notify" /\ call.stage = "none"
    /\ IF NothingToSay \/ run.at > Len(Notifiers) THEN Done /\ UNCHANGED call
       ELSE IF ~matches_event(Notifier, run.event) THEN Step /\ UNCHANGED call
       ELSE /\ Notifier.driver = "plugin"
            /\ IF HasPlugins THEN Invoke(Notifier.plugin, job.big) /\ UNCHANGED run
               ELSE Step /\ UNCHANGED call
    /\ UNCHANGED <<job, plug, agent, output, env, beat, trail, files, counters>>

NotifierAnswered ==
    /\ run.pc = "notify" /\ call.stage = "answered"
    /\ Audits([kind |-> "notifier", ok |-> call.ok, at |-> run.at, why |-> "plugin"])
    /\ call' = NoCaller /\ plug' = NoPlug /\ Step
    /\ UNCHANGED <<job, agent, output, env, beat, files, counters>>

Fields(e) == [f \in DOMAIN e.fields |-> expand_env(store, Environ, e.fields[f])]

\* ImessageConfig::send's gate.  An elapsed time before the last one is no reason to skip.
rate_limited(e) ==
    /\ e.driver = "imessage" /\ e.rate > 0 /\ state_path[e.fields.to] \in DOMAIN rate
    /\ minutes - rate[state_path[e.fields.to]] < e.rate

\* record_sent_message: under the chat Telegram named, or a numeric configured one.
record_sent_message(e, id, named) ==
    table' = IF e.driver = "telegram" /\ (named \/ e.numeric)
             THEN Append(table, [id |-> id, event |-> run.event, run |-> runs])
             ELSE table

Mark(f, k, v) == [x \in DOMAIN f \union {k} |-> IF x = k THEN v ELSE f[x]]
Told(why) == Audits([kind |-> "notifier", ok |-> why \in {"sent", "skipped"},
                     at |-> run.at, why |-> why])

\* A built-in driver sends: not configured, rate limited, refused for its form, not reached,
\* or delivered.  kept tells whether Telegram's answer could be read, or imessage's state
\* written; named whether the answer names the chat.
SendNotice(up, kept, named) ==
    LET e == Notifier
        wire == build_driver(e.driver, e, resolve_body(run.text))
        fields == IF e.driver = "imessage" THEN e.fields ELSE Fields(e)
    IN  /\ run.pc = "notify" /\ ~NothingToSay /\ run.at <= Len(Notifiers)
        /\ matches_event(e, run.event) /\ e.driver # "plugin"
        /\ IF ~Ready(e.driver, fields) THEN Told("config") /\ UNCHANGED files
           ELSE IF rate_limited(e) THEN Told("skipped") /\ UNCHANGED files
           ELSE IF ~up THEN Told("down") /\ UNCHANGED files
           ELSE IF ~Accepts(e.driver, e, wire) THEN Told("refused") /\ UNCHANGED files
           ELSE /\ Told("sent")
                /\ sent' = Append(sent, [to |-> run.at, event |-> run.event, run |-> runs, clock |-> minutes,
                                         driver |-> e.driver, wire |-> wire, kept |-> kept, fields |-> fields])
                /\ IF kept THEN record_sent_message(e, Len(sent) + 1, named) ELSE UNCHANGED table
                /\ rate' = IF e.driver = "imessage" /\ e.rate > 0 /\ kept
                           THEN Mark(rate, state_path[e.fields.to], minutes) ELSE rate
        /\ Step
        /\ UNCHANGED <<job, call, plug, agent, output, env, beat, counters>>

-----------------------------------------------------------------------------
Tick ==
    /\ run.pc \in {"idle", "done"} /\ minutes < Budget[job].ticks
    /\ minutes' = minutes + 1
    /\ UNCHANGED <<job, run, call, plug, agent, output, env, beat, trail, files, store, runs, reloads>>

\* The daemon reloads secrets.env while runs go on.
ReloadSecrets(file, op) ==
    /\ reloads < Budget[job].reloads
    /\ reloads' = reloads + 1 /\ store' = load(file, op)
    /\ UNCHANGED <<job, run, call, plug, agent, output, env, beat, trail, files, minutes, runs>>

Codes == {0, 1, NoCode}

CodeSteps ==
    \/ \E ok \in BOOLEAN : SpawnPlugin(ok) \/ begin(ok) \/ spawn_supervised(ok)
    \/ WritePayload \/ WaitOutput \/ PreflightNext \/ run_preflight
    \/ ReadLine \/ ReadBreaks \/ wait_status
    \/ \E ok \in BOOLEAN, said \in job.says \union {<<>>} : finish(ok, said)
    \/ \E ok \in BOOLEAN : append_agent_run_audit(ok)
    \/ fire_hooks \/ HookAnswered \/ fire_notifiers \/ NotifierAnswered

Sends == \E up, kept, named \in BOOLEAN : SendNotice(up, kept, named)

PoolSteps ==
    \/ \E a \in AnswersRead, ok \in BOOLEAN, said \in job.says \union {<<>>} : PoolAnswers(a, ok, said)
    \/ PoolFails \/ \E ok \in BOOLEAN : PoolTimesOut(ok) \/ RequestLost(ok)

Others ==
    \/ PluginReads \/ \E says \in {"ok", "no"} : PluginExits(says)
    \/ Prints \/ \E where \in {"group", "away"} : Forks(where)
    \/ \E code \in Codes : AgentExits(code)
    \/ Tick \/ \E file \in SecretFiles, op \in BOOLEAN : ReloadSecrets(file, op)

Deadlines == PluginDeadline \/ \E code \in {0, NoCode} : Deadline(code)

RunNext ==
    \/ \E j \in Jobs : run_with_hooks(j) \/ run_with(j)
    \/ CodeSteps \/ Sends \/ PoolSteps \/ Others \/ Deadlines \/ HeirExits

RunSpec == RunInit /\ [][RunNext]_runVars

\* The tasks are polled, deadlines fire, the pool answers (PersistentPool), and a backend answers
\* or the connection to it fails.  Nothing is asked of the agent or of a plugin.
RunFairness ==
    /\ WF_runVars(CodeSteps) /\ WF_runVars(Sends) /\ WF_runVars(PoolSteps) /\ WF_runVars(Deadlines)

-----------------------------------------------------------------------------
(* Properties.                                                             *)

Of(kind) == {i \in DOMAIN trail : trail[i].kind = kind}
Ended == run.pc = "done"
ThisRun == {i \in DOMAIN sent : sent[i].run = runs}

\* However it ends, a run is in the audit log exactly once if its outcome is known or its request
\* was lost, with the code its heartbeat shows, before anybody is told of it; a run that preflight
\* refused, or that could not be started, is not, and left no agent behind.  (run_with_hooks_streaming)
RunIsOnRecord ==
    /\ Ended => Cardinality(Of("agent_run")) =
                  IF run.result = "lost" \/ (run.result = "ran" /\ ~run.missed) THEN 1 ELSE 0
    /\ Ended /\ run.result = "ran" /\ ~job.dry => beat = run.code
    /\ run.result = "preflight" => env = <<>> /\ Cardinality(Of("preflight_failed")) = 1
    /\ Ended /\ run.result \in {"lost", "error"} => ThisRun = {}
    /\ \A i \in Of("agent_run"), j \in Of("hook") \union Of("notifier") : i < j

\* Everybody who asked to hear of the event is asked once, in order, whatever became of the
\* notifier before, and only a silent success tells nobody; the daily summary is for everybody on
\* its list, and for somebody.  (fire_notifier_entries, resolve_notifiers)
EverybodyIsTold ==
    Ended /\ run.result \in {"ran", "preflight", "summary"} =>
       LET asked == {i \in DOMAIN Notifiers :
                       \/ job.summary
                       \/ /\ matches_event(Notifiers[i], run.event)
                          /\ Notifiers[i].driver = "plugin" => job.plugins}
           told == Of("notifier")
       IN  /\ {trail[i].at : i \in told} = IF NothingToSay THEN {} ELSE asked
           /\ \A i, j \in told : i < j => trail[i].at < trail[j].at
           /\ job.summary => told # {} /\ DOMAIN job.notifiers \subseteq {trail[i].at : i \in told}

\* The characters of a rendered body, its escapes read.
Unescaped(body) ==
    LET own(i) == body[i] # "\\" \/ Trailing(SubSeq(body, 1, i)) % 2 = 0
    IN  [n \in 1 .. Len(SelectSeq([i \in DOMAIN body |-> i], own)) |->
            body[SelectSeq([i \in DOMAIN body |-> i], own)[n]]]

\* What arrives is what was said: the whole text, or a beginning of it and the notice, whatever
\* the parse mode escaped and wherever the cut fell; a title decodes to the title; and no
\* credential is a placeholder that did not resolve.  (render_body, encode_header_value, expand_env)
ArrivesAsSaid ==
    \A i \in DOMAIN sent : sent[i].run = runs =>
       LET m == sent[i]
           e == Notifiers[m.to]
           said == resolve_body(run.text)
           got == IF e.driver = "imessage" \/ (e.driver = "telegram" /\ e.mode = "MarkdownV2")
                  THEN Unescaped(m.wire.body)
                  ELSE m.wire.body
           kept == SubSeq(got, 1, Len(got) - Len(TRUNCATION_NOTICE))
       IN  /\ \A f \in DOMAIN m.fields : m.driver # "imessage" => Unset \notin ToSet(m.fields[f])
           /\ \/ got = said
              \/ /\ Len(kept) < Len(said) /\ kept = SubSeq(said, 1, Len(kept))
                 /\ got = kept \o TRUNCATION_NOTICE
           /\ e.driver = "ntfy" =>
                 LET title == trim([k \in DOMAIN e.title |-> IF e.title[k] = "n" THEN " " ELSE e.title[k]])
                 IN  WidthOf(e.title, len_utf8) <= MAX_TITLE_BYTES =>
                        FlattenSeq(m.wire.title.words) = title

\* The tail is the last lines of everything that was printed, and the tap saw every line once, also
\* those that a descendant printed after the agent had exited; up to a line that cannot be read.
\* (run_streaming)
OutputIsKept ==
    run.result = "ran" /\ ~Pooled =>
       /\ output.tapped = [n \in 1 .. output.read |-> n]
       /\ ~output.broken => output.read = output.printed
       /\ output.tail = SubSeq(output.tapped,
                               IF output.read > TAIL_LINES THEN output.read - TAIL_LINES + 1 ELSE 1,
                               output.read)

\* Who started a run that went well is told the last reply among all the lines that could be read, also
\* where the tail has moved past it, and a run that did not is never answered with a reply of its own.
\* (ReplyShaper, shape_final_reply)
AnsweredWithItsLastReply ==
    Ended /\ ~job.summary =>
       LET replies == {n \in 1 .. output.read : n \in DOMAIN job.frames /\ job.frames[n] = "reply"}
           told == shape_final_reply
       IN  /\ told.is = "frame" <=> run.result = "ran" /\ run.event = "success" /\ replies # {}
           /\ told.is = "frame" => told.frame \in replies /\ \A n \in replies : n <= told.frame

\* No variable tells the agent of somebody else's request: not of the daemon's own, and not, in a
\* process that will see many, of the first; what the trigger of this one says reaches it all the
\* same; the runner's own are the runner's; and a character set is always named, by the manifest
\* before anyone else.  (apply_env_for, TriggerFrame::from_env)
EnvironmentIsItsOwn ==
    env # <<>> =>
       /\ \A k \in Triggers : env[k] \notin {"parent"} \union (IF Pooled THEN {"request"} ELSE {})
       /\ \A k \in Triggers \intersect job.request :
             env[k] = "request" \/ (Pooled /\ k \in from_env(job.request))
       /\ \A k \in Own : env[k] = "runner"
       /\ \E k \in Locales : env[k] # "unset"
       /\ names_locale(job) => \A k \in Locales : env[k] # "fallback"

\* A table entry tells of a notice that was sent, of the event it was sent for; and imessage to one
\* recipient keeps its distance from a send that it could note.  (record_sent_message, ImessageConfig::send)
TableAndRate ==
    /\ \A i \in DOMAIN table : /\ sent[table[i].id].event = table[i].event
                               /\ sent[table[i].id].run = table[i].run
                               /\ sent[table[i].id].driver = "telegram"
    /\ \A i, j \in DOMAIN sent :
          /\ i < j /\ sent[j].run = runs /\ sent[i].kept /\ Notifiers[sent[i].to].rate > 0
          /\ sent[i].driver = "imessage" /\ sent[j].driver = "imessage"
          /\ sent[i].fields.to = sent[j].fields.to
          => sent[j].clock - sent[i].clock >= Notifiers[sent[j].to].rate

\* RunnerInv: what a run leaves behind, whom it tells and what it was told, of run_with_hooks_streaming,
\* fire_notifier_entries and apply_env_for.
RunnerInv ==
    /\ RunIsOnRecord /\ EverybodyIsTold /\ OutputIsKept /\ EnvironmentIsItsOwn /\ TableAndRate
    /\ AnsweredWithItsLastReply

\* NoticesArrive: no backend refuses a notice for its length, its escapes, its title or its emptiness,
\* and what arrives is what was said, of the cutters, resolve_body, render_body and encode_header_value.
NoticesArrive == (\A i \in Of("notifier") : trail[i].why # "refused") /\ ArrivesAsSaid

\* A run ends whatever the agent and the plugins do, as long as no descendant keeps the agent's
\* pipes for ever and, where the payload is larger than a pipe, the daemon's reaper is there.
RunsEnd ==
    []<>(agent.heir = "none") => []<>(run.pc = "idle" \/ Ended \/ (job.big /\ ~job.reaper))

\* docs/concepts/architecture.md: an agent that hangs ends with exit code 124.
TimedOutIsNoSuccess == run.timed /\ run.result = "ran" => run.event = "timed_out"
=============================================================================
