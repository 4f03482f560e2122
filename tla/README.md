# A TLA+ model of dotagent

dotagent is a personal automation daemon: it discovers agents described by
manifests, runs them on schedules, answers messages that arrive over Telegram
or a local socket by running a dispatcher agent, and tells people when an agent
stays broken. It is written in Rust on tokio. Its state is a directory of JSON
files, one append-only audit log, and the processes it supervises.

## 1. The system

| component | state it keeps | operations | interacts with | module |
|---|---|---|---|---|
| schedule arithmetic (`dotagent-scheduler`) | none | `expected_at`, `next_occurrence`, `window_key`, `health_state`, `should_retry`, `is_stale` | called by the tick, the dry run, `status`, the summary | `Schedule`, `ScheduleWalk` |
| tick (`commands/daemon.rs`: `tick_once`, `dispatch_one`, `give_up`) | window files | decide what is due, run it, count the attempt, give up | runner, alert table, heartbeat files; runs in the daemon **and** in `dotagent tick` | `Dispatch` |
| alert sweep (`sweep_health_notifications`, `claim_alert`, `notify_dedup.rs`) | `alerts.json` under `alerts.lock` | announce given-up and stale schedules on a ladder of growing pauses, forget them on recovery | tick, notifiers | `Dispatch`, `NotifyDedup` |
| power gate (`power.rs`) | one reading per tick | decide to probe, classify chargers and batteries, defer | tick | `Power`, `Dispatch` |
| runner (`dotagent-runner`), plugins, notifiers, secrets | heartbeat, overlay of secrets, sent-message table | preflight, spawn, stream, finish the heartbeat, fire hooks and notifiers | supervisor, pool, backends | `Runner`, `Notify` |
| persistent pool (`persistent.rs`) | slots, one child per conversation key | dispatch, retry, retire, sweep, drain | supervisor; concurrent callers | `PersistentPool` |
| supervisor (`dotagent-supervisor`) | registry of live children | register, retime, terminate, reap at the deadline, shut down | everything that spawns | `Supervisor`, `Lifecycle` |
| boot and snapshot writer (`orphan.rs`, `start_snapshot_writer`) | pid file, snapshot of children | write the snapshot, classify and end orphans | supervisor, a daemon that died | `Boot` |
| gateway (`gateway/`) | one worker and one queue per conversation | submit, reject, process, retire an idle worker, shut down | ingress, runner, sinks | `Gateway`, `Conversation` |
| local API (`local_api/`), `dotagent api` | connections, event queues, reply gates | accept, parse a line, admit a run, stream its events, close | gateway | `LocalApi`, `ApiBridge` |
| Telegram ingress | offset, threads, parked commands | poll, screen, run a command, confirm, answer in a thread | gateway, `[os]` policy, lookup tables | `Telegram`, `OsPolicy` |
| daemon loop (`run`) | dates of the last summary and sweep, pollers, signals | sleep until the next event, tick, reload, summary, retention, shut down | all of the above | `DaemonLoop` |
| state files (`dotagent-state`) | heartbeats, windows, lookup tables | `write_json`, `with_locked_table` | daemon, `tick`, gateway workers | `StateFiles` |
| manifest cache (`manifest_cache.rs`, `check_cache`) | hashes of manifests | compare, announce, save | tick, audit log | `ManifestCache` |
| audit log (`audit.rs`) | hash-chained JSON lines, rotated | append, rotate, verify | everybody | `AuditLog` |
| retention (`retention.rs`) | none | compress and delete logs, delete windows | writers of windows | `Retention` |
| assistant harness (`dotagent-assistant`) | a record per conversation | begin a turn, finalize it, retire, reset | gateway, `/novo` | `Assistant` |
| memory (`dotagent-memory`, capture) | facts | remember, reinforce, supersede, forget, recall | harness, scheduled runs, commands | `Memory` |
| skills, commands, discovery, MCP server | files, nothing in memory | scan, list, resolve, render, call | model clients, Telegram | `Frontmatter`, `Catalog`, `Mcp` |

Behaviours that are hard here: two processes on the same files with only some
of them locked; a clock read once and used after long awaits; deaths between
two writes; claims on a child by the reaper, a caller that is dropped and a
shutdown at the same time; retirement of a worker racing a submit; a retry of a
request that may already have been delivered; time windows that are skipped by
a long tick; signals that arrive while the loop works; events that overtake the
admission of the run they belong to; names that collide once they are made fit
for a tool; files that are edited between a listing and a call.

What makes each part correct: a window is run at most `max_retries` times and
succeeds at most once (tick); the alert table agrees with what was announced
(sweep); the newest missed window is the one judged (schedule arithmetic); a run
is held back only for cause (power); what a run leaves on record and tells agrees
with what it did (runner); each child ends exactly once and the registry forgets
it (supervisor); a boot ends recorded orphans and never a stranger (boot); a
request is delivered at most once and instances stay under their cap (pool);
messages of a conversation are processed in order and none is lost by a
retirement (gateway); admission precedes events and everything is given back
(local API); an update is acted on once and a confirmed command is still allowed
(Telegram); every daily chore is done once a window and a stop ends everything
(loop); documents are whole and runs that do not overlap lose nothing (state
files); a torn log is told from a tampered one and acknowledged entries stay
(audit); what is still consulted is not swept (retention); a turn resumes only
what it may (assistant); a fact is stored once and corrections lead somewhere
(memory); a tool call does what its listing said (MCP).

## 2. Plan

1. `Schedule`, `NotifyDedup`, `Dispatch`: the tick. Done, every safety property
   proved.
2. `Supervisor`, implementing `Lifecycle`. Done, safety and the refinement proved.
3. `PersistentPool`. Done, safety proved.
4. `Gateway`, implementing `Conversation`. Done, safety and the refinement proved.
5. `StateFiles`, `ManifestCache`, `Retention`, `Assistant`, `Boot`. Done, safety proved.
   `AuditLog`. Done, safety proved. `Memory`. Done, model-checked.
6. `LocalApi` with `ApiBridge`, `Telegram` with `OsPolicy`: the ways in. Done, safety
   proved.
7. `DaemonLoop`, `Power`. Done, safety proved. `Runner` with `Notify`. Done, safety proved,
   but for what becomes of a text on its way to a backend (`NoticesArrive`), model-checked.
8. `Frontmatter`, `Catalog`, `Mcp`: what is installed and how it is called. Done,
   model-checked.

Abstract specifications: the lifecycle of a supervised child, a conversation as
one FIFO queue. Theorems worth proving next, in order: `McpInv`, `MemInv`.
None of the modules in question uses a RECURSIVE operator.

## 3. Modules

### The tick

`Schedule` holds the pure functions of `dotagent-scheduler` as operators of the
same name. An instant is a number of seconds; the lengths of minute, hour, day
and week are constants. `Schedule::Expression`, which the code never considers
due, and DST jumps are left out. `ScheduleWalk` walks over every instant of a
small calendar and compares the operators with definitions that enumerate the
instants at which a window opens.

`NotifyDedup` holds the alert ladder: episodes, `should_notify`, `record`,
`clear_pair`.

`Dispatch` is `tick_once`. Files are the variables `heartbeat`, `window`,
`alerts`, `lock`; what a process keeps in memory during its tick are functions
of the process. The steps are the stretches of code between two awaits or two
writes:

| action | code |
|---|---|
| `BeginTick` | the tick reads the clock and the power source |
| `Skip` | `dispatch_one` returns at one of its gates |
| `GiveUpExhausted`, `StartRun` | the `max_retries` gate, or `run_with_hooks` is called |
| `EndRun` | the run returns: success, failure, failed preflight, lost request, runner error |
| `GiveUp`, `Announce` | `give_up`: `claim_alert` under the lock, then the notice |
| `WriteWindow` | `write_window` |
| `BeginSweep`, `SweepOne`, `EndSweep` | the alert sweep, which keeps `alerts.lock` from load to save |
| `Crash` | the process is killed anywhere |
| `ManualRun` | `dotagent run` succeeds beside it |
| `Pass`, `Unplug` | time, and the charger |

`DispatchProofs` holds the theorems about it: what the pure functions answer, that it does
not move back, the budget, the alert table and the rest.

### The supervisor

`Supervisor` is `dotagent-supervisor`. The registry's mutex makes every access
one step; what happens between two accesses is another. Each child is seen by
the kernel (`os`), by the registry (`registered`, `claimed`, `expires`) and by
the owner of its handle (`handle`); `stray` remembers who signalled a pid that
had been given back.

| action | code |
|---|---|
| `Spawn`, `retime` | `spawn_supervised`, `retime`, each with its `wake_all` |
| `Wait`, `WaitReturns`, `finish` | `wait_status`/`wait_with_output`: the child ends in time |
| `WaitExpires`, `KillExpired` | the deadline of the wait: `claim`, then the grace of `kill_tree` |
| `CancelOutput`, `CancelWait` | the wait is dropped: `WaitCleanup::drop` |
| `DropHandle`, `deregister` | `SupervisedHandle::drop`: one look under the lock, one removal under another |
| `terminate`, `TerminateEnds`, `TerminateAborted` | `Supervisor::terminate` around its grace, or its task is aborted in it |
| `Subscribe`, `next_deadline`, `WakeUp`, `sweep_once`, `SweepKills` | the reaper's loop |
| `Stop`, `shutdown`, `ShutdownKills` | the daemon stops its tasks, then signals what is left |
| `Exit`, `Collect`, `try_wait` | the child exits; tokio or the pool collects its status |

`Lifecycle` is what it promises: a child is registered once and leaves with
exactly one terminal event, or because its owner let go of it. `SupervisorProofs` shows
that it is kept.

### The persistent pool

`PersistentPool` is `persistent.rs` for one agent. A task is cut where it awaits
the lock `allocation`, the lock of a slot, or the agent's pipe. A cell is one
`Arc` of a slot and the process in it; `slots` maps a key to a cell, and a task
may still hold a cell that is no longer in the map. Request bytes are written
in two pieces, so that a pipe can break between them. `last_used` keeps the order of
the uses, as ranks, which is all that `min_by_key` tells apart. `PoolProofs` holds the
theorems.

| action | code |
|---|---|
| `slot_for`, `retire_slot`, `forget_slot` | look up, create or evict under `allocation` |
| `TakeSlot`, `Spawn`, `HandshakeDone`, `HandshakeFails`, `SpawnFails` | the slot's lock, then a process in it |
| `exchange`, `WriteFirst`, `WriteRest`, `read_answer`, `ReadFails`, `ReadTimesOut` | one request on the pipe |
| `DeadBeforeRequest`, `RequestLost`, `TimedOut`, `Answered` | the four ends of an exchange: retry, report, recycle, return |
| `retire_held`, `terminate`, `KillEnds`, `touch` | retirement around the supervisor's grace; last use |
| `DrainBegins`, `DrainNext`, `sweep` | reload, and the sweep for dead instances |
| `Cancel` | the dispatching task is dropped at an await |
| `Exit`, `Answer`, `ReaperClaims`, `ReaperKills` | the process, and the reaper that knows nothing of the pool |

### The gateway

`Gateway` is `gateway/mod.rs` and `gateway/worker.rs`. The supervisor task is cut
at the check of the shutdown flag, the lookup and the send, with the map's mutex
held over the last two (`MapFree`); a worker is cut at its awaits.

| action | code |
|---|---|
| `submit`, `handle_submit` | the client's channel; flag, session id, limiter, audit entry |
| `Route`, `SpawnWorker`, `try_send` | under the map's lock: refuse, heal, reuse or spawn, then send |
| `Take`, `SeesShutdown`, `GoesIdle`, `Leave` | the worker's biased `select!` |
| `begin_retirement`, `Drained`, `finish_retirement` | retirement of an idle worker |
| `record_triggered`, `process`, `reply` | one message: audit entry, typing, run, streamed lines, harness, reply |
| `ForcedShutdown`, `Panic` | the force flag cuts an await; a worker dies with its queue |
| `RaiseShutdown`, `StopAdmitting`, `ForceWorkers`, `AbortAll`, `Stopped` | the stages of the shutdown |

`Conversation` is what it promises: per conversation one FIFO queue and one
message in work; an accepted message is dropped only by a crash of its worker or
while the gateway stops. `GatewayProofs` shows that it is kept.

### The daemon at work

`DaemonLoop` is `run`: a cycle is a tick and its chores, of any duration, then a
sleep to `compute_sleep_target`, then what woke it. `LoopProofs` holds the theorems.

| action | code |
|---|---|
| the chores of `Loop` | tick, `should_run_daily_summary`, retention, each after the time it took |
| `Reload` | SIGHUP: config, secrets, pool, `restart_telegram_ingress` |
| `Stop`, `StopTelegram`, `StopApi`, `StopGateway`, `StopPool`, `StopSupervisor` | the end of `run`, in its order |

`Runner` is one run, `run_with_hooks_streaming`, from preflight to the last
notifier, with the agent, its descendants, plugins and backends as other
processes. Its operators over texts (limits, escaping, encoded titles, chunks)
are `Notify`, where a character is one of a few kinds that the backends count
differently. A job is a manifest, a request and a machine at once; `MCDaemon` lists those whose features meet.
The theorem about it is in `LoopProofs`.

| action | code |
|---|---|
| `PreflightNext`, `run_preflight` | the preflight plugins, the first failure ends the list |
| `begin`, `spawn_supervised`, the steps of the streams and of the deadline | `run_streaming`, `begin_heartbeat`, `finish_heartbeat` |
| the steps of a plugin call | `PluginClient::invoke`: stdin, answer, deadline |
| the steps of a send | `fire_notifier_entries`: filter, resolve, rate, render, send, record |

`Power` is the gate: `would_probe`, `classify_supplies`, `should_defer` for every
order in which the directory lists chargers, batteries and what cannot be read; its
theorem is in `LoopProofs` too.

### The ways in

`LocalApi` is the socket: per connection a reader, a writer and the bounded queue
between them, and the runs that requests started, whose sends are cut between
their looks at the shared state. `ApiBridge` is the other end, `dotagent api`.

| action | code |
|---|---|
| `run_bound`, `reject_overflow`, `reject_peer` | accept, or turn away |
| `ReadTyped`, `ReadPlain`, `ReadOversized`, `handle_message` | one line: salvage of the id, dispatch, admission |
| `send_response_after`, `release`, `enqueue_started`, `OpenGate` | response first, then the gate |
| `defer_started`, `WaitCheck`, `WaitArm`, `WaitRecheck`, `WaitWoken` | `LocalReplyGate` |
| `RunReserve`, `RunLook`, `RunPush` | `EventTx::send`: bytes, poison, slot |
| `TakeFrame`, `Written`, `WriteFailed`, `WriterStops`, `Disconnect` | the writer, and the end |
| `ReadStdin`, `ReadSocket`, `WriteSocket`, `WriteStdout`, `HalfClose`, `SocketFails` | `forward_stdin`, `forward_frames` |

`Telegram` is the poller, `screen_with_store`, the parked commands and the binding
of answers to threads; `OsPolicy` is the `[os]` section. `IngressProofs` holds the
theorems about all of them.

| action | code |
|---|---|
| `poll`, `ReloadIngress`, `CrashDaemon` | offset, batch, its loss |
| `Reject`, `NotOwner`, `Answer`, `Run` | what becomes of a message |
| `handle_typed_command`, `handle_confirmation` | `!` and `!!`, each against the policy on disk |
| `PostAnswer`, `SinkPosts`, `SinkBinds` | the answer, and its thread |

### What is kept

| module | code | what moves |
|---|---|---|
| `Boot`, `LoopProofs` | pid file, `reap_boot_orphans`, `orphan.rs`, `start_snapshot_writer` | two daemons one after the other, children, strangers on the same pids, a writer that fails |
| `StateFiles`, `StateFilesProofs` | `read_json`, `write_json`, `with_locked_table`, heartbeats, windows | two processes, each lock, temporary file and rename a step, deaths, failing writes |
| `ManifestCache`, `RecordsProofs` | `check_cache`, `save` | two checks, edits, a death, a failing announcement |
| `AuditLog`, `StateFilesProofs` | `append`, `rotate_locked`, `write_seam_locked`, `verify_chain_status` | two writers killed anywhere, torn lines, pruned segments |
| `Retention`, `RecordsProofs` | `sweep_windows_dir`, `sweep_dir`, `gzip_file` | two writers of windows and a sweep, deaths, days |
| `Assistant`, `RecordsProofs` | `harness_env`, `finalize`, `reset_conversation` | turns, a toolkit that changes, saves that fail, resets in between |
| `Memory` | `remember_with`, `supersede`, `forget`, `recall_context`, capture | the daemon and a command, each opening of the store a step |
| `Frontmatter` | `split`, `fields`, `parse`, `validate` | an author who writes a file while it is read |
| `Catalog`, `Mcp` | discovery, `catalog`, `tools_call`, `execute`, `call_skill`, `os_run` | a client, and an operator who edits the files |

### Sums of components

`MCDaemon`, `MCIngress` and `MCRecords` check several components in one run. The
components of a sum share no variable. The variable `part` is chosen once, only
that component moves, and the others rest in one initial state, so the states of
the sum are the union of the components' states and an invariant of the sum is
one of each. Where a sum states fairness it states that of each part restricted to
its part, so the behaviours that are of another part satisfy it by resting.
Components that do interact are modelled together (the tick with files and alerts,
the API with its gates, Telegram with the policy) or meet in what one promises the
other: `Gateway` may refuse anything of the ingress, `Runner` sees of the pool a
result, `DaemonLoop` sees of a tick how long it takes.

## 4. Runs

| run | instance | what it shows |
|---|---|---|
| `tick_interval` | one process, an interval agent with two attempts, every outcome, one crash | budget, at most one success, books, the reader's window, no abandonment, dry run, alert table (`TickInv`), a given-up window stays given up |
| `tick_mixed` | a calendar schedule held back on battery and an interval one of the same agent | the same questions where schedules meet; only a success ends an episode |
| `tick_two` | daemon and `dotagent tick` on the same files, one crash | the alert table tells the notices; nobody waits for `alerts.lock` for ever |
| `supervisor` | one waited run and one pool instance, two instants of deadline | one owner per claim, one terminal event, no deadline slept past, no escape, the deadline is enforced |
| `pool` | two requests over one or two keys, room for one process, a reload, a cancellation | no delivery twice, no foreign answer, no slot out of reach, the cap, every dispatch ends |
| `gateway` | three messages of one conversation and one of another, room for one session, a panic, a shutdown | one worker, the cap, FIFO and no loss, verdicts, retirement and shutdown end |
| `daemon` | two days of five minutes, two configurations (a window across midnight, a refused secrets file), any mix of signals; nine jobs in which hooks, notifiers, persistence and summaries meet, every text of up to four characters and title of up to three; every list of six kinds of supplies | the summary once a window, no second poller, nothing outlives `run`, no window slept through, a stop ends it (loop); record, audit, notifiers, environment and answer agree, rate limits (`RunnerInv`), no backend refuses a notice and each arrives as it was said (`NoticesArrive`), a run ends (runner); held back only for cause and always when asked (power) |
| `ingress` | two clients, one connection, a queue of two slots and one byte, every kind of line; four kinds of stdin in every division into pieces; nine stories of up to four messages, a reload or crash, a lost write, an edit of `[os]` | admission before events, bytes and slots, the right id on every answer, the last word, no run held (API); lines whole and in order (bridge); acted on once, released rightly, sessions are threads, every update leaves (Telegram) |
| `records` | the instances in `MCRecords.cfg`: a calendar of 2-second minutes, 2-minute hours, 3-hour days, 2-day weeks; two daemons and three processes; two writers everywhere, one fault each | the newest missed window and the next one; strangers spared and orphans ended; whole documents and nothing lost alone; the story of a manifest; the chain; what is consulted stays; sessions; facts; names and calls |

Three runs show that the code does not do what a text of the repository says;
`PROJECT.json` quotes the texts.

| run | what the code does |
|---|---|
| `announced_twice` | the sweep announces a give-up of its own tick a second time, since it asks with the instant at which the tick began |
| `pid_reuse` | the reaper's SIGKILL goes to a pid that was collected during the grace |
| `timed_out_success` | an agent that traps the SIGTERM of its deadline and exits 0 is a success |

The last one is checked by `RunAlone`, a run without its fairness, because the property is
an invariant.

Bounds. Attempts, windows and pauses in `Dispatch` need two windows, two attempts
and one pause longer than a window: `MaxTime` of 3 or 4 with an interval of 2 or 3.
Claims need two children, one of each kind; the reaper treats what it claims in
one sweep alike. The pool needs a victim and a replacement (two cells, room
for one); a cell is used again once nobody holds it and its process is gone. The
gateway needs a queue with two messages behind the one in work, an
identity for the worker that leaves and one for its successor.
The loop needs a window across midnight and a tick longer than a window: days of 5,
ticks of 3, sleeps of at most 3. The reply gate needs one run and a full queue; the
connection that is refused needs a second client. A confirmation needs a question
and its answer with one message between them. The boot needs a recorded child and whoever
has its pid next, a stranger or another child: two serials on one pid, two daemons.
A table that forgets needs one entry more than it keeps. The chain needs a rotation, a seam and one line behind it, and two kills so that a repair can be
killed in its turn. A window in `Retention` is consulted for two days and opened
every four, so that a sweep meets an old one and a young one. A session needs two
toolkits and three turns, so that the declaration can go away and come back. A
correction needs a fact, its successor and one that crosses it. Names collide in
pairs, so two of each kind suffice. Each bound is a constant, and appears in a
guard.

Fairness. The runtime polls a task whose await is over, and timers fire: weak
fairness of the supervisor's and the workers' own steps (`Gateway`), of the
reaper and of the ends of a grace (`Supervisor`), of some task that can go on
(`PersistentPool`: requests have deadlines) and of the reaper there, of a tick's
steps (`Dispatch`), of readers, writers and runs (`LocalApi`: a write ends, fails or
runs into its timeout), of polls and of handling (`Telegram`), of the loop's steps
and of the steps that stop it (`DaemonLoop`). Strong fairness has one place: `Stop`,
for a loop that looks at its signals at the end of every sleep and may be woken by
others first, again and again; `wait_for_event` selects among those that are ready
without preference. In `Runner` the code's own steps, sends, the pool's steps and the
ends of deadlines are weakly fair; agents, descendants and plugins are not.
`RunsEnd` there assumes that no descendant keeps the pipes for ever and, where the
payload is larger than a pipe, that the daemon's reaper is there: without one
nothing ends a child that does not read.
Nothing makes a child exit, a client submit, an owner wait or the daemon stop.
`SubmitsEnd` and `RetirementEnds` assume that runs and deliveries end
(`Gateway!RunsEnd`), which the supervisor's deadlines give; `ShutdownEnds` does not,
and holds although they hang.

`CHECK_DEADLOCK` is off where the system may stop: everybody has been served, the
child is gone, the daemon is down, the bounds of a record are reached.

## 5. Proofs

What is proved is proved for every value of the constants: any manifest, any number of
processes, requests, conversations or children, any bound. The runs show the same
properties on an instance.

`DispatchProofs`, for every manifest (shared slugs included), ladder, calendar and
bound:

* `TypeCorrect`: any number of processes. Its core is that `expected_at` yields an
  instant: the due hours are a bounded non-empty set of naturals and have a maximum
  (by well-foundedness of `<` on the naturals).
* `BudgetKept`: with one process, no window is run more often than `max_retries`
  plus the runs whose count was never written (the process died first, or the
  runner itself failed), and none succeeds twice. The budget is not inductive: a run is started before it is
  counted. `Books` accounts for the run in hand (`HandBooks`), for every run that
  was started (`RunBooks`) and for the heartbeat (`HeartbeatBooks`); the tick's
  runs check it as an invariant.
* `GiveUpIsFinal`: with one process, an action property from the same books.
* `ExpectedNeverBack`. For an interval schedule it is arithmetic of quotients; for a
  calendar one a case for the day of each of the two instants and one for the hours that
  have struck on it. It carries the dates of `TickKept`.
* `WalkSafe`: what `expected_at`, `next_occurrence` and `health_state` answer is what a walk over
  the calendar finds, instant by instant: the newest window missed, the next opening, the
  age of the first window missed.
* `TableTells`: for any number of ticking processes that die anywhere, the alert table
  counts the notices, except while one is owed. The table that counts is the copy of the
  sweep that holds the lock, or the file (`InForce`). Hypothesis: somebody listens to
  give-ups, because `give_up` records one whether or not it is asked for.
* `GivenUpTried`: for any number of processes, what is given up was run; hypothesis
  `max_retries > 0`, and it is needed (section 7).
* `TickKept`: all of `TickInv`. Hypotheses: one process, schedules that do not share
  files (`OwnFiles`), and those of the two theorems above. Its invariant dates every file
  (`FileDates`), the window in hand (`HandDates`) and the file of the latest success
  (`RecordDates`): a file was written for a window that was due at an instant judged
  before, so by `ExpectedNeverBack` it is not newer than the window in hand, and the newest
  file is the one a reader finds. `PassedTried` says what is known of a schedule that this
  tick has been through; `NeverAbandoned` is stated for intervals of at least a minute,
  because an interval of 0 has no window but the last success.
* `EpisodesEndInSuccess`: an episode's row disappears only in a sweep, and what a sweep
  has dropped it dropped for a success at or after every window given up
  (`SweptForSuccess`).

`SupervisorProofs`, for any children and any races to end them:

* `SupervisorSafe`. `SupervisorInv` is inductive once it says what the owner of each claim is
  about to do (`OwnersKnow`, checked with it).
* `SupervisorImplementsLifecycle`: every action is a step of `Lifecycle` or leaves the
  life of every child alone.

`PoolProofs`, for any requests, finite set of keys, cells, reloads and cancellations:

* `PoolSafe` and `RequestsRunOnce`, from one invariant. `MapBooks`: a cell that is not
  stopped is in the map, so the cap on entries is one on instances. `HolderBooks`: what a
  task knows of the cell whose lock it holds, or will ask for. `RequestBooks`: a request
  is written once, on its way to an answer, and never starts over afterwards.
  `ClaimBooks`: a process that nobody is killing serves a live slot or is shaking hands for
  a starting one. Actions are
  first reduced to the few shapes that a step may have (a task retires, frees, takes,
  makes or forgets a slot, or only moves on), and the books are shown to survive each.

`GatewayProofs`, for any number of messages, conversations, workers and panics and
any cap:

* `WorkersSafe` (from `GatewayTypes` and `OneWorkerAlways`), `SessionsBoundedAlways`. The cap is compared
  with the entries of the map, and the map may hold the dead; what bounds the
  living is that, until the supervisor drains, the map leads to every worker that
  may run something (`Tied`), so that `serves` is an injection into its entries.
  That survives a lookup because a closed channel implies a marked slot (`Marked`),
  and a send because retirement needs the map's lock (`Routed`). After the drain
  begins nobody is started.
* `GatewayImplementsConversation`: what a client sees of a conversation is the queue and
  the job of the one worker that holds anything for it (`Solo`); what changes it is a
  send, a take, a reply, a crash or the stop, and each is a step of `Conversation`.

`StateFilesProofs`, for any finite number of processes and any faults:

* `StateFilesSafe`. `WriteProtocol`: who fills or renames holds the lock of the document,
  and only the holder's temporary file can be torn. `SuccessBooks` counts successes by
  stamps, so that the latest is the largest; a run without another beside it carries on
  what it read (`RunHolds`), and its attempt is counted once it is idle; the table's lock
  is held from the read to the rename, so entries are inserted one after the other and the
  newest of what was kept and one more are the newest of all.
* `AuditSafe`, for any number of writers, lines, rotations and prunings. `WriterBooks`: what a
  writer between two steps knows of the file, since it alone holds the lock. `NameBooks`:
  the names of segments grow, and with them the lines in them. `ForkBooks`: nothing follows the
  last line of the live file yet, and what follows that of a segment is in a later file.
  `ChainBooks`: a file without a torn line is one chain, and its head is the seam to the segment
  just before it, or has nothing before it. So a break needs a line that does not parse
  (`BrokenNeedsTear`), and a chain from GENESIS leaves no segment out (`GenesisIsAll`).

`LoopProofs`, for any day, configurations, reloads, events and lengths of a tick:

* `IngressAndExitSafe`: the parts of `LoopInv` that do not depend on the summary's time.
* `LoopSafe`: all of `LoopInv`. Hypothesis `WindowsApart`: no window of the summary is
  still open when the window of another configuration opens on the next day. It holds
  whenever reloads leave the time alone (a grace is at most a day), and for any times with
  a grace short of the day less their distance; without it the code fires twice
  (section 7). `DatesBooks`: the date that is remembered is the latest delivered, and
  had opened; a window that is open now and is another can then only be a later one.
* `WindowsNeverSlept`: a sleep ends at its target, which is no later than any opening
  ahead (`Heeded`), or, when the tick overran the target, after the fallback. No hypothesis.
* `PowerSafe`, for any supplies and floors. The scan of a directory is a recursive function
  over the length of the list; that it exists and what it says (a charger that is on wins,
  one that is out is remembered, the charge is that of a battery of the machine) is shown by a smallest
  counterexample.
* `RunnerSafe`, for any finite or infinite set of jobs, any environment, any budget and any length
  of the tail. `OutcomeBooks` says what is decided at each stage of a run, and
  `EnvBooks` that the environment is the one `apply_env_for` gives to this job. The audit log is
  read as a list that grows at its end: `TrailBooks` has the run's line exactly once where the
  outcome is recorded, before any hook or notifier, and `ToldBooks` has the notifiers asked so far be
  those entries before the one in work that asked for this event; only with that, and with
  `CallBooks` (a plugin call is for the entry in work), is "everybody was told, in order" true at
  the end. `AgentBooks` says that nobody holds the agent's pipes once its outcome is known, so that
  `OutputBooks` (what was read is the first lines printed, the tail the last of them, the answer the
  last reply) covers all that was printed. `SentBooks` and `RateBooks` outlive a run: the remembered time of a
  recipient's file is no earlier than any send noted there and no later than the clock, so that two sends
  to one recipient are apart also across runs. Texts stay uninterpreted: no fact about cutting or
  escaping is used. It assumes that jobs are `WellFormed`: entries as the manifest can state them,
  and `AGENT_TRIGGER_SOURCE` in every request that names a trigger.
* `BootSafe`, for any daemons, pids, commands and tolerances. A record's pid is still of the
  recorded process, or free since a time at or after the record's, or of a process that
  started more than the forward tolerance later (`RecBooks`, of every record on disk, in a
  boot's hands or in a writer's): so the start time alone tells a stranger, and the other proofs never refuse the
  right process (`TellsApart`). `ReapBooks`: a recorded process that runs is excused or still
  to be escalated. `ScribeBooks`: without a wake-up on its way, a writer that sleeps, or is
  about to write an empty snapshot, has no children. It rests on the model's assumption that
  the kernel does not give a pid away within the forward tolerance of its release.

`IngressProofs`, for any finite number of clients and requests and any limits, any owners,
policies and stories:

* `ApiSafe` and `LastWordSafe`, from one invariant, `ApiBooks`. `Links`: who holds what of whom,
  so that a run's events can reach one connection only. Of each connection `QueueBooks` say what
  order its stream has and that the answer that closes it leaves it poisoned,
  `ReaderBooks` what the reader is about to queue, `Account` that the bytes in debt are those of
  the events queued, in the writer's hand or reserved; of each run `RunBooks` say
  where its gate is.
* `BridgeSafe`. `DirBooks`, the same for each direction: what was written, the frame in hand
  and what is still to come are all there was, in order; what was written ends with a line, and
  none of its lines is longer than the limit.
* `TgSafe`. `TgBooks` relates the table of parked commands (`ParkedBooks`), the tables of threads and
  sessions (`ThreadBooks`, `SessionBooks`), the offset (`OffsetBooks`) and what
  was run (`RunsBooks`) to the messages there are. `LawBooks`: each command that ran was allowed by the policy
  it was looked up in, and where that asked for a yes it was given by an owner, in the thread, in
  time, for the latest command waiting there. `OnceBooks`, while every offset could be
  written: what was acted on lies behind everything that still waits. Steps that handle no message
  (`Calm`) leave most of it alone. A thread's root is a recursive function over messages that
  reply to earlier ones; that it exists, and does not change when messages are added, is shown by
  a smallest counterexample (`RootExists`, `RootStays`).

`RecordsProofs`, for any bounds:

* `AssistantSafe`, for any toolkits, sizes, resets and failed saves. The record on disk, the
  copy a turn works on and the copy of a reset are three places a session pointer can survive
  in, so each book says the same of all of them: `SizeBooks` that its session is small, `ToolBooks` that it
  is of the toolkit on record (until a save fails), `ResetBooks` that it was begun after the
  last reset. `GenerationBooks` counts a generation as a turn that is over or a reset, and
  `NoticeBooks` a notice on the record as a retirement not yet told.
* `CacheSafe`, for any checks, agents and contents. `HeardBooks`: whatever holds entries (the
  file, the temporary one, a check) holds only what the log names, unless an announcement
  failed. `SoloBooks`, while no
  checks cross and nothing went wrong: the log tells each agent's story up to what the check
  in hand holds, or the cache when there is none; that the latest line is the cached content
  needs the whole of `Story`, since `save` comes after the lines.
* `RetentionSafe`, for any interval between windows, horizons, days and crashes. What keeps
  a window safe is that its files are not older than the window itself (`WindowBooks`), so what is aged out is
  not consulted, and nobody consults it again; `SweepBooks` carries that from the look to the
  deletion. Two writers of a consulted window share one inode, because its lock file is not
  unlinked (`PenBooks`). A log's age is bounded by the sweeps that were missed: `LogGoes` says it
  with the day in hand counted as missed until the sweep has passed that file (`Late`).

Assumptions are those of the modules' `ASSUME`s (types of the constants, positive
lengths, finite sets of processes, clients, requests and keys, names that are not the markers
`free`, `drain`, `none`, `accepting` and `closed`) and the hypotheses named above, each of which a run satisfies. Only the
theorems that say so cover two processes that tick beside each other; the budget and
`TickInv` are false for them (section 7).

Only model-checked: everything about liveness and fairness (`TicksEnd`,
`DeadlineEnforced`, `DispatchEnds`, `NobodyWaitsForEver`, `TermStops`, `RunsEnd`,
`NothingIsHeldForever`, `EveryUpdateLeaves`: the proof system has no rule for it that the
installed back ends can use) and `NoticesArrive`, `MemInv` and `McpInv`. Of these, what
`Memory!Heir` computes and the folds and sorted sequences of `Memory`, `Frontmatter`, `Catalog` and
`Mcp` are recursion over data, out of the prover's reach for every input; so are the texts that
`Notify` cuts and escapes, which is why `NoticesArrive` stands apart from `RunnerInv`.

## 6. Not modelled

Components without a module, and why:

* configuration and manifests (`config.rs`, `manifest.rs`, `security.rs`, `slug.rs`): the
  deserialisation and validation of one value, with no state and no second actor. What
  is read is a constant of the models; the `[os]` section, which decides at run time,
  is `OsPolicy`.
* unit generation: text templates.
* the command line: formatting of what the other parts return. The dry run and the
  reader of `status`, which repeat a decision of the tick, are in `Dispatch`.

Left out of components that are modelled:

* tick: `Schedule::Expression` and DST. The best-effort lock of window files, their
  failing writes and memory capture are modelled apart from the tick, in `StateFiles`
  and `Memory`.
* power: the text of `pmset`.
* supervisor: the walk over a process tree below the leader. Boot: `ps` and `/proc`,
  whose answers are the system's choice.
* pool: `forget_agent`, which nothing calls; the heartbeat around a dispatch, which is
  that of `StateFiles`.
* gateway: the limiter of local triggers (it may refuse at will), the shaping of
  replies, a command channel that closes because every handle is dropped.
* local API: the content of `status.get` and `commands.list`. Telegram: mention parsing, the
  shape of HTTP answers.
* runner: redaction and wording; plugins: `info` and `validate`.
* audit: rendering and filters. Telemetry: the log subscriber.
* memory: normalisation of text; a call opens and writes the outl workspace in one step,
  what two processes inside that library do to each other is not seen. MCP: JSON schemas and wording.
* frontmatter: an indented `---` inside a block scalar closes the header, and an indented
  continuation of a plain scalar is ignored; the entries an author may write exclude
  both.

## 7. Observations

Met while modelling, and not settled by a run of their own. Of the tick:

* A calendar schedule that has failed for days is never reported stale: with no
  window in scope today `cron_expected_at` yields nothing to be late for.
* A give-up that no notifier listens to is recorded as announced.
* With two writers of a window file an attempt can be lost (`docs` warn of it).
* A retry's pause is measured from the start of the tick, not from the attempt
  (scheduler `lib.rs:453` speaks of the attempt): it may be shorter by the length of the
  runs before it.
* A schedule with `max_retries = 0` is given up, and announced so, without ever being run: the
  budget is compared before the first attempt (`daemon.rs:2376`; `docs/llms.txt:120` says
  "0 = no retry").
* A heartbeat is read, changed and rewritten outside the lock: of two runs that overlap
  the later finish can take `last_success` back.
* Two checks of the manifest cache may tear it or lose an update: they share one
  temporary file and have no lock.

Of the loop:

* The guard of the daily summary remembers one date (`daemon.rs:2181`; the comment at 1571 says
  that it "avoids a double-fire when the daemon re-enters" a window, "e.g. `dotagent reload`").
  When a reload moves the time to an earlier one while the window of yesterday's time is still
  open, today's window is delivered; a reload back re-enters the first, whose date is no longer
  the last, and it fires again. With a day of 5 minutes, a window at 4 of 5 minutes and one at
  3 of 1 minute TLC finds `FiresOncePerWindow` violated after two reloads; the configurations
  of the run `daemon` keep apart, as `WindowsApart` asks.

Of processes:

* `SupervisedHandle::drop` looks at the claim and removes the entry under two holds
  of the lock: a claim in between loses its entry and its event.
* A dispatch that finds its slot stopped spends one of its two attempts, so a
  single death may be reported as `died twice in a row`.
* A dispatch dropped during a retirement leaves the slot `Retiring`: its key fails
  until an eviction or a reload. Dropped during the handshake, it leaves a child
  that only its deadline ends.
* `max_instances` is exceeded by one while the reaper's grace ends a process whose slot
  the pool has given away (`persistent.rs:606-608` calls it a hard ceiling).
* An answer without an id counts for whatever is in flight (`protocol.rs:194-202`): one that
  is late for a cancelled dispatch would answer the next request. The model's agents
  give the id.
* The sweep of the pool audits every dead instance as `idle`, also a crashed one.
* The guard against a second daemon never fires: the pid file is written before it is
  read, so the daemon finds itself.

Of conversations:

* A message accepted while the shutdown flag rises may stay in the queue of a
  worker that leaves at once.
* The entry of a worker that panicked counts for the cap until its own conversation
  submits again.
* A reset that overlaps a turn is undone by the turn's save (`FreshAfterQuietReset` says
  "quiet" for that reason).
* A Telegram answer whose binding cannot be written leaves its thread.
* A numeric id in a line that is cut or no JSON is never salvaged; a string is.
* `dotagent api` loses the server's last words when the socket breaks or a line of stdin
  is too long.

Of records:

* An append is refused for good once a segment holds bytes that are not UTF-8.
* `gzip_file` restarts the retention clock of a log; the sidecar of `x.json.tmp` is looked for as
  `x.json.json`; with `stale_after` beyond `window_retention_days` a sweep may reset the
  attempts of a window that is still consulted.
* Of memory: two corrections that cross retire each other; a fact that is only a link
  has an empty key, and a fact that ends with a day is copied when it comes with a new
  topic; a topic's bonus can outrank a full match.
* Of the MCP server: a skill named `read` or `run` cannot be reached, `memory-*` tools
  answer although `[memory]` is disabled, agents are scanned in the order of the
  directory, and two commands with one Telegram name show the first in the menu and may
  run the other.
* The loop that skips a nested block in `fields` is redundant: each line of it would be
  skipped one by one.
