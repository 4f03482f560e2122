------------------------------ MODULE Gateway ------------------------------
(***************************************************************************)
(* crates/dotagent/src/gateway: admission of triggers, one worker and one  *)
(* queue per conversation, retirement of idle workers, and the shutdown.   *)
(*                                                                         *)
(* The supervisor is one task; a submit takes it from the check of the     *)
(* shutdown flag over the lookup in the map of workers to the send, and    *)
(* the map's mutex is held between the last two.  A worker is cut at its   *)
(* awaits.  Each worker has an identity of its own (its channel), and the  *)
(* map may hold one that died.                                             *)
(***************************************************************************)
EXTENDS Integers, Sequences, FiniteSets

CONSTANTS
    Jobs,                     \* triggers that are submitted
    Keys,                     \* ConversationKeys
    Key,                      \* ConversationKey::of each trigger
    Before,                   \* what its client sent before each trigger
    Workers,                  \* identities of workers; bound: as many exist at once
    None,                     \* no worker, no job
    max_concurrent_sessions,
    WORKER_QUEUE_DEPTH,
    SUBMIT_CHANNEL_DEPTH,
    MaxPanics                 \* bound: workers that panic

ASSUME GatewayAssumption ==
    /\ Key \in [Jobs -> Keys]
    /\ Before \in [Jobs -> SUBSET Jobs]
    /\ None \notin Workers /\ None \notin Jobs /\ None \notin Keys
    /\ max_concurrent_sessions \in Nat
    /\ WORKER_QUEUE_DEPTH \in Nat \ {0} /\ SUBMIT_CHANNEL_DEPTH \in Nat \ {0}
    /\ MaxPanics \in Nat

VARIABLES
    channel,    \* submits on their way to the supervisor
    ack,        \* what each submitter was told
    admitting,  \* the submit the supervisor is handling
    map,        \* the map of workers: conversation |-> worker, None
    retiring,   \* workers whose slot is marked
    pc,         \* where each worker is
    serves,     \* its conversation
    queue,      \* its channel
    job,        \* the job it processes
    closed,     \* workers that closed their channel and drain it
    answered,   \* jobs whose reply went to the sink
    shutdown,   \* the shutdown flag
    stage,      \* the supervisor: up, draining, forcing, stopped
    panics      \* workers that panicked so far

admission == <<channel, ack, admitting>>
slots     == <<map, retiring>>
worker    == <<pc, serves, queue, job, closed>>
vars      == <<admission, slots, worker, answered, shutdown, stage, panics>>

Idle == [job |-> None, at |-> "none", to |-> None]
Processing == {"begin", "typing", "running", "flush", "finalize", "reply"}
Phases == Processing \union {"unborn", "select", "idle", "drain", "finish", "leaving", "gone"}
Verdicts == {"none", "accepted", "Refused", "CapExceeded", "QueueFull", "Unavailable"}

Occupied == {k \in Keys : map[k] # None}
Submitted == {channel[i] : i \in DOMAIN channel}
forced == stage = "forcing"
\* The worker's receiver is gone or closed: a send fails.
is_closed(w) == pc[w] = "gone" \/ w \in closed
MapFree == admitting.at # "routed"
Alive == {w \in Workers : pc[w] \notin {"unborn", "gone"}}
Serving == {w \in Workers : pc[w] \notin {"unborn", "leaving", "gone"}}

-----------------------------------------------------------------------------
Init ==
    /\ channel = <<>> /\ ack = [j \in Jobs |-> "none"] /\ admitting = Idle
    /\ map = [k \in Keys |-> None] /\ retiring = {}
    /\ pc = [w \in Workers |-> "unborn"]
    /\ serves = [w \in Workers |-> None]
    /\ queue = [w \in Workers |-> <<>>]
    /\ job = [w \in Workers |-> None]
    /\ closed = {}
    /\ answered = {} /\ shutdown = FALSE /\ stage = "up" /\ panics = 0

-----------------------------------------------------------------------------
(* Admission.                                                              *)

\* A client awaits one verdict before its next message.  The send waits for
\* room; once the supervisor is gone it fails.
submit(j) ==
    /\ ack[j] = "none" /\ admitting.job # j
    /\ j \notin Submitted
    /\ \A i \in Before[j] : ack[i] # "none"
    /\ IF stage = "stopped"
       THEN ack' = [ack EXCEPT ![j] = "Unavailable"] /\ UNCHANGED channel
       ELSE /\ Len(channel) < SUBMIT_CHANNEL_DEPTH
            /\ channel' = Append(channel, j)
            /\ UNCHANGED ack
    /\ UNCHANGED <<admitting, slots, worker, answered, shutdown, stage, panics>>

\* handle_submit until the map is needed: the shutdown flag, the session id, the
\* limiter of local triggers, the audit log.  The last three may refuse.
handle_submit ==
    LET j == Head(channel)
    IN  /\ stage = "up" /\ admitting = Idle /\ channel # <<>>
        /\ channel' = Tail(channel)
        /\ \/ /\ shutdown
              /\ ack' = [ack EXCEPT ![j] = "Unavailable"]
              /\ UNCHANGED admitting
           \/ /\ ~shutdown
              /\ ack' = [ack EXCEPT ![j] = "Refused"]
              /\ UNCHANGED admitting
           \/ /\ ~shutdown
              /\ admitting' = [job |-> j, at |-> "checked", to |-> None]
              /\ UNCHANGED ack
        /\ UNCHANGED <<slots, worker, answered, shutdown, stage, panics>>

reject(reason) ==
    /\ ack' = [ack EXCEPT ![admitting.job] = reason]
    /\ admitting' = Idle

\* Identities of workers that were never used, or are gone without a trace.
Fresh == {w \in Workers : pc[w] \in {"unborn", "gone"} /\ \A k \in Keys : map[k] # w}

\* A worker is spawned for conversation k.
SpawnWorker(k) ==
    \E w \in Fresh :
        /\ map' = [map EXCEPT ![k] = w]
        /\ pc' = [pc EXCEPT ![w] = "select"]
        /\ serves' = [serves EXCEPT ![w] = k]
        /\ closed' = closed \ {w}
        /\ admitting' = [admitting EXCEPT !.at = "routed", !.to = w]
        /\ UNCHANGED <<ack, retiring, queue, job>>

\* Mutant: a retiring slot is healed like that of a dead worker.
RouteOverRetiring ==
    LET k == Key[admitting.job]
        w == map[k]
        dead == w # None /\ is_closed(w)
    IN  /\ admitting.at = "checked"
        /\ \/ /\ w # None /\ ~dead
              /\ admitting' = [admitting EXCEPT !.at = "routed", !.to = w]
              /\ UNCHANGED <<ack, slots, worker>>
           \/ /\ w = None \/ dead
              /\ Cardinality(Occupied \ {k}) < max_concurrent_sessions
              /\ SpawnWorker(k)
           \/ /\ w = None \/ dead
              /\ Cardinality(Occupied \ {k}) >= max_concurrent_sessions
              /\ reject("CapExceeded")
              /\ map' = [map EXCEPT ![k] = None]
              /\ UNCHANGED <<retiring, worker>>
        /\ UNCHANGED <<channel, answered, shutdown, stage, panics>>

\* Mutant: the cap is compared after the new session was counted.
RouteOneMore ==
    LET k == Key[admitting.job]
        w == map[k]
        dead == w # None /\ is_closed(w)
    IN  /\ admitting.at = "checked"
        /\ \/ /\ w # None /\ w \in retiring
              /\ reject("Unavailable")
              /\ UNCHANGED <<slots, worker>>
           \/ /\ w # None /\ w \notin retiring /\ ~dead
              /\ admitting' = [admitting EXCEPT !.at = "routed", !.to = w]
              /\ UNCHANGED <<ack, slots, worker>>
           \/ /\ w = None \/ (w \notin retiring /\ dead)
              /\ Cardinality(Occupied \ {k}) <= max_concurrent_sessions
              /\ SpawnWorker(k)
        /\ UNCHANGED <<channel, answered, shutdown, stage, panics>>

\* The map is locked: a retiring slot refuses, the entry of a dead worker is
\* healed, and a new conversation needs room under the cap.
Route ==
    LET k == Key[admitting.job]
        w == map[k]
        dead == w # None /\ is_closed(w)
    IN  /\ admitting.at = "checked"
        /\ \/ /\ w # None /\ w \in retiring
              /\ reject("Unavailable")
              /\ UNCHANGED <<slots, worker>>
           \/ /\ w # None /\ w \notin retiring /\ ~dead
              /\ admitting' = [admitting EXCEPT !.at = "routed", !.to = w]
              /\ UNCHANGED <<ack, slots, worker>>
           \/ /\ w = None \/ (w \notin retiring /\ dead)
              /\ Cardinality(Occupied \ {k}) < max_concurrent_sessions
              /\ SpawnWorker(k)
           \/ /\ w = None \/ (w \notin retiring /\ dead)
              /\ Cardinality(Occupied \ {k}) >= max_concurrent_sessions
              /\ reject("CapExceeded")
              /\ map' = [map EXCEPT ![k] = None]
              /\ UNCHANGED <<retiring, worker>>
        /\ UNCHANGED <<channel, answered, shutdown, stage, panics>>

\* Still under the map's lock: the queue may be full, and its worker may have
\* died meanwhile.
try_send ==
    LET j == admitting.job
        w == admitting.to
    IN  /\ admitting.at = "routed"
        /\ \/ /\ Len(queue[w]) >= WORKER_QUEUE_DEPTH
              /\ reject("QueueFull")
              /\ UNCHANGED <<map, queue>>
           \/ /\ Len(queue[w]) < WORKER_QUEUE_DEPTH /\ is_closed(w)
              /\ reject("Unavailable")
              /\ map' = [map EXCEPT ![Key[j]] = None]
              /\ UNCHANGED queue
           \/ /\ Len(queue[w]) < WORKER_QUEUE_DEPTH /\ ~is_closed(w)
              /\ queue' = [queue EXCEPT ![w] = Append(@, j)]
              /\ ack' = [ack EXCEPT ![j] = "accepted"]
              /\ admitting' = Idle
              /\ UNCHANGED map
        /\ UNCHANGED <<channel, retiring, pc, serves, job, closed, answered, shutdown, stage,
                       panics>>

-----------------------------------------------------------------------------
(* The worker's loop.                                                      *)

Goto(w, p) == pc' = [pc EXCEPT ![w] = p]

\* recv, or try_recv while it drains.
Take(w) ==
    /\ pc[w] \in {"select", "drain"} /\ queue[w] # <<>>
    /\ job' = [job EXCEPT ![w] = Head(queue[w])]
    /\ queue' = [queue EXCEPT ![w] = Tail(@)]
    /\ Goto(w, "begin")
    /\ UNCHANGED <<admission, slots, serves, closed, answered, shutdown, stage, panics>>

\* The select is biased: only an empty queue lets the other branches in.
SeesShutdown(w) ==
    /\ pc[w] = "select" /\ queue[w] = <<>> /\ (shutdown \/ forced)
    /\ Goto(w, "leaving")
    /\ UNCHANGED <<admission, slots, serves, queue, job, closed, answered, shutdown, stage,
                   panics>>

GoesIdle(w) ==
    /\ pc[w] = "select" /\ queue[w] = <<>>
    /\ Goto(w, "idle")
    /\ UNCHANGED <<admission, slots, serves, queue, job, closed, answered, shutdown, stage,
                   panics>>

\* Mutant: the worker leaves at once, whatever came in before the close.
begin_retirement_hastily(w) ==
    /\ pc[w] = "idle" /\ MapFree
    /\ retiring' = IF map[serves[w]] = w THEN retiring \union {w} ELSE retiring
    /\ closed' = closed \union {w}
    /\ Goto(w, "finish")
    /\ UNCHANGED <<admission, map, serves, queue, job, answered, shutdown, stage, panics>>

begin_retirement(w) ==
    /\ pc[w] = "idle" /\ MapFree
    /\ retiring' = IF map[serves[w]] = w THEN retiring \union {w} ELSE retiring
    /\ closed' = closed \union {w}
    /\ Goto(w, "drain")
    /\ UNCHANGED <<admission, map, serves, queue, job, answered, shutdown, stage, panics>>

Drained(w) ==
    /\ pc[w] = "drain" /\ queue[w] = <<>>
    /\ Goto(w, "finish")
    /\ UNCHANGED <<admission, slots, serves, queue, job, closed, answered, shutdown, stage,
                   panics>>

\* Mutant: the slot stays marked.
finish_retirement_silently(w) ==
    /\ pc[w] = "finish" /\ MapFree
    /\ Goto(w, "leaving")
    /\ UNCHANGED <<admission, slots, serves, queue, job, closed, answered, shutdown, stage,
                   panics>>

finish_retirement(w) ==
    /\ pc[w] = "finish" /\ MapFree
    /\ map' = [map EXCEPT ![serves[w]] = IF @ = w /\ w \in retiring THEN None ELSE @]
    /\ retiring' = retiring \ {w}
    /\ Goto(w, "leaving")
    /\ UNCHANGED <<admission, serves, queue, job, closed, answered, shutdown, stage, panics>>

\* Workers whose task ends: the channel goes with them.
End(S) ==
    /\ pc' = [w \in Workers |-> IF w \in S THEN "gone" ELSE pc[w]]
    /\ queue' = [w \in Workers |-> IF w \in S THEN <<>> ELSE queue[w]]
    /\ job' = [w \in Workers |-> IF w \in S THEN None ELSE job[w]]

Leave(w) ==
    /\ pc[w] = "leaving"
    /\ End({w})
    /\ UNCHANGED <<admission, slots, serves, closed, answered, shutdown, stage, panics>>

-----------------------------------------------------------------------------
(* process.                                                                *)

\* The audit entry; without it nothing runs and the apology is the reply.
record_triggered(w) ==
    /\ pc[w] = "begin" /\ ~forced
    /\ \E p \in {"typing", "reply"} : Goto(w, p)
    /\ UNCHANGED <<admission, slots, serves, queue, job, closed, answered, shutdown, stage,
                   panics>>

\* The job is dropped, its children aborted and joined, and the loop left.
Abandon(w) ==
    /\ job' = [job EXCEPT ![w] = None]
    /\ Goto(w, IF w \in closed THEN "finish" ELSE "leaving")
    /\ UNCHANGED <<admission, slots, serves, queue, closed, answered, shutdown, stage, panics>>

\* The typing notice, the run (its panic is an outcome too), the streamed lines
\* and the typing loop, the harness's pass over the reply.
Proceed(w, from, to) ==
    /\ pc[w] = from
    /\ Goto(w, to)
    /\ UNCHANGED <<admission, slots, serves, queue, job, closed, answered, shutdown, stage,
                   panics>>

\* The selects are biased: what is awaited when the force flag rises may still
\* end well.  Before the streamed lines and before the reply the flag is read.
process(w) ==
    \/ record_triggered(w)
    \/ Proceed(w, "typing", "running")
    \/ ~forced /\ Proceed(w, "running", "flush")
    \/ Proceed(w, "flush", "finalize")
    \/ ~forced /\ Proceed(w, "finalize", "reply")
    \/ forced /\ pc[w] = "finalize" /\ Abandon(w)

reply(w) ==
    /\ pc[w] = "reply"
    /\ answered' = answered \union {job[w]}
    /\ job' = [job EXCEPT ![w] = None]
    /\ Goto(w, IF w \in closed THEN "drain" ELSE "select")
    /\ UNCHANGED <<admission, slots, serves, queue, closed, shutdown, stage, panics>>

\* Every await of process but the harness's pass is cut short by the force flag.
ForcedShutdown(w) == pc[w] \in Processing \ {"finalize"} /\ forced /\ Abandon(w)

\* A sink panics, or the shaper's lock is poisoned: the worker dies with its
\* queue, and its slot stays in the map.
Panic(w) ==
    /\ pc[w] \in {"typing", "finalize", "reply"} /\ panics < MaxPanics
    /\ panics' = panics + 1
    /\ End({w})
    /\ UNCHANGED <<admission, slots, serves, closed, answered, shutdown, stage>>

-----------------------------------------------------------------------------
(* Shutdown.                                                               *)

\* GatewayHandle::shutdown raises the flag, at any moment.
RaiseShutdown ==
    /\ ~shutdown
    /\ shutdown' = TRUE
    /\ UNCHANGED <<admission, slots, worker, answered, stage, panics>>

StopAdmitting ==
    /\ stage = "up" /\ admitting = Idle /\ shutdown
    /\ stage' = "draining"
    /\ map' = [k \in Keys |-> None]
    /\ retiring' = {}
    /\ UNCHANGED <<admission, worker, answered, shutdown, panics>>

\* SHUTDOWN_DRAIN_GRACE is over.
ForceWorkers ==
    /\ stage = "draining" /\ Alive # {}
    /\ stage' = "forcing"
    /\ UNCHANGED <<admission, slots, worker, answered, shutdown, panics>>

\* FORCE_SHUTDOWN_GRACE is over.
AbortAll ==
    /\ stage = "forcing" /\ Alive # {}
    /\ End(Alive)
    /\ UNCHANGED <<admission, slots, serves, closed, answered, shutdown, stage, panics>>

\* Every worker is joined; what is still in the channel learns that nobody
\* will answer.
Stopped ==
    /\ stage \in {"draining", "forcing"} /\ Alive = {}
    /\ stage' = "stopped"
    /\ ack' = [j \in Jobs |-> IF j \in Submitted THEN "Unavailable" ELSE ack[j]]
    /\ channel' = <<>>
    /\ UNCHANGED <<admitting, slots, worker, answered, shutdown, panics>>

-----------------------------------------------------------------------------
Supervise == handle_submit \/ Route \/ try_send \/ StopAdmitting \/ ForceWorkers \/ AbortAll \/ Stopped

\* What a worker does by itself once it is polled.
Polled(w) ==
    \/ Take(w) \/ SeesShutdown(w) \/ GoesIdle(w) \/ begin_retirement(w) \/ Drained(w)
    \/ finish_retirement(w) \/ Leave(w) \/ ForcedShutdown(w)

Work(w) == Polled(w) \/ process(w) \/ reply(w)

Next ==
    \/ \E j \in Jobs : submit(j)
    \/ Supervise
    \/ \E w \in Workers : Work(w) \/ Panic(w)
    \/ RaiseShutdown

Spec == Init /\ [][Next]_vars

\* The runtime polls every task whose await is over, and timers fire.  Nothing
\* makes a run or a delivery end.
FairSpec ==
    /\ Spec
    /\ WF_vars(Supervise)
    /\ \A w \in Workers : WF_vars(Polled(w))

-----------------------------------------------------------------------------
TypeOK ==
    /\ channel \in Seq(Jobs)
    /\ ack \in [Jobs -> Verdicts]
    /\ admitting \in [job : Jobs \union {None}, at : {"none", "checked", "routed"},
                      to : Workers \union {None}]
    /\ map \in [Keys -> Workers \union {None}]
    /\ retiring \subseteq Workers
    /\ pc \in [Workers -> Phases]
    /\ serves \in [Workers -> Keys \union {None}]
    /\ queue \in [Workers -> Seq(Jobs)]
    /\ job \in [Workers -> Jobs \union {None}]
    /\ closed \subseteq Workers /\ answered \subseteq Jobs
    /\ shutdown \in BOOLEAN
    /\ stage \in {"up", "draining", "forcing", "stopped"}
    /\ panics \in 0 .. MaxPanics

\* A conversation has one worker: a retiring one is not replaced before it has
\* answered what it accepted.
OneWorker ==
    \A k \in Keys : Cardinality({w \in Serving : serves[w] = k}) <= 1

\* WorkersInv: channels, slots and workers keep their types, so that what goes to a sink is
\* the answer to a job, and no conversation has two workers, of handle_submit and
\* begin_retirement.
WorkersInv == TypeOK /\ OneWorker

\* The workers that may still run something stay under the cap, whoever
\* retires, dies or is replaced.
SessionsBounded == Cardinality(Serving) <= max_concurrent_sessions

\* Messages of a conversation are answered one at a time and in the order they
\* were accepted; retirement loses none of them.
WaitingOf(k) ==
    LET W == {w \in Alive : serves[w] = k /\ queue[w] # <<>>}
    IN  IF W = {} THEN <<>> ELSE queue[CHOOSE w \in W : TRUE]
ActiveOf(k) ==
    LET W == {w \in Alive : serves[w] = k /\ job[w] # None}
    IN  IF W = {} THEN None ELSE job[CHOOSE w \in W : TRUE]
Chats == INSTANCE Conversation WITH
    NoJob <- None,
    waiting <- [k \in Keys |-> WaitingOf(k)],
    active <- [k \in Keys |-> ActiveOf(k)],
    crashes <- panics,
    stopping <- shutdown
ConversationsKept == Chats!Spec

\* If runs and deliveries end, every submitter hears a verdict, and an accepted
\* message is answered unless a worker died or the gateway was stopped.
RunsEnd == \A w \in Workers : WF_vars(process(w) \/ reply(w))
SubmitsEnd ==
    RunsEnd => \A j \in Jobs :
        j \in Submitted ~> IF ack[j] = "accepted"
                           THEN j \in answered \/ panics > 0 \/ shutdown
                           ELSE ack[j] # "none"

\* A retiring conversation comes back: its slot does not refuse messages for ever.
RetirementEnds ==
    RunsEnd => \A w \in Workers : w \in retiring ~> (w \notin retiring \/ panics > 0)

\* The gateway stops when it is told to, also when a run or a delivery hangs.
ShutdownEnds == shutdown ~> stage = "stopped"

\* Nobody waits for ever: neither a submitter, nor a conversation that retires, nor who stops it.
NobodyWaitsForEver == SubmitsEnd /\ RetirementEnds /\ ShutdownEnds
=============================================================================
