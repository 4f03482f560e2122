------------------------------ MODULE LocalApi ------------------------------
(***************************************************************************)
(* crates/dotagent/src/local_api/server.rs and the daemon's side of it     *)
(* (LocalReplyGate, LocalReplySink, DaemonLocalApiHandler in               *)
(* commands/daemon.rs): the socket clients talk to.                        *)
(*                                                                         *)
(* A connection is a reader, a writer and the bounded queue between them;  *)
(* runs that requests started send events into the queue from threads of   *)
(* their own, and such a send is cut between its looks at the shared state.*)
(* A line is one of the kinds the reader tells apart, an event             *)
(* is one byte, and whether a run is admitted is the gateway's choice.     *)
(***************************************************************************)
EXTENDS ApiBridge, FiniteSets

CONSTANTS
    Clients,           \* connections, all in the listener's backlog at first
    Requests,          \* messages that may be sent
    Lines,             \* lines a client may write, as far as the reader tells them apart
    MAX_CONNECTIONS,
    EVENT_QUEUE_SLOTS,
    MAX_EVENT_QUEUE_BYTES,
    RunEvents,         \* typing, delta and reply events of a run
    MaxRead            \* bound: lines read

ASSUME ApiAssumption ==
    /\ MAX_CONNECTIONS \in Nat \ {0} /\ EVENT_QUEUE_SLOTS \in Nat \ {0}
    /\ MAX_EVENT_QUEUE_BYTES \in Nat /\ RunEvents \in Nat \ {0} /\ MaxRead \in Nat
    /\ IsFiniteSet(Requests) /\ IsFiniteSet(Clients)
    /\ "none" \notin Requests /\ Clients \intersect {"none", "accepting", "closed"} = {}
    /\ Lines \subseteq [whole : BOOLEAN, utf8 : BOOLEAN, json : BOOLEAN, near : BOOLEAN, id : {"", "7"},
                        shape : {"string", "number", "other"}, method : {"none", "message.send",
                        "commands.list", "status.get", "unknown"}, params : {"none", "bad", "given"},
                        text : {"empty", "typed", "said", "long"}, session : {"none", "good", "bad"}]

VARIABLES
    listener,  \* the accept loop: accepting, closed, or the client it turns away
    served,    \* `live': connections counted against MAX_CONNECTIONS
    stopping,  \* the shutdown signal has been sent
    conn,      \* each connection
    req,       \* each message: its gate and the run it started
    taken      \* lines read so far

apiVars == <<listener, served, stopping, conn, req, taken>>

\* The frames that are events, and cost bytes: run.started, and typing, deltas and the reply.
ServerEvent == {"started", "event"}
Frame(kind, r) == [kind |-> kind, req |-> r]
NoFrame == Frame("none", "none")
NoConn == [client |-> "open", reader |-> "waiting", on |-> "none", writer |-> "none",
           frame |-> NoFrame, queue |-> <<>>, bytes |-> 0, poisoned |-> FALSE,
           permit |-> FALSE, got |-> <<>>]
NoReq == [from |-> "none", pc |-> "none", what |-> "none", left |-> RunEvents,
          held |-> FALSE, releasing |-> FALSE, released |-> FALSE, woken |-> FALSE]

Readers == {"waiting", "foreign", "idle", "answer", "release", "enqueue", "open", "typed",
            "draining", "ended"}
Runs == {"none", "starting", "check", "arm", "recheck", "parked", "reserve", "look", "push", "done"}

Serving(c) == conn[c].reader \notin {"waiting", "ended"}
\* Mutant: the reader keeps its sender while it waits for the writer.
HasSenderKept(c) ==
    \/ conn[c].reader \notin {"waiting", "foreign", "ended"}
    \/ \E r \in Requests : req[r].from = c /\ req[r].pc # "done"

\* EventTx clones of a connection: the reader's own and one per run.
HasSender(c) ==
    \/ conn[c].reader \notin {"waiting", "foreign", "draining", "ended"}
    \/ \E r \in Requests : req[r].from = c /\ req[r].pc # "done"

-----------------------------------------------------------------------------
(* EventTx.                                                                *)

poison_connection(k) == [k EXCEPT !.poisoned = TRUE, !.permit = TRUE]

\* The first half of send: an event over the budget costs the connection.
reserve_bytes(k) ==
    IF k.bytes + 1 > MAX_EVENT_QUEUE_BYTES THEN poison_connection(k)
    ELSE [k EXCEPT !.bytes = @ + 1]

Reserved(k) == reserve_bytes(k).bytes # k.bytes

\* try_send: full or closed.
try_send_fails(k) == k.writer = "gone" \/ Len(k.queue) = EVENT_QUEUE_SLOTS

\* The last step of send: the bytes of a frame that does not fit are given back.
Push(k, f) ==
    IF try_send_fails(k) THEN poison_connection([k EXCEPT !.bytes = @ - 1])
    ELSE [k EXCEPT !.queue = Append(@, f)]

\* A send of the reader's own.  The second look at `poisoned' is for the runs' threads.
send(k, f) ==
    IF k.poisoned THEN k
    ELSE IF Reserved(k) THEN Push(reserve_bytes(k), f)
    ELSE reserve_bytes(k)

\* send_response: never blocks, and costs no bytes.
Queued(k) == ~k.poisoned /\ ~try_send_fails(k)
send_response(k, f) ==
    IF k.poisoned THEN k
    ELSE IF try_send_fails(k) THEN poison_connection(k)
    ELSE [k EXCEPT !.queue = Append(@, f)]

\* Mutant: the writer is woken to close, with the answer still queued.
send_response_and_poison(k) ==
    IF k.poisoned THEN k
    ELSE IF try_send_fails(k) THEN poison_connection(k)
    ELSE poison_connection([k EXCEPT !.queue = Append(@, Frame("closing", "none"))])

\* The frame itself closes; later events find the connection closed.
send_response_and_close(k) ==
    IF k.poisoned THEN k
    ELSE IF try_send_fails(k) THEN poison_connection(k)
    ELSE [k EXCEPT !.queue = Append(@, Frame("closing", "none")), !.poisoned = TRUE]

-----------------------------------------------------------------------------
(* The accept loop.                                                        *)

ApiInit ==
    /\ listener = "accepting" /\ served = 0 /\ stopping = FALSE /\ taken = 0
    /\ conn = [c \in Clients |-> NoConn]
    /\ req = [r \in Requests |-> NoReq]

\* run_bound: a client over the cap is turned away in the loop itself.
run_bound(c, foreign) ==
    /\ listener = "accepting" /\ conn[c].reader = "waiting"
    /\ IF served >= MAX_CONNECTIONS
       THEN listener' = c /\ UNCHANGED <<served, conn>>
       ELSE /\ served' = served + 1
            /\ conn' = [conn EXCEPT ![c].reader = IF foreign THEN "foreign" ELSE "idle",
                                    ![c].writer = IF foreign THEN "none" ELSE "waiting"]
            /\ UNCHANGED listener
    /\ UNCHANGED <<stopping, req, taken>>

reject_overflow ==
    /\ listener \in Clients
    /\ conn' = [conn EXCEPT ![listener].reader = "ended"]
    /\ listener' = "accepting"
    /\ UNCHANGED <<served, stopping, req, taken>>

\* Another user's process is told so.
reject_peer(c) ==
    /\ conn[c].reader = "foreign"
    /\ conn' = [conn EXCEPT ![c].reader = "ended"]
    /\ served' = served - 1
    /\ UNCHANGED <<listener, stopping, req, taken>>

Shutdown ==
    /\ ~stopping
    /\ stopping' = TRUE
    /\ UNCHANGED <<listener, served, conn, req, taken>>

\* The socket is removed; who still waits in the backlog is disconnected.
CloseSocket ==
    /\ stopping /\ listener = "accepting"
    /\ listener' = "closed"
    /\ conn' = [c \in Clients |-> IF conn[c].reader = "waiting"
                                  THEN [conn[c] EXCEPT !.reader = "ended"] ELSE conn[c]]
    /\ UNCHANGED <<served, stopping, req, taken>>

-----------------------------------------------------------------------------
(* What the reader makes of a line.  l.whole: it is no longer than MAX_LINE_BYTES; l.near: it holds  *)
(* a complete top-level id, although it is cut off or no JSON; l.shape: the JSON type of the id.     *)

err(id, code) == [id |-> id, code |-> code]
ok(id) == err(id, "ok")

\* Strings and numbers are ids, echoed as strings; anything else is no id.
deserialize_id(l) == l.shape \in {"string", "number"}
salvage_id(l) == IF deserialize_id(l) THEN l.id ELSE ""

\* A number in a line that is no JSON is read and then asked for its field `id', which it lacks.
salvage_id_from_bytes(l) ==
    IF ~l.utf8 THEN ""
    ELSE IF l.json THEN salvage_id(l)
    ELSE IF l.near /\ l.shape = "string" THEN l.id ELSE ""

parse_request(l) ==
    IF ~l.json THEN err(salvage_id_from_bytes(l), "invalid_request")
    ELSE IF ~deserialize_id(l) \/ l.method = "none" THEN err(salvage_id(l), "invalid_request")
    ELSE ok(l.id)

\* The session that none names is "default".
effective_session_id(l) == IF l.session = "none" THEN "good" ELSE l.session

validate(l) ==
    IF l.text \in {"empty", "long"} THEN "invalid_request"
    ELSE IF effective_session_id(l) = "bad" THEN "session_id_invalid" ELSE "ok"

\* dispatch, short of what the handler of message.send says.
dispatch(l) ==
    CASE l.method = "message.send" /\ l.params # "given" -> err(l.id, "invalid_request")
      [] l.method = "message.send" /\ l.params = "given" /\ validate(l) # "ok" -> err(l.id, validate(l))
      [] l.method = "message.send" /\ l.params = "given" /\ validate(l) = "ok" -> err(l.id, "handler")
      [] l.method \in {"commands.list", "status.get"} -> ok(l.id)
      [] OTHER -> err(l.id, "invalid_request")

\* The gateway's refusals, as the client hears of them.
SubmitRejected == {"RateLimited", "InvalidSessionId", "CapExceeded", "QueueFull", "Unavailable"}
local_submit_error(s) ==
    CASE s = "RateLimited" -> "rate_limited" [] s = "InvalidSessionId" -> "session_id_invalid"
      [] OTHER -> "internal"

\* One line, in the order of the loop: the quota, the length, the encoding, the request.
Verdict(l, over) ==
    CASE over -> err(salvage_id_from_bytes(l), "rate_limited")
      [] ~over /\ (~l.whole \/ ~l.utf8) -> err(salvage_id_from_bytes(l), "invalid_request")
      [] ~over /\ l.whole /\ l.utf8 /\ parse_request(l).code # "ok" -> parse_request(l)
      [] OTHER -> dispatch(l)

Responses(l, over) ==
    LET v == Verdict(l, over)
    IN  IF v.code = "handler" THEN {ok(v.id)} \union {err(v.id, local_submit_error(s)) : s \in SubmitRejected}
        ELSE {v}

\* A line that reaches handle_message.
Sends(l) == l.whole /\ Verdict(l, FALSE).code = "handler"

-----------------------------------------------------------------------------
(* serve_connection_with_peer.                                             *)

Reading(c) == conn[c].reader = "idle" /\ conn[c].writer # "gone" /\ ~stopping

\* A line that gets its response at once: an error (the gateway's refusal among them), or
\* the answer to commands.list or status.get.
ReadPlain(c, l, over) ==
    /\ Reading(c) /\ conn[c].client = "open" /\ taken < MaxRead
    /\ l.whole /\ \E a \in Responses(l, over) : a.code # "ok" \/ ~Sends(l)
    /\ taken' = taken + 1
    /\ conn' = [conn EXCEPT ![c] = [send_response(@, Frame("response", "none")) EXCEPT
                                      !.reader = IF Queued(conn[c]) THEN "idle" ELSE "draining"]]
    /\ UNCHANGED <<listener, served, stopping, req>>

\* Whatever else is wrong with it, a line that is too long ends the connection.
ReadOversized(c, l) ==
    /\ Reading(c) /\ conn[c].client = "open" /\ taken < MaxRead
    /\ ~l.whole
    /\ taken' = taken + 1
    /\ conn' = [conn EXCEPT ![c] = [send_response_and_close(@) EXCEPT !.reader = "draining"]]
    /\ UNCHANGED <<listener, served, stopping, req>>

\* handle_message: the gateway admits the trigger with a sink and a closed gate.
handle_message(c, r, l) ==
    /\ Reading(c) /\ conn[c].client = "open" /\ taken < MaxRead
    /\ Sends(l) /\ l.text = "said"
    /\ req[r].from = "none"
    /\ taken' = taken + 1
    /\ req' = [req EXCEPT ![r].from = c, ![r].pc = "starting"]
    /\ conn' = [conn EXCEPT ![c].reader = "answer", ![c].on = r]
    /\ UNCHANGED <<listener, served, stopping>>

\* handle_message of a typed command: its output is an event, sent before the
\* response.  No run, no gate.
ReadTyped(c, l) ==
    /\ Reading(c) /\ conn[c].client = "open" /\ taken < MaxRead
    /\ Sends(l) /\ l.text = "typed"
    /\ taken' = taken + 1
    /\ conn' = [conn EXCEPT ![c].reader = "typed"]
    /\ UNCHANGED <<listener, served, stopping, req>>

TypedAnswer(c) ==
    LET k == send(conn[c], Frame("event", "none"))
    IN  /\ conn[c].reader = "typed"
        /\ conn' = [conn EXCEPT ![c] = [send_response(k, Frame("response", "none")) EXCEPT
                                          !.reader = IF Queued(k) THEN "idle" ELSE "draining"]]
        /\ UNCHANGED <<listener, served, stopping, req, taken>>

\* notify_waiters: wakes who has called notified() and not who is about to.
Notified(q) == [q EXCEPT !.woken = q.pc \in {"recheck", "parked"}]

\* LocalReplyGate::cancel.
cancel(q) == Notified([q EXCEPT !.held = FALSE, !.releasing = FALSE, !.released = TRUE])

\* send_response_after and the hook: release if the response was queued, else cancel.
send_response_after(c) ==
    LET r == conn[c].on
        queued == Queued(conn[c])
    IN  /\ conn[c].reader = "answer"
        /\ conn' = [conn EXCEPT ![c] = [send_response(@, Frame("accepted", r)) EXCEPT
                                          !.reader = IF queued THEN "release" ELSE "draining",
                                          !.on = IF queued THEN r ELSE "none"]]
        /\ req' = [req EXCEPT ![r] = IF queued THEN @ ELSE cancel(@)]
        /\ UNCHANGED <<listener, served, stopping, taken>>

\* Mutant: the gate is open while the held event is on its way.
release_first(c) ==
    LET r == conn[c].on
    IN  /\ conn[c].reader = "release"
        /\ req' = [req EXCEPT ![r] = Notified([@ EXCEPT !.released = TRUE, !.held = FALSE])]
        /\ conn' = [conn EXCEPT ![c].reader = IF req[r].held THEN "enqueue" ELSE "open"]
        /\ UNCHANGED <<listener, served, stopping, taken>>

\* LocalReplyGate::release, up to the call of enqueue_started.
release(c) ==
    LET r == conn[c].on
    IN  /\ conn[c].reader = "release"
        /\ req' = [req EXCEPT ![r].releasing = TRUE, ![r].held = FALSE]
        /\ conn' = [conn EXCEPT ![c].reader = IF req[r].held THEN "enqueue" ELSE "open"]
        /\ UNCHANGED <<listener, served, stopping, taken>>

enqueue_started(c) ==
    /\ conn[c].reader = "enqueue"
    /\ conn' = [conn EXCEPT ![c] = [send(@, Frame("started", conn[c].on)) EXCEPT !.reader = "open"]]
    /\ UNCHANGED <<listener, served, stopping, req, taken>>

\* The rest of release, whether or not the event was queued.
OpenGate(c) ==
    LET r == conn[c].on
    IN  /\ conn[c].reader = "open"
        /\ req' = [req EXCEPT ![r] = Notified([@ EXCEPT !.releasing = FALSE, !.released = TRUE])]
        /\ conn' = [conn EXCEPT ![c].reader = "idle", ![c].on = "none"]
        /\ UNCHANGED <<listener, served, stopping, taken>>

\* The writer has ended, the daemon stops, or the input is at its end: a half-closed
\* client still gets what its runs produce.
LeaveLoop(c) ==
    /\ conn[c].reader = "idle"
    /\ conn[c].writer = "gone" \/ stopping \/ conn[c].client \in {"halfclosed", "gone"}
    /\ conn' = [conn EXCEPT ![c].reader = "draining"]
    /\ UNCHANGED <<listener, served, stopping, req, taken>>

\* A read error: the client is gone for good.
ReadError(c) ==
    /\ Reading(c) /\ conn[c].client = "gone"
    /\ conn' = [conn EXCEPT ![c] = [poison_connection(@) EXCEPT !.reader = "draining"]]
    /\ UNCHANGED <<listener, served, stopping, req, taken>>

\* What is left of a connection: its queue is closed, whatever a run still sends.
Ended == [NoConn EXCEPT !.reader = "ended", !.writer = "gone", !.poisoned = TRUE]

\* writer.await, and the slot is free.
Disconnect(c) ==
    /\ conn[c].reader = "draining" /\ conn[c].writer = "gone"
    /\ conn' = [conn EXCEPT ![c] = Ended]
    /\ served' = served - 1
    /\ UNCHANGED <<listener, stopping, req, taken>>

-----------------------------------------------------------------------------
(* write_frames.                                                           *)

WriterEnds(k) == [k EXCEPT !.writer = "gone", !.queue = <<>>, !.frame = NoFrame, !.got = <<>>,
                           !.permit = FALSE]

TakeFrame(c) ==
    /\ conn[c].writer = "waiting" /\ conn[c].queue # <<>>
    /\ conn' = [conn EXCEPT ![c].frame = Head(conn[c].queue), ![c].queue = Tail(@),
                            ![c].writer = "writing"]
    /\ UNCHANGED <<listener, served, stopping, req, taken>>

\* Shutdown, poison, or a channel that is empty and has no sender.  The select
\* is fair: any of those that are ready may win over a frame.
WriterStops(c) ==
    /\ conn[c].writer = "waiting"
    /\ stopping \/ conn[c].permit \/ (conn[c].queue = <<>> /\ ~HasSender(c))
    /\ conn' = [conn EXCEPT ![c] = WriterEnds(@)]
    /\ UNCHANGED <<listener, served, stopping, req, taken>>

Written(c) ==
    LET k == [conn[c] EXCEPT !.got = IF conn[c].frame.req = "none" THEN @
                                       ELSE Append(@, conn[c].frame),
                             !.frame = NoFrame, !.writer = "waiting",
                             !.bytes = IF conn[c].frame.kind \in ServerEvent
                                       THEN @ - 1 ELSE @]
    IN  /\ conn[c].writer = "writing" /\ conn[c].client \in {"open", "halfclosed"}
        /\ conn' = [conn EXCEPT ![c] = IF conn[c].frame.kind = "closing" THEN WriterEnds(k)
                                       ELSE k]
        /\ UNCHANGED <<listener, served, stopping, req, taken>>

\* The client is gone, or has not read for write_timeout.
WriteFailed(c) ==
    /\ conn[c].writer = "writing" /\ conn[c].client \in {"stalled", "gone"}
    /\ conn' = [conn EXCEPT ![c] = WriterEnds(@)]
    /\ UNCHANGED <<listener, served, stopping, req, taken>>

-----------------------------------------------------------------------------
(* A run: LocalReplySink on the gateway's threads.                         *)

\* started, and LocalReplyGate::defer_started.
defer_started(r) ==
    /\ req[r].pc = "starting"
    /\ req' = [req EXCEPT ![r] =
                 IF @.released \/ @.releasing THEN [@ EXCEPT !.pc = "reserve", !.what = "started"]
                 ELSE [@ EXCEPT !.held = TRUE, !.pc = "check"]]
    /\ UNCHANGED <<listener, served, stopping, conn, taken>>

ToSend(q) == [q EXCEPT !.pc = "reserve", !.what = "event"]

\* LocalReplyGate::wait: look, register, look again, sleep.
WaitCheck(r) ==
    /\ req[r].pc = "check"
    /\ req' = [req EXCEPT ![r] = IF @.released THEN ToSend(@) ELSE [@ EXCEPT !.pc = "arm"]]
    /\ UNCHANGED <<listener, served, stopping, conn, taken>>

WaitArm(r) ==
    /\ req[r].pc = "arm"
    /\ req' = [req EXCEPT ![r].pc = "recheck", ![r].woken = FALSE]
    /\ UNCHANGED <<listener, served, stopping, conn, taken>>

WaitRecheck(r) ==
    /\ req[r].pc = "recheck"
    /\ req' = [req EXCEPT ![r] = IF @.released THEN ToSend(@) ELSE [@ EXCEPT !.pc = "parked"]]
    /\ UNCHANGED <<listener, served, stopping, conn, taken>>

WaitWoken(r) ==
    /\ req[r].pc = "parked" /\ req[r].woken
    /\ req' = [req EXCEPT ![r].pc = "check"]
    /\ UNCHANGED <<listener, served, stopping, conn, taken>>

\* After an event: the next one, or the end of the run and of its sink.
Sent(q) ==
    IF q.what = "started" THEN [q EXCEPT !.pc = "check"]
    ELSE [q EXCEPT !.left = @ - 1, !.pc = IF q.left = 1 THEN "done" ELSE "check"]

RunReserve(r) ==
    LET c == req[r].from
        k == conn[c]
    IN  /\ req[r].pc = "reserve"
        /\ conn' = [conn EXCEPT ![c] = IF k.poisoned THEN @ ELSE reserve_bytes(@)]
        /\ req' = [req EXCEPT ![r] = IF ~k.poisoned /\ Reserved(k) THEN [@ EXCEPT !.pc = "look"]
                                     ELSE Sent(@)]
        /\ UNCHANGED <<listener, served, stopping, taken>>

\* The second look at `poisoned'.
RunLook(r) ==
    LET c == req[r].from
    IN  /\ req[r].pc = "look"
        /\ conn' = [conn EXCEPT ![c].bytes = IF conn[c].poisoned THEN @ - 1 ELSE @]
        /\ req' = [req EXCEPT ![r] = IF conn[c].poisoned THEN Sent(@) ELSE [@ EXCEPT !.pc = "push"]]
        /\ UNCHANGED <<listener, served, stopping, taken>>

RunPush(r) ==
    LET c == req[r].from
    IN  /\ req[r].pc = "push"
        /\ conn' = [conn EXCEPT ![c] = Push(@, Frame(req[r].what, r))]
        /\ req' = [req EXCEPT ![r] = Sent(@)]
        /\ UNCHANGED <<listener, served, stopping, taken>>

-----------------------------------------------------------------------------
(* The client: it may stop writing, stop reading, or die.                  *)

ClientTurns(c, how) ==
    /\ conn[c].writer \in {"waiting", "writing"}
    /\ <<conn[c].client, how>> \in {<<"open", "halfclosed">>, <<"open", "stalled">>,
                                    <<"open", "gone">>, <<"halfclosed", "gone">>}
    /\ conn' = [conn EXCEPT ![c].client = how]
    /\ UNCHANGED <<listener, served, stopping, req, taken>>

ReaderStep(c) ==
    \/ send_response_after(c) \/ release(c) \/ enqueue_started(c) \/ OpenGate(c)
    \/ TypedAnswer(c) \/ LeaveLoop(c) \/ Disconnect(c) \/ reject_peer(c)

WriterStep(c) == TakeFrame(c) \/ WriterStops(c) \/ Written(c) \/ WriteFailed(c)

RunStep(r) ==
    \/ defer_started(r) \/ WaitCheck(r) \/ WaitArm(r) \/ WaitRecheck(r) \/ WaitWoken(r)
    \/ RunReserve(r) \/ RunLook(r) \/ RunPush(r)

ApiNext ==
    \/ \E c \in Clients :
          \/ \E l \in Lines :
                \/ ReadOversized(c, l) \/ ReadTyped(c, l)
                \/ \E over \in BOOLEAN : ReadPlain(c, l, over)
                \/ \E r \in Requests : handle_message(c, r, l)
          \/ ReadError(c)
          \/ \E foreign \in BOOLEAN : run_bound(c, foreign)
          \/ ReaderStep(c) \/ WriterStep(c)
          \/ \E how \in {"halfclosed", "stalled", "gone"} : ClientTurns(c, how)
    \/ \E r \in Requests : RunStep(r)
    \/ reject_overflow \/ Shutdown \/ CloseSocket

ApiSpec == ApiInit /\ [][ApiNext]_apiVars

\* Tasks are polled; a write ends, fails or runs into its timeout.
ApiFairness ==
    /\ \A c \in Clients : WF_apiVars(ReaderStep(c)) /\ WF_apiVars(WriterStep(c))
    /\ \A r \in Requests : WF_apiVars(RunStep(r))

-----------------------------------------------------------------------------
(* Properties.                                                             *)

ApiTypeOK ==
    /\ listener \in {"accepting", "closed"} \union Clients
    /\ served \in 0 .. Cardinality(Clients) /\ stopping \in BOOLEAN /\ taken \in 0 .. MaxRead
    /\ \A c \in Clients : /\ conn[c].reader \in Readers
                          /\ conn[c].writer \in {"none", "waiting", "writing", "gone"}
                          /\ conn[c].client \in {"open", "halfclosed", "stalled", "gone"}
                          /\ Len(conn[c].queue) <= EVENT_QUEUE_SLOTS
    /\ \A r \in Requests : req[r].pc \in Runs /\ req[r].left \in 0 .. RunEvents

\* All the client got (what answers no message left out), gets and is going to get.
Stream(c) ==
    conn[c].got \o (IF conn[c].frame = NoFrame THEN <<>> ELSE <<conn[c].frame>>) \o conn[c].queue

\* A client that is told of a run was told before that its message was accepted, and sees
\* run.started before anything of the run, whatever the threads of the reader, the gateway and the
\* run do (LocalReplyGate, send_response_after).
AcceptedFirst ==
    \A c \in Clients :
        LET s == Stream(c)
        IN  \A j \in DOMAIN s :
                s[j].req # "none" =>
                   /\ s[j].kind # "accepted" => \E i \in 1 .. j - 1 : s[i] = Frame("accepted", s[j].req)
                   /\ s[j].kind = "event" => \E i \in 1 .. j - 1 : s[i] = Frame("started", s[j].req)

\* While the writer lives, the bytes on account are those of the events queued, being written, or
\* about to be queued: none is lost on an error path, so a client that keeps up is never
\* disconnected for a debt it does not have (reserve_bytes, send, write_frames).
BytesAreQueued ==
    \A c \in Clients :
        LET k == conn[c]
            s == k.queue \o (IF k.frame = NoFrame THEN <<>> ELSE <<k.frame>>)
            inflight == Cardinality({r \in Requests : req[r].from = c /\ req[r].pc \in {"look", "push"}})
        IN  k.writer \in {"waiting", "writing"} =>
                /\ k.bytes = inflight + Cardinality({i \in DOMAIN s : s[i].kind \in ServerEvent})
                /\ k.bytes <= MAX_EVENT_QUEUE_BYTES

\* A slot is held by exactly the connections that are served, and there are never more of those
\* than MAX_CONNECTIONS (run_bound).
SlotsAreConnections ==
    /\ served = Cardinality({c \in Clients : Serving(c)})
    /\ served <= MAX_CONNECTIONS

\* A client finds the request an answer belongs to, whichever check refused it: the id does not
\* depend on whether the quota or the parser spoke first, it is the request's own when the line is
\* JSON with an id, and never that of anything else.  And a line that nobody validated starts no run
\* (salvage_id, parse_request, dispatch).
AnswersFindTheirRequest ==
    \A l \in Lines :
        /\ \A over \in BOOLEAN : \A a \in Responses(l, over) :
              /\ a.id \in {l.id, ""} /\ a.id = Verdict(l, TRUE).id
              /\ l.utf8 /\ l.json /\ deserialize_id(l) => a.id = l.id
        /\ Sends(l) => l.utf8 /\ l.json /\ l.text \in {"typed", "said"} /\ l.session # "bad"

\* ApiInv: AcceptedFirst, BytesAreQueued, SlotsAreConnections and AnswersFindTheirRequest, of server.rs
\* and LocalReplyGate, and BridgeCarries of the client's end, `dotagent api'.
ApiInv ==
    /\ ApiTypeOK /\ AcceptedFirst /\ BytesAreQueued /\ SlotsAreConnections /\ AnswersFindTheirRequest
    /\ BridgeCarries

\* The answer that ends a connection is not cut off by the events of runs that earlier requests
\* started: once it is queued the writer is told to drop the client only by a sender that met a
\* full queue (send_response_and_close, EventTx::send).
LastWordIsHeard ==
    [][\A c \in Clients :
          LET closing == \E i \in DOMAIN conn'[c].queue : conn'[c].queue[i].kind = "closing"
          IN  (closing /\ conn'[c].permit /\ ~conn[c].permit)
                  => Len(conn'[c].queue) = EVENT_QUEUE_SLOTS]_apiVars

\* Whatever a client does, nothing is held for ever.  A run that was admitted ends: it is never left
\* waiting at its gate, whether the response was queued, the client had gone, or the queue was full
\* (LocalReplyGate::wait, cancel).  And whoever hangs up gives its slot back once the runs it started
\* are over, as does everybody when the daemon stops (serve_connection_with_peer).
NothingIsHeldForever ==
    []<>(/\ \A r \in Requests : req[r].pc \in {"none", "done"}
         /\ \A c \in Clients : Serving(c) => ~stopping /\ conn[c].client \notin {"halfclosed", "gone"})
=============================================================================
