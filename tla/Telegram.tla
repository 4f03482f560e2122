------------------------------ MODULE Telegram ------------------------------
(***************************************************************************)
(* The Telegram ingress: Poller of dotagent-notify/src/telegram_inbound.rs, *)
(* spawn_telegram_ingress and screen_with_store of commands/daemon.rs, the  *)
(* parked commands of os_exec.rs and the binding of answers to threads of   *)
(* gateway/sink.rs.                                                         *)
(*                                                                          *)
(* A post is a message in a chat, of a user or of the bot; its index is its *)
(* message id and, for a user's, its update id.  A text is a sequence of    *)
(* tokens, empty where there is nothing to extract (a sticker).  The [os]   *)
(* section is read from disk for every line and may be edited meanwhile.    *)
(***************************************************************************)
EXTENDS Integers, FiniteSets, OsPolicy

CONSTANTS
    Stories,      \* what users send, in order: sequences of [user, chat, text]
    Installed,    \* names of the installed commands
    Policies,     \* what the [os] section says, one edit after the other
    Owners,       \* allowed_user_ids
    OpenChats,    \* open_chat_ids
    GroupChats,   \* chats of type group or supergroup
    per_minute,   \* rate_limit_per_minute, in one unit of the clock
    ttl,          \* confirm_ttl_seconds
    MaxNow,       \* bound: the clock
    MaxStops,     \* bound: reloads, crashes and edits
    MaxLosses     \* bound: offsets and bindings that cannot be written

ASSUME TelegramAssumption ==
    /\ \A s \in Stories : s \in Seq([user : STRING \ {"bot"}, chat : STRING \ {"none"}, text : Seq(STRING)])
    /\ OpenChats \subseteq GroupChats
    /\ per_minute \in Nat /\ ttl \in Nat /\ MaxNow \in Nat /\ MaxStops \in Nat /\ MaxLosses \in Nat
    /\ Policies # <<>>
    /\ Policies \in Seq([enabled : BOOLEAN, allow : SUBSET Seq(STRING), deny : SUBSET Seq(STRING),
                         confirm : SUBSET Seq(STRING)])

VARIABLES
    story,     \* what is still to be sent
    posts,     \* all messages
    now,       \* the clock
    policy,    \* how often the [os] section was edited
    offset,    \* Poller's offset, in memory
    saved,     \* and in its file
    batch,     \* messages that were fetched and wait, to be handled in their order
    poster,    \* the answer the ingress is about to post: to which message
    hits,      \* RateLimiter: messages let through, and when
    thread,    \* ThreadSessionStore: message |-> conversation
    parked,    \* CONFIRMATIONS: conversation |-> the command that waits, and since when
    runs,      \* triggers in the gateway: message, conversation, and the answer once posted
    session,   \* history: the conversation each message was put in
    acted,     \* history: how often each message was acted upon
    released,  \* history: the commands that ran, and the message that made them
    stops, losses,
    unsaved    \* history: an offset could not be written

tgVars == <<story, posts, now, policy, offset, saved, batch, poster, hits, thread, parked, runs, session, acted,
            released, stops, losses, unsaved>>

Bot == "bot"
Post(user, chat, text, reply) == [user |-> user, chat |-> chat, text |-> text, reply |-> reply]
Users == {i \in DOMAIN posts : posts[i].user # Bot}
NoSession == <<"none", 0>>
Forget(f, k) == [x \in DOMAIN f \ {k} |-> f[x]]
Bind(f, k, v) == [x \in DOMAIN f \union {k} |-> IF x = k THEN v ELSE f[x]]

-----------------------------------------------------------------------------
(* The world.                                                              *)

TgInit ==
    /\ story \in Stories
    /\ posts = <<>> /\ now = 0 /\ policy = 1 /\ offset = 0 /\ saved = 0 /\ batch = {} /\ poster = 0 /\ hits = {}
    /\ thread = <<>> /\ parked = <<>> /\ runs = {} /\ session = <<>> /\ acted = <<>>
    /\ released = {} /\ stops = 0 /\ losses = 0 /\ unsaved = FALSE

\* A user posts, in a group perhaps as a reply.
UserPosts(reply) ==
    /\ story # <<>>
    /\ reply # 0 => Head(story).chat \in GroupChats /\ posts[reply].chat = Head(story).chat
    /\ posts' = Append(posts, Post(Head(story).user, Head(story).chat, Head(story).text, reply))
    /\ story' = Tail(story)
    /\ session' = Append(session, NoSession)
    /\ acted' = Append(acted, 0)
    /\ UNCHANGED <<now, policy, offset, saved, batch, poster, hits, thread, parked, runs, released, stops, losses,
                   unsaved>>

\* Bound: only while something is parked.
TimePasses ==
    /\ now < MaxNow /\ parked # <<>>
    /\ now' = now + 1
    /\ UNCHANGED <<story, posts, policy, offset, saved, batch, poster, hits, thread, parked, runs, session, acted,
                   released, stops, losses, unsaved>>

\* The operator edits config.toml.  Bound: while something is parked, and instead of a reload or a crash.
EditPolicy ==
    /\ policy < Len(Policies) /\ parked # <<>> /\ stops < MaxStops
    /\ policy' = policy + 1
    /\ stops' = stops + 1
    /\ UNCHANGED <<story, posts, now, offset, saved, batch, poster, hits, thread, parked, runs, session, acted,
                   released, losses, unsaved>>

Say(chat, reply) ==
    /\ posts' = Append(posts, Post(Bot, chat, <<"answer">>, reply))
    /\ session' = Append(session, NoSession)
    /\ acted' = Append(acted, 0)

-----------------------------------------------------------------------------
(* Poller::poll.                                                           *)

extract(ids) == {i \in ids : posts[i].text # <<>>}

Updates == {i \in Users : i >= offset}

\* Mutant: the offset is that of the last message that could be read.
poll_extracted(written) ==
    LET ids == Updates
        readable == extract(ids)
        next == IF readable = {} THEN offset ELSE Max(readable) + 1
    IN  /\ batch = {} /\ poster = 0 /\ ids # {}
        /\ written \/ losses < MaxLosses
        /\ offset' = next
        /\ saved' = IF written THEN next ELSE saved
        /\ losses' = IF written THEN losses ELSE losses + 1
        /\ unsaved' = (unsaved \/ ~written)
        /\ batch' = readable
        /\ UNCHANGED <<story, posts, now, policy, poster, hits, thread, parked, runs, session, acted, released,
                       stops>>

\* The offset moves past the whole batch and is persisted before any of it is handled.
poll(written) ==
    LET ids == Updates
        next == Max(ids) + 1
    IN  /\ batch = {} /\ poster = 0 /\ ids # {}
        /\ written \/ losses < MaxLosses
        /\ offset' = next
        /\ saved' = IF written THEN next ELSE saved
        /\ losses' = IF written THEN losses ELSE losses + 1
        /\ unsaved' = (unsaved \/ ~written)
        /\ batch' = extract(ids)
        /\ UNCHANGED <<story, posts, now, policy, poster, hits, thread, parked, runs, session, acted, released,
                       stops>>

-----------------------------------------------------------------------------
(* screen_with_store.                                                      *)

is_group_chat(chat) == chat \in GroupChats
Owner(i) == posts[i].user \in Owners
Admitted(i) == Owner(i) \/ posts[i].chat \in OpenChats

\* A direct chat is one conversation; a reply joins the one it answers.
session_key(i) ==
    LET p == posts[i]
    IN  IF ~is_group_chat(p.chat) THEN <<p.chat, 0>>
        ELSE IF p.reply \in DOMAIN thread THEN thread[p.reply]
        ELSE <<p.chat, i>>

config == Policies[policy]
is_confirmation(text) == text = <<"!!">>

\* The command of a `!' line; a bare `!' is none.
parse_bang(text) == IF text[1] = "!" THEN Tail(text) ELSE <<>>
parse_invocation(text) == IF text[1] = "/" THEN Tail(text) ELSE <<>>

\* What becomes of a text, in the order of the questions.
Kind(text) ==
    IF is_confirmation(text) THEN "Confirm"
    ELSE IF parse_bang(text) # <<>> THEN "Bang"
    ELSE IF parse_invocation(text) = <<>> \/ parse_invocation(text)[1] \in Installed THEN "Run"
    ELSE IF parse_invocation(text)[1] \in {"novo", "new"} THEN "Reset" ELSE "Answer"
Says(i) == Kind(posts[i].text)
Asked(i) == parse_bang(posts[i].text)

\* Typed commands are the owners' even in an open chat.
Acts(i) == Says(i) \in {"Confirm", "Bang"} => Owner(i)

\* RateLimiter::check, before it records the message.
Limited(i) ==
    Cardinality({h \in hits : posts[h.msg].user = posts[i].user /\ h.at = now}) >= per_minute

\* Refused: not allowed, or over its rate.
Reject ==
    /\ batch # {} /\ poster = 0
    /\ ~(Admitted(Min(batch)) /\ ~Limited(Min(batch)))
    /\ batch' = batch \ {Min(batch)}
    /\ UNCHANGED <<story, posts, now, policy, offset, saved, poster, hits, thread, parked, runs, session, acted,
                   released, stops, losses, unsaved>>

\* A message that gets past is bound to its conversation (if the table can be written) before
\* anything acts.
Screened(i, bound) ==
    /\ batch # {} /\ poster = 0 /\ i = Min(batch)
    /\ Admitted(i) /\ ~Limited(i)
    /\ hits' = hits \union {[msg |-> i, at |-> now]}
    /\ bound \/ (is_group_chat(posts[i].chat) /\ losses < MaxLosses)
    /\ batch' = batch \ {i}
    /\ session' = [session EXCEPT ![i] = session_key(i)]
    /\ thread' = IF is_group_chat(posts[i].chat) /\ bound THEN Bind(thread, i, session_key(i))
                 ELSE thread
    /\ losses' = IF bound THEN losses ELSE losses + 1
    /\ UNCHANGED <<story, posts, now, policy, offset, saved, stops, unsaved>>

NotOwner(i, bound) ==
    /\ Screened(i, bound) /\ ~Acts(i)
    /\ UNCHANGED <<poster, parked, runs, acted, released>>

Ran(cmd, by, since) == released \union {[cmd |-> cmd, by |-> by, waited |-> now - since, policy |-> policy]}

\* What needs a yes waits for one of its own conversation, in the place of any other; what is allowed runs.
handle_typed_command(i, bound) ==
    LET verdict == decide(config, Asked(i))
    IN  /\ Screened(i, bound) /\ Acts(i) /\ Says(i) = "Bang"
        /\ parked' = IF verdict = "Confirm" THEN Bind(parked, session_key(i), [cmd |-> i, at |-> now]) ELSE parked
        /\ released' = IF verdict = "Allow" THEN Ran(i, i, now) ELSE released
        /\ acted' = [acted EXCEPT ![i] = @ + 1]
        /\ poster' = i
        /\ UNCHANGED runs

\* Confirmations::take removes what it finds, unless it has aged out.
take(s) == parked' = Forget(parked, s)
Fresh(s) == s \in DOMAIN parked /\ now - parked[s].at <= ttl

\* Mutant: what was confirmed runs, whatever the file says by now.
handle_confirmation_blindly(i, bound) ==
    LET s == session_key(i)
    IN  /\ Screened(i, bound) /\ Acts(i) /\ Says(i) = "Confirm"
        /\ take(s)
        /\ released' = IF Fresh(s) THEN Ran(parked[s].cmd, i, parked[s].at) ELSE released
        /\ acted' = [acted EXCEPT ![i] = @ + 1]
        /\ poster' = i
        /\ UNCHANGED runs

handle_confirmation(i, bound) ==
    LET s == session_key(i)
    IN  /\ Screened(i, bound) /\ Acts(i) /\ Says(i) = "Confirm"
        /\ take(s)
        /\ released' = IF Fresh(s) /\ run_allowed(config, Asked(parked[s].cmd))
                       THEN Ran(parked[s].cmd, i, parked[s].at) ELSE released
        /\ acted' = [acted EXCEPT ![i] = @ + 1]
        /\ poster' = i
        /\ UNCHANGED runs

\* Answered at once: help, an unknown command, a reset (whose work is Assistant's reset_conversation).
Answer(i, bound) ==
    /\ Screened(i, bound) /\ Says(i) \in {"Answer", "Reset"}
    /\ acted' = [acted EXCEPT ![i] = @ + 1]
    /\ poster' = i
    /\ UNCHANGED <<parked, runs, released>>

\* A trigger for the gateway, which may refuse it.
Run(i, bound, accepted) ==
    /\ Screened(i, bound) /\ Says(i) = "Run"
    /\ runs' = IF accepted THEN runs \union {[msg |-> i, session |-> session_key(i), answer |-> 0]}
               ELSE runs
    /\ acted' = [acted EXCEPT ![i] = IF accepted THEN @ + 1 ELSE @]
    /\ poster' = IF accepted THEN 0 ELSE i
    /\ UNCHANGED <<parked, released>>

\* The loop's own answers are posted and forgotten.
PostAnswer ==
    /\ poster # 0
    /\ Say(posts[poster].chat, poster)
    /\ poster' = 0
    /\ UNCHANGED <<story, now, policy, offset, saved, batch, hits, thread, parked, runs, released, stops, losses, unsaved>>

-----------------------------------------------------------------------------
(* TelegramSink::reply, on a worker of the gateway.                        *)

SinkPosts(r) ==
    /\ r \in runs /\ r.answer = 0
    /\ Say(posts[r.msg].chat, r.msg)
    /\ runs' = (runs \ {r}) \union {[r EXCEPT !.answer = Len(posts) + 1]}
    /\ UNCHANGED <<story, now, policy, offset, saved, batch, poster, hits, thread, parked, released, stops, losses, unsaved>>

\* In a group the answer anchors the thread: its id is known only when it has been posted.
SinkBinds(r, bound) ==
    /\ r \in runs /\ r.answer # 0
    /\ bound \/ (is_group_chat(posts[r.msg].chat) /\ losses < MaxLosses)
    /\ runs' = runs \ {r}
    /\ losses' = IF bound THEN losses ELSE losses + 1
    /\ thread' = IF bound /\ is_group_chat(posts[r.msg].chat) THEN Bind(thread, r.answer, r.session)
                 ELSE thread
    /\ UNCHANGED <<story, posts, now, policy, offset, saved, batch, poster, hits, parked, session, acted, released, stops,
                   unsaved>>

-----------------------------------------------------------------------------
(* Stops.  A reload aborts the ingress task and starts another; a crash     *)
(* forgets what was parked and what ran, too.                               *)

Restarted ==
    /\ stops < MaxStops
    /\ batch # {} \/ poster # 0 \/ parked # <<>> \/ runs # {} \/ offset # saved
    /\ stops' = stops + 1
    /\ offset' = saved
    /\ batch' = {}
    /\ poster' = 0
    /\ hits' = {}
    /\ UNCHANGED <<story, posts, now, policy, saved, thread, session, acted, released, losses, unsaved>>

ReloadIngress == Restarted /\ UNCHANGED <<parked, runs>>

CrashDaemon == Restarted /\ parked' = <<>> /\ runs' = {}

-----------------------------------------------------------------------------
Handle ==
    \/ Reject
    \/ \E i \in DOMAIN posts, bound \in BOOLEAN :
          \/ NotOwner(i, bound) \/ handle_typed_command(i, bound) \/ handle_confirmation(i, bound)
          \/ Answer(i, bound)
          \/ \E accepted \in BOOLEAN : Run(i, bound, accepted)
    \/ PostAnswer

Sinks == \E r \in runs : SinkPosts(r) \/ \E bound \in BOOLEAN : SinkBinds(r, bound)

Polls == \E written \in BOOLEAN : poll(written)

TgNext ==
    \/ \E reply \in {0} \union DOMAIN posts : UserPosts(reply)
    \/ Polls \/ Handle \/ Sinks \/ TimePasses \/ EditPolicy
    \/ ReloadIngress \/ CrashDaemon

TgSpec == TgInit /\ [][TgNext]_tgVars

\* The loop polls again after every batch and every failure; a write may fail but not forever.
TgFairness == WF_tgVars(Polls) /\ WF_tgVars(Handle) /\ WF_tgVars(Sinks)

-----------------------------------------------------------------------------
(* Properties.                                                             *)

TgTypeOK ==
    /\ offset \in 0 .. Len(posts) + 1 /\ saved \in 0 .. offset
    /\ batch \subseteq Users
    /\ poster \in {0} \union Users
    /\ DOMAIN thread \subseteq DOMAIN posts
    /\ \A s \in DOMAIN parked : Says(parked[s].cmd) = "Bang"
    /\ \A r \in runs : r.msg \in Users

\* A message is acted upon at most once, over any number of reloads and crashes in the middle of a
\* batch, unless an offset could not be written (Poller::poll).
ActedOnce == unsaved \/ \A i \in DOMAIN acted : acted[i] <= 1

\* The message a thread began with.
Root[i \in DOMAIN posts] == IF posts[i].reply = 0 THEN i ELSE Root[posts[i].reply]

NeedsYes(i) == Owner(i) /\ Says(i) = "Bang" /\ \A p \in DOMAIN Policies : decide(Policies[p], Asked(i)) = "Confirm"

\* What ran was asked for by an owner and not denied by the file as it was when it ran.  What needed a yes
\* got one of an owner, in the same chat and thread and in time; it was the last command of an owner that
\* conversation had waiting, and it ran once (Confirmations, screen_with_store, run_allowed).
ReleasedRightly ==
    \A r \in released :
        LET verdict == decide(Policies[r.policy], Asked(r.cmd))
        IN  /\ Owner(r.cmd) /\ Owner(r.by)
            /\ verdict # "Deny"
            /\ verdict = "Confirm" => r.by # r.cmd
            /\ posts[r.cmd].chat = posts[r.by].chat
            /\ is_group_chat(posts[r.cmd].chat) => Root[r.cmd] = Root[r.by]
            /\ r.waited <= ttl
            /\ ~unsaved => /\ r.cmd <= r.by
                           /\ \A q \in released : q.cmd = r.cmd => q = r
                           /\ r.by # r.cmd => \A i \in r.cmd + 1 .. r.by - 1 :
                                 session[i] = session[r.cmd] => ~NeedsYes(i)

\* Two messages of a group are in one conversation only if replies connect them: no thread gets
\* another's context, its reset or its `!!', although answers are bound by workers that run
\* beside the loop (session_key, TelegramSink::reply).
SessionsAreThreads ==
    \A i, j \in Users :
        (/\ session[i] # NoSession /\ session[i] = session[j]
         /\ is_group_chat(posts[i].chat)) => posts[i].chat = posts[j].chat /\ Root[i] = Root[j]

\* TgInv: each update is acted on once at most, a command runs only as [os] has it at that moment, and
\* a session stays with its thread, of screen_with_store, handle_confirmation and session_key.
TgInv == TgTypeOK /\ ActedOnce /\ ReleasedRightly /\ SessionsAreThreads

\* Every update is fetched in the end, also the ones that cannot be read: none makes the poll
\* return the same batch again and again (extract, Poller::poll).
EveryUpdateLeaves == []<>(\A i \in Users : i < offset)
=============================================================================
