------------------------------ MODULE MCDaemon ------------------------------
(***************************************************************************)
(* The daemon's loop, the power gate of its ticks and the run of an agent, *)
(* for TLC.  They share no state, so a behaviour is one of one of them:    *)
(* `part' says which, and the others rest in an initial state of their own.*)
(***************************************************************************)
EXTENDS DaemonLoop, Runner, Power

VARIABLE part

vars == <<part, loopVars, runVars, powerVars>>

-----------------------------------------------------------------------------
(* What config.toml may say.  A day has 5 minutes.                         *)

Config(name, time, grace, file) ==
    [name |-> name, enabled |-> TRUE, time |-> time, grace |-> grace, ingress |-> TRUE,
     secrets |-> file]

\* The window of "late" crosses midnight; that of "early" has no grace, and its secrets are refused.
MCConfigs == {Config("late", 4, 2, "ok"), Config("early", 3, 0, "refused")}

-----------------------------------------------------------------------------
(* What may be run, and who hears of it.                                   *)

Lit(v) == [kind |-> "lit", is |-> v]
Var(k) == [kind |-> "var", is |-> k]
Broken == [kind |-> "broken", is |-> ""]

To(driver, fields) ==
    [driver |-> driver, fields |-> fields, events |-> {}, pevents |-> {}, plugin |-> "p1",
     mode |-> "plain", title |-> <<"a">>, rate |-> 0, numeric |-> FALSE]

ToTelegram == To("telegram", [token |-> <<Var("TG")>>, chat |-> <<Lit("chat")>>])
ToSlack == To("slack", [url |-> <<Lit("http"), Var("TG")>>])
ToDesktop == To("desktop", <<>>)
ToPlugin == [To("plugin", <<>>) EXCEPT !.pevents = {"success", "preflight"}]
ToPushover == To("pushover", [token |-> <<Var("TG")>>, user |-> <<Lit("u")>>])
ToNtfy(topic, title) ==
    [To("ntfy", [base |-> <<Lit("http")>>, topic |-> <<topic>>, token |-> <<>>]) EXCEPT !.title = title]
ToImessage(who, macos) == [To("imessage", [to |-> who, macos |-> macos]) EXCEPT !.rate = 2]

Agent ==
    [plugins |-> FALSE, persistent |-> FALSE, dry |-> FALSE, reaper |-> TRUE, big |-> FALSE,
     preflight |-> <<>>, on_success |-> <<>>, on_failure |-> <<>>, notifiers |-> <<>>,
     inherit |-> TRUE, parent |-> {"AGENT_SESSION_ID"}, extra |-> {"EXTRA"},
     request |-> trigger_env({"AGENT_SESSION_ID", "AGENT_TRIGGER_PAYLOAD"}), says |-> {<<"a">>},
     frames |-> <<>>, summary |-> FALSE, fallback |-> ToDesktop]
Served == [Agent EXCEPT !.persistent = TRUE]

\* One-shot, hooked, persistent and dry.
Whole == {
    [Agent EXCEPT !.notifiers = <<[ToTelegram EXCEPT !.numeric = TRUE], ToSlack, ToDesktop>>],
    [Agent EXCEPT !.plugins = TRUE, !.big = TRUE, !.preflight = <<"p1", "p2">>,
                  !.on_success = <<[plugin |-> "p1", events |-> {}]>>,
                  !.on_failure = <<[plugin |-> "p1", events |-> {"timed_out"}],
                                   [plugin |-> "gone", events |-> {}]>>,
                  !.notifiers = <<ToPlugin>>],
    [Served EXCEPT !.notifiers = <<ToPlugin, [ToSlack EXCEPT !.events = {"success"}]>>,
                   !.inherit = FALSE, !.extra = {"LANG"}],
    [Served EXCEPT !.dry = TRUE, !.parent = {"LANG"},
                   !.notifiers = <<ToImessage("x.y", TRUE), ToImessage("x_y", TRUE)>>] }

\* Credentials that do not resolve, a backend of another system.
Bare == [Served EXCEPT !.notifiers = <<ToPushover, ToNtfy(Var("ENV"), <<"a">>),
                                       To("slack", [url |-> <<Broken>>]), ToImessage("x.y", FALSE)>>]
Chatty == [Agent EXCEPT !.inherit = FALSE, !.request = {}, !.frames = <<"reply", "session", "delta">>]
Hurried == [Served EXCEPT !.says = {<<"a", "\\">>},
                          !.notifiers = <<ToImessage("x.y", TRUE), ToImessage("x_y", TRUE)>>]

\* Every text, and every title, of a few characters.
Strings(chars, n) == UNION {[1 .. k -> chars] : k \in 1 .. n}
Texts ==
    {[Served EXCEPT
        !.notifiers = <<[ToTelegram EXCEPT !.mode = mode, !.fields.token = <<Lit("t")>>]>>,
        !.says = Strings(IF mode = "plain" THEN {"a", "e"} ELSE {"e", "[", "\\"}, 4)] :
     mode \in {"plain", "MarkdownV2"}}
Titles ==
    {[Served EXCEPT !.notifiers = <<ToNtfy(Lit("t"), title)>>, !.says = {<<"a", "c", "e", "a", "c">>}] :
     title \in Strings({"c", "=", "?", "n"}, 3)}

\* The daily summary, to a list copied from a manifest and to nobody.
Summaries == {[Agent EXCEPT !.summary = TRUE, !.notifiers = list] :
                 list \in {<<>>, <<ToPlugin, [ToSlack EXCEPT !.events = {"given_up"}]>>}}

MCJobs == Whole \union Texts \union Titles \union Summaries \union {Bare, Chatty, Hurried}

Bounds(most, ticks, swaps, lines) == [runs |-> most, ticks |-> ticks, reloads |-> swaps, lines |-> lines]
MCBudget ==
    [j \in MCJobs |-> IF j = Hurried THEN Bounds(2, 2, 0, 0)
                      ELSE IF j = Chatty THEN Bounds(1, 0, 0, 3)
                      ELSE IF j \in Whole \union {Bare} THEN Bounds(1, 0, 1, 1)
                      ELSE Bounds(1, 0, 0, 0)]

Sets(key, ref, value) == [kind |-> "set", key |-> key, ref |-> ref, value |-> value]
SecretFile(there, private, lines) == [there |-> there, private |-> private, lines |-> lines]
MCSecretFiles == {
    SecretFile(TRUE, TRUE, <<Sets("TG", FALSE, "x"), Sets("TG", TRUE, "tok")>>),
    SecretFile(TRUE, FALSE, <<Sets("TG", FALSE, "x")>>),
    SecretFile(FALSE, TRUE, <<>>),
    SecretFile(TRUE, TRUE, <<Sets("TG", FALSE, "x"), [kind |-> "bad"]>>) }

MCEnviron == [k \in {"ENV"} |-> "t"]
MCStatePath == [who \in {"x.y", "x_y"} |-> "x_y"]

-----------------------------------------------------------------------------
(* Chargers of which one says nothing, a battery, one that cannot be read  *)
(* and a mouse.                                                            *)

Mains(online) == [kind |-> "Mains", online |-> online, scope |-> "none", capacity |-> Unread]
Cell(scope, capacity) == [kind |-> "Battery", online |-> Unread, scope |-> scope, capacity |-> capacity]
MCSupplies == {Mains(0), Mains(1), Mains(Unread), Cell("System", 3), Cell("System", Unread), Cell("Device", 1)}
MCPowerConfigs == {[on_battery |-> p, min_battery_percent |-> m] : p \in {"Run", "Defer"}, m \in {0, 5}}

-----------------------------------------------------------------------------
Init ==
    /\ part \in {"loop", "run", "power"}
    /\ LoopInit /\ (part # "loop" => cfg = CHOOSE c \in Configs : TRUE)
    /\ RunInit
    /\ PowerInit /\ (part # "power" => power_cfg = CHOOSE c \in PowerConfigs : TRUE)

Next ==
    \/ part = "loop" /\ LoopNext /\ UNCHANGED <<part, runVars, powerVars>>
    \/ part = "run" /\ RunNext /\ UNCHANGED <<part, loopVars, powerVars>>
    \/ part = "power" /\ PowerNext /\ UNCHANGED <<part, loopVars, runVars>>

\* LoopFairness and RunFairness, each of its own part.
Fairness ==
    /\ WF_loopVars(part = "loop" /\ Loop)
    /\ SF_loopVars(part = "loop" /\ Stop)
    /\ WF_loopVars(part = "loop" /\ Stopping)
    /\ WF_runVars(part = "run" /\ CodeSteps)
    /\ WF_runVars(part = "run" /\ Sends)
    /\ WF_runVars(part = "run" /\ PoolSteps)
    /\ WF_runVars(part = "run" /\ Deadlines)

Spec == Init /\ [][Next]_vars /\ Fairness

\* A run alone, for the property it does not keep.
RunAlone == Init /\ part = "run" /\ [][Next]_vars
=============================================================================
