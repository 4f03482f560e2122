----------------------------- MODULE MCIngress ------------------------------
(***************************************************************************)
(* The two ways in, the local socket and Telegram, and the client's bridge *)
(* to the socket, for TLC.  They share no state, so a behaviour is one of  *)
(* them: `part' says which, and the others rest in an initial state.       *)
(***************************************************************************)
EXTENDS LocalApi, Telegram

VARIABLE part

vars == <<part, apiVars, bridgeVars, tgVars>>

In(user, chat, text) == [user |-> user, chat |-> chat, text |-> text]
Group(text) == In("owner", "group", text)
Direct(text) == In("owner", "dm", text)

Ask == <<"!", "rm", "x">>
Other == <<"!", "rm", "y">>
Yes == <<"!!">>
Hello == <<"hello">>

\* Two commands of which one is confirmed; an answer that threads go on from; a `!!' of another
\* user, and of another chat; a command of a user who is no owner between; what cannot be read, and a
\* stranger; more than the rate limit lets in; a command that is confirmed after the file was edited.
MCStories == {
    <<Group(Ask), Group(Ask), Group(Yes)>>,
    <<Group(Hello), Group(Ask)>>,
    <<Group(Ask), In("member", "group", Yes)>>,
    <<Group(Ask), In("member", "group", Other), Group(Yes)>>,
    <<Direct(Ask), Group(Yes)>>,
    <<Direct(<<>>), Direct(<<"!", "ls">>), In("stranger", "other", Hello)>>,
    <<Direct(<<"!", "sh">>), Direct(<<"/", "help">>), Direct(Hello), Direct(<<"!", "ls">>)>>,
    <<Direct(<<"/", "new">>), Direct(<<"/", "deploy">>), Direct(<<"!">>)>>,
    <<Direct(Ask), Direct(<<"!", "sh">>), Direct(Yes)>> }

\* Everything is allowed and rm asks first; then rm is denied where it names x.
Everything == [enabled |-> TRUE, allow |-> {<<"*">>}, deny |-> {<<"sh">>}, confirm |-> {<<"rm">>}]
MCPolicies == <<Everything, [Everything EXCEPT !.deny = {<<"rm", "x">>}]>>

\* A message that is said and one that is typed, and every way to be less than that.
Said == [whole |-> TRUE, utf8 |-> TRUE, json |-> TRUE, near |-> TRUE, id |-> "7", shape |-> "string",
         method |-> "message.send", params |-> "given", text |-> "said", session |-> "none"]
MCLines ==
    {Said} \union {[Said EXCEPT !.text = t] : t \in {"typed", "empty", "long"}}
    \union {[Said EXCEPT !.session = "bad"], [Said EXCEPT !.shape = "other"], [Said EXCEPT !.shape = "number"]}
    \union {[Said EXCEPT !.method = m] : m \in {"none", "status.get", "commands.list", "unknown"}}
    \union {[Said EXCEPT !.params = p] : p \in {"none", "bad"}}
    \union {[Said EXCEPT !.json = FALSE, !.shape = h, !.near = n, !.whole = w] :
                h \in {"string", "number"}, n \in BOOLEAN, w \in BOOLEAN}
    \union {[Said EXCEPT !.utf8 = FALSE, !.json = FALSE, !.whole = w] : w \in BOOLEAN}

\* Nothing, whole lines, a last line that is not closed, a line that is too long.
MCInputs == {<<>>, <<"b", "nl", "nl">>, <<"b", "nl", "b", "b">>, <<"b", "nl", "b", "b", "b", "nl">>}

-----------------------------------------------------------------------------
Init ==
    /\ part \in {"api", "bridge", "telegram"}
    /\ ApiInit
    /\ BridgeInit /\ (part # "bridge" => whole = <<>>)
    /\ TgInit /\ (part # "telegram" => story = CHOOSE s \in Stories : TRUE)

Next ==
    \/ part = "api" /\ ApiNext /\ UNCHANGED <<part, bridgeVars, tgVars>>
    \/ part = "bridge" /\ BridgeNext /\ UNCHANGED <<part, apiVars, tgVars>>
    \/ part = "telegram" /\ TgNext /\ UNCHANGED <<part, apiVars, bridgeVars>>

\* ApiFairness and TgFairness, each of its own part.
Fairness ==
    /\ \A c \in Clients : /\ WF_apiVars(part = "api" /\ ReaderStep(c))
                          /\ WF_apiVars(part = "api" /\ WriterStep(c))
    /\ \A r \in Requests : WF_apiVars(part = "api" /\ RunStep(r))
    /\ WF_tgVars(part = "telegram" /\ Polls)
    /\ WF_tgVars(part = "telegram" /\ Handle)
    /\ WF_tgVars(part = "telegram" /\ Sinks)

Spec == Init /\ [][Next]_vars /\ Fairness
=============================================================================
