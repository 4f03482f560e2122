-------------------------------- MODULE Mcp --------------------------------
(***************************************************************************)
(* `dotagent mcp' (commands/mcp.rs): JSON-RPC over stdio, one line at a     *)
(* time.  A client lists the tools and calls them; the operator edits the   *)
(* files meanwhile.  Nothing is cached: every request, and every stage of a *)
(* call, reads the disk again.  Agents, remediations, skill scripts and     *)
(* allowed binaries run under the supervisor and are answered when they     *)
(* end; everything else is answered at once.                                *)
(***************************************************************************)
EXTENDS Catalog

CONSTANTS
    AgentFiles,                             \* the manifests that may be there
    SkillFiles, CommandFiles,               \* the others, in the order of their paths
    Configs,                                \* what config.toml may say
    Calls,                                  \* the tool calls a client may make: [kind, name, arg]
    MaxRequests, MaxEdits                   \* bounds

VARIABLES
    disk,
    edits,      \* how often it was edited
    lines,      \* how many lines the client has written
    inbox,      \* those not handled yet
    srv,        \* the call in progress
    replies,
    shown,      \* the tools the client was last shown, and at which edit
    done,       \* history: what was run or handed out
    owed        \* history: the ids of the replies that the lines ask for

mcpVars == <<disk, edits, inbox, srv, replies, shown, done, owed, lines>>

IdleSrv == [pc |-> "idle"]
NoCallMade == [kind |-> "none", name |-> 0, arg |-> NoItem]

Arrangements(S) == UNION {SetToSeqs(T) : T \in SUBSET S}
Kept(files, S) == SelectSeq(files, LAMBDA f : f \in S)

\* An installation with the agents' directory in whatever order, or a fresh one.
McpInit ==
    /\ \E a \in SetToSeqs(AgentFiles), cfg \in Configs :
          disk \in {[agents |-> a, skills |-> SkillFiles, commands |-> CommandFiles, cfg |-> cfg],
                   [agents |-> <<>>, skills |-> <<>>, commands |-> <<>>, cfg |-> cfg]}
    /\ edits = 0 /\ inbox = <<>> /\ srv = IdleSrv /\ replies = <<>>
    /\ shown = [tools |-> {}, at |-> 0] /\ done = <<>> /\ owed = <<>> /\ lines = 0

\* A manifest is mended, broken, added or removed; a switch is flipped.
Edit ==
    /\ edits < MaxEdits
    /\ edits' = edits + 1
    /\ \/ \E a \in Arrangements(AgentFiles) : disk' = [disk EXCEPT !.agents = a]
       \/ \E i \in DOMAIN disk.agents : disk' = [disk EXCEPT !.agents[i].ok = ~@]
       \/ \E i \in DOMAIN disk.agents : disk' = [disk EXCEPT !.agents[i].body = 3 - @]
       \/ \E S \in SUBSET ToSet(SkillFiles) : disk' = [disk EXCEPT !.skills = Kept(SkillFiles, S)]
       \/ \E S \in SUBSET ToSet(CommandFiles) : disk' = [disk EXCEPT !.commands = Kept(CommandFiles, S)]
       \/ \E cfg \in Configs : disk' = [disk EXCEPT !.cfg = cfg]
    /\ disk' # disk
    /\ UNCHANGED <<inbox, srv, replies, shown, done, owed, lines>>

is_notification(method) == method = "notification"

\* A line: its id is its number, and cannot be told where the line does not parse.
Send(method, call) ==
    LET line == [id |-> IF method = "garbage" THEN 0 ELSE lines + 1, method |-> method, call |-> call,
                 shown |-> {t.item : t \in {u \in shown.tools : u.kind = call.kind /\ u.name = call.name}},
                 at |-> shown.at]
    IN  /\ lines < MaxRequests
        /\ lines' = lines + 1
        /\ inbox' = Append(inbox, line)
        /\ owed' = IF is_notification(method) THEN owed ELSE Append(owed, line.id)
        /\ UNCHANGED <<disk, edits, srv, replies, shown, done>>

-----------------------------------------------------------------------------
(* The handlers.                                                           *)

Answer(line, what) ==
    /\ replies' = Append(replies, [id |-> line.id, what |-> what])
    /\ srv' = IdleSrv
    /\ inbox' = IF srv.pc = "idle" THEN Tail(inbox) ELSE inbox

\* Something of the disk is used for a call: what, as the client saw it and as it is now.
Uses(line, item, current) ==
    done' = Append(done, [kind |-> line.call.kind, name |-> line.call.name, item |-> item,
                          shown |-> line.shown, fresh |-> line.at = edits, current |-> current])

Runs(line, item, current) ==
    /\ Uses(line, item, current)
    /\ srv' = [pc |-> "running", line |-> line]

Line == Head(inbox)
Call(kind) ==
    /\ srv.pc = "idle" /\ inbox # <<>> /\ Line.method = "tools/call" /\ Line.call.kind = kind
    /\ UNCHANGED <<disk, edits, shown, owed, lines>>

\* handle_line, the methods that need no tool.
handle_line ==
    /\ srv.pc = "idle" /\ inbox # <<>> /\ Line.method \notin {"tools/list", "tools/call"}
    /\ IF is_notification(Line.method) THEN inbox' = Tail(inbox) /\ UNCHANGED <<replies, srv>>
       ELSE Answer(Line, CASE Line.method = "garbage" -> "PARSE_ERROR"
                           [] Line.method = "unknown" -> "METHOD_NOT_FOUND"
                           [] OTHER -> "ok")
    /\ UNCHANGED <<disk, edits, shown, done, owed, lines>>

\* A catalog that lost entries is refused as a whole.
tools_list ==
    /\ srv.pc = "idle" /\ inbox # <<>> /\ Line.method = "tools/list"
    /\ IF invalid(disk.agents) = {}
       THEN Answer(Line, "ok") /\ shown' = [tools |-> Tools(disk), at |-> edits]
       ELSE Answer(Line, "INTERNAL_ERROR") /\ UNCHANGED shown
    /\ UNCHANGED <<disk, edits, done, owed, lines>>

call_remediation ==
    LET fix == resolve_remediation(disk, Line.call.name)
    IN  /\ Call("remediate")
        /\ IF fix = NoItem THEN Answer(Line, "isError") /\ UNCHANGED done
           ELSE Runs(Line, fix, \E t \in ToSet(remediation_tools(disk)) : t.item = fix)
                /\ inbox' = Tail(inbox) /\ UNCHANGED replies

\* What needs a person's yes is refused: a model cannot confirm for itself.
RunsBinary(argv) ==
    IF decide(disk.cfg.os, argv) # "Confirm" /\ run_allowed(disk.cfg.os, argv)
    THEN Runs(Line, argv, decide(disk.cfg.os, argv) = "Allow") /\ inbox' = Tail(inbox) /\ UNCHANGED replies
    ELSE Answer(Line, "isError") /\ UNCHANGED done

os_run == Call("os-run") /\ RunsBinary(Line.call.arg)

\* A name that no entry has is nobody's tool in the end.
os_named_tool ==
    LET tool == Resolved(os_named(disk), Line.call.name)
    IN  /\ Call("os-named")
        /\ IF tool = NoItem THEN Answer(Line, "INVALID_PARAMS") /\ UNCHANGED done
           ELSE RunsBinary(argv_of(tool, Line.call.arg))

os_list == Call("os-list") /\ Answer(Line, IF is_active(disk.cfg.os) THEN "ok" ELSE "isError")
                           /\ UNCHANGED done

\* skill-read and skill-run name a skill, the others are one.
call_skill ==
    LET name == Line.call.name
        arg == Line.call.arg
        skill == resolve_skill(disk, name)
    IN  /\ Call("skill")
        /\ IF ~disk.cfg.skills THEN Answer(Line, "INVALID_PARAMS") /\ UNCHANGED done
           ELSE IF name \in {SKILL_READ, SKILL_RUN}
           THEN LET found == find_by_name(disk.skills, arg.name)
                IN  IF name = SKILL_RUN /\ found # {} /\ resolve_script(arg.path)
                    THEN Runs(Line, NoItem, TRUE) /\ inbox' = Tail(inbox) /\ UNCHANGED replies
                    ELSE /\ Answer(Line, IF name = SKILL_READ /\ found # {} /\ resolve_readable(arg.path)
                                         THEN "ok" ELSE "isError")
                         /\ UNCHANGED done
           ELSE IF skill = NoItem THEN Answer(Line, "INVALID_PARAMS") /\ UNCHANGED done
           ELSE Answer(Line, "ok") /\ Uses(Line, skill, skill \in ToSet(disk.skills))

\* get_command: resolved and rendered, never run.
call_command ==
    LET cmd == resolve(disk, Line.call.arg.typed)
    IN  /\ Call("command-get")
        /\ IF ~disk.cfg.commands THEN Answer(Line, "INVALID_PARAMS") /\ UNCHANGED done
           ELSE IF cmd = NoItem THEN Answer(Line, "isError") /\ UNCHANGED done
           ELSE /\ Answer(Line, "ok")
                /\ Uses(Line, [command |-> cmd, typed |-> Line.call.arg.typed, args |-> Line.call.arg.args,
                               prompt |-> render(cmd.body, Line.call.arg.args)], TRUE)

list_commands == Call("command-list") /\ UNCHANGED done
                   /\ Answer(Line, IF disk.cfg.commands THEN "ok" ELSE "INVALID_PARAMS")

\* The switch of the memory section is not asked; the store may not open.
call_memory(ok) == Call("memory") /\ Answer(Line, IF ok THEN "ok" ELSE "isError") /\ UNCHANGED done

introspect(ok) == Call("dotagent") /\ Answer(Line, IF ok THEN "ok" ELSE "isError") /\ UNCHANGED done

\* tools_call: the name, then the arguments ...
tools_call ==
    LET agent == resolve_agent(disk, Line.call.name)
    IN  /\ Call("run")
        /\ UNCHANGED done
        /\ IF agent = NoItem \/ Line.call.arg = "malformed" THEN Answer(Line, "INVALID_PARAMS")
           ELSE /\ srv' = [pc |-> "execute", line |-> Line, agent |-> agent]
                /\ inbox' = Tail(inbox) /\ UNCHANGED replies

\* Mutant: with the manifest that resolved the name.
execute_cached ==
    /\ srv.pc = "execute"
    /\ Runs(srv.line, srv.agent, srv.agent \in ToSet(disk.agents)) /\ UNCHANGED <<replies, inbox>>
    /\ UNCHANGED <<disk, edits, shown, owed, lines>>

\* ... and execute, which looks the agent up again.
execute ==
    LET found == find_by_name(disk.agents, srv.agent.name)
    IN  /\ srv.pc = "execute"
        /\ IF found = {} \/ srv.line.call.arg = "no such schedule"
           THEN Answer(srv.line, "isError") /\ UNCHANGED done
           ELSE \E a \in found : Runs(srv.line, a, a \in ToSet(disk.agents)) /\ UNCHANGED <<replies, inbox>>
        /\ UNCHANGED <<disk, edits, shown, owed, lines>>

\* The run, the remediation, the script or the binary ends, or its deadline kills it.
Ends(ok) ==
    /\ srv.pc = "running"
    /\ Answer(srv.line, IF ok THEN "ok" ELSE "isError")
    /\ UNCHANGED <<disk, edits, shown, done, owed, lines>>

Serve ==
    \/ handle_line \/ tools_list \/ call_remediation \/ os_list \/ call_skill
    \/ call_command \/ list_commands \/ tools_call \/ execute
    \/ os_run \/ os_named_tool
    \/ \E ok \in BOOLEAN : call_memory(ok) \/ introspect(ok) \/ Ends(ok)

McpNext ==
    \/ Edit
    \/ \E m \in {"garbage", "notification", "ping", "unknown", "tools/list"} : Send(m, NoCallMade)
    \/ \E c \in Calls : Send("tools/call", c)
    \/ Serve

McpSpec == McpInit /\ [][McpNext]_mcpVars

-----------------------------------------------------------------------------
(* Properties.                                                             *)

\* The catalog a client is shown is the one that resolves: no two tools share a name, apart from a skill
\* that takes a verb's, every tool leads back to what it was listed for, and no agent that loads is left
\* without a tool of its name, whatever the order of the directory and whatever names collide
\* (catalog, resolve_agent, resolve_skill, resolve_remediation).
CatalogResolves ==
    LET verb(t) == t.kind = "skill" /\ t.name \in {SKILL_READ, SKILL_RUN}
        tools == Tools(disk)
    IN  /\ \A t, u \in tools : t.kind = u.kind /\ t.name = u.name => t = u \/ verb(t)
        /\ \A t \in tools :
              /\ t.kind = "run" => resolve_agent(disk, t.name) = t.item
              /\ t.kind = "skill" /\ ~verb(t) => resolve_skill(disk, t.name) = t.item
              /\ t.kind = "remediate" => resolve_remediation(disk, t.name) = t.item
        /\ \A i \in DOMAIN disk.agents : disk.agents[i].ok =>
              \E t \in tools : t.kind = "run" /\ t.name = sanitize[disk.agents[i].name]

\* What a call runs or hands out is what the client was shown under the name when nothing was edited
\* since, and it is what the disk says at that moment in any case, for a binary one that
\* is allowed without a person's yes (tools_call, execute, call_skill, call_remediation, os_run); a command's
\* prompt keeps every argument unless its author placed them one by one (render).
CallsDoWhatWasShown ==
    \A i \in DOMAIN done :
        LET d == done[i]
        IN  /\ d.current
            /\ d.kind \in {"run", "skill", "remediate"} /\ d.fresh /\ d.shown # {} => d.item \in d.shown
            /\ d.kind = "command-get" =>
                  \/ \E k \in DOMAIN d.item.command.body : d.item.command.body[k] > 0
                  \/ ToSet(d.item.args) \subseteq ToSet(d.item.prompt)

\* The replies are to the lines that want one, each once and in the order of the lines, and none is owed
\* once the server waits for the next line (run, handle_line).
OneReplyEach ==
    /\ \A i \in DOMAIN replies : i \in DOMAIN owed /\ replies[i].id = owed[i]
    /\ srv.pc = "idle" /\ inbox = <<>> => Len(replies) = Len(owed)

\* McpInv: the catalog, its calls and its replies, of commands/mcp.rs, and the files behind it.
McpInv == FileSaysWhatWasWritten /\ CatalogResolves /\ CallsDoWhatWasShown /\ OneReplyEach
=============================================================================
