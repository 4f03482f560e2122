----------------------------- MODULE MCRecords ------------------------------
(***************************************************************************)
(* What the daemon and its tools keep, on disk and in their heads, for     *)
(* TLC: the walk over schedules, the boot reap, state files, the manifest  *)
(* cache, the audit log, retention, the assistant's sessions, memory and   *)
(* the MCP server.                                                         *)
(* They share no state, so a behaviour is one of one of them: `part' says  *)
(* which, and the others rest in an initial state of their own.            *)
(***************************************************************************)
EXTENDS ScheduleWalk, Boot, StateFiles, ManifestCache, AuditLog, Retention, Assistant, Memory, Mcp

VARIABLE part

-----------------------------------------------------------------------------
(* A calendar of 2-second minutes, 2-minute hours, 3-hour days and 2-day   *)
(* weeks, with every kind of schedule on it.                               *)

MCScheds ==
    IntervalSchedules({0, 1, 2, 3, 5}) \union
    {s \in CronSchedules : s.minute \in {0, 1} /\ s.hours \in {{}, {0}, {2}, {0, 1}, {1, 2}}}

(* Command lines: an interpreter with a script, and without.               *)

Interpreter == [base |-> "fish", path |-> FALSE]
Script == [base |-> "agent.fish", path |-> TRUE]
MCCommands == {<<Interpreter, Script>>, <<Interpreter>>}

(* Texts of two words: a plain one, and one that ends with a day.          *)

Word(n) == [link |-> FALSE, name |-> n]
MCTexts == {<<Word(1), Word(2)>>, <<Word(1), Word(0)>>}
MCRecency == [age \in 0 .. 3 |-> CASE age = 0 -> 1000 [] age = 1 -> 984 [] OTHER -> 967]
MCReinforcement == <<0, 277, 439, 555, 644>>

(* Two agents, a skill and a command whose names collide once they are     *)
(* made fit for a tool, or for Telegram.                                   *)

MCAgentFiles == {[name |-> n, body |-> 1, ok |-> TRUE, fixes |-> <<"vpn">>] : n \in {1, 2}}
SkillAt(path, name) == [path |-> path, name |-> name, body |-> 1, ok |-> TRUE]
MCSkillFiles == <<SkillAt(1, 1), SkillAt(2, 2), SkillAt(3, 4)>>
CommandAt(path, name, text) == [path |-> path, name |-> name, body |-> text, ok |-> TRUE]
MCCommandFiles == <<CommandAt(1, 2, <<0>>), CommandAt(2, 3, <<ARGUMENTS>>)>>

(* Headers: a name, an empty one, and one that a list, a map or a block     *)
(* scalar only seems to give.                                              *)

Inner(is, key) == [indent |-> is # "dash", is |-> is, key |-> key, style |-> "plain", text |-> "inner"]
Header(key, style, text, inner) == [key |-> key, style |-> style, text |-> text, lines |-> inner]
MCEntries == {
    Header("name", "plain", "n", <<>>), Header("name", "quoted", "", <<>>), Header("name", "plain", "long", <<>>),
    Header("name", "none", "", <<Inner("pair", "name"), Inner("dash", ""), Inner("blank", "")>>),
    Header("description", "quoted", "d", <<>>),
    Header("description", "folded", "", <<Inner("blank", ""), Inner("pair", "name"), Inner("blank", ""), Inner("comment", "")>>),
    Header("description", "literal", "", <<Inner("blank", "")>>),
    Header("timeout_seconds", "plain", "5", <<>>), Header("timeout_seconds", "plain", "soon", <<>>),
    Header("", "none", "", <<[Inner("comment", "") EXCEPT !.indent = FALSE]>>) }
MCUnfit == {[by |-> "", pieces |-> <<<<"", "long">>>>]}

Switches(on, os) == [skills |-> on, commands |-> on, memory |-> on, os |-> os]
Os(allow, deny, confirm) ==
    [enabled |-> TRUE, allow |-> allow, deny |-> deny, confirm |-> confirm,
     tools |-> <<[name |-> 1, bin |-> "git", args |-> <<"log">>]>>]
MCConfigs == {Switches(TRUE, Os({<<"git", "log">>}, {}, {})), Switches(FALSE, Os({}, {}, {})),
              Switches(TRUE, Os({<<"*">>}, {<<"sh">>}, {<<"git">>}))}

Called(kind, name, arg) == [kind |-> kind, name |-> name, arg |-> arg]
FileOf2(ok) ==
    [name |-> 2,
     path |-> [up |-> ~ok, outside |-> FALSE, scripts |-> ok, file |-> TRUE, exec |-> TRUE]]
MCCalls ==
    {Called("run", 2, "plain"), Called("run", 3, "plain"), Called("run", 2, "no such schedule"),
     Called("skill", 2, NoItem), Called("skill", SKILL_READ, FileOf2(TRUE)),
     Called("skill", SKILL_RUN, FileOf2(TRUE)), Called("skill", SKILL_RUN, FileOf2(FALSE)),
     Called("remediate", 1, NoItem), Called("command-get", 0, [typed |-> 3, args |-> <<"x">>])}
    \union {Called("os-run", 0, <<"git", "push">>), Called("os-run", 0, <<"sh">>), Called("os-run", 0, <<"ls">>),
            Called("os-named", 1, <<"-p">>), Called("os-named", 2, <<>>)}
    \union {Called(kind, 0, NoItem) : kind \in {"os-list", "command-list", "memory", "dotagent"}}

MCsanitize == [n \in 1 .. 5 |-> IF n = 1 THEN 2 ELSE n]
MCtelegram_name == [n \in 1 .. 5 |-> IF n \in 1 .. 3 THEN 3 ELSE n]
MCremediation_tool_name_for == [x \in (1 .. 5) \X {"vpn"} |-> MCsanitize[x[1]]]

-----------------------------------------------------------------------------
Parts == {"walk", "boot", "state", "cache", "audit", "retention", "assistant", "memory", "page", "mcp"}

vars == <<part, walkVars, bootVars, stateVars, cacheVars, auditVars, retVars, asVars, memVars, page, mcpVars>>

Init ==
    /\ part \in Parts
    /\ WalkInit /\ (part # "walk" => plan = CHOOSE s \in Scheds : TRUE)
    /\ BootInit /\ (part # "boot" => snapshot = NoSnapshot)
    /\ CacheInit /\ (part # "cache" => manifest = NoEntries)
    /\ StateInit /\ AuditInit /\ RetInit
    /\ AsInit /\ (part # "assistant" => toolkit = CHOOSE h \in Toolkits : TRUE)
    /\ MemInit
    /\ PageInit /\ (part # "page" => ~page.opened)
    /\ McpInit /\ (part = "mcp" <=> disk.skills # <<>>) /\ (part # "mcp" => ~disk.cfg.skills)

Next ==
    \/ /\ part = "walk" /\ WalkNext
       /\ UNCHANGED <<part, bootVars, stateVars, cacheVars, auditVars, retVars, asVars, memVars, page, mcpVars>>
    \/ /\ part = "boot" /\ BootNext
       /\ UNCHANGED <<part, walkVars, stateVars, cacheVars, auditVars, retVars, asVars, memVars, page, mcpVars>>
    \/ /\ part = "state" /\ StateNext
       /\ UNCHANGED <<part, walkVars, bootVars, cacheVars, auditVars, retVars, asVars, memVars, page, mcpVars>>
    \/ /\ part = "cache" /\ CacheNext
       /\ UNCHANGED <<part, walkVars, bootVars, stateVars, auditVars, retVars, asVars, memVars, page, mcpVars>>
    \/ /\ part = "audit" /\ AuditNext
       /\ UNCHANGED <<part, walkVars, bootVars, stateVars, cacheVars, retVars, asVars, memVars, page, mcpVars>>
    \/ /\ part = "retention" /\ RetNext
       /\ UNCHANGED <<part, walkVars, bootVars, stateVars, cacheVars, auditVars, asVars, memVars, page, mcpVars>>
    \/ /\ part = "assistant" /\ AsNext
       /\ UNCHANGED <<part, walkVars, bootVars, stateVars, cacheVars, auditVars, retVars, memVars, page, mcpVars>>
    \/ /\ part = "memory" /\ MemNext
       /\ UNCHANGED <<part, walkVars, bootVars, stateVars, cacheVars, auditVars, retVars, asVars, page, mcpVars>>
    \/ /\ part = "page" /\ PageNext
       /\ UNCHANGED <<part, walkVars, bootVars, stateVars, cacheVars, auditVars, retVars, asVars, memVars, mcpVars>>
    \/ /\ part = "mcp" /\ McpNext
       /\ UNCHANGED <<part, walkVars, bootVars, stateVars, cacheVars, auditVars, retVars, asVars, memVars, page>>

Spec == Init /\ [][Next]_vars
=============================================================================
