------------------------------ MODULE Catalog ------------------------------
(***************************************************************************)
(* What is installed, and the names it goes by: discovery.rs (agents),      *)
(* skills.rs, slash.rs (commands), the file formats of dotagent-core        *)
(* (see Frontmatter), the tool names of dotagent-mcp and the catalog of     *)
(* commands/mcp.rs.                                                         *)
(*                                                                          *)
(* A disk is a record: `agents', `skills' and `commands', the files in the  *)
(* order in which they are scanned, and `cfg', the switches of config.toml, *)
(* with its [os] section as `cfg.os' (see OsPolicy).                        *)
(* Agents are scanned in directory order, which the file system chooses;    *)
(* skills and commands are sorted by path.  A file is [name, body, ok]: ok  *)
(* is whether it loads, body stands for all it says.  An agent has `fixes'  *)
(* as well, the plugins of its preflights with a remediation.               *)
(***************************************************************************)
EXTENDS FiniteSets, OsPolicy, Frontmatter

CONSTANTS
    Names, Plugins,
    sanitize,                    \* of a name: lossy
    telegram_name,               \* of a name: lossy in another way, 0 where Telegram refuses it
    remediation_tool_name_for,   \* of an agent and a plugin: joined with a dash, so lossy too
    SKILL_READ, SKILL_RUN        \* the sanitized names the two verbs take

ASSUME CatalogAssumption ==
    /\ Names \subseteq Nat \ {0}
    /\ sanitize \in [Names -> Names] /\ telegram_name \in [Names -> Names \union {0}]
    /\ remediation_tool_name_for \in [Names \X Plugins -> Nat]

\* The first of each key.
Deduped(s, Key(_)) ==
    LET firsts == SelectSeq([i \in DOMAIN s |-> i], LAMBDA i : \A j \in 1 .. i - 1 : Key(s[j]) # Key(s[i]))
    IN  [i \in DOMAIN firsts |-> s[firsts[i]]]

\* scan_root: past what does not load, the first of each name.
scan_root(files) == Deduped(SelectSeq(files, LAMBDA f : f.ok), LAMBDA f : f.name)
invalid(files) == {i \in DOMAIN files : ~files[i].ok}

\* A command file that Telegram would refuse does not load (validate).
commands_found(disk) ==
    IF disk.cfg.commands THEN scan_root([i \in DOMAIN disk.commands |->
            [disk.commands[i] EXCEPT !.ok = @ /\ telegram_name[disk.commands[i].name] # 0]])
    ELSE <<>>

find_by_name(files, name) == {f \in ToSet(scan_root(files)) : f.name = name}

-----------------------------------------------------------------------------
(* The names.                                                              *)

Tool(kind, name, item) == [kind |-> kind, name |-> name, item |-> item]
NoItem == <<>>

catalog(disk) ==
    LET found == scan_root(disk.agents)
    IN  Deduped([i \in DOMAIN found |-> Tool("run", sanitize[found[i].name], found[i])], LAMBDA t : t.name)

skill_catalog(disk) ==
    LET found == scan_root(disk.skills)
    IN  Deduped([i \in DOMAIN found |-> Tool("skill", sanitize[found[i].name], found[i])], LAMBDA t : t.name)

\* Every declared remediation, in the order of the agents and of their preflights.
Remediations(disk) ==
    FoldLeft(LAMBDA acc, a : acc \o [k \in DOMAIN a.fixes |->
                 Tool("remediate", remediation_tool_name_for[a.name, a.fixes[k]],
                      [agent |-> a.name, plugin |-> a.fixes[k], body |-> a.body])],
             <<>>, scan_root(disk.agents))

remediation_tools(disk) == Deduped(Remediations(disk), LAMBDA t : t.name)

\* The two verbs come with the first skill.
skill_tools(disk) ==
    IF ~disk.cfg.skills \/ scan_root(disk.skills) = <<>> THEN {}
    ELSE ToSet(skill_catalog(disk))
           \union {Tool("skill", SKILL_READ, NoItem), Tool("skill", SKILL_RUN, NoItem)}

command_tools(disk) ==
    IF commands_found(disk) = <<>> THEN {}
    ELSE {Tool("command-get", 0, NoItem), Tool("command-list", 0, NoItem)}

\* The binaries published under a name of their own: [name, bin, args].
os_named(disk) == [i \in DOMAIN disk.cfg.os.tools |-> Tool("os-named", disk.cfg.os.tools[i].name, disk.cfg.os.tools[i])]

os_tools(disk) ==
    IF ~is_active(disk.cfg.os) THEN {}
    ELSE {Tool("os-list", 0, NoItem), Tool("os-run", 0, NoItem)} \union ToSet(os_named(disk))

memory_tools(disk) == IF disk.cfg.memory THEN {Tool("memory", 0, NoItem)} ELSE {}
introspection_tools == {Tool("dotagent", 0, NoItem)}

\* tools_list, when every manifest loads.
Tools(disk) ==
    ToSet(catalog(disk)) \union introspection_tools \union ToSet(remediation_tools(disk))
        \union memory_tools(disk) \union skill_tools(disk) \union command_tools(disk)
        \union os_tools(disk)

-----------------------------------------------------------------------------
(* And back.                                                               *)

Resolved(s, name) == LET hits == SelectSeq(s, LAMBDA t : t.name = name)
                     IN  IF hits = <<>> THEN NoItem ELSE hits[1].item

resolve_agent(disk, name) == Resolved(catalog(disk), name)
resolve_skill(disk, name) == Resolved(skill_catalog(disk), name)
resolve_remediation(disk, name) == Resolved(Remediations(disk), name)

telegram_menu(disk) == Deduped(commands_found(disk), LAMBDA c : telegram_name[c.name])

\* resolve: the catalog name first, then the spelling of the menu.
resolve(disk, typed) ==
    LET exact == SelectSeq(commands_found(disk), LAMBDA c : c.name = typed)
        menu == SelectSeq(telegram_menu(disk), LAMBDA c : telegram_name[c.name] = telegram_name[typed])
    IN  IF exact # <<>> THEN exact[1]
        ELSE IF telegram_name[typed] = 0 \/ menu = <<>> THEN NoItem ELSE menu[1]

-----------------------------------------------------------------------------
(* What a skill hands out.  A path is [up, outside, scripts, file, exec].  *)

resolve_within(p) == ~p.up /\ ~p.outside
resolve_readable(p) == resolve_within(p) /\ p.file
resolve_script(p) == resolve_within(p) /\ p.scripts /\ p.file /\ p.exec

(* A command's body is a sequence of words: 0 is text, ARGUMENTS is all of the arguments, n the n-th. *)
ARGUMENTS == -1

substitute(body, args) ==
    FoldLeft(LAMBDA acc, w : acc \o CASE w = 0 -> <<"text">>
                                      [] w = ARGUMENTS -> args
                                      [] OTHER -> IF w <= Len(args) THEN <<args[w]>> ELSE <<>>,
             <<>>, body)

render(body, args) ==
    IF args = <<>> \/ \E i \in DOMAIN body : body[i] # 0 THEN substitute(body, args)
    ELSE substitute(body, args) \o args
=============================================================================
