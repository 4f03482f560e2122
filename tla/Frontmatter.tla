---------------------------- MODULE Frontmatter ----------------------------
(***************************************************************************)
(* The files of skills and commands: frontmatter.rs, and parse and validate *)
(* of skill.rs and command.rs, in dotagent-core.                            *)
(*                                                                          *)
(* A line is [indent, is, key, style, text], as far as the parser tells     *)
(* lines apart: a "fence" (`---'), the "dots" that close a header as well,  *)
(* "blank", "comment", "dash" (an item of a list), "prose" (no key), or a   *)
(* "pair".  A pair's style is "none" (nothing after the colon), "plain",    *)
(* "quoted", or a block scalar, "literal" or "folded".  A value is the      *)
(* sequence of its pieces.  An author writes the file entry by entry, and   *)
(* it may be read at any moment.                                            *)
(***************************************************************************)
EXTENDS Integers, Sequences, SequencesExt

CONSTANTS
    Entries,        \* what an author may put in a header: [key, style, text, lines]
    Numerals,       \* texts that are numbers
    Unfit,          \* names Telegram refuses
    MaxEntries      \* bound: entries of a header

ASSUME FrontmatterAssumption == MaxEntries \in Nat

VARIABLE page       \* the file: [opened, entries, closer, body]

Err == [err |-> TRUE]
DEFAULT_SKILL_TIMEOUT_SECONDS == "300"
Empty == [by |-> "", pieces |-> <<>>]

-----------------------------------------------------------------------------
(* frontmatter.rs.                                                         *)

Closes(l) == l.is \in {"fence", "dots"}

split(raw) ==
    IF raw = <<>> \/ raw[1].is # "fence" \/ \A i \in 2 .. Len(raw) : ~Closes(raw[i]) THEN Err
    ELSE LET closed == 1 + SelectInSeq(Tail(raw), Closes)
         IN  [err |-> FALSE, front |-> SubSeq(raw, 2, closed - 1), body |-> SubSeq(raw, closed + 1, Len(raw))]

\* Where a run of lines of a kind that begins at i is over.
Past(lines, i, Belongs(_)) ==
    LET stop == SelectInSubSeq(lines, i, Len(lines), LAMBDA l : ~Belongs(l))
    IN  IF stop = 0 THEN Len(lines) + 1 ELSE stop

Indented(l) == l.indent \/ l.is = "blank"
Nested(l) == Indented(l) \/ l.is = "dash"

\* Lines of a structure that is skipped, and lines without a key.
NoField(l) == l.indent \/ l.is # "pair"

\* trim, of lines that are joined: the blank ones at either end go.
trim_block(by, lines) ==
    LET some == {i \in DOMAIN lines : lines[i].is # "blank"}
        first == CHOOSE i \in some : \A j \in some : i <= j
        last == CHOOSE i \in some : \A j \in some : i >= j
        piece(l) == IF l.is = "blank" THEN <<"", "">> ELSE <<l.key, l.text>>
    IN  IF some = {} THEN Empty
        ELSE [by |-> by, pieces |-> [n \in 1 .. last - first + 1 |-> piece(lines[first + n - 1])]]

\* A text without its quotes.
unquote(l) == IF l.text = "" THEN Empty ELSE [by |-> "", pieces |-> <<<<"", l.text>>>>]

fields(front) ==
    LET from[i \in 1 .. Len(front) + 1] ==
            IF i > Len(front) THEN <<>>
            ELSE LET l == front[i]
                     block_end == Past(front, i + 1, Indented)
                     field(v) == <<[key |-> l.key, value |-> v]>>
                 IN  IF NoField(l) THEN from[i + 1]
                     ELSE CASE l.style = "literal" -> field(trim_block("nl", SubSeq(front, i + 1, block_end - 1))) \o from[block_end]
                            [] l.style = "folded" -> field(trim_block("sp", SubSeq(front, i + 1, block_end - 1))) \o from[block_end]
                            [] l.style = "none" -> from[Past(front, i + 1, Nested)]
                            [] OTHER -> field(unquote(l)) \o from[i + 1]
    IN  from[1]

\* The first of a key, and nothing where that is empty.
get(fs, key) ==
    LET hit == SelectInSeq(fs, LAMBDA f : f.key = key)
    IN  IF hit = 0 THEN Empty ELSE fs[hit].value

Or(v, otherwise) == IF v = Empty THEN otherwise ELSE v

-----------------------------------------------------------------------------
(* skill.rs and command.rs: the name of the path stands in for one that is *)
(* not given.                                                              *)

NoBody(body) == \A i \in DOMAIN body : body[i].is = "blank"

parse_skill(raw, fallback) ==
    LET s == split(raw)
        f(key) == get(fields(s.front), key)
        timeout == f("timeout_seconds")
    IN  IF s.err \/ f("description") = Empty \/ NoBody(s.body)
           \/ (timeout # Empty /\ timeout.pieces \notin {<<<<"", n>>>> : n \in Numerals}) THEN Err
        ELSE [err |-> FALSE, name |-> Or(f("name"), fallback), description |-> f("description"),
              timeout_seconds |-> IF timeout = Empty THEN DEFAULT_SKILL_TIMEOUT_SECONDS ELSE timeout.pieces[1][2]]

parse_command(raw, fallback) ==
    LET s == split(raw)
        f(key) == get(fields(s.front), key)
    IN  IF s.err \/ f("description") = Empty \/ NoBody(s.body) \/ Or(f("name"), fallback) \in Unfit THEN Err
        ELSE [err |-> FALSE, name |-> Or(f("name"), fallback), description |-> f("description"),
              argument_hint |-> Or(f("argument-hint"), f("argument_hint"))]

-----------------------------------------------------------------------------
(* The author.                                                             *)

PlainLine(indent, is) == [indent |-> indent, is |-> is, key |-> "", style |-> "none", text |-> ""]
LineOf(e) == [indent |-> FALSE, is |-> "pair", key |-> e.key, style |-> e.style, text |-> e.text]

\* The file as it is now.
Raw(p) ==
    (IF p.opened THEN <<PlainLine(FALSE, "fence")>> ELSE <<>>)
        \o FlattenSeq([i \in DOMAIN p.entries |->
               IF p.entries[i].key = "" THEN p.entries[i].lines ELSE <<LineOf(p.entries[i])>> \o p.entries[i].lines])
        \o p.closer \o p.body

PageInit == \E opened \in BOOLEAN : page = [opened |-> opened, entries |-> <<>>, closer |-> <<>>, body |-> <<>>]

WriteEntry(e) ==
    /\ page.closer = <<>> /\ Len(page.entries) < MaxEntries
    /\ page' = [page EXCEPT !.entries = Append(@, e)]

CloseHeader(how) ==
    /\ page.closer = <<>>
    /\ page' = [page EXCEPT !.closer = <<PlainLine(FALSE, how)>>]

WriteBody(is) ==
    /\ page.closer # <<>> /\ Len(page.body) < 2
    /\ page' = [page EXCEPT !.body = Append(@, PlainLine(FALSE, is))]

PageNext ==
    \/ \E e \in Entries : WriteEntry(e)
    \/ \E how \in {"fence", "dots"} : CloseHeader(how)
    \/ \E is \in {"blank", "prose", "fence"} : WriteBody(is)

PageSpec == PageInit /\ [][PageNext]_page

-----------------------------------------------------------------------------
(* Properties.                                                             *)

\* What an entry says, to one who reads the header entry by entry.
Meant(e) == CASE e.style = "literal" -> trim_block("nl", e.lines)
              [] e.style = "folded" -> trim_block("sp", e.lines)
              [] OTHER -> unquote(e)

Says(p, key) ==
    LET its == SelectSeq(p.entries, LAMBDA e : e.key = key /\ e.style # "none")
    IN  IF its = <<>> THEN Empty ELSE Meant(its[1])

\* A file loads exactly when its author is done with it, and then says what he wrote: no line of a list, a
\* map, a comment or a block scalar is taken for a field, although it may look like one or name one that
\* is given elsewhere, a key that opens a structure hides no later one, and a fence in the body is text
\* (split, fields, get, parse and validate of both formats).
FileSaysWhatWasWritten ==
    LET name == [by |-> "", pieces |-> <<<<"", "path">>>>]
        skill == parse_skill(Raw(page), name)
        command == parse_command(Raw(page), name)
        whole == page.opened /\ page.closer # <<>> /\ Says(page, "description") # Empty
                 /\ \E i \in DOMAIN page.body : page.body[i].is # "blank"
        seconds == Says(page, "timeout_seconds")
    IN  /\ skill.err = ~(whole /\ (seconds = Empty \/ \E n \in Numerals : seconds.pieces = <<<<"", n>>>>))
        /\ command.err = ~(whole /\ Or(Says(page, "name"), name) \notin Unfit)
        /\ \A file \in {f \in {skill, command} : ~f.err} :
              /\ file.name = Or(Says(page, "name"), name)
              /\ file.description = Says(page, "description")
=============================================================================
