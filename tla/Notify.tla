------------------------------- MODULE Notify -------------------------------
(***************************************************************************)
(* What a notification becomes on the wire (crates/dotagent-notify) and     *)
(* where its credentials come from (crates/dotagent-secrets).  Operators    *)
(* only; Runner fires them.                                                 *)
(*                                                                         *)
(* A text is a sequence of characters, and a character is one of a few      *)
(* kinds, for the backends do not agree on what they count: "a" a letter,   *)
(* "c" one of two bytes, "e" an emoji (four bytes, two UTF-16 units), "["   *)
(* a character MarkdownV2 reserves, "\\" the backslash, "=" and "?" what an *)
(* encoded-word opens with, " " a blank and "n" a control character.        *)
(***************************************************************************)
EXTENDS Integers, Sequences, SequencesExt

CONSTANTS
    MAX_MESSAGE_UNITS,    \* Telegram's cap, in UTF-16 units
    MAX_MESSAGE_CHARS,    \* Slack's and Pushover's, in characters
    MAX_MESSAGE_BYTES,    \* ntfy's, in bytes
    MAX_TITLE_BYTES,      \* the cap on ntfy's title before it is encoded
    MAX_TITLE_CHARS,      \* the cap on Pushover's
    ENCODED_WORD_MAX      \* what fits between the delimiters of an encoded-word

ASSUME NotifyAssumption ==
    {MAX_MESSAGE_UNITS, MAX_MESSAGE_CHARS, MAX_MESSAGE_BYTES, MAX_TITLE_BYTES,
     MAX_TITLE_CHARS, ENCODED_WORD_MAX} \subseteq Nat \ {0}

TRUNCATION_NOTICE == <<"n", "[", "a">>
ELLIPSIS_NOTICE == <<"c">>

len_utf16(c) == IF c = "e" THEN 2 ELSE 1
len_utf8(c) == CASE c = "e" -> 4 [] c = "c" -> 2 [] OTHER -> 1
one(c) == 1
Blank(c) == c \in {" ", "n"}
Reserved == {"[", "\\", "="}

\* The width of a text's first n characters.
WidthTo(text, n, Width(_)) ==
    LET w[i \in 0 .. n] == IF i = 0 THEN 0 ELSE w[i - 1] + Width(text[i]) IN w[n]
WidthOf(text, Width(_)) == WidthTo(text, Len(text), Width)

-----------------------------------------------------------------------------
(* limits.rs: the three cutters.                                           *)

\* The longest prefix within the budget; a character is taken whole or not at all.
take(text, budget, Width(_)) ==
    SubSeq(text, 1, CHOOSE n \in 0 .. Len(text) :
                       /\ WidthTo(text, n, Width) <= budget
                       /\ n < Len(text) => WidthTo(text, n + 1, Width) > budget)

\* What the cutters have in common; fixup mends the head before the notice.
cut(text, max, notice, Width(_), fixup(_)) ==
    IF WidthOf(text, Width) <= max THEN text
    ELSE IF WidthOf(notice, Width) >= max THEN take(text, max, Width)
    ELSE fixup(take(text, max - WidthOf(notice, Width), Width)) \o notice

Same(head) == head
truncate_chars(text, max, notice) == cut(text, max, notice, one, Same)
truncate_bytes(text, max, notice) == cut(text, max, notice, len_utf8, Same)
truncate_utf16_with(text, max, notice, fixup(_)) == cut(text, max, notice, len_utf16, fixup)

-----------------------------------------------------------------------------
(* telegram.rs: the body.                                                  *)

escape_markdown_v2(text) ==
    FlattenSeq([i \in DOMAIN text |-> IF text[i] \in Reserved THEN <<"\\", text[i]>>
                                      ELSE <<text[i]>>])

Trailing(head) ==
    Len(head) - (CHOOSE n \in 0 .. Len(head) :
                    /\ \A i \in n + 1 .. Len(head) : head[i] = "\\"
                    /\ n > 0 => head[n] # "\\")

\* An odd run of backslashes at the end lost what its last one escaped.
drop_dangling(head) == IF Trailing(head) % 2 = 1 THEN Front(head) ELSE head

truncate(text, mode) ==
    IF mode = "MarkdownV2"
    THEN truncate_utf16_with(text, MAX_MESSAGE_UNITS, escape_markdown_v2(TRUNCATION_NOTICE),
                             drop_dangling)
    ELSE truncate_utf16_with(text, MAX_MESSAGE_UNITS, TRUNCATION_NOTICE, Same)

\* Mutant: the body is cut before it is escaped.
render_body_cut_first(text, mode) ==
    IF mode = "MarkdownV2" THEN escape_markdown_v2(truncate(text, "plain"))
    ELSE truncate(text, mode)

\* Escape first: escaping makes the text longer, and the cap is on what is sent.
render_body(text, mode) ==
    truncate(IF mode = "MarkdownV2" THEN escape_markdown_v2(text) ELSE text, mode)

-----------------------------------------------------------------------------
(* ntfy.rs: a title is a header.                                           *)

trim(text) ==
    LET solid == {i \in DOMAIN text : ~Blank(text[i])}
    IN  IF solid = {} THEN <<>>
        ELSE SubSeq(text, CHOOSE i \in solid : \A j \in solid : i <= j,
                          CHOOSE i \in solid : \A j \in solid : i >= j)

\* The width of an encoded character: itself, or =XX for each of its bytes.
q_encode_char(c) == IF c \in {"a", " "} THEN 1 ELSE 3 * len_utf8(c)

\* Plain ASCII goes as it is; anything else as encoded-words, split between characters.
encode_header_value(raw) ==
    LET text == trim([i \in DOMAIN raw |-> IF raw[i] = "n" THEN " " ELSE raw[i]])
        pack(words, c) ==
            IF words = <<>> THEN <<<<c>>>>
            ELSE IF WidthOf(Last(words), q_encode_char) + q_encode_char(c) > ENCODED_WORD_MAX
            THEN Append(words, <<c>>)
            ELSE [words EXCEPT ![Len(words)] = Append(@, c)]
        opens(i) == text[i] = "=" /\ i < Len(text) /\ text[i + 1] = "?"
    IN  IF \A i \in DOMAIN text : text[i] \notin {"c", "e"} /\ ~opens(i)
        THEN [encoded |-> FALSE, words |-> <<text>>]
        ELSE [encoded |-> TRUE, words |-> FoldLeft(pack, <<>>, text)]

-----------------------------------------------------------------------------
(* Secrets.  A secrets file is there or not, private to its owner or not,   *)
(* and is a sequence of lines: blank, malformed, or a key and its value;    *)
(* a value may be a reference that `op read' has to resolve.                *)

Unset == "unset"
NoValue == <<Unset>>
NoStore == <<>>

\* parse: the first malformed line refuses the file; the last definition of a key wins.
parse(lines) ==
    LET defs == SelectSeq(lines, LAMBDA l : l.kind = "set")
        keys == {defs[i].key : i \in DOMAIN defs}
        last(k) == CHOOSE i \in DOMAIN defs :
                      /\ defs[i].key = k
                      /\ \A j \in DOMAIN defs : defs[j].key = k => j <= i
    IN  [k \in keys |-> defs[last(k)]]

\* resolve_references: a reference that does not resolve leaves its key unset.
resolve_references(entries, op) ==
    [k \in {k \in DOMAIN entries : entries[k].ref => op} |-> entries[k].value]

\* SecretsStore::load, and what the daemon installs: nothing when it is missing or refused.
load(file, op) ==
    IF \/ ~file.there \/ ~file.private
       \/ \E i \in DOMAIN file.lines : file.lines[i].kind = "bad"
    THEN NoStore ELSE resolve_references(parse(file.lines), op)

\* lookup: the store, then the process environment.
lookup(store, environ, key) ==
    IF key \in DOMAIN store THEN store[key]
    ELSE IF key \in DOMAIN environ THEN environ[key] ELSE Unset

\* expand_env: one field.  A template is a sequence of pieces: a literal, a ${VAR}, or a
\* placeholder that is empty or not closed.
expand_env(store, environ, template) ==
    LET value(p) == CASE p.kind = "lit" -> p.is
                      [] p.kind = "var" -> lookup(store, environ, p.is)
                      [] OTHER -> Unset
    IN  IF \E i \in DOMAIN template : value(template[i]) = Unset THEN NoValue
        ELSE [i \in DOMAIN template |-> value(template[i])]

-----------------------------------------------------------------------------
(* The drivers.  A resolved field is the sequence of its pieces: "" a blank *)
(* one, "http" the scheme of a URL, "/" a URL separator, ".." a parent.     *)

Empty(v) == \A i \in DOMAIN v : v[i] = ""
IsUrl(v) == v # <<>> /\ v[1] = "http"
Misleads(v) == v = <<"..">> \/ \E i \in DOMAIN v : v[i] = "/"

\* The checks each driver makes before it sends, on the resolved fields.
telegram_ready(f) == ~Empty(f.chat) /\ f.token # NoValue /\ ~Empty(f.token)
resolve_webhook(f) == IsUrl(f.url)
resolve_ntfy(f) ==
    /\ NoValue \notin {f.base, f.topic, f.token}
    /\ ~Empty(f.topic) /\ ~Misleads(f.topic) /\ IsUrl(f.base)
resolve_credentials(f) ==
    NoValue \notin {f.token, f.user} /\ ~Empty(f.token) /\ ~Empty(f.user)
imessage_ready(f) == f.macos /\ f.to # ""

Ready(driver, f) ==
    CASE driver = "telegram" -> telegram_ready(f)
      [] driver = "slack" -> resolve_webhook(f)
      [] driver = "ntfy" -> resolve_ntfy(f)
      [] driver = "pushover" -> resolve_credentials(f)
      [] driver = "imessage" -> imessage_ready(f)
      [] OTHER -> TRUE

\* What each driver sends: a body and, where the form of it matters, a title.
NoTitle == [encoded |-> FALSE, words |-> <<>>]
escape_applescript(text) ==
    FlattenSeq([i \in DOMAIN text |-> IF text[i] = "\\" THEN <<"\\", "\\">> ELSE <<text[i]>>])

telegram_sends(entry, message) == [body |-> render_body(message, entry.mode), title |-> NoTitle]
slack_sends(entry, message) ==
    [body |-> truncate_chars(message, MAX_MESSAGE_CHARS, TRUNCATION_NOTICE), title |-> NoTitle]
pushover_sends(entry, message) ==
    [body |-> truncate_chars(message, MAX_MESSAGE_CHARS, TRUNCATION_NOTICE),
     title |-> [encoded |-> FALSE,
                words |-> <<truncate_chars(entry.title, MAX_TITLE_CHARS, ELLIPSIS_NOTICE)>>]]
ntfy_sends(entry, message) ==
    [body |-> truncate_bytes(message, MAX_MESSAGE_BYTES, TRUNCATION_NOTICE),
     title |-> encode_header_value(truncate_bytes(entry.title, MAX_TITLE_BYTES, ELLIPSIS_NOTICE))]
imessage_sends(entry, message) == [body |-> escape_applescript(message), title |-> NoTitle]
desktop_sends(entry, message) == [body |-> message, title |-> NoTitle]

build_driver(driver, entry, message) ==
    CASE driver = "telegram" -> telegram_sends(entry, message)
      [] driver = "slack" -> slack_sends(entry, message)
      [] driver = "pushover" -> pushover_sends(entry, message)
      [] driver = "ntfy" -> ntfy_sends(entry, message)
      [] driver = "imessage" -> imessage_sends(entry, message)
      [] driver = "desktop" -> desktop_sends(entry, message)

\* matches_event: an entry's own filter, a plugin's, or every event.
matches_event(entry, event) ==
    IF entry.events # {} THEN event \in entry.events
    ELSE entry.pevents # {} => event \in entry.pevents

-----------------------------------------------------------------------------
(* The backends (external): what they refuse for its form.                  *)

\* MarkdownV2 as Telegram reads it: a backslash and its character are one.
Plainly(body) ==
    LET opener == [i \in DOMAIN body |->
                     /\ body[i] = "\\"
                     /\ Trailing(SubSeq(body, 1, i)) % 2 = 1]
    IN  \A i \in DOMAIN body :
           /\ opener[i] => i < Len(body)
           /\ body[i] \in Reserved /\ ~opener[i] => i > 1 /\ opener[i - 1]

Accepts(driver, entry, wire) ==
    /\ trim(wire.body) # <<>>
    /\ driver = "telegram" => /\ WidthOf(wire.body, len_utf16) <= MAX_MESSAGE_UNITS
                              /\ entry.mode = "MarkdownV2" => Plainly(wire.body)
    /\ driver \in {"slack", "pushover"} => Len(wire.body) <= MAX_MESSAGE_CHARS
    /\ driver = "pushover" => Len(wire.title.words[1]) <= MAX_TITLE_CHARS
    /\ driver = "ntfy" =>
          /\ WidthOf(wire.body, len_utf8) <= MAX_MESSAGE_BYTES
          /\ \A i \in DOMAIN wire.title.words :
                IF wire.title.encoded
                THEN WidthOf(wire.title.words[i], q_encode_char) <= ENCODED_WORD_MAX
                ELSE \A j \in DOMAIN wire.title.words[i] :
                        wire.title.words[i][j] \notin {"c", "e", "n"}
=============================================================================
