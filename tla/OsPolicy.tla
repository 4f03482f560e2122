----------------------------- MODULE OsPolicy ------------------------------
(***************************************************************************)
(* The [os] section of config.toml (OsConfig of dotagent-core/config.rs):   *)
(* what a typed `!' line and a model's os-run may start.  A command is a    *)
(* sequence of tokens, the binary first; so is an entry of a list.  A       *)
(* policy is [enabled, allow, deny, confirm, tools], the lists as sets.     *)
(***************************************************************************)
EXTENDS Sequences, SequencesExt

CONSTANT Paths       \* tokens that are no bare name: a path, an option, an empty string

WILDCARD == "*"
is_bare_binary_name(bin) == bin \notin Paths

is_active(p) == p.enabled /\ p.allow # {}
is_wildcard(p) == \E e \in p.allow : e # <<>> /\ e[1] = WILDCARD

\* An entry covers what it is a prefix of, token by token; `*' is no entry of deny and confirm.
matches_any(list, argv) == \E e \in list : e # <<>> /\ IsPrefix(e, argv)

permits(p, argv) ==
    /\ is_active(p) /\ is_bare_binary_name(argv[1])
    /\ is_wildcard(p) \/ matches_any(p.allow, argv)

OsDecision == {"Allow", "Confirm", "Deny"}

decide(p, argv) ==
    IF ~is_active(p) \/ ~is_bare_binary_name(argv[1]) THEN "Deny"
    ELSE IF matches_any(p.deny, argv) \/ ~permits(p, argv) THEN "Deny"
    ELSE IF matches_any(p.confirm, argv) THEN "Confirm" ELSE "Allow"

\* run_allowed asks again: a command that a person has confirmed is still refused where it is denied.
run_allowed(p, argv) == decide(p, argv) # "Deny"

\* A tool of its own for a binary: the fixed arguments, then the caller's.
argv_of(tool, extra) == <<tool.bin>> \o tool.args \o extra
=============================================================================
