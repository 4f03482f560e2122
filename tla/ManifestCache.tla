--------------------------- MODULE ManifestCache ---------------------------
(***************************************************************************)
(* crates/dotagent-state/src/manifest_cache.rs and check_cache in          *)
(* commands/daemon.rs: the hashes of the manifests that were seen, by      *)
(* which a tick tells a new or a changed agent.                            *)
(*                                                                         *)
(* The daemon and a `dotagent tick' beside it check at once.  Unlike the   *)
(* other state files known_manifests.json has no lock, and both write the  *)
(* same known_manifests.json.tmp: a rename takes away the file that the    *)
(* other process still writes.                                             *)
(***************************************************************************)
EXTENDS Integers, Sequences, FiniteSets

CONSTANTS
    Checkers,       \* processes
    Agents,
    Shas,           \* contents of a manifest
    MaxChanges,     \* bound: edits of manifests
    MaxChecks,      \* bound: checks begun
    MaxMishaps      \* bound: processes killed, audit appends failed

ASSUME CacheAssumption ==
    /\ MaxChanges \in Nat /\ MaxChecks \in Nat /\ MaxMishaps \in Nat /\ "none" \notin Shas

VARIABLES
    manifest,   \* what is on disk: agent |-> content, or "none"
    known,      \* known_manifests.json
    beside,     \* known_manifests.json.tmp
    checker,    \* what each process is doing
    said,       \* audit entries, as <<event, agent, sha>>
    changes, checks, mishaps,
    mute,       \* an audit append has failed
    sideBySide     \* two checks have run at once

cacheVars == <<manifest, known, beside, checker, said, changes, checks, mishaps, mute, sideBySide>>

NoEntries == [a \in Agents |-> "none"]
NoCache == [kind |-> "none", entries |-> NoEntries]
Half == [kind |-> "torn", entries |-> NoEntries]
WholeCache(e) == [kind |-> "whole", entries |-> e]
NoCheck == [pc |-> "idle", entries |-> NoEntries, todo |-> {}, changed |-> FALSE, at |-> "lost"]

CacheInit ==
    /\ manifest \in [Agents -> Shas \union {"none"}]
    /\ known = NoCache /\ beside = NoCache
    /\ checker = [p \in Checkers |-> NoCheck]
    /\ said = <<>> /\ changes = 0 /\ checks = 0 /\ mishaps = 0
    /\ mute = FALSE /\ sideBySide = FALSE

\* An operator adds, edits or removes an agent.
EditManifest(a, sha) ==
    /\ changes < MaxChanges /\ manifest[a] # sha
    /\ changes' = changes + 1 /\ manifest' = [manifest EXCEPT ![a] = sha]
    /\ UNCHANGED <<known, beside, checker, said, checks, mishaps, mute, sideBySide>>

\* A cache that is missing or cannot be read is an empty one.
load_cache == known.entries

BeginCheck(p) ==
    /\ checker[p].pc = "idle" /\ checks < MaxChecks
    /\ checks' = checks + 1
    /\ checker' = [checker EXCEPT ![p] = [NoCheck EXCEPT !.pc = "check", !.entries = load_cache,
                                            !.todo = {a \in Agents : manifest[a] # "none"}]]
    /\ sideBySide' = (sideBySide \/ \E q \in Checkers \ {p} : checker[q].pc # "idle")
    /\ UNCHANGED <<manifest, known, beside, said, changes, mishaps, mute>>

\* Mutant: the hash is remembered and nobody is told that it is another.
EventsOfNewOnly(entries, a, sha) ==
    IF entries[a] = "none" THEN <<<<"phantom", a, sha>>, <<"loaded", a, sha>>>> ELSE <<>>

\* An agent that is new is a phantom and loaded, one that differs has drifted.
Events(entries, a, sha) ==
    IF entries[a] = "none" THEN <<<<"phantom", a, sha>>, <<"loaded", a, sha>>>>
    ELSE IF entries[a] # sha THEN <<<<"drift", a, sha>>>> ELSE <<>>

\* One agent: its file is hashed now and may be gone.  An append that fails is not retried.
check_cache(p, a, ok) ==
    LET sha == manifest[a]
        events == Events(checker[p].entries, a, sha)
    IN  /\ checker[p].pc = "check" /\ a \in checker[p].todo
        /\ IF sha = "none"
           THEN checker' = [checker EXCEPT ![p].todo = @ \ {a}] /\ UNCHANGED <<said, mishaps, mute>>
           ELSE /\ ~ok => events # <<>> /\ mishaps < MaxMishaps
                /\ said' = IF ok THEN said \o events ELSE said
                /\ mishaps' = (IF ok THEN mishaps ELSE mishaps + 1) /\ mute' = (mute \/ ~ok)
                /\ checker' = [checker EXCEPT ![p].todo = @ \ {a}, ![p].entries[a] = sha,
                                              ![p].changed = @ \/ events # <<>>]
        /\ UNCHANGED <<manifest, known, beside, changes, checks, sideBySide>>

Unchanged(p) ==
    /\ checker[p].pc = "check" /\ checker[p].todo = {} /\ ~checker[p].changed
    /\ checker' = [checker EXCEPT ![p] = NoCheck]
    /\ UNCHANGED <<manifest, known, beside, said, changes, checks, mishaps, mute, sideBySide>>

\* save: the file beside is created, or emptied under whoever has it open.
SaveCreates(p) ==
    /\ checker[p].pc = "check" /\ checker[p].todo = {} /\ checker[p].changed
    /\ beside' = Half
    /\ checker' = [checker EXCEPT ![p].pc = "fill", ![p].at = "beside"]
    /\ UNCHANGED <<manifest, known, said, changes, checks, mishaps, mute, sideBySide>>

\* Bytes over the bytes of another writer: the longer text's end stays.
Over(file, e) ==
    IF file.kind = "whole" /\ file.entries # e THEN {WholeCache(e), Half} ELSE {WholeCache(e)}

SaveFills(p) ==
    LET e == checker[p].entries
    IN  /\ checker[p].pc = "fill"
        /\ beside' \in IF checker[p].at = "beside" THEN Over(beside, e) ELSE {beside}
        /\ known' \in IF checker[p].at = "known" THEN Over(known, e) ELSE {known}
        /\ checker' = [checker EXCEPT ![p].pc = "rename"]
        /\ UNCHANGED <<manifest, said, changes, checks, mishaps, mute, sideBySide>>

\* The rename moves whatever is beside by now, or fails; others' open files move along.
SaveRenames(p) ==
    /\ checker[p].pc = "rename"
    /\ IF beside.kind = "none" THEN checker' = [checker EXCEPT ![p] = NoCheck] /\ UNCHANGED known
       ELSE /\ known' = beside
            /\ checker' = [q \in Checkers |->
                             IF q = p THEN NoCheck
                             ELSE [checker[q] EXCEPT !.at = IF @ = "beside" THEN "known" ELSE "lost"]]
    /\ beside' = NoCache
    /\ UNCHANGED <<manifest, said, changes, checks, mishaps, mute, sideBySide>>

CheckerDies(p) ==
    /\ checker[p].pc # "idle" /\ mishaps < MaxMishaps
    /\ mishaps' = mishaps + 1
    /\ checker' = [checker EXCEPT ![p] = NoCheck]
    /\ UNCHANGED <<manifest, known, beside, said, changes, checks, mute, sideBySide>>

CacheNext ==
    \/ \E a \in Agents, sha \in Shas \union {"none"} : EditManifest(a, sha)
    \/ \E p \in Checkers :
         \/ BeginCheck(p) \/ \E a \in Agents, ok \in BOOLEAN : check_cache(p, a, ok)
         \/ Unchanged(p) \/ SaveCreates(p) \/ SaveFills(p) \/ SaveRenames(p) \/ CheckerDies(p)

CacheSpec == CacheInit /\ [][CacheNext]_cacheVars

-----------------------------------------------------------------------------
(* Properties.                                                             *)

Announced(a) == {i \in DOMAIN said : said[i][2] = a /\ said[i][1] # "loaded"}
LastSaid(a) == said[CHOOSE i \in Announced(a) : \A j \in Announced(a) : j <= i][3]

\* Whatever two checks, a crash or a broken file do, no content enters the cache that the audit log
\* does not name; a check that dies between the two announces again rather than not at all
\* (check_cache appends before save).
NothingIsLearntInSilence ==
    ~mute =>
      \A a \in Agents : known.entries[a] # "none" =>
          \E i \in DOMAIN said : said[i][2] = a /\ said[i][3] = known.entries[a]

\* Checks one after the other tell an agent's story: the last word on it is what the cache
\* holds, it is new once, and every change between two checks is told.  Not so when two checks cross.
StoryIsTold ==
    ~sideBySide /\ mishaps = 0 =>
       /\ known.kind # "torn"
       /\ \A a \in Agents :
            /\ Cardinality({i \in DOMAIN said : said[i][1] = "phantom" /\ said[i][2] = a}) <= 1
            /\ known.entries[a] # "none" /\ (\A p \in Checkers : checker[p].pc = "idle")
                  => LastSaid(a) = known.entries[a]

\* CacheInv: NothingIsLearntInSilence and StoryIsTold, of check_cache and ManifestCache::save.
CacheInv ==
    /\ known.kind \in {"none", "torn", "whole"} /\ known.entries \in [Agents -> Shas \union {"none"}]
    /\ NothingIsLearntInSilence /\ StoryIsTold
=============================================================================
