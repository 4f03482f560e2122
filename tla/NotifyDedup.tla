----------------------------- MODULE NotifyDedup -----------------------------
(***************************************************************************)
(* The re-notification ladder of crates/dotagent-state/src/notify_dedup.rs:*)
(* how often a condition that stays true is allowed to speak.  A table     *)
(* maps the key of an alert to its ongoing episode.                        *)
(***************************************************************************)
EXTENDS Integers, Sequences

CONSTANT BACKOFF_SECONDS     \* spacing between notices, the last one repeating

ASSUME LadderAssumption ==
    /\ BACKOFF_SECONDS \in Seq(Nat)
    /\ BACKOFF_SECONDS # <<>>

Events == {"given_up", "stale"}

\* An episode with count 0 stands for no episode.
NoEpisode == [first |-> 0, last |-> 0, count |-> 0]
Episodes == [first : Nat, last : Nat, count : Nat]

LadderStep(count) ==
    BACKOFF_SECONDS[IF count <= Len(BACKOFF_SECONDS) THEN count ELSE Len(BACKOFF_SECONDS)]

\* Entering the condition always notifies; so does a clock that went back.
should_notify(episode, now) ==
    \/ episode.count = 0
    \/ now < episode.last
    \/ now - episode.last >= LadderStep(episode.count)

record(episode, now) ==
    [first |-> IF episode.count = 0 THEN now ELSE episode.first,
     last  |-> now,
     count |-> episode.count + 1]

\* Every episode of one schedule ends.
clear_pair(table, i) == [table EXCEPT ![i] = [e \in Events |-> NoEpisode]]
=============================================================================
