----------------------------- MODULE Lifecycle -----------------------------
(***************************************************************************)
(* What the supervisor promises about a child process, whoever kills it:   *)
(* it is registered once, and leaves the registry either with exactly one  *)
(* terminal event or because its owner let go of it.                       *)
(***************************************************************************)
EXTENDS Sequences

CONSTANT Ids

VARIABLES life,     \* unborn, live (registered), ended, released
          events    \* the terminal events published for each process

lifecycle == <<life, events>>

Terminal == {"finished", "killed_timeout"}

Init ==
    /\ life = [p \in Ids |-> "unborn"]
    /\ events = [p \in Ids |-> <<>>]

Start(p) ==
    /\ life[p] = "unborn"
    /\ life' = [life EXCEPT ![p] = "live"]
    /\ UNCHANGED events

\* One sweep of the reaper may end several processes.
End(S) ==
    /\ S # {} /\ \A p \in S : life[p] = "live"
    /\ life' = [p \in Ids |-> IF p \in S THEN "ended" ELSE life[p]]
    /\ \E e \in Terminal :
           events' = [p \in Ids |-> IF p \in S THEN <<e>> ELSE events[p]]

\* The handle is dropped by an owner that never waited.
Release(p) ==
    /\ life[p] = "live"
    /\ life' = [life EXCEPT ![p] = "released"]
    /\ UNCHANGED events

Next ==
    \/ \E p \in Ids : Start(p) \/ Release(p)
    \/ \E S \in SUBSET Ids : End(S)

Spec == Init /\ [][Next]_lifecycle
=============================================================================
