----------------------------- MODULE Supervisor -----------------------------
(***************************************************************************)
(* crates/dotagent-supervisor: the registry of live child processes and    *)
(* everybody who may end one of them: the task that waits for it, the      *)
(* reaper at its deadline, Supervisor::terminate, the drop of a wait or of *)
(* a handle, and the daemon's shutdown.  They run on several threads; the  *)
(* registry's mutex makes each access to it one step, and whatever is not  *)
(* under it is a step of its own.                                          *)
(*                                                                         *)
(* A child whose exit status has been collected ("reaped") has given its   *)
(* pid back to the operating system: a signal sent to it afterwards may    *)
(* land on a stranger.                                                     *)
(***************************************************************************)
EXTENDS Integers, Sequences, FiniteSetsExt

CONSTANTS
    Ids,          \* ProcIds, each handed out once
    Persistent,   \* those owned by the persistent pool; the others are waited for
    Deadline,     \* SpawnSpec::deadline of each
    Retimes,      \* deadlines the persistent pool sets later
    MaxTime       \* bound: the last instant

ASSUME SupervisorAssumption ==
    /\ Persistent \subseteq Ids
    /\ Deadline \in [Ids -> Nat]
    /\ Retimes \subseteq Nat
    /\ MaxTime \in Nat

VARIABLES
    now,
    os,            \* each child as the kernel sees it
    registered,    \* ids with an entry in the registry
    claimed,       \* entries with killed_by_reaper set
    expires,       \* started_instant + deadline of each entry
    handle,        \* what the owner of the SupervisedHandle is doing
    mode,          \* which wait it called
    due,           \* when that wait times out
    released,      \* children dropped: tokio collects them in the background
    terminating,   \* ids inside Supervisor::terminate's grace
    reaper,        \* where the reaper's loop is
    until,         \* the instant it sleeps to
    victims,       \* what its sweep has claimed
    woken,         \* `wake' changed since the reaper subscribed
    stage,         \* the daemon: up, stopping, in shutdown's grace, gone
    events,        \* terminal events published
    opted,         \* history: ids whose handle was dropped without a wait
    stray          \* history: who signalled a pid that was given back

registry == <<registered, claimed, expires>>
owner    == <<handle, mode, due, released>>
sweeper  == <<reaper, until, victims, woken>>
history  == <<opted, stray>>
vars     == <<now, os, registry, owner, terminating, sweeper, stage, events, history>>

Time == 0 .. MaxTime
Kills == {"status", "output", "cancel_status", "cancel_output", "reaper_term", "reaper",
          "terminate", "shutdown"}

-----------------------------------------------------------------------------
(* Pieces of steps.                                                        *)

\* signal_tree on the groups of S.  SIGKILL leaves nothing running.
Kill(S, by) ==
    /\ os' = [p \in Ids |-> IF p \in S /\ os[p] = "running" THEN "zombie" ELSE os[p]]
    /\ stray' = IF \E p \in S : os[p] = "reaped" THEN stray \union {by} ELSE stray

\* SIGTERM may be ignored: what the child makes of it is Exit.
Term(S, by) ==
    stray' = IF \E p \in S : os[p] = "reaped" THEN stray \union {by} ELSE stray

Emit(S, e) == events' = [p \in Ids |-> IF p \in S THEN Append(events[p], e) ELSE events[p]]

\* Entries leave the registry.
Remove(S) ==
    /\ registered' = registered \ S
    /\ claimed' = claimed \ S
    /\ expires' = [p \in Ids |-> IF p \in S THEN 0 ELSE expires[p]]

Running == stage # "gone"

-----------------------------------------------------------------------------
Init ==
    /\ now = 0
    /\ os = [p \in Ids |-> "unborn"]
    /\ registered = {} /\ claimed = {} /\ expires = [p \in Ids |-> 0]
    /\ handle = [p \in Ids |-> "none"]
    /\ mode = [p \in Ids |-> "status"]
    /\ due = [p \in Ids |-> 0]
    /\ released = {} /\ terminating = {}
    /\ reaper = "loop" /\ until = 0 /\ victims = {} /\ woken = FALSE
    /\ stage = "up"
    /\ events = [p \in Ids |-> <<>>]
    /\ opted = {} /\ stray = {}

\* Mutant: the reaper is not told of the new entry.
SpawnSilently(p) ==
    /\ stage = "up" /\ os[p] = "unborn"
    /\ os' = [os EXCEPT ![p] = "running"]
    /\ registered' = registered \union {p}
    /\ expires' = [expires EXCEPT ![p] = now + Deadline[p]]
    /\ handle' = [handle EXCEPT ![p] = "held"]
    /\ UNCHANGED <<now, claimed, mode, due, released, terminating, sweeper, stage, events,
                   history>>

\* spawn_supervised: no await between the fork and the entry.  The wake_all that
\* follows an access to the registry is folded into it: a reaper that subscribes
\* between the two reads the new registry and wakes up once more, for nothing.
Spawn(p) ==
    /\ stage = "up" /\ os[p] = "unborn"
    /\ os' = [os EXCEPT ![p] = "running"]
    /\ registered' = registered \union {p}
    /\ expires' = [expires EXCEPT ![p] = now + Deadline[p]]
    /\ handle' = [handle EXCEPT ![p] = "held"]
    /\ woken' = TRUE
    /\ UNCHANGED <<now, claimed, mode, due, released, terminating, reaper, until, victims,
                   stage, events, history>>

\* The child exits, by itself or on SIGTERM.
Exit(p) ==
    /\ Running /\ os[p] = "running"
    /\ os' = [os EXCEPT ![p] = "zombie"]
    /\ UNCHANGED <<now, registry, owner, terminating, sweeper, stage, events, history>>

\* tokio's background collection of dropped children.
Collect(p) ==
    /\ Running /\ p \in released /\ os[p] = "zombie"
    /\ os' = [os EXCEPT ![p] = "reaped"]
    /\ UNCHANGED <<now, registry, owner, terminating, sweeper, stage, events, history>>

\* The persistent pool asks whether the child is still there.
try_wait(p) ==
    /\ Running /\ p \in Persistent /\ handle[p] = "held" /\ os[p] = "zombie"
    /\ os' = [os EXCEPT ![p] = "reaped"]
    /\ UNCHANGED <<now, registry, owner, terminating, sweeper, stage, events, history>>

\* Mutant: the reaper is not told that a deadline moved.
RetimeSilently(p, d) ==
    /\ Running /\ p \in Persistent \ terminating /\ handle[p] = "held"
    /\ p \in registered \ claimed
    /\ expires' = [expires EXCEPT ![p] = now + d]
    /\ UNCHANGED <<now, os, registered, claimed, owner, terminating, sweeper,
                   stage, events, history>>

retime(p, d) ==
    /\ Running /\ p \in Persistent \ terminating /\ handle[p] = "held"
    /\ p \in registered \ claimed
    /\ expires' = [expires EXCEPT ![p] = now + d]
    /\ woken' = TRUE
    /\ UNCHANGED <<now, os, registered, claimed, owner, terminating, reaper, until, victims,
                   stage, events, history>>

-----------------------------------------------------------------------------
(* The waiter: wait_status and wait_with_output.                           *)

Wait(p) ==
    /\ Running /\ p \notin Persistent /\ handle[p] = "held"
    /\ handle' = [handle EXCEPT ![p] = "waiting"]
    /\ \E m \in {"status", "output"} : mode' = [mode EXCEPT ![p] = m]
    /\ due' = [due EXCEPT ![p] = now + Deadline[p]]
    /\ UNCHANGED <<now, os, registry, released, terminating, sweeper, stage, events, history>>

\* The exit status arrives, and with it the pid is free ...
WaitReturns(p) ==
    /\ Running /\ handle[p] \in {"waiting", "collecting"} /\ os[p] = "zombie"
    /\ os' = [os EXCEPT ![p] = "reaped"]
    /\ handle' = [handle EXCEPT ![p] = IF @ = "waiting" THEN "finishing" ELSE "done"]
    /\ due' = [due EXCEPT ![p] = 0]
    /\ UNCHANGED <<now, registry, mode, released, terminating, sweeper, stage, events,
                   history>>

\* Mutant: finish does not look at the claim.
finish_anyway(p) ==
    /\ Running /\ handle[p] = "finishing"
    /\ handle' = [handle EXCEPT ![p] = "done"]
    /\ Remove({p})
    /\ Emit({p}, "finished")
    /\ woken' = TRUE
    /\ UNCHANGED <<now, os, mode, due, released, terminating, reaper, until, victims, stage,
                   history>>

\* ... before finish takes the registry's lock.
finish(p) ==
    /\ Running /\ handle[p] = "finishing"
    /\ handle' = [handle EXCEPT ![p] = "done"]
    /\ IF p \in registered \ claimed
       THEN Remove({p}) /\ Emit({p}, "finished") /\ woken' = TRUE
       ELSE UNCHANGED <<registry, events, woken>>
    /\ UNCHANGED <<now, os, mode, due, released, terminating, reaper, until, victims, stage,
                   history>>

\* The wait times out.  Who loses the race for the claim only collects the
\* child, or, in wait_with_output, has dropped it with the inner future.
WaitExpires(p) ==
    /\ Running /\ handle[p] = "waiting" /\ now >= due[p]
    /\ due' = [due EXCEPT ![p] = 0]
    /\ released' = IF mode[p] = "output" THEN released \union {p} ELSE released
    /\ IF p \in registered \ claimed
       THEN /\ claimed' = claimed \union {p}
            /\ handle' = [handle EXCEPT ![p] = "killing"]
            /\ Term({p}, mode[p])
       ELSE /\ handle' = [handle EXCEPT ![p] =
                             IF mode[p] = "output" THEN "done" ELSE "collecting"]
            /\ UNCHANGED <<claimed, stray>>
    /\ UNCHANGED <<now, os, registered, expires, mode, terminating, sweeper, stage,
                   events, opted>>

\* The grace is over: kill_tree's SIGKILL, deregister, the event.
KillExpired(p) ==
    /\ Running /\ handle[p] = "killing"
    /\ Kill({p}, mode[p])
    /\ Remove({p})
    /\ Emit({p}, "killed_timeout")
    /\ woken' = TRUE
    /\ handle' = [handle EXCEPT ![p] = IF mode[p] = "output" THEN "done" ELSE "collecting"]
    /\ UNCHANGED <<now, mode, due, released, terminating, reaper, until, victims, stage, opted>>

\* The future of wait_with_output is dropped.  The inner future goes first and
\* takes the child with it: one that has exited is collected there and then.
CancelOutput(p) ==
    /\ Running /\ handle[p] = "waiting" /\ mode[p] = "output"
    /\ handle' = [handle EXCEPT ![p] = "cancelled"]
    /\ released' = released \union {p}
    /\ os' = [os EXCEPT ![p] = IF @ = "zombie" THEN "reaped" ELSE @]
    /\ UNCHANGED <<now, registry, mode, due, terminating, sweeper, stage, events, history>>

\* WaitCleanup::drop: what nobody has claimed is claimed and killed on the spot;
\* in wait_status the child is still held.
CancelWait(p) ==
    LET mine == handle[p] = "killing" \/ (handle[p] # "collecting" /\ p \in registered \ claimed)
        by   == IF mode[p] = "output" THEN "cancel_output" ELSE "cancel_status"
    IN  /\ Running
        /\ \/ handle[p] \in {"cancelled", "killing", "collecting"}
           \/ handle[p] = "waiting" /\ mode[p] = "status"
        /\ handle' = [handle EXCEPT ![p] = "done"]
        /\ due' = [due EXCEPT ![p] = 0]
        /\ released' = released \union {p}
        /\ IF mine
           THEN Kill({p}, by) /\ Remove({p}) /\ Emit({p}, "finished") /\ woken' = TRUE
           ELSE UNCHANGED <<os, registry, events, woken, stray>>
        /\ UNCHANGED <<now, mode, terminating, reaper, until, victims, stage, opted>>

-----------------------------------------------------------------------------
(* SupervisedHandle::drop, by an owner that did not wait.                  *)

\* The claim is looked up under the lock ...
DropHandle(p) ==
    /\ Running /\ handle[p] = "held" /\ p \notin terminating
    /\ IF p \in registered \ claimed
       THEN /\ handle' = [handle EXCEPT ![p] = "dropping"]
            /\ opted' = opted \union {p}
            /\ UNCHANGED released
       ELSE /\ handle' = [handle EXCEPT ![p] = "done"]
            /\ released' = released \union {p}
            /\ UNCHANGED opted
    /\ UNCHANGED <<now, os, registry, mode, due, terminating, sweeper, stage, events, stray>>

\* ... and deregister takes the lock again.
deregister(p) ==
    /\ Running /\ handle[p] = "dropping"
    /\ handle' = [handle EXCEPT ![p] = "done"]
    /\ released' = released \union {p}
    /\ Remove({p})
    /\ woken' = TRUE
    /\ UNCHANGED <<now, os, mode, due, terminating, reaper, until, victims, stage, events,
                   history>>

-----------------------------------------------------------------------------
(* Supervisor::terminate, called by the pool with the instance in its hands. *)

terminate(p) ==
    /\ Running /\ p \in Persistent /\ handle[p] = "held"
    /\ p \in registered \ claimed
    /\ claimed' = claimed \union {p}
    /\ terminating' = terminating \union {p}
    /\ Term({p}, "terminate")
    /\ UNCHANGED <<now, os, registered, expires, owner, sweeper, stage, events, opted>>

TerminateEnds(p) ==
    /\ Running /\ p \in terminating
    /\ terminating' = terminating \ {p}
    /\ Kill({p}, "terminate")
    /\ IF p \in registered
       THEN Remove({p}) /\ Emit({p}, "finished") /\ woken' = TRUE
       ELSE UNCHANGED <<registry, events, woken>>
    /\ UNCHANGED <<now, owner, reaper, until, victims, stage, opted>>

\* The gateway aborts the task that called terminate: its instance is dropped,
\* the claimed entry stays behind.
TerminateAborted(p) ==
    /\ stage = "stopping" /\ p \in terminating
    /\ terminating' = terminating \ {p}
    /\ handle' = [handle EXCEPT ![p] = "done"]
    /\ released' = released \union {p}
    /\ UNCHANGED <<now, os, registry, mode, due, sweeper, stage, events, history>>

-----------------------------------------------------------------------------
(* The reaper's loop.                                                      *)

Subscribe ==
    /\ Running /\ reaper = "loop"
    /\ reaper' = "read"
    /\ woken' = FALSE
    /\ UNCHANGED <<now, os, registry, owner, terminating, until, victims, stage, events,
                   history>>

\* next_deadline, and what the loop does with it.
next_deadline ==
    LET open == registered \ claimed
    IN  /\ Running /\ reaper = "read"
        /\ IF open = {}
           THEN reaper' = "parked" /\ UNCHANGED until
           ELSE LET nearest == Min({expires[p] : p \in open})
                IN  IF nearest <= now
                    THEN reaper' = "sweep" /\ UNCHANGED until
                    ELSE reaper' = "asleep" /\ until' = nearest
        /\ UNCHANGED <<now, os, registry, owner, terminating, victims, woken, stage, events,
                       history>>

\* A change wakes a parked reaper for a sweep and sends a sleeping one back to
\* compute its sleep again; the timer ends the sleep.
WakeUp ==
    /\ Running
    /\ \/ reaper = "parked" /\ woken /\ reaper' = "sweep"
       \/ reaper = "asleep" /\ woken /\ reaper' = "loop"
       \/ reaper = "asleep" /\ now >= until /\ reaper' = "sweep"
    /\ until' = 0
    /\ UNCHANGED <<now, os, registry, owner, terminating, victims, woken, stage,
                   events, history>>

Overdue == {p \in registered \ claimed : expires[p] <= now}

\* sweep_once: claim and mark under one hold of the lock, then SIGTERM.
sweep_once ==
    /\ Running /\ reaper = "sweep"
    /\ victims' = Overdue
    /\ claimed' = claimed \union Overdue
    /\ reaper' = IF Overdue = {} THEN "loop" ELSE "grace"
    /\ Term(Overdue, "reaper_term")
    /\ UNCHANGED <<now, os, registered, expires, owner, terminating, until, woken, stage,
                   events, opted>>

\* The grace is over: SIGKILL, and an event for each entry still there.
SweepKills ==
    /\ Running /\ reaper = "grace"
    /\ Kill(victims, "reaper")
    /\ Remove(victims)
    /\ Emit(victims \intersect registered, "killed_timeout")
    /\ victims' = {}
    /\ reaper' = "loop"
    /\ UNCHANGED <<now, owner, terminating, until, woken, stage, opted>>

-----------------------------------------------------------------------------
(* The daemon stops: the gateway aborts its tasks, then Supervisor::shutdown. *)

Stop ==
    /\ stage = "up"
    /\ stage' = "stopping"
    /\ UNCHANGED <<now, os, registry, owner, terminating, sweeper, events, history>>

shutdown ==
    /\ stage = "stopping"
    /\ stage' = IF registered = {} THEN "gone" ELSE "grace"
    /\ Term(registered, "shutdown")
    /\ UNCHANGED <<now, os, registry, owner, terminating, sweeper, events, opted>>

ShutdownKills ==
    /\ stage = "grace"
    /\ stage' = "gone"
    /\ Kill(registered, "shutdown")
    /\ UNCHANGED <<now, registry, owner, terminating, sweeper, events, opted>>

Pass ==
    /\ Running /\ now < MaxTime
    /\ now' = now + 1
    /\ UNCHANGED <<os, registry, owner, terminating, sweeper, stage, events, history>>

Reaper == Subscribe \/ next_deadline \/ WakeUp \/ sweep_once \/ SweepKills

Next ==
    \/ \E p \in Ids :
         \/ Spawn(p) \/ Exit(p) \/ Collect(p) \/ try_wait(p)
         \/ \E d \in Retimes : retime(p, d)
         \/ Wait(p) \/ WaitReturns(p) \/ finish(p) \/ WaitExpires(p) \/ KillExpired(p)
         \/ CancelOutput(p) \/ CancelWait(p)
         \/ DropHandle(p) \/ deregister(p)
         \/ terminate(p) \/ TerminateEnds(p) \/ TerminateAborted(p)
    \/ Reaper
    \/ Stop \/ shutdown \/ ShutdownKills
    \/ Pass

Spec == Init /\ [][Next]_vars

\* The runtime keeps polling the reaper's task and those whose timer fired.
\* Nothing makes a child exit, an owner wait or the daemon stop.
FairSpec ==
    /\ Spec
    /\ WF_vars(Reaper)
    /\ \A p \in Ids : WF_vars(KillExpired(p) \/ TerminateEnds(p) \/ deregister(p) \/ finish(p))

-----------------------------------------------------------------------------
TypeOK ==
    /\ now \in Time
    /\ os \in [Ids -> {"unborn", "running", "zombie", "reaped"}]
    /\ registered \subseteq Ids /\ claimed \subseteq registered
    /\ expires \in [Ids -> Nat]
    /\ handle \in [Ids -> {"none", "held", "waiting", "finishing", "killing", "collecting",
                           "cancelled", "dropping", "done"}]
    /\ mode \in [Ids -> {"status", "output"}]
    /\ due \in [Ids -> Nat]
    /\ released \subseteq Ids /\ terminating \subseteq Ids /\ victims \subseteq Ids
    /\ reaper \in {"loop", "read", "parked", "asleep", "sweep", "grace"}
    /\ until \in Nat
    /\ woken \in BOOLEAN
    /\ stage \in {"up", "stopping", "grace", "gone"}
    /\ events \in [Ids -> Seq({"finished", "killed_timeout"})]
    /\ opted \subseteq Ids
    /\ stray \subseteq Kills

\* The reaper never sleeps past a deadline: unless a change is about to wake it,
\* it is parked only while there is nothing to enforce, and asleep only up to
\* the nearest deadline, whatever was spawned or retimed meanwhile.
NeverOversleeps ==
    ~woken =>
        /\ reaper = "parked" => registered \subseteq claimed
        /\ reaper = "asleep" => \A p \in registered \ claimed : until <= expires[p]

\* A claimed entry is in exactly one pair of hands: the reaper's, terminate's or
\* its waiter's, until the daemon stops and aborts tasks.
ClaimHasOneOwner ==
    \A p \in claimed :
        LET owners == {o \in {"reaper", "terminate", "waiter"} :
                         \/ o = "reaper" /\ p \in victims
                         \/ o = "terminate" /\ p \in terminating
                         \/ o = "waiter" /\ handle[p] = "killing"}
        IN  Cardinality(owners) <= 1 /\ (stage = "up" => owners # {})

\* No child outlives the daemon or drops out of its sight while it runs, except
\* one whose handle was dropped.
NothingEscapes ==
    \A p \in Ids : os[p] = "running" /\ p \notin opted => p \in registered /\ stage # "gone"

\* Whoever waits with wait_status only ever signals a pid it still holds, when
\* its wait times out and when it is cancelled.
StatusWaiterSignalsItsOwn == stray \intersect {"status", "cancel_status"} = {}

\* What an owner knows of its child, which the promises above rest on: who kills
\* for a claim holds one, the reaper's prey is claimed while it is registered,
\* and an owner that may still signal has not given the pid back.
OwnerKnows(p) ==
    /\ handle[p] = "none" <=> os[p] = "unborn"
    /\ p \in registered \union terminating \union released \union victims =>
           os[p] # "unborn"
    /\ p \in registered => events[p] = <<>>
    /\ os[p] = "unborn" => events[p] = <<>>
    /\ p \in terminating => p \in claimed \intersect Persistent /\ handle[p] = "held"
    /\ handle[p] = "killing" => p \in claimed
    /\ p \in victims => p \notin terminating /\ handle[p] # "killing"
    /\ p \in victims \intersect registered => p \in claimed
    /\ handle[p] \in {"waiting", "killing"} => p \notin Persistent
    /\ \/ handle[p] = "held" /\ p \notin Persistent
       \/ handle[p] = "waiting"
       \/ handle[p] = "killing" /\ mode[p] = "status"
       => os[p] # "reaped" /\ p \notin released
    /\ handle[p] = "cancelled" => mode[p] = "output"
    /\ handle[p] = "finishing" => os[p] = "reaped"
    /\ handle[p] = "dropping" => p \in opted
OwnersKnow == (reaper # "grace" => victims = {}) /\ \A p \in Ids : OwnerKnows(p)

\* SupervisorInv: no deadline slept over, one owner for a claim, nothing that outlives the registry, and
\* no signal of wait_status to a pid it has let go of.
SupervisorInv ==
    /\ TypeOK /\ NeverOversleeps /\ ClaimHasOneOwner /\ NothingEscapes
    /\ StatusWaiterSignalsItsOwn /\ OwnersKnow

\* Every process leaves the registry once, with exactly one terminal event or
\* because its owner let go, however many of them race to end it.
LifeOf(p) ==
    IF os[p] = "unborn" THEN "unborn"
    ELSE IF p \in registered THEN "live"
    ELSE IF events[p] = <<>> THEN "released" ELSE "ended"
Life == INSTANCE Lifecycle WITH life <- [p \in Ids |-> LifeOf(p)]
LifecycleKept == Life!Spec

\* A process past its deadline is ended, or its clock is set again.
DeadlineEnforced ==
    \A p \in Ids :
        (p \in registered /\ expires[p] <= now /\ stage = "up") ~>
            (p \notin registered \/ expires[p] > now \/ stage # "up")

-----------------------------------------------------------------------------
(* What the comments say, and the code does not do.                        *)

\* Inner::registry: the reaper is kept from `killpg'ing a pgid the OS may have
\* reused for an unrelated process'.  About its SIGKILL, a whole grace after the
\* SIGTERM that may have ended the child.
SignalsReachOwnChild == "reaper" \notin stray
=============================================================================
