--------------------------- MODULE PersistentPool ---------------------------
(***************************************************************************)
(* crates/dotagent-runner/src/persistent.rs: the pool of agent processes   *)
(* that stay alive between requests, for one agent.  Several tasks         *)
(* dispatch requests at once, the daemon reloads (drains) and sweeps the   *)
(* pool, and the supervisor's reaper ends processes without knowing that   *)
(* the pool exists.                                                        *)
(*                                                                         *)
(* A task is cut at its awaits: for the lock `allocation', for the lock of *)
(* a slot, and for the agent's pipe.  The map of slots is only ever locked *)
(* for a stretch without awaits, which is one step.  A cell is one Arc of  *)
(* a slot and holds at most one process in its life.                       *)
(***************************************************************************)
EXTENDS Integers, Sequences, FiniteSets, FiniteSetsExt

CONSTANTS
    Requests,         \* calls of dispatch
    Keys,             \* what resolve_key returns
    Resolved,         \* for the requests: a set of assignments
    max_instances,
    max_invocations,  \* 0: unlimited
    MaxCells,         \* bound: the slots ever created
    MaxDrains,        \* bound: reloads
    MaxCancels        \* bound: dispatches dropped half-way

ASSUME PoolAssumption ==
    /\ Resolved \subseteq [Requests -> Keys]
    /\ max_instances \in Nat \ {0}
    /\ max_invocations \in Nat
    /\ MaxDrains \in Nat /\ MaxCancels \in Nat
    /\ IsFiniteSet(Keys) /\ {"drain", "free"} \intersect Requests = {}
    /\ MaxCells \in Nat

VARIABLES
    slots,      \* key |-> cell, 0 if there is none
    last_used,  \* of each key in the map: its rank, the latest highest
    allocation, \* who holds the lock, or "free"
    cell,       \* each cell and the process in it
    task,       \* what each caller is doing
    todo,       \* cells the reload has still to retire
    drains,     \* reloads so far
    cancels     \* dispatches dropped so far

vars == <<slots, last_used, allocation, cell, task, todo, drains, cancels>>

Cells == 1 .. MaxCells
Tasks == Requests \union {"drain"}

\* An empty slot, and one that was just reserved.
NoCell == [state |-> "unused", key |-> "none", lock |-> "free", proc |-> "none",
           registered |-> FALSE, claim |-> "none", inbox |-> <<>>, outbox |-> <<>>,
           invocations |-> 0]
StartingCell(k) == [NoCell EXCEPT !.state = "Starting", !.key = k]

Call(k) == [pc |-> "alloc", key |-> k, at |-> 0, attempt |-> 0, then |-> "none", answer |-> "none",
            writes |-> 0]
Done(k) == [Call(k) EXCEPT !.pc = "done"]

Occupied(m) == {k \in Keys : m[k] # 0}
\* last_used when k is used now.
Used(k) ==
    LET others == Occupied(slots) \ {k}
    IN  [x \in Keys |-> IF x = k THEN Cardinality(others) + 1
                       ELSE IF x \in others THEN Cardinality({y \in others : last_used[y] <= last_used[x]})
                       ELSE 0]
\* min_by_key of the last use.
Oldest(K) == CHOOSE x \in K : \A y \in K : last_used[x] <= last_used[y]
\* An Arc that nobody holds any more, its process gone, is as good as new.
Unused == {c \in Cells :
             \/ cell[c].state = "unused"
             \/ /\ cell[c].state = "Stopped" /\ cell[c].proc # "running" /\ ~cell[c].registered
                /\ \A k \in Keys : slots[k] # c
                /\ \A a \in Tasks : task[a].at # c
                /\ c \notin todo}
Free(c) == cell[c].lock = "free"

Claimable(c) == cell[c].registered /\ cell[c].claim = "none"

-----------------------------------------------------------------------------
(* Pieces of steps.                                                        *)

Goto(a, pc) == task' = [task EXCEPT ![a].pc = pc]

\* `continue' in the two attempts of exchange_with_retry.
Again(t) == IF t.attempt = 0 THEN [t EXCEPT !.attempt = 1, !.at = 0, !.pc = "alloc"]
            ELSE [Done(t.key) EXCEPT !.pc = "gave_up"]

\* After a retirement: the next attempt, the search for a slot, the rest of the
\* reload, or the end of the call.
Resume(t) == IF t.then = "again" THEN Again(t)
             ELSE IF t.then \in {"lookup", "next"} THEN [t EXCEPT !.pc = t.then]
             ELSE Done(t.key)

\* terminate is a no-op on a process that the reaper has claimed: the instance
\* is dropped at once.  The slot is Stopped, its lock free; the map still has it.
Dropped(x) == [x EXCEPT !.state = "Stopped", !.lock = "free", !.inbox = <<>>, !.outbox = <<>>,
                        !.invocations = 0]

\* Supervisor::terminate, the slot locked and in state s: a claims the kill and
\* waits out the grace, or finds it claimed.
terminate(a, c, s, t) ==
    IF Claimable(c)
    THEN /\ cell' = [cell EXCEPT ![c] = [@ EXCEPT !.state = s, !.lock = a, !.claim = "pool"]]
         /\ task' = [task EXCEPT ![a] = [t EXCEPT !.at = c, !.pc = "kill"]]
    ELSE /\ cell' = [cell EXCEPT ![c] = Dropped(@)]
         /\ task' = [task EXCEPT ![a] = [t EXCEPT !.at = c, !.pc = "forget"]]

retire_held(a, c, t) == terminate(a, c, "Retiring", t)

-----------------------------------------------------------------------------
Init ==
    /\ slots = [k \in Keys |-> 0]
    /\ last_used = [k \in Keys |-> 0]
    /\ allocation = "free"
    /\ cell = [c \in Cells |-> NoCell]
    /\ \E key \in Resolved :
         task = [a \in Tasks |-> IF a = "drain" THEN Done("none") ELSE Call(key[a])]
    /\ todo = {} /\ drains = 0 /\ cancels = 0

\* slot_for: the slot of the key, a new one, or the least recently used one to
\* make room, which keeps `allocation'.  A locked slot counts as in use.
slot_for(r) ==
    LET k == task[r].key
        c == slots[k]
        m == [slots EXCEPT ![k] = 0]
        new == Min(Unused)
        victim == slots[Oldest(Occupied(m))]
    IN  /\ \/ task[r].pc = "alloc" /\ allocation = "free"
           \/ task[r].pc = "lookup"
        /\ IF c # 0 /\ ~(Free(c) /\ cell[c].state = "Stopped")
           THEN /\ last_used' = Used(k)
                /\ allocation' = "free"
                /\ task' = [task EXCEPT ![r] = [@ EXCEPT !.at = c, !.pc = "lock"]]
                /\ UNCHANGED <<slots, cell>>
           ELSE IF Cardinality(Occupied(m)) < max_instances
           THEN /\ Unused # {}
                /\ slots' = [slots EXCEPT ![k] = new]
                /\ cell' = [cell EXCEPT ![new] = StartingCell(k)]
                /\ last_used' = Used(k)
                /\ allocation' = "free"
                /\ task' = [task EXCEPT ![r] = [@ EXCEPT !.at = new, !.pc = "lock"]]
           ELSE /\ slots' = m
                /\ task' = [task EXCEPT ![r] = [@ EXCEPT !.at = victim, !.pc = "evict",
                                                         !.then = "lookup"]]
                /\ allocation' = r
                /\ UNCHANGED <<last_used, cell>>
        /\ UNCHANGED <<todo, drains, cancels>>

\* A slot that was retired while the request waited for it is not used.
TakeSlot(r) ==
    LET c == task[r].at
    IN  /\ task[r].pc = "lock" /\ Free(c)
        /\ IF cell[c].state \in {"Stopped", "Retiring"}
           THEN task' = [task EXCEPT ![r] = Again(@)] /\ UNCHANGED cell
           ELSE /\ cell' = [cell EXCEPT ![c].lock = r]
                /\ Goto(r, IF cell[c].state = "Starting" THEN "spawn" ELSE "exchange")
        /\ UNCHANGED <<slots, last_used, allocation, todo, drains, cancels>>

-----------------------------------------------------------------------------
(* spawn_instance.                                                         *)

\* The command cannot be started.
SpawnFails(r) ==
    /\ task[r].pc = "spawn"
    /\ cell' = [cell EXCEPT ![task[r].at] = Dropped(@)]
    /\ task' = [task EXCEPT ![r] = [@ EXCEPT !.pc = "forget", !.then = "done"]]
    /\ UNCHANGED <<slots, last_used, allocation, todo, drains, cancels>>

Spawn(r) ==
    /\ task[r].pc = "spawn"
    /\ cell' = [cell EXCEPT ![task[r].at] = [@ EXCEPT !.proc = "running", !.registered = TRUE,
                                                      !.claim = "none"]]
    /\ Goto(r, "handshake")
    /\ UNCHANGED <<slots, last_used, allocation, todo, drains, cancels>>

HandshakeDone(r) ==
    /\ task[r].pc = "handshake"
    /\ cell' = [cell EXCEPT ![task[r].at].state = "Live"]
    /\ Goto(r, "exchange")
    /\ UNCHANGED <<slots, last_used, allocation, todo, drains, cancels>>

\* Refused, ended by the reaper or the child itself, or timed out.
HandshakeFails(r) ==
    /\ task[r].pc = "handshake"
    /\ terminate(r, task[r].at, "Starting", [task[r] EXCEPT !.then = "done"])
    /\ UNCHANGED <<slots, last_used, allocation, todo, drains, cancels>>

-----------------------------------------------------------------------------
(* exchange, and what exchange_with_retry makes of it.                     *)

DeadBeforeRequest(r) ==
    retire_held(r, task[r].at, [task[r] EXCEPT !.then = "again"])

TimedOut(r) ==
    retire_held(r, task[r].at, [task[r] EXCEPT !.then = "done"])

\* Never asked again: the agent may have acted on it.
RequestLost(r) ==
    retire_held(r, task[r].at, [task[r] EXCEPT !.then = "done"])

\* What a broken pipe means once bytes were accepted.
Lost(r) == IF cell[task[r].at].claim = "reaper" THEN TimedOut(r) ELSE RequestLost(r)

\* try_wait and retime.
exchange(r) ==
    LET c == task[r].at
    IN  /\ task[r].pc = "exchange"
        /\ IF cell[c].proc = "dead" \/ ~Claimable(c)
           THEN DeadBeforeRequest(r)
           ELSE Goto(r, "write") /\ UNCHANGED cell
        /\ UNCHANGED <<slots, last_used, allocation, todo, drains, cancels>>

\* write_frame: the pipe takes the first bytes, or is broken before them ...
WriteFirst(r) ==
    LET c == task[r].at
    IN  /\ task[r].pc = "write"
        /\ IF cell[c].proc = "running"
           THEN /\ task' = [task EXCEPT ![r] = [task[r] EXCEPT !.pc = "rest", !.writes = @ + 1]]
                /\ UNCHANGED cell
           ELSE IF cell[c].claim = "reaper" THEN TimedOut(r)
           ELSE DeadBeforeRequest(r)
        /\ UNCHANGED <<slots, last_used, allocation, todo, drains, cancels>>

\* ... and takes the rest, or breaks now.
WriteRest(r) ==
    LET c == task[r].at
    IN  /\ task[r].pc = "rest"
        /\ IF cell[c].proc = "running"
           THEN /\ cell' = [cell EXCEPT ![c].inbox = Append(@, r)]
                /\ Goto(r, "read")
           ELSE Lost(r)
        /\ UNCHANGED <<slots, last_used, allocation, todo, drains, cancels>>

\* The quota, or the idle clock; a process the reaper took meanwhile is dropped.
Answered(r, c) ==
    LET t == [task[r] EXCEPT !.then = "done", !.answer = Head(cell[c].outbox)]
        n == cell[c].invocations + 1
        quota == max_invocations > 0 /\ n >= max_invocations
        x == [cell[c] EXCEPT !.outbox = Tail(@), !.invocations = n]
    IN  IF ~Claimable(c)
        THEN /\ cell' = [cell EXCEPT ![c] = Dropped(x)]
             /\ task' = [task EXCEPT ![r] = [t EXCEPT !.pc = "forget"]]
        ELSE IF quota
        THEN /\ cell' = [cell EXCEPT ![c] = [x EXCEPT !.state = "Retiring", !.claim = "pool"]]
             /\ task' = [task EXCEPT ![r] = [t EXCEPT !.pc = "kill"]]
        ELSE /\ cell' = [cell EXCEPT ![c] = [x EXCEPT !.lock = "free"]]
             /\ task' = [task EXCEPT ![r] = [t EXCEPT !.pc = "touch"]]

\* Mutant: whatever frame comes next is the answer.
ReadAnyAnswer(r) ==
    LET c == task[r].at
    IN  /\ task[r].pc = "read" /\ cell[c].outbox # <<>>
        /\ IF cell[c].claim = "reaper" THEN TimedOut(r) ELSE Answered(r, c)
        /\ UNCHANGED <<slots, last_used, allocation, todo, drains, cancels>>

\* read_answer: a frame that answers another request is dropped.  An answer
\* that the reaper's claim overtook is a timeout.
read_answer(r) ==
    LET c == task[r].at
    IN  /\ task[r].pc = "read" /\ cell[c].outbox # <<>>
        /\ IF Head(cell[c].outbox) # r
           THEN cell' = [cell EXCEPT ![c].outbox = Tail(@)] /\ UNCHANGED task
           ELSE IF cell[c].claim = "reaper" THEN TimedOut(r)
           ELSE Answered(r, c)
        /\ UNCHANGED <<slots, last_used, allocation, todo, drains, cancels>>

ReadFails(r) ==
    LET c == task[r].at
    IN  /\ task[r].pc = "read" /\ cell[c].outbox = <<>> /\ cell[c].proc = "dead"
        /\ Lost(r)
        /\ UNCHANGED <<slots, last_used, allocation, todo, drains, cancels>>

ReadTimesOut(r) ==
    /\ task[r].pc = "read"
    /\ TimedOut(r)
    /\ UNCHANGED <<slots, last_used, allocation, todo, drains, cancels>>

touch(r) ==
    /\ task[r].pc = "touch"
    /\ last_used' = IF slots[task[r].key] # 0 THEN Used(task[r].key) ELSE last_used
    /\ task' = [task EXCEPT ![r] = Done(@.key)]
    /\ UNCHANGED <<slots, allocation, cell, todo, drains, cancels>>

-----------------------------------------------------------------------------
(* Retirement.                                                             *)

\* The grace of terminate is over.
KillEnds(a) ==
    LET c == task[a].at
    IN  /\ task[a].pc = "kill"
        /\ cell' = [cell EXCEPT ![c] = [Dropped(@) EXCEPT !.proc = "dead", !.registered = FALSE, !.claim = "none"]]
        /\ Goto(a, "forget")
        /\ UNCHANGED <<slots, last_used, allocation, todo, drains, cancels>>

\* Mutant: the map forgets the key, whichever slot it has by now.
ForgetKey(a) ==
    LET c == task[a].at
        k == cell[c].key
    IN  /\ task[a].pc = "forget"
        /\ slots' = [slots EXCEPT ![k] = 0]
        /\ task' = [task EXCEPT ![a] = Resume(@)]
        /\ UNCHANGED <<last_used, allocation, cell, todo, drains, cancels>>

\* forget_slot, and back to where the retirement began.
forget_slot(a) ==
    LET c == task[a].at
        k == cell[c].key
    IN  /\ task[a].pc = "forget"
        /\ slots' = [slots EXCEPT ![k] = IF @ = c THEN 0 ELSE @]
        /\ task' = [task EXCEPT ![a] = Resume(@)]
        /\ UNCHANGED <<last_used, allocation, cell, todo, drains, cancels>>

\* Mutant: a slot without an instance is left to its owner.
RetireLiveOnly(a) ==
    LET c == task[a].at
    IN  /\ task[a].pc = "evict" /\ Free(c)
        /\ IF cell[c].state = "Live"
           THEN retire_held(a, c, task[a])
           ELSE task' = [task EXCEPT ![a] = Resume(@)] /\ UNCHANGED cell
        /\ UNCHANGED <<slots, last_used, allocation, todo, drains, cancels>>

\* retire_slot, under `allocation', once the slot's lock is free.  A reservation
\* is marked Stopped before its owner spawns into it.
retire_slot(a) ==
    LET c == task[a].at
    IN  /\ task[a].pc = "evict" /\ Free(c)
        /\ IF cell[c].state = "Live"
           THEN retire_held(a, c, task[a])
           ELSE /\ cell' = [cell EXCEPT ![c].state = "Stopped"]
                /\ Goto(a, "forget")
        /\ UNCHANGED <<slots, last_used, allocation, todo, drains, cancels>>

\* drain: reload and shutdown retire every slot of a snapshot of the map.
DrainBegins ==
    /\ task["drain"].pc = "done" /\ drains < MaxDrains /\ allocation = "free"
    /\ drains' = drains + 1
    /\ allocation' = "drain"
    /\ todo' = {slots[k] : k \in Occupied(slots)}
    /\ Goto("drain", "next")
    /\ UNCHANGED <<slots, last_used, cell, cancels>>

DrainNext ==
    /\ task["drain"].pc = "next"
    /\ \/ \E c \in todo :
            /\ todo' = todo \ {c}
            /\ task' = [task EXCEPT !["drain"] = [@ EXCEPT !.at = c, !.pc = "evict",
                                                               !.then = "next"]]
            /\ UNCHANGED allocation
       \/ /\ todo = {}
          /\ allocation' = "free"
          /\ task' = [task EXCEPT !["drain"] = Done("none")]
          /\ UNCHANGED todo
    /\ UNCHANGED <<slots, last_used, cell, drains, cancels>>

\* What reap_dead takes out of the map: nobody holds the slot, and it is Stopped
\* or its process has exited.
Dead(c) ==
    /\ Free(c)
    /\ \/ cell[c].state = "Stopped"
       \/ cell[c].state = "Live" /\ cell[c].proc = "dead"

\* sweep, under one hold of the map.  The dropped handle takes an unclaimed
\* entry out of the registry.
sweep ==
    LET gone == {c \in Cells : Dead(c) /\ slots[cell[c].key] = c}
    IN  /\ gone # {}
        /\ slots' = [k \in Keys |-> IF slots[k] \in gone THEN 0 ELSE slots[k]]
        /\ cell' = [c \in Cells |->
                      IF c \in gone /\ cell[c].state = "Live"
                      THEN [Dropped(cell[c]) EXCEPT
                              !.registered = @ /\ cell[c].claim # "none"]
                      ELSE cell[c]]
        /\ UNCHANGED <<last_used, allocation, task, todo, drains, cancels>>

-----------------------------------------------------------------------------
(* A dispatch is dropped: its worker panicked, or the gateway was forced to  *)
(* stop.  It lets go of its locks; the handle of a process that was still    *)
(* shaking hands goes with it, and so does one inside terminate's grace:     *)
(* those processes are no longer the pool's, and the next one that is        *)
(* spawned in the cell takes their place in the model.                       *)

Cancel(r) ==
    LET c == task[r].at
        holds == c # 0 /\ cell[c].lock = r
    IN  /\ task[r].pc \notin {"done", "gave_up"} /\ cancels < MaxCancels
        /\ cancels' = cancels + 1
        /\ task' = [task EXCEPT ![r] = Done(@.key)]
        /\ allocation' = IF allocation = r THEN "free" ELSE allocation
        /\ cell' = IF ~holds THEN cell
                   ELSE [cell EXCEPT ![c] =
                           [cell[c] EXCEPT
                              !.lock = "free",
                              !.registered = @ /\ (task[r].pc = "handshake" => cell[c].claim # "none")]]
        /\ UNCHANGED <<slots, last_used, todo, drains>>

-----------------------------------------------------------------------------
(* The processes and the reaper.                                           *)

Exit(c) ==
    /\ cell[c].proc = "running"
    /\ cell' = [cell EXCEPT ![c] = [@ EXCEPT !.proc = "dead", !.inbox = <<>>]]
    /\ UNCHANGED <<slots, last_used, allocation, task, todo, drains, cancels>>

Answer(c) ==
    /\ cell[c].proc = "running" /\ cell[c].inbox # <<>>
    /\ cell' = [cell EXCEPT ![c] = [cell[c] EXCEPT !.inbox = Tail(@), !.outbox = Append(@, Head(cell[c].inbox))]]
    /\ UNCHANGED <<slots, last_used, allocation, task, todo, drains, cancels>>

\* The deadline that currently applies has passed.
ReaperClaims(c) ==
    /\ Claimable(c)
    /\ cell' = [cell EXCEPT ![c].claim = "reaper"]
    /\ UNCHANGED <<slots, last_used, allocation, task, todo, drains, cancels>>

ReaperKills(c) ==
    /\ cell[c].registered /\ cell[c].claim = "reaper"
    /\ cell' = [cell EXCEPT ![c] = [@ EXCEPT !.proc = "dead", !.inbox = <<>>, !.registered = FALSE]]
    /\ UNCHANGED <<slots, last_used, allocation, task, todo, drains, cancels>>

-----------------------------------------------------------------------------
Step(r) ==
    \/ slot_for(r) \/ TakeSlot(r)
    \/ SpawnFails(r) \/ Spawn(r) \/ HandshakeDone(r) \/ HandshakeFails(r)
    \/ exchange(r) \/ WriteFirst(r) \/ WriteRest(r)
    \/ read_answer(r) \/ ReadFails(r) \/ ReadTimesOut(r)
    \/ touch(r) \/ KillEnds(r) \/ forget_slot(r) \/ retire_slot(r)

Drain ==
    \/ DrainNext \/ retire_slot("drain") \/ KillEnds("drain") \/ forget_slot("drain")

Next ==
    \/ \E r \in Requests : Step(r) \/ Cancel(r)
    \/ DrainBegins \/ Drain \/ sweep
    \/ \E c \in Cells : Exit(c) \/ Answer(c) \/ ReaperClaims(c) \/ ReaperKills(c)

Spec == Init /\ [][Next]_vars

\* The runtime polls the tasks whose await is over: while there is one, one of
\* them goes on.  A deadline ends the wait for an answer, and every entry of the
\* registry has one that the reaper enforces unless it is set again.
FairSpec ==
    /\ Spec
    /\ WF_vars(Drain \/ \E r \in Requests : Step(r))
    /\ WF_vars(\E c \in Cells : ReaperClaims(c) \/ ReaperKills(c))

-----------------------------------------------------------------------------
TypeOK ==
    /\ slots \in [Keys -> Cells \union {0}]
    /\ allocation \in Tasks \union {"free"}
    /\ \A c \in Cells :
         /\ cell[c].state \in {"unused", "Starting", "Live", "Retiring", "Stopped"}
         /\ cell[c].lock \in Tasks \union {"free"}
         /\ cell[c].proc \in {"none", "running", "dead"}
         /\ cell[c].claim \in {"none", "reaper", "pool"}
    /\ todo \subseteq Cells /\ drains \in 0 .. MaxDrains /\ cancels \in 0 .. MaxCancels

\* An instance in a slot is in the map: reload, shutdown, sweep and eviction
\* find it.  So the cap counts it, and a key has one.
NoneUnreachable ==
    \A c \in Cells : cell[c].state \in {"Live", "Retiring"} => slots[cell[c].key] = c

\* The bytes of a request reach at most one process, whatever dies or is retried.
AtMostOnce == \A r \in Requests : task[r].writes <= 1

\* A request that is answered gets its own answer, also from an instance that
\* an abandoned request left with one still to come.
OwnAnswer == \A r \in Requests : task[r].answer \in {"none", r}

\* The processes of the agent that nobody is killing stay under the cap.
CapKept == Cardinality({c \in Cells : cell[c].proc = "running" /\ Claimable(c)}) <= max_instances

\* Whatever is cancelled, evicted, drained or dies: every instance can be found, and the cap holds ...
PoolInv == TypeOK /\ NoneUnreachable /\ CapKept

\* ... and a request is run once at most, and answered with its own answer.
RunOnceAnsweredRight == AtMostOnce /\ OwnAnswer

\* Every dispatch comes to an end: no circle of locks, no retry for ever.  (One
\* that is over stays over, so in the end all are.)
DispatchEnds == <>(\A r \in Requests : task[r].pc \in {"done", "gave_up"})
=============================================================================
