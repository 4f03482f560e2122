----------------------------- MODULE PoolProofs -----------------------------
(***************************************************************************)
(* Proofs about the pool of persistent agents, for any number of requests, *)
(* keys, slots and reloads.                                                *)
(***************************************************************************)
EXTENDS PersistentPool, FiniteSetTheorems, WellFoundedInduction, TLAPS

-----------------------------------------------------------------------------
(* The books of the pool.                                                  *)

CellTypes == [state : {"unused", "Starting", "Live", "Retiring", "Stopped"}, key : Keys \union {"none"},
              lock : Tasks \union {"free"}, proc : {"none", "running", "dead"}, registered : BOOLEAN,
              claim : {"none", "reaper", "pool"}, inbox : Seq(Requests), outbox : Seq(Requests),
              invocations : Nat]
TaskTypes == [pc : {"alloc", "lookup", "lock", "spawn", "handshake", "exchange", "write", "rest", "read",
                    "touch", "evict", "kill", "forget", "next", "done", "gave_up"},
              key : Keys \union {"none"}, at : Cells \union {0}, attempt : {0, 1},
              then : {"none", "again", "lookup", "next", "done"}, answer : Requests \union {"none"},
              writes : Nat]

PoolTyped ==
    /\ slots \in [Keys -> Cells \union {0}] /\ last_used \in [Keys -> Nat]
    /\ allocation \in Tasks \union {"free"}
    /\ cell \in [Cells -> CellTypes] /\ task \in [Tasks -> TaskTypes]
    /\ todo \subseteq Cells /\ drains \in 0 .. MaxDrains /\ cancels \in 0 .. MaxCancels

\* Who works with a slot has its lock, and finds it as it was left.
HolderBooks(a) ==
    LET c == task[a].at
        pc == task[a].pc
    IN  /\ pc \in {"lock", "spawn", "handshake", "exchange", "write", "rest", "read", "evict", "kill", "forget"}
              => c \in Cells /\ cell[c].state # "unused"
        /\ pc \in {"spawn", "handshake", "exchange", "write", "rest", "read", "kill"} => cell[c].lock = a
        /\ pc \in {"spawn", "handshake"} => cell[c].state = "Starting"
        /\ pc \in {"exchange", "write", "rest", "read"} => cell[c].state = "Live"
        /\ pc = "kill" => cell[c].state \in {"Starting", "Retiring"}
        /\ pc = "forget" => cell[c].state = "Stopped"

\* A slot that is in use, or may come to be, is in the map.
MapBooks ==
    /\ \A c \in Cells : cell[c].state \in {"Starting", "Live", "Retiring"} =>
          cell[c].key \in Keys /\ slots[cell[c].key] = c
    /\ \A k \in Keys : slots[k] # 0 => cell[slots[k]].key = k /\ cell[slots[k]].state # "unused"
    /\ \A c \in todo : cell[c].state # "unused"
    /\ Cardinality(Occupied(slots)) <= max_instances

\* A process that nobody is killing serves a slot, or is shaking hands for one.
ClaimBooks(c) ==
    Claimable(c) =>
        \/ cell[c].state = "Live"
        \/ /\ cell[c].state = "Starting" /\ cell[c].lock # "free"
           /\ task[cell[c].lock].pc = "handshake" /\ task[cell[c].lock].at = c

\* A request is written once, on its way to an answer, and never asked again.
RequestBooks(r) ==
    /\ task[r].key \in Keys /\ task[r].writes <= 1 /\ task[r].answer \in {"none", r}
    /\ task[r].pc \in {"alloc", "lookup", "lock", "spawn", "handshake", "exchange", "write", "evict"}
          => task[r].writes = 0
    /\ task[r].pc \in {"kill", "forget"} /\ task[r].then \in {"again", "lookup", "next"}
          => task[r].writes = 0

PoolBooks ==
    /\ PoolTyped /\ MapBooks
    /\ \A a \in Tasks : HolderBooks(a)
    /\ \A c \in Cells : ClaimBooks(c)
    /\ \A r \in Requests : RequestBooks(r)

-----------------------------------------------------------------------------
(* What each action does, one lemma for each.                              *)

NewTypes == cell' \in [Cells -> CellTypes] /\ task' \in [Tasks -> TaskTypes]

\* Only task a moves, and is at slot c afterwards; only slot c changes.
TaskAt(a, c) == task'[a].at = c /\ \A b \in Tasks \ {a} : task'[b] = task[b]
CellAt(c) == cell'[c].key = cell[c].key /\ \A d \in Cells \ {c} : cell'[d] = cell[d]

\* A record is replaced.
LEMMA CellSet ==
  ASSUME PoolTyped, NEW c \in Cells, NEW x \in CellTypes, cell' = [cell EXCEPT ![c] = x]
  PROVE  cell' \in [Cells -> CellTypes] /\ cell'[c] = x /\ \A d \in Cells \ {c} : cell'[d] = cell[d]
BY DEF PoolTyped

\* The assignment to one task, pointwise.
LEMMA TaskSet ==
  ASSUME PoolTyped, NEW a \in Tasks, NEW t \in TaskTypes, task' = [task EXCEPT ![a] = t]
  PROVE  task' \in [Tasks -> TaskTypes] /\ task'[a] = t /\ \A b \in Tasks \ {a} : task'[b] = task[b]
BY DEF PoolTyped

\* What is replaced has its types.
LEMMA CellType == ASSUME PoolTyped, NEW c \in Cells PROVE cell[c] \in CellTypes
BY DEF PoolTyped

\* A task has its type, and the two tasks that are no request have names of their own.
LEMMA TaskType ==
  ASSUME PoolTyped, NEW a \in Tasks
  PROVE  task[a] \in TaskTypes /\ (a \in Requests => a # "drain" /\ a # "free") /\ a # "free"
BY PoolAssumption DEF PoolTyped, Tasks

\* A dropped instance leaves its slot stopped and unlocked.
LEMMA DroppedType ==
  ASSUME NEW x \in CellTypes
  PROVE  /\ Dropped(x) \in CellTypes
         /\ Dropped(x).state = "Stopped" /\ Dropped(x).lock = "free" /\ Dropped(x).key = x.key
         /\ Dropped(x).registered = x.registered /\ Dropped(x).claim = x.claim /\ Dropped(x).proc = x.proc
<1>1. <<>> \in Seq(Requests)
  OBVIOUS
<1> QED BY <1>1 DEF Dropped, CellTypes

\* Where a task goes on from has its types, and keeps its key.
LEMMA DoneType ==
  ASSUME NEW k \in Keys \union {"none"}
  PROVE  /\ Done(k) \in TaskTypes /\ Done(k).key = k /\ Done(k).pc = "done" /\ Done(k).writes = 0
         /\ Done(k).answer = "none" /\ Done(k).then = "none"
BY DEF Done, Call, TaskTypes

\* A request that tries again: once more from the slot, or not at all.
LEMMA AgainType ==
  ASSUME NEW t \in TaskTypes
  PROVE  /\ Again(t) \in TaskTypes /\ Again(t).key = t.key
         /\ \/ /\ Again(t).pc = "alloc" /\ Again(t).writes = t.writes /\ Again(t).answer = t.answer
            \/ /\ Again(t).pc = "gave_up" /\ Again(t).writes = 0 /\ Again(t).answer = "none"
<1>1. t.key \in Keys \union {"none"}
  BY DEF TaskTypes
<1>2. CASE t.attempt = 0
  BY ZenonT(40), <1>2 DEF Again, TaskTypes
<1>3. CASE t.attempt # 0
  BY <1>1, <1>3, DoneType DEF Again, TaskTypes
<1> QED BY <1>2, <1>3

\* Where a task goes on after it retired a process.
LEMMA ResumeType ==
  ASSUME NEW t \in TaskTypes
  PROVE  /\ Resume(t) \in TaskTypes /\ Resume(t).key = t.key
         /\ Resume(t).pc \in {"alloc", "gave_up", "lookup", "next", "done"}
         /\ Resume(t).pc \in {"alloc", "lookup", "next"} =>
               /\ t.then \in {"again", "lookup", "next"}
               /\ Resume(t).writes = t.writes /\ Resume(t).answer = t.answer
         /\ Resume(t).pc \in {"gave_up", "done"} => Resume(t).writes = 0 /\ Resume(t).answer = "none"
<1>1. t.key \in Keys \union {"none"}
  BY DEF TaskTypes
<1>2. CASE t.then = "again"
  BY <1>2, AgainType DEF Resume
<1>3. CASE t.then \in {"lookup", "next"}
  BY <1>3 DEF Resume, TaskTypes
<1>4. CASE t.then \notin {"again", "lookup", "next"}
  BY <1>1, <1>4, DoneType DEF Resume
<1> QED BY <1>2, <1>3, <1>4

\* The end of an instance: the one who ends it claims the kill, or finds it claimed.
LEMMA TerminateMoves ==
  ASSUME PoolTyped, NEW a \in Tasks, NEW c \in Cells, NEW s \in {"Starting", "Retiring"},
         NEW t \in TaskTypes, terminate(a, c, s, t)
  PROVE  /\ NewTypes /\ TaskAt(a, c) /\ CellAt(c) /\ ~(cell'[c].registered /\ cell'[c].claim = "none")
         /\ task'[a].key = t.key /\ task'[a].writes = t.writes /\ task'[a].answer = t.answer
         /\ task'[a].then = t.then
         /\ \/ task'[a].pc = "kill" /\ cell'[c].lock = a /\ cell'[c].state = s
            \/ task'[a].pc = "forget" /\ cell'[c].lock = "free" /\ cell'[c].state = "Stopped"
<1>0. cell[c] \in CellTypes
  BY CellType
<1>1. CASE Claimable(c)
  <2> DEFINE x == [cell[c] EXCEPT !.state = s, !.lock = a, !.claim = "pool"]
             u == [t EXCEPT !.at = c, !.pc = "kill"]
  <2>1. /\ x \in CellTypes /\ x.key = cell[c].key /\ x.state = s /\ x.lock = a /\ x.claim = "pool"
    BY <1>0 DEF CellTypes
  <2>2. /\ u \in TaskTypes /\ u.at = c /\ u.pc = "kill" /\ u.key = t.key /\ u.writes = t.writes
        /\ u.answer = t.answer /\ u.then = t.then
    BY DEF TaskTypes
  <2>3. cell' = [cell EXCEPT ![c] = x] /\ task' = [task EXCEPT ![a] = u]
    BY <1>1 DEF terminate
  <2> HIDE DEF x, u
  <2>4. /\ cell' \in [Cells -> CellTypes] /\ cell'[c] = x /\ \A d \in Cells \ {c} : cell'[d] = cell[d]
    BY <2>1, <2>3, CellSet
  <2>5. /\ task' \in [Tasks -> TaskTypes] /\ task'[a] = u /\ \A b \in Tasks \ {a} : task'[b] = task[b]
    BY <2>2, <2>3, TaskSet
  <2> QED BY <2>1, <2>2, <2>4, <2>5 DEF NewTypes, TaskAt, CellAt, Claimable
<1>2. CASE ~Claimable(c)
  <2> DEFINE x == Dropped(cell[c])
             u == [t EXCEPT !.at = c, !.pc = "forget"]
  <2>1. /\ x \in CellTypes /\ x.key = cell[c].key /\ x.state = "Stopped" /\ x.lock = "free"
        /\ x.registered = cell[c].registered /\ x.claim = cell[c].claim
    BY <1>0, DroppedType
  <2>2. /\ u \in TaskTypes /\ u.at = c /\ u.pc = "forget" /\ u.key = t.key /\ u.writes = t.writes
        /\ u.answer = t.answer /\ u.then = t.then
    BY DEF TaskTypes
  <2>3. cell' = [cell EXCEPT ![c] = x] /\ task' = [task EXCEPT ![a] = u]
    BY <1>2 DEF terminate
  <2> HIDE DEF x, u
  <2>4. /\ cell' \in [Cells -> CellTypes] /\ cell'[c] = x /\ \A d \in Cells \ {c} : cell'[d] = cell[d]
    BY <2>1, <2>3, CellSet
  <2>5. /\ task' \in [Tasks -> TaskTypes] /\ task'[a] = u /\ \A b \in Tasks \ {a} : task'[b] = task[b]
    BY <2>2, <2>3, TaskSet
  <2> QED BY <1>2, <2>1, <2>2, <2>4, <2>5 DEF NewTypes, TaskAt, CellAt, Claimable
<1> QED BY <1>1, <1>2

-----------------------------------------------------------------------------
(* The steps that end an instance.                                         *)

\* Task a ends the instance of its slot, or finds nothing to end: it waits for the
\* grace or is about to forget the slot.
Retires(a) ==
    LET c == task[a].at
    IN  /\ c \in Cells /\ cell[c].state # "unused" /\ cell[c].lock \in {a, "free"}
        /\ TaskAt(a, c) /\ CellAt(c) /\ ~(cell'[c].registered /\ cell'[c].claim = "none")
        /\ \/ /\ task'[a].pc = "kill" /\ cell'[c].lock = a
              /\ cell[c].state \in {"Starting", "Live"} /\ cell'[c].state \in {"Starting", "Retiring"}
           \/ task'[a].pc = "forget" /\ cell'[c].lock = "free" /\ cell'[c].state = "Stopped"
        /\ UNCHANGED <<slots, todo>>

\* A request keeps its books.
Keeps(a) == a \in Requests /\ RequestBooks(a) => RequestBooks(a)'

\* The rest of the state stays.
Rested == UNCHANGED <<last_used, allocation, drains, cancels>>

\* retire_held, on behalf of a request that holds the slot.
LEMMA HeldMoves ==
  ASSUME PoolTyped, NEW a \in Tasks, HolderBooks(a), NEW s \in {"Starting", "Retiring"}, NEW h \in {"again", "done"},
         terminate(a, task[a].at, s, [task[a] EXCEPT !.then = h]),
         \/ task[a].pc \in {"handshake", "exchange", "write"}
         \/ task[a].pc \in {"rest", "read"} /\ h = "done",
         UNCHANGED <<slots, last_used, allocation, todo, drains, cancels>>
  PROVE  NewTypes /\ Retires(a) /\ Keeps(a) /\ Rested
<1> DEFINE c == task[a].at
           t == [task[a] EXCEPT !.then = h]
<1>1. t \in TaskTypes /\ t.key = task[a].key /\ t.writes = task[a].writes /\ t.answer = task[a].answer /\ t.then = h
  BY TaskType DEF TaskTypes
<1>2. c \in Cells /\ cell[c].lock = a /\ cell[c].state \in {"Starting", "Live"}
  BY DEF HolderBooks
<1>3. terminate(a, c, s, t)
  OBVIOUS
<1> HIDE DEF t
<1>4. /\ NewTypes /\ TaskAt(a, c) /\ CellAt(c) /\ ~(cell'[c].registered /\ cell'[c].claim = "none")
      /\ task'[a].key = t.key /\ task'[a].writes = t.writes /\ task'[a].answer = t.answer /\ task'[a].then = t.then
      /\ \/ task'[a].pc = "kill" /\ cell'[c].lock = a /\ cell'[c].state = s
         \/ task'[a].pc = "forget" /\ cell'[c].lock = "free" /\ cell'[c].state = "Stopped"
  BY <1>1, <1>2, <1>3, TerminateMoves
<1>5. Retires(a)
  BY <1>2, <1>4 DEF Retires
<1>6. Keeps(a)
  BY <1>1, <1>4 DEF Keeps, RequestBooks
<1> QED BY <1>4, <1>5, <1>6 DEF Rested

\* A write that reached nobody retires the process.
LEMMA LostMoves ==
  ASSUME PoolTyped, NEW r \in Requests, HolderBooks(r), task[r].pc \in {"rest", "read"}, Lost(r),
         UNCHANGED <<slots, last_used, allocation, todo, drains, cancels>>
  PROVE  NewTypes /\ Retires(r) /\ Keeps(r) /\ Rested
BY HeldMoves DEF Lost, TimedOut, RequestLost, retire_held, Tasks

\* So does a handshake that fails,
LEMMA HandshakeFailsMoves ==
  ASSUME PoolTyped, NEW r \in Requests, HolderBooks(r), HandshakeFails(r)
  PROVE  NewTypes /\ Retires(r) /\ Keeps(r) /\ Rested
BY HeldMoves DEF HandshakeFails, Tasks

\* an answer that cannot be read,
LEMMA ReadFailsMoves ==
  ASSUME PoolTyped, NEW r \in Requests, HolderBooks(r), ReadFails(r)
  PROVE  NewTypes /\ Retires(r) /\ Keeps(r) /\ Rested
BY LostMoves DEF ReadFails

\* and one that does not come in time.
LEMMA ReadTimesOutMoves ==
  ASSUME PoolTyped, NEW r \in Requests, HolderBooks(r), ReadTimesOut(r)
  PROVE  NewTypes /\ Retires(r) /\ Keeps(r) /\ Rested
BY HeldMoves DEF ReadTimesOut, TimedOut, retire_held, Tasks

\* A process found dead, or past its deadline, before a byte was written is retired too.
LEMMA DeadMoves ==
  ASSUME PoolTyped, NEW r \in Requests, HolderBooks(r), task[r].pc \in {"exchange", "write"},
         DeadBeforeRequest(r) \/ TimedOut(r),
         UNCHANGED <<slots, last_used, allocation, todo, drains, cancels>>
  PROVE  NewTypes /\ Retires(r) /\ Keeps(r) /\ Rested
BY HeldMoves DEF DeadBeforeRequest, TimedOut, retire_held, Tasks

\* The command could not be started: there is nothing to end.
LEMMA SpawnFailsMoves ==
  ASSUME PoolTyped, NEW r \in Requests, HolderBooks(r), ClaimBooks(task[r].at), SpawnFails(r)
  PROVE  NewTypes /\ Retires(r) /\ Keeps(r) /\ Rested
<1> DEFINE c == task[r].at
           x == Dropped(cell[c])
           u == [task[r] EXCEPT !.pc = "forget", !.then = "done"]
<1>0. r \in Tasks /\ r # "free" /\ task[r].pc = "spawn"
  BY TaskType DEF Tasks, SpawnFails
<1>1. c \in Cells /\ cell[c].lock = r /\ cell[c].state = "Starting"
  BY <1>0 DEF HolderBooks
<1>2. ~Claimable(c)
  BY <1>0, <1>1 DEF ClaimBooks
<1>3. /\ x \in CellTypes /\ x.key = cell[c].key /\ x.state = "Stopped" /\ x.lock = "free"
      /\ x.registered = cell[c].registered /\ x.claim = cell[c].claim
  BY <1>1, CellType, DroppedType
<1>4. /\ u \in TaskTypes /\ u.at = c /\ u.pc = "forget" /\ u.key = task[r].key /\ u.writes = task[r].writes
      /\ u.answer = task[r].answer /\ u.then = "done"
  BY <1>0, TaskType DEF TaskTypes
<1>5. cell' = [cell EXCEPT ![c] = x] /\ task' = [task EXCEPT ![r] = u]
  BY DEF SpawnFails
<1> HIDE DEF x, u
<1>6. /\ cell' \in [Cells -> CellTypes] /\ cell'[c] = x /\ \A d \in Cells \ {c} : cell'[d] = cell[d]
  BY <1>1, <1>3, <1>5, CellSet
<1>7. /\ task' \in [Tasks -> TaskTypes] /\ task'[r] = u /\ \A b \in Tasks \ {r} : task'[b] = task[b]
  BY <1>0, <1>4, <1>5, TaskSet
<1>8. Retires(r)
  BY <1>1, <1>2, <1>3, <1>4, <1>6, <1>7 DEF Retires, TaskAt, CellAt, Claimable, SpawnFails
<1>9. Keeps(r)
  BY <1>0, <1>4, <1>7 DEF Keeps, RequestBooks
<1> QED BY <1>6, <1>7, <1>8, <1>9 DEF NewTypes, Rested, SpawnFails

\* The grace is over: the process is dead and out of the registry.
LEMMA KillEndsMoves ==
  ASSUME PoolTyped, NEW a \in Tasks, HolderBooks(a), KillEnds(a)
  PROVE  NewTypes /\ Retires(a) /\ Keeps(a) /\ Rested
<1> DEFINE c == task[a].at
           x == [Dropped(cell[c]) EXCEPT !.proc = "dead", !.registered = FALSE, !.claim = "none"]
           u == [task[a] EXCEPT !.pc = "forget"]
<1>0. task[a].pc = "kill"
  BY DEF KillEnds
<1>1. c \in Cells /\ cell[c].lock = a /\ cell[c].state \in {"Starting", "Retiring"}
  BY <1>0 DEF HolderBooks
<1>2. /\ Dropped(cell[c]) \in CellTypes /\ Dropped(cell[c]).key = cell[c].key
      /\ Dropped(cell[c]).state = "Stopped" /\ Dropped(cell[c]).lock = "free"
  BY <1>1, CellType, DroppedType
<1>3. /\ x \in CellTypes /\ x.key = cell[c].key /\ x.state = "Stopped" /\ x.lock = "free" /\ x.registered = FALSE
  BY <1>2 DEF CellTypes
<1>4. /\ u \in TaskTypes /\ u.at = c /\ u.pc = "forget" /\ u.key = task[a].key /\ u.writes = task[a].writes
      /\ u.answer = task[a].answer /\ u.then = task[a].then
  BY <1>0, TaskType DEF TaskTypes
<1>5. cell' = [cell EXCEPT ![c] = x] /\ task' = [task EXCEPT ![a] = u]
  BY DEF KillEnds, Goto
<1> HIDE DEF x, u
<1>6. /\ cell' \in [Cells -> CellTypes] /\ cell'[c] = x /\ \A d \in Cells \ {c} : cell'[d] = cell[d]
  BY <1>1, <1>3, <1>5, CellSet
<1>7. /\ task' \in [Tasks -> TaskTypes] /\ task'[a] = u /\ \A b \in Tasks \ {a} : task'[b] = task[b]
  BY <1>0, <1>4, <1>5, TaskSet
<1>8. Retires(a)
  BY <1>1, <1>3, <1>4, <1>6, <1>7 DEF Retires, TaskAt, CellAt, Claimable, KillEnds
<1>9. Keeps(a)
  BY <1>0, <1>4, <1>7 DEF Keeps, RequestBooks
<1> QED BY <1>6, <1>7, <1>8, <1>9 DEF NewTypes, Rested, KillEnds

\* Eviction and reload: a slot without an instance is only marked.
LEMMA RetireSlotMoves ==
  ASSUME PoolTyped, NEW a \in Tasks, HolderBooks(a), ClaimBooks(task[a].at), retire_slot(a)
  PROVE  NewTypes /\ Retires(a) /\ Keeps(a) /\ Rested
<1> DEFINE c == task[a].at
<1>0. /\ task[a].pc = "evict" /\ cell[c].lock = "free" /\ c \in Cells /\ cell[c].state # "unused"
      /\ task[a] \in TaskTypes /\ cell[c] \in CellTypes
  BY TaskType, CellType DEF retire_slot, Free, HolderBooks
<1>1. CASE cell[c].state = "Live"
  <2>1. terminate(a, c, "Retiring", task[a])
    BY <1>1 DEF retire_slot, retire_held
  <2> DEFINE t == task[a]
  <2>2. t \in TaskTypes
    BY <1>0
  <2>3. /\ NewTypes /\ TaskAt(a, c) /\ CellAt(c) /\ ~(cell'[c].registered /\ cell'[c].claim = "none")
        /\ task'[a].key = t.key /\ task'[a].writes = t.writes /\ task'[a].answer = t.answer /\ task'[a].then = t.then
        /\ \/ task'[a].pc = "kill" /\ cell'[c].lock = a /\ cell'[c].state = "Retiring"
           \/ task'[a].pc = "forget" /\ cell'[c].lock = "free" /\ cell'[c].state = "Stopped"
    BY <1>0, <2>1, TerminateMoves
  <2>4. Retires(a)
    BY <1>0, <1>1, <2>3 DEF Retires, retire_slot
  <2>5. Keeps(a)
    BY <1>0, <2>3 DEF Keeps, RequestBooks
  <2> QED BY <2>3, <2>4, <2>5 DEF Rested, retire_slot
<1>2. CASE cell[c].state # "Live"
  <2> DEFINE x == [cell[c] EXCEPT !.state = "Stopped"]
             u == [task[a] EXCEPT !.pc = "forget"]
  <2>1. ~Claimable(c)
    BY <1>0, <1>2 DEF ClaimBooks
  <2>2. /\ x \in CellTypes /\ x.key = cell[c].key /\ x.state = "Stopped" /\ x.lock = "free"
        /\ x.registered = cell[c].registered /\ x.claim = cell[c].claim
    BY <1>0 DEF CellTypes
  <2>3. /\ u \in TaskTypes /\ u.at = c /\ u.pc = "forget" /\ u.key = task[a].key /\ u.writes = task[a].writes
        /\ u.answer = task[a].answer /\ u.then = task[a].then
    BY <1>0 DEF TaskTypes
  <2>4. cell' = [cell EXCEPT ![c] = x] /\ task' = [task EXCEPT ![a] = u]
    BY <1>2 DEF retire_slot, Goto
  <2> HIDE DEF x, u
  <2>5. /\ cell' \in [Cells -> CellTypes] /\ cell'[c] = x /\ \A d \in Cells \ {c} : cell'[d] = cell[d]
    BY <1>0, <2>2, <2>4, CellSet
  <2>6. /\ task' \in [Tasks -> TaskTypes] /\ task'[a] = u /\ \A b \in Tasks \ {a} : task'[b] = task[b]
    BY <2>3, <2>4, TaskSet
  <2>7. Retires(a)
    BY <1>0, <2>1, <2>2, <2>3, <2>5, <2>6 DEF Retires, TaskAt, CellAt, Claimable, retire_slot
  <2>8. Keeps(a)
    BY <1>0, <2>3, <2>6 DEF Keeps, RequestBooks
  <2> QED BY <2>5, <2>6, <2>7, <2>8 DEF NewTypes, Rested, retire_slot
<1> QED BY <1>1, <1>2

-----------------------------------------------------------------------------
(* The steps that leave the slots as they are.                             *)

\* No slot changes hands or state, and none gets a process.
SameCells ==
    \A c \in Cells :
        /\ cell'[c].state = cell[c].state /\ cell'[c].key = cell[c].key /\ cell'[c].lock = cell[c].lock
        /\ cell'[c].registered /\ cell'[c].claim = "none" => Claimable(c)

\* Task a goes on.
Quiet(a) ==
    /\ SameCells /\ UNCHANGED slots /\ task[a].pc # "handshake"
    /\ \A b \in Tasks \ {a} : task'[b] = task[b]
    /\ HolderBooks(a)'

\* One record changes, and only in what does not matter here.
LEMMA SameCellsOne ==
  ASSUME PoolTyped, NEW c \in Cells, NEW x \in CellTypes, cell' = [cell EXCEPT ![c] = x],
         x.state = cell[c].state, x.key = cell[c].key, x.lock = cell[c].lock,
         x.registered /\ x.claim = "none" => Claimable(c)
  PROVE  cell' \in [Cells -> CellTypes] /\ SameCells
<1>1. cell' \in [Cells -> CellTypes] /\ cell'[c] = x /\ \A d \in Cells \ {c} : cell'[d] = cell[d]
  BY CellSet
<1> QED BY <1>1 DEF SameCells, Claimable

\* A step that leaves the cells alone keeps what is said of them.
LEMMA SameCellsNone == PoolTyped /\ UNCHANGED cell => cell' \in [Cells -> CellTypes] /\ SameCells
BY DEF PoolTyped, SameCells, Claimable

\* Where a task goes to while the slots stay.
LEMMA GotoMoves ==
  ASSUME PoolTyped, NEW a \in Tasks, NEW t \in TaskTypes, task' = [task EXCEPT ![a] = t],
         cell' \in [Cells -> CellTypes], SameCells, UNCHANGED slots, task[a].pc # "handshake",
         \/ t.pc \notin {"lock", "spawn", "handshake", "exchange", "write", "rest", "read", "evict", "kill", "forget"}
         \/ t.pc \in {"lock", "evict"} /\ t.at \in Cells /\ cell[t.at].state # "unused"
         \/ /\ t.pc \in {"exchange", "write", "rest", "read"} /\ t.at \in Cells
            /\ cell[t.at].state = "Live" /\ cell[t.at].lock = a
  PROVE  NewTypes /\ Quiet(a) /\ task'[a] = t
<1>1. task' \in [Tasks -> TaskTypes] /\ task'[a] = t /\ \A b \in Tasks \ {a} : task'[b] = task[b]
  BY TaskSet
<1>2. HolderBooks(a)'
  BY <1>1 DEF HolderBooks, SameCells
<1> QED BY <1>1, <1>2 DEF NewTypes, Quiet

\* The checks before a request is written.
LEMMA ExchangeMoves ==
  ASSUME PoolTyped, NEW r \in Requests, HolderBooks(r), exchange(r)
  PROVE  NewTypes /\ (Retires(r) \/ (Quiet(r) /\ UNCHANGED todo)) /\ Keeps(r) /\ Rested
<1> DEFINE c == task[r].at
           t == [task[r] EXCEPT !.pc = "write"]
<1>0. r \in Tasks /\ task[r].pc = "exchange" /\ c \in Cells /\ cell[c].state = "Live" /\ cell[c].lock = r
  BY DEF exchange, HolderBooks, Tasks
<1>1. CASE DeadBeforeRequest(r)
  BY <1>0, <1>1, DeadMoves DEF exchange
<1>2. CASE Goto(r, "write") /\ UNCHANGED cell
  <2>1. t \in TaskTypes /\ t.pc = "write" /\ t.at = c /\ t.key = task[r].key /\ t.writes = task[r].writes /\ t.answer = task[r].answer
    BY <1>0, TaskType DEF TaskTypes
  <2>2. task' = [task EXCEPT ![r] = t]
    BY <1>2 DEF Goto
  <2> HIDE DEF t
  <2>3. NewTypes /\ Quiet(r) /\ task'[r] = t
    BY <1>0, <1>2, <2>1, <2>2, SameCellsNone, GotoMoves DEF exchange
  <2> QED BY <1>0, <2>1, <2>3 DEF Keeps, RequestBooks, Rested, exchange
<1> QED BY <1>1, <1>2 DEF exchange

\* The pipe takes the first bytes.
LEMMA WriteFirstMoves ==
  ASSUME PoolTyped, NEW r \in Requests, HolderBooks(r), WriteFirst(r)
  PROVE  NewTypes /\ (Retires(r) \/ (Quiet(r) /\ UNCHANGED todo)) /\ Keeps(r) /\ Rested
<1> DEFINE c == task[r].at
           t == [task[r] EXCEPT !.pc = "rest", !.writes = @ + 1]
<1>0. r \in Tasks /\ task[r].pc = "write" /\ c \in Cells /\ cell[c].state = "Live" /\ cell[c].lock = r
  BY DEF WriteFirst, HolderBooks, Tasks
<1>1. CASE DeadBeforeRequest(r) \/ TimedOut(r)
  BY <1>0, <1>1, DeadMoves DEF WriteFirst
<1>2. CASE task' = [task EXCEPT ![r] = t] /\ UNCHANGED cell
  <2>a. task[r] \in TaskTypes /\ task[r].writes + 1 \in Nat
    BY <1>0, TaskType DEF TaskTypes
  <2>1. t \in TaskTypes /\ t.pc = "rest" /\ t.at = c /\ t.key = task[r].key /\ t.writes = task[r].writes + 1 /\ t.answer = task[r].answer
    BY <2>a DEF TaskTypes
  <2>2. task' = [task EXCEPT ![r] = t]
    BY <1>2
  <2> HIDE DEF t
  <2>3. NewTypes /\ Quiet(r) /\ task'[r] = t
    BY <1>0, <1>2, <2>1, <2>2, SameCellsNone, GotoMoves DEF WriteFirst
  <2> QED BY <1>0, <2>1, <2>3 DEF Keeps, RequestBooks, Rested, WriteFirst
<1> QED BY <1>1, <1>2 DEF WriteFirst

\* ... and the rest.
LEMMA WriteRestMoves ==
  ASSUME PoolTyped, NEW r \in Requests, HolderBooks(r), WriteRest(r)
  PROVE  NewTypes /\ (Retires(r) \/ (Quiet(r) /\ UNCHANGED todo)) /\ Keeps(r) /\ Rested
<1> DEFINE c == task[r].at
           t == [task[r] EXCEPT !.pc = "read"]
           x == [cell[c] EXCEPT !.inbox = Append(@, r)]
<1>0. r \in Tasks /\ task[r].pc = "rest" /\ c \in Cells /\ cell[c].state = "Live" /\ cell[c].lock = r
      /\ cell[c] \in CellTypes
  BY CellType DEF WriteRest, HolderBooks, Tasks
<1>1. CASE Lost(r)
  BY <1>0, <1>1, LostMoves DEF WriteRest
<1>2. CASE Goto(r, "read") /\ cell' = [cell EXCEPT ![c].inbox = Append(@, r)]
  <2>1. t \in TaskTypes /\ t.pc = "read" /\ t.at = c /\ t.key = task[r].key /\ t.writes = task[r].writes /\ t.answer = task[r].answer
    BY <1>0, TaskType DEF TaskTypes
  <2>2. task' = [task EXCEPT ![r] = t]
    BY <1>2 DEF Goto
  <2>a. Append(cell[c].inbox, r) \in Seq(Requests)
    BY <1>0 DEF CellTypes
  <2>3. /\ x \in CellTypes /\ x.state = cell[c].state /\ x.key = cell[c].key /\ x.lock = cell[c].lock
        /\ x.registered = cell[c].registered /\ x.claim = cell[c].claim
    BY <1>0, <2>a DEF CellTypes
  <2>4. cell' = [cell EXCEPT ![c] = x]
    BY <1>2
  <2> HIDE DEF t, x
  <2>5. cell' \in [Cells -> CellTypes] /\ SameCells
    BY <1>0, <2>3, <2>4, SameCellsOne DEF Claimable
  <2>6. NewTypes /\ Quiet(r) /\ task'[r] = t
    BY <1>0, <2>1, <2>2, <2>5, GotoMoves DEF WriteRest
  <2> QED BY <1>0, <2>1, <2>6 DEF Keeps, RequestBooks, Rested, WriteRest
<1> QED BY <1>1, <1>2 DEF WriteRest

\* The answer was taken over: the key is the latest used.
LEMMA TouchMoves ==
  ASSUME PoolTyped, NEW r \in Requests, HolderBooks(r), RequestBooks(r), touch(r)
  PROVE  NewTypes /\ Quiet(r) /\ Keeps(r) /\ UNCHANGED <<todo, allocation, drains, cancels>>
<1>0. r \in Tasks /\ task[r].pc = "touch" /\ task[r].key \in Keys
  BY DEF touch, Tasks, RequestBooks
<1> DEFINE t == Done(task[r].key)
<1>1. t \in TaskTypes /\ t.pc = "done" /\ t.key = task[r].key /\ t.writes = 0 /\ t.answer = "none"
  BY <1>0, DoneType
<1>2. task' = [task EXCEPT ![r] = t]
  BY DEF touch
<1> HIDE DEF t
<1>3. NewTypes /\ Quiet(r) /\ task'[r] = t
  BY <1>0, <1>1, <1>2, SameCellsNone, GotoMoves DEF touch
<1> QED BY <1>0, <1>1, <1>3 DEF Keeps, RequestBooks, touch

-----------------------------------------------------------------------------
(* The answer.                                                             *)

\* Task a is done with its slot, which is free and as it was.
Frees(a) ==
    LET c == task[a].at
    IN  /\ c \in Cells /\ cell[c].state = "Live" /\ cell[c].lock = a
        /\ CellAt(c) /\ cell'[c].state = "Live" /\ cell'[c].lock = "free"
        /\ task'[a].pc = "touch" /\ \A b \in Tasks \ {a} : task'[b] = task[b]
        /\ UNCHANGED <<slots, todo>>

\* The slot after an answer: retired at its quota, dropped if the reaper has it, or free.
LEMMA AnsweredMoves ==
  ASSUME PoolTyped, NEW r \in Requests, HolderBooks(r), task[r].pc = "read", Head(cell[task[r].at].outbox) = r,
         cell[task[r].at].outbox # <<>>, Answered(r, task[r].at),
         UNCHANGED <<slots, last_used, allocation, todo, drains, cancels>>
  PROVE  NewTypes /\ (Retires(r) \/ Frees(r)) /\ Keeps(r) /\ Rested
<1> DEFINE c == task[r].at
           t == [task[r] EXCEPT !.then = "done", !.answer = Head(cell[c].outbox)]
           n == cell[c].invocations + 1
           x == [cell[c] EXCEPT !.outbox = Tail(@), !.invocations = n]
<1>0. r \in Tasks /\ c \in Cells /\ cell[c].state = "Live" /\ cell[c].lock = r /\ cell[c] \in CellTypes /\ r # "free"
  BY CellType, TaskType DEF HolderBooks, Tasks
<1>1. /\ t \in TaskTypes /\ t.at = c /\ t.key = task[r].key /\ t.writes = task[r].writes
      /\ t.answer = r /\ t.then = "done"
  BY ZenonT(40), <1>0, TaskType DEF TaskTypes
<1>2. n \in Nat /\ Tail(cell[c].outbox) \in Seq(Requests)
  BY <1>0 DEF CellTypes
<1> HIDE DEF n
<1>3. /\ x \in CellTypes /\ x.key = cell[c].key /\ x.state = "Live" /\ x.lock = r
      /\ x.registered = cell[c].registered /\ x.claim = cell[c].claim
  BY <1>0, <1>2 DEF CellTypes
<1>4. \/ /\ ~Claimable(c) /\ cell' = [cell EXCEPT ![c] = Dropped(x)]
         /\ task' = [task EXCEPT ![r] = [t EXCEPT !.pc = "forget"]]
      \/ /\ cell' = [cell EXCEPT ![c] = [x EXCEPT !.state = "Retiring", !.claim = "pool"]]
         /\ task' = [task EXCEPT ![r] = [t EXCEPT !.pc = "kill"]]
      \/ /\ cell' = [cell EXCEPT ![c] = [x EXCEPT !.lock = "free"]]
         /\ task' = [task EXCEPT ![r] = [t EXCEPT !.pc = "touch"]]
  BY DEF Answered, n
<1> HIDE DEF t, x
<1> DEFINE u(pc) == [t EXCEPT !.pc = pc]
<1>5. \A pc \in {"forget", "kill", "touch"} :
        /\ u(pc) \in TaskTypes /\ u(pc).at = c /\ u(pc).pc = pc /\ u(pc).key = task[r].key
        /\ u(pc).writes = task[r].writes /\ u(pc).answer = r /\ u(pc).then = "done"
  BY <1>1 DEF TaskTypes
<1>6. /\ Dropped(x) \in CellTypes /\ Dropped(x).key = cell[c].key /\ Dropped(x).state = "Stopped"
      /\ Dropped(x).lock = "free" /\ Dropped(x).registered = cell[c].registered /\ Dropped(x).claim = cell[c].claim
  BY <1>3, DroppedType
<1> DEFINE y == [x EXCEPT !.state = "Retiring", !.claim = "pool"]
           z == [x EXCEPT !.lock = "free"]
<1>7. y \in CellTypes /\ y.key = cell[c].key /\ y.state = "Retiring" /\ y.lock = r /\ y.claim = "pool"
  BY <1>3 DEF CellTypes
<1>8. /\ z \in CellTypes /\ z.key = cell[c].key /\ z.state = "Live" /\ z.lock = "free"
      /\ z.registered = cell[c].registered /\ z.claim = cell[c].claim
  BY <1>3 DEF CellTypes
<1>9. ASSUME NEW pc \in {"forget", "kill", "touch"}, task' = [task EXCEPT ![r] = u(pc)]
      PROVE  /\ task' \in [Tasks -> TaskTypes] /\ task'[r] = u(pc) /\ \A b \in Tasks \ {r} : task'[b] = task[b]
             /\ Keeps(r)
  <2> HIDE DEF u
  <2>1. /\ task' \in [Tasks -> TaskTypes] /\ task'[r] = u(pc) /\ \A b \in Tasks \ {r} : task'[b] = task[b]
    BY <1>0, <1>5, <1>9, TaskSet
  <2> QED BY <1>5, <2>1 DEF Keeps, RequestBooks
<1>10. CASE ~Claimable(c) /\ cell' = [cell EXCEPT ![c] = Dropped(x)] /\ task' = [task EXCEPT ![r] = u("forget")]
  <2>1. /\ cell' \in [Cells -> CellTypes] /\ cell'[c] = Dropped(x) /\ \A d \in Cells \ {c} : cell'[d] = cell[d]
    BY <1>0, <1>6, <1>10, CellSet
  <2> HIDE DEF u
  <2>2. Retires(r)
    BY <1>0, <1>5, <1>6, <1>9, <1>10, <2>1 DEF Retires, TaskAt, CellAt, Claimable
  <2> QED BY <1>9, <1>10, <2>1, <2>2 DEF NewTypes, Rested
<1>11. CASE cell' = [cell EXCEPT ![c] = y] /\ task' = [task EXCEPT ![r] = u("kill")]
  <2> HIDE DEF y
  <2>1. /\ cell' \in [Cells -> CellTypes] /\ cell'[c] = y /\ \A d \in Cells \ {c} : cell'[d] = cell[d]
    BY <1>0, <1>7, <1>11, CellSet
  <2> HIDE DEF u
  <2>2. Retires(r)
    BY <1>0, <1>5, <1>7, <1>9, <1>11, <2>1 DEF Retires, TaskAt, CellAt
  <2> QED BY <1>9, <1>11, <2>1, <2>2 DEF NewTypes, Rested
<1>12. CASE cell' = [cell EXCEPT ![c] = z] /\ task' = [task EXCEPT ![r] = u("touch")]
  <2> HIDE DEF z
  <2>1. /\ cell' \in [Cells -> CellTypes] /\ cell'[c] = z /\ \A d \in Cells \ {c} : cell'[d] = cell[d]
    BY <1>0, <1>8, <1>12, CellSet
  <2> HIDE DEF u
  <2>2. Frees(r)
    BY <1>0, <1>5, <1>8, <1>9, <1>12, <2>1 DEF Frees, CellAt
  <2> QED BY <1>9, <1>12, <2>1, <2>2 DEF NewTypes, Rested
<1> QED BY <1>4, <1>10, <1>11, <1>12

\* A request takes its own answer, and none that the reaper overtook.
LEMMA ReadAnswerMoves ==
  ASSUME PoolTyped, NEW r \in Requests, HolderBooks(r), read_answer(r)
  PROVE  NewTypes /\ (Retires(r) \/ Frees(r) \/ (Quiet(r) /\ UNCHANGED todo)) /\ Keeps(r) /\ Rested
<1> DEFINE c == task[r].at
           x == [cell[c] EXCEPT !.outbox = Tail(@)]
<1>0. /\ r \in Tasks /\ task[r].pc = "read" /\ cell[c].outbox # <<>>
      /\ c \in Cells /\ cell[c].state = "Live" /\ cell[c].lock = r /\ cell[c] \in CellTypes
  BY CellType DEF read_answer, HolderBooks, Tasks
<1>1. CASE cell' = [cell EXCEPT ![c].outbox = Tail(@)] /\ UNCHANGED task
  <2>0. Tail(cell[c].outbox) \in Seq(Requests)
    BY <1>0 DEF CellTypes
  <2>1. /\ x \in CellTypes /\ x.state = cell[c].state /\ x.key = cell[c].key /\ x.lock = cell[c].lock
        /\ x.registered = cell[c].registered /\ x.claim = cell[c].claim
    BY <1>0, <2>0 DEF CellTypes
  <2>2. cell' = [cell EXCEPT ![c] = x]
    BY <1>1
  <2> HIDE DEF x
  <2>3. cell' \in [Cells -> CellTypes] /\ SameCells
    BY <1>0, <2>1, <2>2, SameCellsOne DEF Claimable
  <2>4. HolderBooks(r)'
    BY <1>0, <1>1, <2>3 DEF HolderBooks, SameCells
  <2> QED BY <1>0, <1>1, <2>3, <2>4 DEF NewTypes, PoolTyped, Quiet, Keeps, RequestBooks, Rested, read_answer
<1>2. CASE TimedOut(r)
  BY <1>0, <1>2, HeldMoves DEF TimedOut, retire_held, read_answer
<1>3. CASE Head(cell[c].outbox) = r /\ Answered(r, c)
  BY <1>0, <1>3, AnsweredMoves DEF read_answer
<1> QED BY <1>1, <1>2, <1>3 DEF read_answer

-----------------------------------------------------------------------------
(* Slots that are made, taken and given up.                                *)

\* Task a holds a slot for an instance.
Holds(a) ==
    \E c \in Cells :
        /\ task[a].at = c /\ cell[c].lock \in {a, "free"} /\ cell[c].state \in {"Starting", "Live"}
        /\ cell'[c].lock = a /\ cell'[c].state \in {"Starting", "Live"}
        /\ TaskAt(a, c) /\ CellAt(c) /\ HolderBooks(a)' /\ ClaimBooks(c)'
        /\ UNCHANGED <<slots, todo>>

\* A request that waited for a slot takes it, or finds that it was retired.
LEMMA TakeSlotMoves ==
  ASSUME PoolTyped, NEW r \in Requests, HolderBooks(r), \A c \in Cells : ClaimBooks(c), TakeSlot(r)
  PROVE  NewTypes /\ (Holds(r) \/ (Quiet(r) /\ UNCHANGED todo)) /\ Keeps(r) /\ Rested
<1> DEFINE c == task[r].at
<1>0. /\ r \in Tasks /\ r # "free" /\ task[r].pc = "lock" /\ cell[c].lock = "free" /\ c \in Cells
      /\ cell[c].state # "unused" /\ cell[c] \in CellTypes /\ task[r] \in TaskTypes
  BY CellType, TaskType DEF TakeSlot, HolderBooks, Tasks, Free
<1>1. CASE task' = [task EXCEPT ![r] = Again(@)] /\ UNCHANGED cell
  <2> DEFINE t == Again(task[r])
  <2>1. /\ t \in TaskTypes /\ t.key = task[r].key /\ t.pc \in {"alloc", "gave_up"}
        /\ t.writes \in {0, task[r].writes} /\ t.answer \in {"none", task[r].answer}
    BY <1>0, AgainType
  <2>2. task' = [task EXCEPT ![r] = t]
    BY <1>1
  <2> HIDE DEF t
  <2>3. NewTypes /\ Quiet(r) /\ task'[r] = t
    BY <1>0, <1>1, <2>1, <2>2, SameCellsNone, GotoMoves DEF TakeSlot
  <2> QED BY <1>0, <2>1, <2>3 DEF Keeps, RequestBooks, Rested, TakeSlot
<1>2. CASE /\ cell[c].state \notin {"Stopped", "Retiring"} /\ cell' = [cell EXCEPT ![c].lock = r]
           /\ Goto(r, IF cell[c].state = "Starting" THEN "spawn" ELSE "exchange")
  <2> DEFINE x == [cell[c] EXCEPT !.lock = r]
             pc == IF cell[c].state = "Starting" THEN "spawn" ELSE "exchange"
             t == [task[r] EXCEPT !.pc = pc]
  <2>1. /\ x \in CellTypes /\ x.state = cell[c].state /\ x.key = cell[c].key /\ x.lock = r
        /\ x.registered = cell[c].registered /\ x.claim = cell[c].claim
    BY <1>0 DEF CellTypes
  <2>2. /\ t \in TaskTypes /\ t.pc = pc /\ t.at = c /\ t.key = task[r].key /\ t.writes = task[r].writes /\ t.answer = task[r].answer
    BY <1>0 DEF TaskTypes
  <2>3. cell' = [cell EXCEPT ![c] = x] /\ task' = [task EXCEPT ![r] = t]
    BY <1>2 DEF Goto
  <2>4. cell[c].state \in {"Starting", "Live"}
    BY <1>0, <1>2 DEF CellTypes
  <2>5. pc \in {"spawn", "exchange"} /\ (pc = "spawn" <=> cell[c].state = "Starting")
    OBVIOUS
  <2> HIDE DEF x, t, pc
  <2>6. /\ cell' \in [Cells -> CellTypes] /\ cell'[c] = x /\ \A d \in Cells \ {c} : cell'[d] = cell[d]
    BY <1>0, <2>1, <2>3, CellSet
  <2>7. /\ task' \in [Tasks -> TaskTypes] /\ task'[r] = t /\ \A b \in Tasks \ {r} : task'[b] = task[b]
    BY <1>0, <2>2, <2>3, TaskSet
  <2>8. HolderBooks(r)'
    BY <1>0, <2>1, <2>2, <2>4, <2>5, <2>6, <2>7 DEF HolderBooks
  <2>9. Holds(r)
    <3> DEFINE d == c
    <3>1. PICK e \in Cells : e = c
      BY <1>0
    <3>2. ~Claimable(e) \/ cell[e].state = "Live"
      BY <1>0, <3>1 DEF ClaimBooks
    <3>3. ClaimBooks(e)'
      BY <2>1, <2>6, <3>1, <3>2 DEF ClaimBooks, Claimable
    <3> QED BY <1>0, <2>1, <2>2, <2>4, <2>6, <2>7, <2>8, <3>1, <3>3 DEF Holds, TaskAt, CellAt, TakeSlot
  <2>10. Keeps(r)
    BY <1>0, <2>2, <2>5, <2>7 DEF Keeps, RequestBooks
  <2> QED BY <2>6, <2>7, <2>9, <2>10 DEF NewTypes, Rested, TakeSlot
<1> QED BY <1>1, <1>2 DEF TakeSlot

\* A process is started and registered.
LEMMA SpawnMoves ==
  ASSUME PoolTyped, NEW r \in Requests, HolderBooks(r), Spawn(r)
  PROVE  NewTypes /\ Holds(r) /\ Keeps(r) /\ Rested
<1> DEFINE c == task[r].at
           x == [cell[c] EXCEPT !.proc = "running", !.registered = TRUE, !.claim = "none"]
           t == [task[r] EXCEPT !.pc = "handshake"]
<1>0. /\ r \in Tasks /\ r # "free" /\ task[r].pc = "spawn" /\ c \in Cells /\ cell[c].lock = r
      /\ cell[c].state = "Starting" /\ cell[c] \in CellTypes /\ task[r] \in TaskTypes
  BY CellType, TaskType DEF Spawn, HolderBooks, Tasks
<1>1. x \in CellTypes /\ x.state = "Starting" /\ x.key = cell[c].key /\ x.lock = r
  BY <1>0 DEF CellTypes
<1>2. /\ t \in TaskTypes /\ t.pc = "handshake" /\ t.at = c /\ t.key = task[r].key /\ t.writes = task[r].writes /\ t.answer = task[r].answer
  BY <1>0 DEF TaskTypes
<1>3. cell' = [cell EXCEPT ![c] = x] /\ task' = [task EXCEPT ![r] = t]
  BY DEF Spawn, Goto
<1> HIDE DEF x, t
<1>4. /\ cell' \in [Cells -> CellTypes] /\ cell'[c] = x /\ \A d \in Cells \ {c} : cell'[d] = cell[d]
  BY <1>0, <1>1, <1>3, CellSet
<1>5. /\ task' \in [Tasks -> TaskTypes] /\ task'[r] = t /\ \A b \in Tasks \ {r} : task'[b] = task[b]
  BY <1>0, <1>2, <1>3, TaskSet
<1>6. HolderBooks(r)'
  BY <1>0, <1>1, <1>2, <1>4, <1>5 DEF HolderBooks
<1>7. PICK e \in Cells : e = c
  BY <1>0
<1>8. ClaimBooks(e)'
  BY <1>0, <1>1, <1>2, <1>4, <1>5, <1>7 DEF ClaimBooks
<1>9. Holds(r)
  BY <1>0, <1>1, <1>2, <1>4, <1>5, <1>6, <1>7, <1>8 DEF Holds, TaskAt, CellAt, Spawn
<1>10. Keeps(r)
  BY <1>0, <1>2, <1>5 DEF Keeps, RequestBooks
<1> QED BY <1>4, <1>5, <1>9, <1>10 DEF NewTypes, Rested, Spawn

\* The handshake is over: the instance is live.
LEMMA HandshakeDoneMoves ==
  ASSUME PoolTyped, NEW r \in Requests, HolderBooks(r), HandshakeDone(r)
  PROVE  NewTypes /\ Holds(r) /\ Keeps(r) /\ Rested
<1> DEFINE c == task[r].at
           x == [cell[c] EXCEPT !.state = "Live"]
           t == [task[r] EXCEPT !.pc = "exchange"]
<1>0. /\ r \in Tasks /\ task[r].pc = "handshake" /\ c \in Cells /\ cell[c].lock = r
      /\ cell[c].state = "Starting" /\ cell[c] \in CellTypes /\ task[r] \in TaskTypes
  BY CellType, TaskType DEF HandshakeDone, HolderBooks, Tasks
<1>1. x \in CellTypes /\ x.state = "Live" /\ x.key = cell[c].key /\ x.lock = r
  BY <1>0 DEF CellTypes
<1>2. /\ t \in TaskTypes /\ t.pc = "exchange" /\ t.at = c /\ t.key = task[r].key /\ t.writes = task[r].writes /\ t.answer = task[r].answer
  BY <1>0 DEF TaskTypes
<1>3. cell' = [cell EXCEPT ![c] = x] /\ task' = [task EXCEPT ![r] = t]
  BY DEF HandshakeDone, Goto
<1> HIDE DEF x, t
<1>4. /\ cell' \in [Cells -> CellTypes] /\ cell'[c] = x /\ \A d \in Cells \ {c} : cell'[d] = cell[d]
  BY <1>0, <1>1, <1>3, CellSet
<1>5. /\ task' \in [Tasks -> TaskTypes] /\ task'[r] = t /\ \A b \in Tasks \ {r} : task'[b] = task[b]
  BY <1>0, <1>2, <1>3, TaskSet
<1>6. HolderBooks(r)'
  BY <1>0, <1>1, <1>2, <1>4, <1>5 DEF HolderBooks
<1>7. PICK e \in Cells : e = c
  BY <1>0
<1>8. ClaimBooks(e)'
  BY <1>1, <1>4, <1>7 DEF ClaimBooks
<1>9. Holds(r)
  BY <1>0, <1>1, <1>2, <1>4, <1>5, <1>6, <1>7, <1>8 DEF Holds, TaskAt, CellAt, HandshakeDone
<1>10. Keeps(r)
  BY <1>0, <1>2, <1>5 DEF Keeps, RequestBooks
<1> QED BY <1>4, <1>5, <1>9, <1>10 DEF NewTypes, Rested, HandshakeDone

-----------------------------------------------------------------------------
(* The search for a slot.                                                  *)

\* The least of some numbers, and the key that was used the longest time ago.
LEMMA LeastOf ==
  ASSUME NEW S \in SUBSET Nat, S # {}
  PROVE  \E x \in S : \A y \in S : x <= y
<1> DEFINE R == OpToRel(<, Nat)
<1>1. IsWellFoundedOn(R, Nat)
  BY NatLessThanWellFounded
<1>2. PICK x \in S : \A y \in S : ~(<<y, x>> \in R)
  <2> HIDE DEF R
  <2> QED BY <1>1, WFMin
<1>3. \A y \in S : x <= y
  <2> SUFFICES ASSUME NEW y \in S PROVE ~(y < x)
    OBVIOUS
  <2> QED BY <1>2 DEF OpToRel
<1> QED BY <1>3

\* The slot that is evicted is one of those there are.
LEMMA OldestIn ==
  ASSUME PoolTyped, NEW K \in SUBSET Keys, K # {}
  PROVE  Oldest(K) \in K
<1> DEFINE S == {last_used[x] : x \in K}
<1>1. S \in SUBSET Nat /\ S # {}
  BY DEF PoolTyped
<1>2. PICK n \in S : \A m \in S : n <= m
  <2> HIDE DEF S
  <2> QED BY <1>1, LeastOf
<1>3. PICK x \in K : n = last_used[x]
  OBVIOUS
<1>4. \A y \in K : last_used[x] <= last_used[y]
  BY <1>2, <1>3
<1> QED BY <1>4 DEF Oldest

\* An unused slot that is taken is an unused slot.
LEMMA NewIn ==
  ASSUME Unused # {}
  PROVE  Min(Unused) \in Unused
<1>1. Unused \in SUBSET Nat
  BY DEF Unused, Cells
<1>2. \E x \in Unused : \A y \in Unused : x <= y
  BY <1>1, LeastOf
<1> QED BY <1>2 DEF Min

\* Sets of keys are finite, and ranks are numbers.
LEMMA FewKeys ==
  ASSUME NEW K \in SUBSET Keys
  PROVE  IsFiniteSet(K) /\ Cardinality(K) \in Nat
BY PoolAssumption, FS_Subset, FS_CardinalityType

\* Using a slot keeps the ranks numbers.
LEMMA UsedType ==
  ASSUME NEW k \in Keys
  PROVE  Used(k) \in [Keys -> Nat]
<1> DEFINE others == Occupied(slots) \ {k}
           F(x) == {y \in others : last_used[y] <= last_used[x]}
<1>1. others \in SUBSET Keys /\ \A x \in Keys : F(x) \in SUBSET Keys
  BY DEF Occupied
<1>2. Cardinality(others) + 1 \in Nat /\ \A x \in Keys : Cardinality(F(x)) \in Nat
  <2> HIDE DEF others, F
  <2> QED BY <1>1, FewKeys
<1>3. Used(k) = [x \in Keys |-> IF x = k THEN Cardinality(others) + 1
                                ELSE IF x \in others THEN Cardinality(F(x)) ELSE 0]
  BY DEF Used
<1> HIDE DEF others, F
<1> QED BY <1>2, <1>3

\* A slot is made for the key of request r, in a cell that nobody has.
Makes(r) ==
    \E new \in Unused :
        LET k == task[r].key
        IN  /\ k \in Keys /\ slots' = [slots EXCEPT ![k] = new]
            /\ slots[k] # 0 => cell[slots[k]].state = "Stopped"
            /\ Cardinality(Occupied([slots EXCEPT ![k] = 0])) < max_instances
            /\ cell'[new].state = "Starting" /\ cell'[new].key = k /\ cell'[new].lock = "free"
            /\ cell'[new].registered = FALSE
            /\ \A c \in Cells \ {new} : cell'[c] = cell[c]
            /\ TaskAt(r, new) /\ task[r].pc # "handshake" /\ task'[r].pc = "lock" /\ UNCHANGED todo

\* Slots that are stopped leave the map, on behalf of task a.
Unmaps(a) ==
    /\ \A k \in Keys : \/ slots'[k] = slots[k]
                       \/ slots'[k] = 0 /\ (slots[k] # 0 => cell[slots[k]].state = "Stopped")
    /\ task[a].pc # "handshake" /\ HolderBooks(a)' /\ (\A b \in Tasks \ {a} : task'[b] = task[b])
    /\ UNCHANGED <<cell, todo>>

\* slot_for finds the slot of the key, makes one, or picks the one that is to go.
LEMMA SlotForMoves ==
  ASSUME PoolTyped, MapBooks, NEW r \in Requests, RequestBooks(r), slot_for(r)
  PROVE  /\ NewTypes /\ (Makes(r) \/ Unmaps(r) \/ (Quiet(r) /\ UNCHANGED todo)) /\ Keeps(r)
         /\ last_used' \in [Keys -> Nat] /\ allocation' \in {"free", r}
         /\ slots' \in [Keys -> Cells \union {0}] /\ UNCHANGED <<drains, cancels>>
<1> DEFINE k == task[r].key
           c == slots[k]
           m == [slots EXCEPT ![k] = 0]
           new == Min(Unused)
           old == Oldest(Occupied(m))
           victim == slots[old]
           t(at) == [task[r] EXCEPT !.at = at, !.pc = "lock"]
           u == [task[r] EXCEPT !.at = victim, !.pc = "evict", !.then = "lookup"]
<1>0. /\ r \in Tasks /\ k \in Keys /\ task[r] \in TaskTypes /\ task[r].pc \in {"alloc", "lookup"} /\ task[r].writes = 0
      /\ slots \in [Keys -> Cells \union {0}] /\ last_used \in [Keys -> Nat]
  BY TaskType DEF slot_for, Tasks, RequestBooks, PoolTyped
<1>a. UNCHANGED <<todo, drains, cancels>>
  BY DEF slot_for
<1>b. \A d \in Cells : d \in Nat \ {0}
  BY DEF Cells
<1>c. \A at \in Cells : /\ t(at) \in TaskTypes /\ t(at).pc = "lock" /\ t(at).at = at /\ t(at).key = k
                        /\ t(at).writes = 0 /\ t(at).answer = task[r].answer
  BY <1>0 DEF TaskTypes
<1>d. c # 0 => c \in Cells /\ cell[c].state # "unused"
  BY <1>0 DEF MapBooks
<1>1. CASE /\ c # 0 /\ last_used' = Used(k) /\ allocation' = "free" /\ task' = [task EXCEPT ![r] = t(c)]
           /\ UNCHANGED <<slots, cell>>
  <2>1. /\ c \in Cells /\ cell[c].state # "unused" /\ t(c) \in TaskTypes /\ t(c).pc = "lock" /\ t(c).at = c
        /\ t(c).key = k /\ t(c).writes = 0 /\ t(c).answer = task[r].answer
    BY <1>1, <1>c, <1>d
  <2> DEFINE v == t(c)
  <2>2. task' = [task EXCEPT ![r] = v]
    BY <1>1
  <2>3. v \in TaskTypes /\ v.pc = "lock" /\ v.at \in Cells /\ cell[v.at].state # "unused"
    BY <2>1
  <2> HIDE DEF v
  <2>4. NewTypes /\ Quiet(r) /\ task'[r] = v
    BY <1>0, <1>1, <2>2, <2>3, SameCellsNone, GotoMoves
  <2>5. Keeps(r)
    BY <1>0, <2>1, <2>4 DEF Keeps, RequestBooks, v
  <2> QED BY <1>0, <1>1, <1>a, <2>4, <2>5, UsedType
<1>2. CASE /\ c # 0 => cell[c].state = "Stopped"
           /\ Cardinality(Occupied(m)) < max_instances /\ Unused # {}
           /\ slots' = [slots EXCEPT ![k] = new] /\ cell' = [cell EXCEPT ![new] = StartingCell(k)]
           /\ last_used' = Used(k) /\ allocation' = "free" /\ task' = [task EXCEPT ![r] = t(new)]
  <2>1. new \in Unused /\ new \in Cells
    BY <1>2, NewIn DEF Unused
  <2> DEFINE x == StartingCell(k)
             v == t(new)
  <2>2. /\ x \in CellTypes /\ x.state = "Starting" /\ x.key = k /\ x.lock = "free" /\ x.registered = FALSE
    <3>1. <<>> \in Seq(Requests)
      OBVIOUS
    <3> QED BY <1>0, <3>1 DEF StartingCell, NoCell, CellTypes
  <2>3. v \in TaskTypes /\ v.pc = "lock" /\ v.at = new /\ v.key = k /\ v.writes = 0 /\ v.answer = task[r].answer
    BY <1>c, <2>1
  <2>4. cell' = [cell EXCEPT ![new] = x] /\ task' = [task EXCEPT ![r] = v]
    BY <1>2
  <2> HIDE DEF x, v, new
  <2>5. cell' \in [Cells -> CellTypes] /\ cell'[new] = x /\ \A d \in Cells \ {new} : cell'[d] = cell[d]
    BY <2>1, <2>2, <2>4, CellSet
  <2>6. task' \in [Tasks -> TaskTypes] /\ task'[r] = v /\ \A b \in Tasks \ {r} : task'[b] = task[b]
    BY <1>0, <2>3, <2>4, TaskSet
  <2>7. Makes(r)
    BY ZenonT(40), <1>0, <1>2, <1>a, <2>1, <2>2, <2>3, <2>5, <2>6 DEF Makes, TaskAt
  <2>8. Keeps(r)
    BY <1>0, <2>3, <2>6 DEF Keeps, RequestBooks
  <2> QED BY <1>0, <1>2, <1>a, <2>1, <2>5, <2>6, <2>7, <2>8, UsedType DEF NewTypes
<1>3. CASE /\ c # 0 => cell[c].state = "Stopped"
           /\ ~(Cardinality(Occupied(m)) < max_instances)
           /\ slots' = m /\ task' = [task EXCEPT ![r] = u] /\ allocation' = r
           /\ UNCHANGED <<last_used, cell>>
  <2>1. Occupied(m) # {} /\ Occupied(m) \in SUBSET Keys
    <3>1. Occupied(m) = {} => Cardinality(Occupied(m)) = 0
      BY FS_EmptySet
    <3> QED BY <1>3, <3>1, PoolAssumption DEF Occupied
  <2>2. old \in Occupied(m)
    <3> HIDE DEF m
    <3> QED BY <2>1, OldestIn
  <2>3. old \in Keys /\ slots[old] # 0
    BY <1>0, <2>2 DEF Occupied
  <2>4. victim \in Cells /\ cell[victim].state # "unused"
    BY <1>0, <2>3 DEF MapBooks
  <2> HIDE DEF victim
  <2>5. /\ u \in TaskTypes /\ u.pc = "evict" /\ u.at = victim /\ u.key = k /\ u.writes = 0 /\ u.answer = task[r].answer
    BY <1>0, <2>4 DEF TaskTypes
  <2>6. task' = [task EXCEPT ![r] = u]
    BY <1>3
  <2> HIDE DEF u
  <2>7. task' \in [Tasks -> TaskTypes] /\ task'[r] = u /\ \A b \in Tasks \ {r} : task'[b] = task[b]
    BY <1>0, <2>5, <2>6, TaskSet
  <2>8. HolderBooks(r)'
    BY <1>3, <2>4, <2>5, <2>7 DEF HolderBooks
  <2>9. Unmaps(r)
    <3>1. /\ c = slots[k] /\ slots' = [slots EXCEPT ![k] = 0] /\ k \in Keys /\ task[r].pc # "handshake"
          /\ c # 0 => cell[c].state = "Stopped"
      BY <1>0, <1>3
    <3> HIDE DEF c, k, m
    <3>2. \A j \in Keys : \/ slots'[j] = slots[j]
                          \/ slots'[j] = 0 /\ (slots[j] # 0 => cell[slots[j]].state = "Stopped")
      BY <1>0, <3>1
    <3> QED BY <1>3, <1>a, <2>7, <2>8, <3>1, <3>2 DEF Unmaps
  <2>10. Keeps(r)
    BY <1>0, <2>5, <2>7 DEF Keeps, RequestBooks
  <2>11. slots' \in [Keys -> Cells \union {0}] /\ cell' \in [Cells -> CellTypes]
    BY <1>0, <1>3 DEF PoolTyped
  <2> QED BY <1>0, <1>3, <1>a, <2>7, <2>9, <2>10, <2>11 DEF NewTypes
<1>4. IF c # 0 /\ ~(Free(c) /\ cell[c].state = "Stopped")
      THEN /\ last_used' = Used(k) /\ allocation' = "free" /\ task' = [task EXCEPT ![r] = t(c)]
           /\ UNCHANGED <<slots, cell>>
      ELSE IF Cardinality(Occupied(m)) < max_instances
      THEN /\ Unused # {} /\ slots' = [slots EXCEPT ![k] = new] /\ cell' = [cell EXCEPT ![new] = StartingCell(k)]
           /\ last_used' = Used(k) /\ allocation' = "free" /\ task' = [task EXCEPT ![r] = t(new)]
      ELSE /\ slots' = m /\ task' = [task EXCEPT ![r] = u] /\ allocation' = r
           /\ UNCHANGED <<last_used, cell>>
  BY DEF slot_for
<1> HIDE DEF k, c, m, new, old, victim, t, u
<1> QED BY <1>1, <1>2, <1>3, <1>4

-----------------------------------------------------------------------------
(* Slots that are forgotten, and the reload.                               *)

\* forget_slot takes the slot out of the map unless the key has another by now.
LEMMA ForgetMoves ==
  ASSUME PoolTyped, NEW a \in Tasks, HolderBooks(a), forget_slot(a)
  PROVE  NewTypes /\ Unmaps(a) /\ Keeps(a) /\ Rested /\ slots' \in [Keys -> Cells \union {0}]
<1> DEFINE c == task[a].at
           k == cell[c].key
           t == Resume(task[a])
<1>0. task[a].pc = "forget" /\ c \in Cells /\ cell[c].state = "Stopped" /\ task[a] \in TaskTypes /\ slots \in [Keys -> Cells \union {0}]
  BY TaskType DEF forget_slot, HolderBooks, PoolTyped
<1>1. /\ t \in TaskTypes /\ t.key = task[a].key /\ t.pc \in {"alloc", "gave_up", "lookup", "next", "done"}
      /\ t.pc \in {"alloc", "lookup", "next"} =>
               /\ task[a].then \in {"again", "lookup", "next"}
               /\ t.writes = task[a].writes /\ t.answer = task[a].answer
      /\ t.pc \in {"gave_up", "done"} => t.writes = 0 /\ t.answer = "none"
  BY <1>0, ResumeType
<1>2. task' = [task EXCEPT ![a] = t] /\ slots' = [slots EXCEPT ![k] = IF @ = c THEN 0 ELSE @] /\ UNCHANGED <<cell, todo>>
  BY DEF forget_slot
<1> HIDE DEF t
<1>3. task' \in [Tasks -> TaskTypes] /\ task'[a] = t /\ \A b \in Tasks \ {a} : task'[b] = task[b]
  BY <1>1, <1>2, TaskSet
<1>4. HolderBooks(a)'
  BY <1>1, <1>3 DEF HolderBooks
<1>5. Unmaps(a)
  <2> HIDE DEF c, k
  <2>1. \A j \in Keys : slots'[j] = slots[j] \/ (slots'[j] = 0 /\ slots[j] = c)
    BY <1>0, <1>2
  <2>2. \A j \in Keys : \/ slots'[j] = slots[j]
                        \/ slots'[j] = 0 /\ (slots[j] # 0 => cell[slots[j]].state = "Stopped")
    BY <1>0, <2>1
  <2> QED BY <1>0, <1>2, <1>3, <1>4, <2>2 DEF Unmaps
<1>6. Keeps(a)
  <2> SUFFICES ASSUME a \in Requests, RequestBooks(a) PROVE RequestBooks(a)'
    BY DEF Keeps
  <2>1. task[a].then \in {"again", "lookup", "next"} => task[a].writes = 0
    BY <1>0 DEF RequestBooks
  <2> QED BY <1>1, <1>3, <2>1 DEF RequestBooks
<1>7. slots' \in [Keys -> Cells \union {0}] /\ cell' \in [Cells -> CellTypes]
  BY <1>0, <1>2 DEF PoolTyped
<1> QED BY <1>3, <1>5, <1>6, <1>7 DEF NewTypes, Rested, forget_slot

\* The reload goes through the slots of a snapshot of the map.
LEMMA DrainBeginsMoves ==
  ASSUME PoolTyped, MapBooks, DrainBegins
  PROVE  /\ NewTypes /\ Quiet("drain") /\ todo' \subseteq Cells /\ (\A c \in todo' : cell[c].state # "unused")
         /\ allocation' = "drain" /\ drains' \in 0 .. MaxDrains /\ UNCHANGED <<last_used, cancels>>
<1> DEFINE t == [task["drain"] EXCEPT !.pc = "next"]
<1>0. "drain" \in Tasks /\ task["drain"] \in TaskTypes /\ task["drain"].pc = "done"
  BY TaskType DEF Tasks, DrainBegins
<1>1. t \in TaskTypes /\ t.pc = "next"
  BY <1>0 DEF TaskTypes
<1>2. task' = [task EXCEPT !["drain"] = t] /\ UNCHANGED <<cell, slots>>
  BY DEF DrainBegins, Goto
<1> HIDE DEF t
<1>3. NewTypes /\ Quiet("drain")
  BY <1>0, <1>1, <1>2, SameCellsNone, GotoMoves
<1>4. \A k \in Occupied(slots) : slots[k] \in Cells /\ cell[slots[k]].state # "unused"
  BY DEF Occupied, PoolTyped, MapBooks
<1>5. todo' = {slots[k] : k \in Occupied(slots)}
  BY DEF DrainBegins
<1>6. drains' \in 0 .. MaxDrains
  BY PoolAssumption DEF DrainBegins, PoolTyped
<1> QED BY <1>3, <1>4, <1>5, <1>6 DEF DrainBegins

\* The drain takes one slot after another, and gives the allocation back at the end.
LEMMA DrainNextMoves ==
  ASSUME PoolTyped, MapBooks, DrainNext
  PROVE  /\ NewTypes /\ Quiet("drain") /\ todo' \subseteq todo /\ allocation' \in {allocation, "free"}
         /\ UNCHANGED <<last_used, drains, cancels>>
<1>0. /\ "drain" \in Tasks /\ task["drain"] \in TaskTypes /\ task["drain"].pc = "next"
      /\ UNCHANGED <<slots, last_used, cell, drains, cancels>>
  BY TaskType DEF Tasks, DrainNext
<1>1. ASSUME NEW c \in todo, todo' = todo \ {c}, UNCHANGED allocation,
             task' = [task EXCEPT !["drain"] = [@ EXCEPT !.at = c, !.pc = "evict", !.then = "next"]]
      PROVE  NewTypes /\ Quiet("drain") /\ todo' \subseteq todo /\ allocation' \in {allocation, "free"}
  <2> DEFINE t == [task["drain"] EXCEPT !.at = c, !.pc = "evict", !.then = "next"]
  <2>1. c \in Cells /\ cell[c].state # "unused"
    BY DEF PoolTyped, MapBooks
  <2>2. t \in TaskTypes /\ t.pc = "evict" /\ t.at = c
    BY <1>0, <2>1 DEF TaskTypes
  <2>3. task' = [task EXCEPT !["drain"] = t]
    BY <1>1
  <2> HIDE DEF t
  <2>4. NewTypes /\ Quiet("drain")
    BY <1>0, <2>1, <2>2, <2>3, SameCellsNone, GotoMoves
  <2> QED BY <1>1, <2>4
<1>2. CASE todo = {} /\ allocation' = "free" /\ task' = [task EXCEPT !["drain"] = Done("none")] /\ UNCHANGED todo
  <2> DEFINE t == Done("none")
  <2>1. t \in TaskTypes /\ t.pc = "done"
    BY DoneType
  <2>2. task' = [task EXCEPT !["drain"] = t]
    BY <1>2
  <2> HIDE DEF t
  <2>3. /\ cell' \in [Cells -> CellTypes] /\ SameCells /\ UNCHANGED slots /\ task["drain"].pc # "handshake"
        /\ t.pc \notin {"lock", "spawn", "handshake", "exchange", "write", "rest", "read", "evict", "kill", "forget"}
    BY <1>0, <2>1, SameCellsNone
  <2>4. NewTypes /\ Quiet("drain")
    BY <1>0, <2>1, <2>2, <2>3, GotoMoves
  <2>5. todo' \subseteq todo /\ allocation' \in {allocation, "free"}
    BY <1>2
  <2> QED BY <1>0, <2>4, <2>5
<1> QED BY <1>0, <1>1, <1>2 DEF DrainNext

-----------------------------------------------------------------------------
(* The sweep, a dispatch that is dropped, and the processes.               *)

\* Live slots whose process is dead are stopped, and what is stopped leaves the map.
Sweeps ==
    \E gone \in SUBSET Cells :
        /\ \A k \in Keys : slots'[k] = IF slots[k] \in gone THEN 0 ELSE slots[k]
        /\ \A c \in gone : /\ cell[c].lock = "free" /\ cell[c].state \in {"Live", "Stopped"}
                           /\ cell'[c].state = "Stopped" /\ cell'[c].key = cell[c].key /\ cell'[c].lock = "free"
                           /\ cell'[c].registered /\ cell'[c].claim = "none" => Claimable(c) /\ cell[c].state # "Live"
        /\ \A c \in Cells \ gone : cell'[c] = cell[c]
        /\ UNCHANGED <<task, todo>>

\* The sweep forgets slots, and starts nothing.
LEMMA SweepMoves ==
  ASSUME PoolTyped, sweep
  PROVE  NewTypes /\ Sweeps /\ Rested /\ slots' \in [Keys -> Cells \union {0}]
<1> DEFINE gone == {c \in Cells : Dead(c) /\ slots[cell[c].key] = c}
           y(c) == [Dropped(cell[c]) EXCEPT !.registered = @ /\ cell[c].claim # "none"]
<1>0. UNCHANGED <<task, todo, last_used, allocation, drains, cancels>>
  BY DEF sweep
<1>1. /\ slots' = [k \in Keys |-> IF slots[k] \in gone THEN 0 ELSE slots[k]]
      /\ cell' = [c \in Cells |-> IF c \in gone /\ cell[c].state = "Live" THEN y(c) ELSE cell[c]]
  BY DEF sweep
<1>2. \A c \in gone : c \in Cells /\ cell[c].lock = "free" /\ cell[c].state \in {"Live", "Stopped"}
  BY DEF Dead, Free
<1>3. \A c \in Cells : /\ y(c) \in CellTypes /\ y(c).state = "Stopped" /\ y(c).key = cell[c].key /\ y(c).lock = "free"
                       /\ ~(y(c).registered /\ y(c).claim = "none")
  <2> TAKE c \in Cells
  <2> DEFINE x == Dropped(cell[c])
  <2>1. /\ x \in CellTypes /\ x.key = cell[c].key /\ x.state = "Stopped" /\ x.lock = "free" /\ x.claim = cell[c].claim
    BY CellType, DroppedType
  <2> HIDE DEF x
  <2>2. y(c) = [x EXCEPT !.registered = @ /\ cell[c].claim # "none"]
    BY DEF x
  <2> QED BY <2>1, <2>2 DEF CellTypes
<1> HIDE DEF gone, y
<1>4. cell' \in [Cells -> CellTypes]
  BY <1>1, <1>3, CellType
<1>5. slots' \in [Keys -> Cells \union {0}]
  BY <1>1 DEF PoolTyped
<1>6. gone \in SUBSET Cells
  BY <1>2
<1>7. \A c \in gone : /\ cell'[c].state = "Stopped" /\ cell'[c].key = cell[c].key /\ cell'[c].lock = "free"
                      /\ cell'[c].registered /\ cell'[c].claim = "none" => Claimable(c) /\ cell[c].state # "Live"
  BY <1>1, <1>2, <1>3 DEF Claimable
<1>8. \A c \in Cells \ gone : cell'[c] = cell[c]
  BY <1>1
<1>9. Sweeps
  <2>1. \A k \in Keys : slots'[k] = IF slots[k] \in gone THEN 0 ELSE slots[k]
    BY <1>1
  <2>2. \A c \in gone : /\ cell[c].lock = "free" /\ cell[c].state \in {"Live", "Stopped"}
                        /\ cell'[c].state = "Stopped" /\ cell'[c].key = cell[c].key /\ cell'[c].lock = "free"
                        /\ cell'[c].registered /\ cell'[c].claim = "none" => Claimable(c) /\ cell[c].state # "Live"
    BY <1>2, <1>7
  <2>3. UNCHANGED <<task, todo>>
    BY <1>0
  <2> QED BY <1>6, <1>8, <2>1, <2>2, <2>3 DEF Sweeps
<1> QED BY <1>0, <1>4, <1>5, <1>9 DEF NewTypes, Rested, PoolTyped

\* A dropped dispatch lets go of its lock, and of a process that was shaking hands.
Cancels(r) ==
    /\ \A c \in Cells :
          /\ cell'[c].state = cell[c].state /\ cell'[c].key = cell[c].key
          /\ cell'[c].lock = IF c = task[r].at /\ cell[c].lock = r THEN "free" ELSE cell[c].lock
          /\ cell'[c].registered /\ cell'[c].claim = "none" =>
                Claimable(c) /\ ~(c = task[r].at /\ cell[c].lock = r /\ task[r].pc = "handshake")
    /\ task'[r].pc = "done" /\ \A b \in Tasks \ {r} : task'[b] = task[b]
    /\ UNCHANGED <<slots, todo>>

\* A dropped dispatch lets go of its slot and of the allocation, whatever it was doing.
LEMMA CancelMoves ==
  ASSUME PoolTyped, NEW r \in Requests, RequestBooks(r), Cancel(r)
  PROVE  /\ NewTypes /\ Cancels(r) /\ Keeps(r) /\ allocation' \in {allocation, "free"}
         /\ cancels' \in 0 .. MaxCancels /\ UNCHANGED <<last_used, drains>>
<1> DEFINE c == task[r].at
           t == Done(task[r].key)
           x == [cell[c] EXCEPT !.lock = "free", !.registered = @ /\ (task[r].pc = "handshake" => cell[c].claim # "none")]
<1>0. r \in Tasks /\ task[r].key \in Keys /\ task[r] \in TaskTypes
  BY TaskType DEF Tasks, RequestBooks
<1>1. t \in TaskTypes /\ t.pc = "done" /\ t.key = task[r].key /\ t.writes = 0 /\ t.answer = "none"
  BY <1>0, DoneType
<1>2. task' = [task EXCEPT ![r] = t] /\ UNCHANGED <<slots, todo, last_used, drains>>
  BY DEF Cancel
<1> HIDE DEF t
<1>3. task' \in [Tasks -> TaskTypes] /\ task'[r] = t /\ \A b \in Tasks \ {r} : task'[b] = task[b]
  BY <1>0, <1>1, <1>2, TaskSet
<1>4. cancels' \in 0 .. MaxCancels /\ allocation' \in {allocation, "free"}
  BY PoolAssumption DEF Cancel, PoolTyped
<1>5. Keeps(r)
  BY <1>0, <1>1, <1>3 DEF Keeps, RequestBooks
<1>6. CASE c # 0 /\ cell[c].lock = r
  <2>0. c \in Cells /\ cell[c] \in CellTypes
    BY <1>0, <1>6, CellType DEF TaskTypes
  <2>1. /\ x \in CellTypes /\ x.state = cell[c].state /\ x.key = cell[c].key /\ x.lock = "free" /\ x.claim = cell[c].claim
        /\ x.registered <=> (cell[c].registered /\ (task[r].pc = "handshake" => cell[c].claim # "none"))
    BY <2>0 DEF CellTypes
  <2>2. cell' = [cell EXCEPT ![c] = x]
    BY <1>6 DEF Cancel
  <2> HIDE DEF x
  <2>3. cell' \in [Cells -> CellTypes] /\ cell'[c] = x /\ \A d \in Cells \ {c} : cell'[d] = cell[d]
    BY <2>0, <2>1, <2>2, CellSet
  <2>4. Cancels(r)
    <3> SUFFICES ASSUME NEW d \in Cells
                 PROVE  /\ cell'[d].state = cell[d].state /\ cell'[d].key = cell[d].key
                        /\ cell'[d].lock = IF d = c /\ cell[d].lock = r THEN "free" ELSE cell[d].lock
                        /\ cell'[d].registered /\ cell'[d].claim = "none" =>
                              Claimable(d) /\ ~(d = c /\ cell[d].lock = r /\ task[r].pc = "handshake")
      BY <1>1, <1>2, <1>3 DEF Cancels
    <3>1. CASE d = c
      BY <1>6, <2>1, <2>3, <3>1 DEF Claimable
    <3>2. CASE d # c
      BY <2>3, <3>2 DEF Claimable
    <3> QED BY <3>1, <3>2
  <2> QED BY <1>2, <1>3, <1>4, <1>5, <2>3, <2>4 DEF NewTypes
<1>7. CASE ~(c # 0 /\ cell[c].lock = r)
  <2>1. cell' = cell
    BY <1>7 DEF Cancel
  <2>2. \A d \in Cells : ~(d = c /\ cell[d].lock = r)
    BY <1>7 DEF Cells
  <2>3. Cancels(r)
    BY <1>1, <1>2, <1>3, <2>1, <2>2 DEF Cancels, Claimable
  <2> QED BY <1>2, <1>3, <1>4, <1>5, <2>1, <2>3 DEF NewTypes, PoolTyped
<1> QED BY <1>6, <1>7

\* A process exits or answers, and the reaper claims or kills it.
LEMMA ProcessMoves ==
  ASSUME PoolTyped, NEW c \in Cells, Exit(c) \/ Answer(c) \/ ReaperClaims(c) \/ ReaperKills(c)
  PROVE  /\ NewTypes /\ SameCells /\ UNCHANGED <<slots, last_used, allocation, task, todo, drains, cancels>>
<1>0. cell[c] \in CellTypes /\ <<>> \in Seq(Requests)
  BY CellType
<1>1. UNCHANGED <<slots, last_used, allocation, task, todo, drains, cancels>> /\ task' \in [Tasks -> TaskTypes]
  BY DEF Exit, Answer, ReaperClaims, ReaperKills, PoolTyped
<1>2. CASE Exit(c)
  <2> DEFINE x == [cell[c] EXCEPT !.proc = "dead", !.inbox = <<>>]
  <2>1. /\ x \in CellTypes /\ x.state = cell[c].state /\ x.key = cell[c].key /\ x.lock = cell[c].lock
        /\ x.registered = cell[c].registered /\ x.claim = cell[c].claim
    BY <1>0 DEF CellTypes
  <2>2. cell' = [cell EXCEPT ![c] = x]
    BY <1>2 DEF Exit
  <2> HIDE DEF x
  <2> QED BY <1>1, <2>1, <2>2, SameCellsOne DEF Claimable, NewTypes
<1>3. CASE Answer(c)
  <2> DEFINE x == [cell[c] EXCEPT !.inbox = Tail(@), !.outbox = Append(@, Head(cell[c].inbox))]
  <2>1. Tail(cell[c].inbox) \in Seq(Requests) /\ Append(cell[c].outbox, Head(cell[c].inbox)) \in Seq(Requests)
    BY <1>0, <1>3 DEF Answer, CellTypes
  <2>2. /\ x \in CellTypes /\ x.state = cell[c].state /\ x.key = cell[c].key /\ x.lock = cell[c].lock
        /\ x.registered = cell[c].registered /\ x.claim = cell[c].claim
    BY <1>0, <2>1 DEF CellTypes
  <2>3. cell' = [cell EXCEPT ![c] = x]
    BY <1>3 DEF Answer
  <2> HIDE DEF x
  <2> QED BY <1>1, <2>2, <2>3, SameCellsOne DEF Claimable, NewTypes
<1>4. CASE ReaperClaims(c)
  <2> DEFINE x == [cell[c] EXCEPT !.claim = "reaper"]
  <2>1. /\ x \in CellTypes /\ x.state = cell[c].state /\ x.key = cell[c].key /\ x.lock = cell[c].lock /\ x.claim = "reaper"
    BY <1>0 DEF CellTypes
  <2>2. cell' = [cell EXCEPT ![c] = x]
    BY <1>4 DEF ReaperClaims
  <2> HIDE DEF x
  <2> QED BY <1>1, <2>1, <2>2, SameCellsOne DEF NewTypes
<1>5. CASE ReaperKills(c)
  <2> DEFINE x == [cell[c] EXCEPT !.proc = "dead", !.inbox = <<>>, !.registered = FALSE]
  <2>1. /\ x \in CellTypes /\ x.state = cell[c].state /\ x.key = cell[c].key /\ x.lock = cell[c].lock /\ x.registered = FALSE
    BY <1>0 DEF CellTypes
  <2>2. cell' = [cell EXCEPT ![c] = x]
    BY <1>5 DEF ReaperKills
  <2> HIDE DEF x
  <2> QED BY <1>1, <2>1, <2>2, SameCellsOne DEF NewTypes
<1> QED BY <1>2, <1>3, <1>4, <1>5
-----------------------------------------------------------------------------
(* The books are kept by what the actions do.                              *)

BooksKept ==
    /\ MapBooks'
    /\ \A a \in Tasks : HolderBooks(a)'
    /\ \A c \in Cells : ClaimBooks(c)'

\* Locks are held by tasks.
LEMMA Locks ==
  ASSUME PoolTyped
  PROVE  (\A c \in Cells : cell[c].lock \in Tasks \union {"free"}) /\ "free" \notin Tasks
BY CellType, PoolAssumption DEF CellTypes, Tasks

\* A map that loses slots stays under the cap.
LEMMA FewerSlots ==
  ASSUME MapBooks, \A k \in Keys : slots'[k] # 0 => slots[k] # 0
  PROVE  Cardinality(Occupied(slots')) <= max_instances
<1> DEFINE O == Occupied(slots)
           P == Occupied(slots')
<1>1. P \in SUBSET O /\ O \in SUBSET Keys /\ P \in SUBSET Keys
  BY DEF Occupied
<1>2. Cardinality(O) <= max_instances
  BY DEF MapBooks
<1> HIDE DEF O, P
<1>3. Cardinality(P) <= Cardinality(O) /\ Cardinality(O) \in Nat /\ Cardinality(P) \in Nat
  BY <1>1, FewKeys, FS_Subset
<1>4. Cardinality(P) <= max_instances
  BY <1>2, <1>3, PoolAssumption
<1> QED BY <1>4 DEF P

\* Requests other than a's stay as they were.
LEMMA RequestsKept ==
  ASSUME \A r \in Requests : RequestBooks(r), NEW a, Keeps(a), \A b \in Tasks \ {a} : task'[b] = task[b]
  PROVE  \A r \in Requests : RequestBooks(r)'
<1> SUFFICES ASSUME NEW r \in Requests PROVE RequestBooks(r)'
  OBVIOUS
<1>1. CASE r = a
  BY <1>1 DEF Keeps
<1>2. CASE r # a
  BY <1>2 DEF RequestBooks, Tasks
<1> QED BY <1>1, <1>2

\* The books survive a task that retires the process it holds,
LEMMA RetiresKeeps ==
  ASSUME PoolBooks, NEW a \in Tasks, Retires(a)
  PROVE  BooksKept
<1> DEFINE c == task[a].at
<1>0. PoolTyped /\ MapBooks /\ (\A b \in Tasks : HolderBooks(b)) /\ (\A d \in Cells : ClaimBooks(d))
  BY DEF PoolBooks
<1>1. /\ c \in Cells /\ cell[c].state # "unused" /\ cell[c].lock \in {a, "free"}
      /\ task'[a].at = c /\ (\A b \in Tasks \ {a} : task'[b] = task[b])
      /\ cell'[c].key = cell[c].key /\ (\A d \in Cells \ {c} : cell'[d] = cell[d])
      /\ ~(cell'[c].registered /\ cell'[c].claim = "none")
      /\ \/ /\ task'[a].pc = "kill" /\ cell'[c].lock = a
            /\ cell[c].state \in {"Starting", "Live"} /\ cell'[c].state \in {"Starting", "Retiring"}
         \/ task'[a].pc = "forget" /\ cell'[c].lock = "free" /\ cell'[c].state = "Stopped"
      /\ slots' = slots /\ todo' = todo
  BY DEF Retires, TaskAt, CellAt
<1> HIDE DEF c
<1>2. MapBooks'
  <2>1. \A d \in Cells : cell'[d].state \in {"Starting", "Live", "Retiring"} =>
           cell'[d].key \in Keys /\ slots'[cell'[d].key] = d
    BY <1>0, <1>1 DEF MapBooks
  <2>2. \A k \in Keys : slots'[k] # 0 => cell'[slots'[k]].key = k /\ cell'[slots'[k]].state # "unused"
    BY <1>0, <1>1 DEF MapBooks, PoolTyped
  <2>3. \A d \in todo' : cell'[d].state # "unused"
    BY <1>0, <1>1 DEF MapBooks, PoolTyped
  <2>4. Cardinality(Occupied(slots')) <= max_instances
    BY <1>0, <1>1 DEF MapBooks
  <2> QED BY <2>1, <2>2, <2>3, <2>4 DEF MapBooks
<1>3. ASSUME NEW b \in Tasks PROVE HolderBooks(b)'
  <2>1. CASE b = a
    BY <1>1, <2>1 DEF HolderBooks
  <2>2. CASE b # a
    <3>1. task'[b] = task[b] /\ HolderBooks(b)
      BY <1>0, <1>1, <2>2
    <3>2. CASE task[b].at = c
      BY <1>0, <1>1, <2>2, <3>1, <3>2, Locks DEF HolderBooks
    <3>3. CASE task[b].at # c
      BY <1>1, <3>1, <3>3 DEF HolderBooks
    <3> QED BY <3>2, <3>3
  <2> QED BY <2>1, <2>2
<1>4. ASSUME NEW d \in Cells PROVE ClaimBooks(d)'
  <2>1. CASE d = c
    BY <1>1, <2>1 DEF ClaimBooks, Claimable
  <2>2. CASE d # c
    <3>1. cell'[d] = cell[d] /\ ClaimBooks(d) /\ cell[d].lock \in Tasks \union {"free"}
      BY <1>0, <1>1, <2>2, Locks
    <3>2. cell[d].lock \in Tasks /\ task[cell[d].lock].at = d => task'[cell[d].lock] = task[cell[d].lock]
      BY <1>1, <2>2 DEF c
    <3> QED BY <3>1, <3>2 DEF ClaimBooks, Claimable
  <2> QED BY <2>1, <2>2
<1> QED BY <1>2, <1>3, <1>4 DEF BooksKept
\* Slots that stay as they are, while task a, if any, goes on.
LEMMA SameCellsKeep ==
  ASSUME PoolBooks, SameCells, UNCHANGED slots, \A c \in todo' : c \in Cells /\ cell[c].state # "unused",
         NEW a, a \in Tasks => HolderBooks(a)' /\ task[a].pc # "handshake",
         \A b \in Tasks \ {a} : task'[b] = task[b]
  PROVE  BooksKept
<1>0. PoolTyped /\ MapBooks /\ (\A b \in Tasks : HolderBooks(b)) /\ (\A d \in Cells : ClaimBooks(d))
  BY DEF PoolBooks
<1>1. /\ slots' = slots
      /\ \A c \in Cells : /\ cell'[c].state = cell[c].state /\ cell'[c].key = cell[c].key /\ cell'[c].lock = cell[c].lock
                          /\ cell'[c].registered /\ cell'[c].claim = "none" => Claimable(c)
  BY DEF SameCells
<1>2. MapBooks'
  <2>1. \A d \in Cells : cell'[d].state \in {"Starting", "Live", "Retiring"} =>
           cell'[d].key \in Keys /\ slots'[cell'[d].key] = d
    BY <1>0, <1>1 DEF MapBooks
  <2>2. \A k \in Keys : slots'[k] # 0 => cell'[slots'[k]].key = k /\ cell'[slots'[k]].state # "unused"
    BY <1>0, <1>1 DEF MapBooks, PoolTyped
  <2>3. \A d \in todo' : cell'[d].state # "unused"
    BY <1>1
  <2>4. Cardinality(Occupied(slots')) <= max_instances
    BY <1>0, <1>1 DEF MapBooks
  <2> QED BY <2>1, <2>2, <2>3, <2>4 DEF MapBooks
<1>3. ASSUME NEW b \in Tasks PROVE HolderBooks(b)'
  <2>1. CASE b = a
    BY <2>1
  <2>2. CASE b # a
    <3>1. task'[b] = task[b] /\ HolderBooks(b)
      BY <1>0, <2>2
    <3> QED BY <1>1, <3>1 DEF HolderBooks
  <2> QED BY <2>1, <2>2
<1>4. ASSUME NEW d \in Cells PROVE ClaimBooks(d)'
  <2>1. /\ ClaimBooks(d) /\ cell[d].lock \in Tasks \union {"free"} /\ cell'[d].state = cell[d].state
        /\ cell'[d].lock = cell[d].lock /\ (cell'[d].registered /\ cell'[d].claim = "none" => Claimable(d))
    BY <1>0, <1>1, Locks
  <2>2. cell[d].lock \in Tasks /\ task[cell[d].lock].pc = "handshake" => task'[cell[d].lock] = task[cell[d].lock]
    OBVIOUS
  <2> QED BY <2>1, <2>2 DEF ClaimBooks, Claimable
<1> QED BY <1>2, <1>3, <1>4 DEF BooksKept

\* one that lets go of its cell,
LEMMA FreesKeeps ==
  ASSUME PoolBooks, NEW a \in Tasks, Frees(a)
  PROVE  BooksKept
<1> DEFINE c == task[a].at
<1>0. PoolTyped /\ MapBooks /\ (\A b \in Tasks : HolderBooks(b)) /\ (\A d \in Cells : ClaimBooks(d))
  BY DEF PoolBooks
<1>1. /\ c \in Cells /\ cell[c].state = "Live" /\ cell[c].lock = a
      /\ task'[a].pc = "touch" /\ (\A b \in Tasks \ {a} : task'[b] = task[b])
      /\ cell'[c].key = cell[c].key /\ (\A d \in Cells \ {c} : cell'[d] = cell[d])
      /\ cell'[c].state = "Live" /\ cell'[c].lock = "free"
      /\ slots' = slots /\ todo' = todo
  BY DEF Frees, CellAt
<1> HIDE DEF c
<1>2. MapBooks'
  <2>1. \A d \in Cells : cell'[d].state \in {"Starting", "Live", "Retiring"} =>
           cell'[d].key \in Keys /\ slots'[cell'[d].key] = d
    BY <1>0, <1>1 DEF MapBooks
  <2>2. \A k \in Keys : slots'[k] # 0 => cell'[slots'[k]].key = k /\ cell'[slots'[k]].state # "unused"
    BY <1>0, <1>1 DEF MapBooks, PoolTyped
  <2>3. \A d \in todo' : cell'[d].state # "unused"
    BY <1>0, <1>1 DEF MapBooks, PoolTyped
  <2>4. Cardinality(Occupied(slots')) <= max_instances
    BY <1>0, <1>1 DEF MapBooks
  <2> QED BY <2>1, <2>2, <2>3, <2>4 DEF MapBooks
<1>3. ASSUME NEW b \in Tasks PROVE HolderBooks(b)'
  <2>1. CASE b = a
    BY <1>1, <2>1 DEF HolderBooks
  <2>2. CASE b # a
    <3>1. task'[b] = task[b] /\ HolderBooks(b)
      BY <1>0, <1>1, <2>2
    <3>2. CASE task[b].at = c
      BY <1>0, <1>1, <2>2, <3>1, <3>2, Locks DEF HolderBooks
    <3>3. CASE task[b].at # c
      BY <1>1, <3>1, <3>3 DEF HolderBooks
    <3> QED BY <3>2, <3>3
  <2> QED BY <2>1, <2>2
<1>4. ASSUME NEW d \in Cells PROVE ClaimBooks(d)'
  <2>1. CASE d = c
    BY <1>1, <2>1 DEF ClaimBooks
  <2>2. CASE d # c
    <3>1. cell'[d] = cell[d] /\ ClaimBooks(d) /\ cell[d].lock \in Tasks \union {"free"}
      BY <1>0, <1>1, <2>2, Locks
    <3>2. cell[d].lock \in Tasks /\ task[cell[d].lock].at = d => task'[cell[d].lock] = task[cell[d].lock]
      BY <1>1, <2>2 DEF c
    <3> QED BY <3>1, <3>2 DEF ClaimBooks, Claimable
  <2> QED BY <2>1, <2>2
<1> QED BY <1>2, <1>3, <1>4 DEF BooksKept

\* one that takes a cell,
LEMMA HoldsKeeps ==
  ASSUME PoolBooks, NEW a \in Tasks, Holds(a)
  PROVE  BooksKept
<1>0. PoolTyped /\ MapBooks /\ (\A b \in Tasks : HolderBooks(b)) /\ (\A d \in Cells : ClaimBooks(d))
  BY DEF PoolBooks
<1>1. PICK c \in Cells :
      /\ task[a].at = c /\ cell[c].lock \in {a, "free"} /\ cell[c].state \in {"Starting", "Live"}
      /\ cell'[c].lock = a /\ cell'[c].state \in {"Starting", "Live"}
      /\ TaskAt(a, c) /\ CellAt(c) /\ HolderBooks(a)' /\ ClaimBooks(c)'
      /\ UNCHANGED <<slots, todo>>
  BY DEF Holds
<1>a. /\ (\A b \in Tasks \ {a} : task'[b] = task[b]) /\ slots' = slots /\ todo' = todo
      /\ cell'[c].key = cell[c].key /\ (\A d \in Cells \ {c} : cell'[d] = cell[d])
  BY <1>1 DEF TaskAt, CellAt
<1>2. MapBooks'
  <2>1. \A d \in Cells : cell'[d].state \in {"Starting", "Live", "Retiring"} =>
           cell'[d].key \in Keys /\ slots'[cell'[d].key] = d
    BY <1>0, <1>1, <1>a DEF MapBooks
  <2>2. \A k \in Keys : slots'[k] # 0 => cell'[slots'[k]].key = k /\ cell'[slots'[k]].state # "unused"
    BY <1>0, <1>1, <1>a DEF MapBooks, PoolTyped
  <2>3. \A d \in todo' : cell'[d].state # "unused"
    BY <1>0, <1>1, <1>a DEF MapBooks, PoolTyped
  <2>4. Cardinality(Occupied(slots')) <= max_instances
    BY <1>0, <1>a DEF MapBooks
  <2> QED BY <2>1, <2>2, <2>3, <2>4 DEF MapBooks
<1>3. ASSUME NEW b \in Tasks PROVE HolderBooks(b)'
  <2>1. CASE b = a
    BY <1>1, <2>1
  <2>2. CASE b # a
    <3>1. task'[b] = task[b] /\ HolderBooks(b)
      BY <1>0, <1>a, <2>2
    <3>2. CASE task[b].at = c
      BY <1>0, <1>1, <1>a, <2>2, <3>1, <3>2, Locks DEF HolderBooks
    <3>3. CASE task[b].at # c
      BY <1>a, <3>1, <3>3 DEF HolderBooks
    <3> QED BY <3>2, <3>3
  <2> QED BY <2>1, <2>2
<1>4. ASSUME NEW d \in Cells PROVE ClaimBooks(d)'
  <2>1. CASE d = c
    BY <1>1, <2>1
  <2>2. CASE d # c
    <3>1. cell'[d] = cell[d] /\ ClaimBooks(d) /\ cell[d].lock \in Tasks \union {"free"}
      BY <1>0, <1>a, <2>2, Locks
    <3>2. cell[d].lock \in Tasks /\ task[cell[d].lock].at = d => task'[cell[d].lock] = task[cell[d].lock]
      BY <1>1, <1>a, <2>2
    <3> QED BY <3>1, <3>2 DEF ClaimBooks, Claimable
  <2> QED BY <2>1, <2>2
<1> QED BY <1>2, <1>3, <1>4 DEF BooksKept
\* one that makes a cell,
LEMMA MakesKeeps ==
  ASSUME PoolBooks, NEW r \in Requests, Makes(r)
  PROVE  BooksKept
<1>0. PoolTyped /\ MapBooks /\ (\A b \in Tasks : HolderBooks(b)) /\ (\A d \in Cells : ClaimBooks(d))
  BY DEF PoolBooks
<1> DEFINE k == task[r].key
<1>1. PICK new \in Unused :
      /\ k \in Keys /\ slots' = [slots EXCEPT ![k] = new]
      /\ slots[k] # 0 => cell[slots[k]].state = "Stopped"
      /\ Cardinality(Occupied([slots EXCEPT ![k] = 0])) < max_instances
      /\ cell'[new].state = "Starting" /\ cell'[new].key = k /\ cell'[new].lock = "free"
      /\ cell'[new].registered = FALSE
      /\ \A c \in Cells \ {new} : cell'[c] = cell[c]
      /\ TaskAt(r, new) /\ task[r].pc # "handshake" /\ task'[r].pc = "lock" /\ UNCHANGED todo
  BY DEF Makes
<1>2. /\ new \in Cells /\ r \in Tasks /\ slots \in [Keys -> Cells \union {0}]
      /\ \/ cell[new].state = "unused"
         \/ (\A j \in Keys : slots[j] # new) /\ (\A a \in Tasks : task[a].at # new)
      /\ cell[new].state \in {"unused", "Stopped"}
      /\ task'[r].at = new /\ (\A b \in Tasks \ {r} : task'[b] = task[b]) /\ todo' = todo
  BY <1>0, <1>1 DEF Unused, Tasks, PoolTyped, TaskAt
<1> HIDE DEF k
<1>3. slots'[k] = new /\ \A j \in Keys \ {k} : slots'[j] = slots[j]
  BY <1>1, <1>2
<1>4. MapBooks'
  <2>1. ASSUME NEW d \in Cells, cell'[d].state \in {"Starting", "Live", "Retiring"}
        PROVE  cell'[d].key \in Keys /\ slots'[cell'[d].key] = d
    <3>1. CASE d = new
      BY <1>1, <1>3, <3>1
    <3>2. CASE d # new
      <4>1. cell'[d] = cell[d] /\ cell[d].key \in Keys /\ slots[cell[d].key] = d /\ d # 0
        BY <1>0, <1>1, <2>1, <3>2 DEF MapBooks, Cells
      <4>2. cell[d].key # k
        BY <1>1, <2>1, <4>1
      <4> QED BY <1>3, <4>1, <4>2
    <3> QED BY <3>1, <3>2
  <2>2. ASSUME NEW j \in Keys, slots'[j] # 0
        PROVE  cell'[slots'[j]].key = j /\ cell'[slots'[j]].state # "unused"
    <3>1. CASE j = k
      BY <1>1, <1>3, <3>1
    <3>2. CASE j # k
      <4>1. slots'[j] = slots[j] /\ slots[j] \in Cells /\ cell[slots[j]].key = j /\ cell[slots[j]].state # "unused"
        BY <1>0, <1>2, <1>3, <2>2, <3>2 DEF MapBooks
      <4>2. slots[j] # new
        BY <1>2, <4>1
      <4> QED BY <1>1, <4>1, <4>2
    <3> QED BY <3>1, <3>2
  <2>3. \A d \in todo' : cell'[d].state # "unused"
    BY <1>0, <1>1, <1>2 DEF MapBooks, PoolTyped
  <2>4. Cardinality(Occupied(slots')) <= max_instances
    <3> DEFINE O == Occupied([slots EXCEPT ![k] = 0])
               P == Occupied(slots')
    <3>1. O \in SUBSET Keys /\ k \notin O /\ P = O \union {k}
      BY <1>1, <1>2, <1>3 DEF Occupied, Cells
    <3>2. Cardinality(O) < max_instances
      BY <1>1
    <3> HIDE DEF O, P
    <3>3. Cardinality(P) = Cardinality(O) + 1 /\ Cardinality(O) \in Nat
      BY <3>1, FewKeys, FS_AddElement
    <3>4. Cardinality(P) <= max_instances
      BY <3>2, <3>3, PoolAssumption
    <3> QED BY <3>4 DEF P
  <2> QED BY <2>1, <2>2, <2>3, <2>4 DEF MapBooks
<1>5. ASSUME NEW b \in Tasks PROVE HolderBooks(b)'
  <2>1. CASE b = r
    BY <1>1, <1>2, <2>1 DEF HolderBooks
  <2>2. CASE b # r
    <3>1. task'[b] = task[b] /\ HolderBooks(b)
      BY <1>0, <1>2, <2>2
    <3>2. CASE task[b].at = new
      BY <1>2, <3>1, <3>2 DEF HolderBooks
    <3>3. CASE task[b].at # new
      BY <1>1, <3>1, <3>3 DEF HolderBooks
    <3> QED BY <3>2, <3>3
  <2> QED BY <2>1, <2>2
<1>6. ASSUME NEW d \in Cells PROVE ClaimBooks(d)'
  <2>1. CASE d = new
    BY <1>1, <2>1 DEF ClaimBooks, Claimable
  <2>2. CASE d # new
    <3>1. cell'[d] = cell[d] /\ ClaimBooks(d) /\ cell[d].lock \in Tasks \union {"free"}
      BY <1>0, <1>1, <2>2, Locks
    <3>2. cell[d].lock \in Tasks /\ task[cell[d].lock].pc = "handshake" => task'[cell[d].lock] = task[cell[d].lock]
      BY <1>1, <1>2
    <3> QED BY <3>1, <3>2 DEF ClaimBooks, Claimable
  <2> QED BY <2>1, <2>2
<1> QED BY <1>4, <1>5, <1>6 DEF BooksKept

\* one that takes a slot out of the map,
LEMMA UnmapsKeeps ==
  ASSUME PoolBooks, NEW a \in Tasks, Unmaps(a)
  PROVE  BooksKept
<1>0. PoolTyped /\ MapBooks /\ (\A b \in Tasks : HolderBooks(b)) /\ (\A d \in Cells : ClaimBooks(d))
  BY DEF PoolBooks
<1>1. /\ \A k \in Keys : \/ slots'[k] = slots[k]
                         \/ slots'[k] = 0 /\ (slots[k] # 0 => cell[slots[k]].state = "Stopped")
      /\ task[a].pc # "handshake" /\ HolderBooks(a)' /\ (\A b \in Tasks \ {a} : task'[b] = task[b])
      /\ cell' = cell /\ todo' = todo
  BY DEF Unmaps
<1>2. MapBooks'
  <2>1. ASSUME NEW d \in Cells, cell'[d].state \in {"Starting", "Live", "Retiring"}
        PROVE  cell'[d].key \in Keys /\ slots'[cell'[d].key] = d
    <3>1. cell'[d] = cell[d] /\ cell[d].key \in Keys /\ slots[cell[d].key] = d /\ d # 0
      BY <1>0, <1>1, <2>1 DEF MapBooks, Cells
    <3> QED BY <1>1, <2>1, <3>1
  <2>2. \A j \in Keys : slots'[j] # 0 => cell'[slots'[j]].key = j /\ cell'[slots'[j]].state # "unused"
    BY <1>0, <1>1 DEF MapBooks
  <2>3. \A d \in todo' : cell'[d].state # "unused"
    BY <1>0, <1>1 DEF MapBooks
  <2>4. Cardinality(Occupied(slots')) <= max_instances
    BY <1>0, <1>1, FewerSlots
  <2> QED BY <2>1, <2>2, <2>3, <2>4 DEF MapBooks
<1>3. ASSUME NEW b \in Tasks PROVE HolderBooks(b)'
  <2>1. CASE b = a
    BY <1>1, <2>1
  <2>2. CASE b # a
    <3>1. task'[b] = task[b] /\ HolderBooks(b)
      BY <1>0, <1>1, <2>2
    <3> QED BY <1>1, <3>1 DEF HolderBooks
  <2> QED BY <2>1, <2>2
<1>4. ASSUME NEW d \in Cells PROVE ClaimBooks(d)'
  <2>1. cell'[d] = cell[d] /\ ClaimBooks(d) /\ cell[d].lock \in Tasks \union {"free"}
    BY <1>0, <1>1, Locks
  <2>2. cell[d].lock \in Tasks /\ task[cell[d].lock].pc = "handshake" => task'[cell[d].lock] = task[cell[d].lock]
    BY <1>1
  <2> QED BY <2>1, <2>2 DEF ClaimBooks, Claimable
<1> QED BY <1>2, <1>3, <1>4 DEF BooksKept

\* the sweep,
LEMMA SweepsKeeps ==
  ASSUME PoolBooks, Sweeps
  PROVE  BooksKept
<1>0. PoolTyped /\ MapBooks /\ (\A b \in Tasks : HolderBooks(b)) /\ (\A d \in Cells : ClaimBooks(d))
  BY DEF PoolBooks
<1>1. PICK gone \in SUBSET Cells :
        /\ \A k \in Keys : slots'[k] = IF slots[k] \in gone THEN 0 ELSE slots[k]
        /\ \A c \in gone : /\ cell[c].lock = "free" /\ cell[c].state \in {"Live", "Stopped"}
                           /\ cell'[c].state = "Stopped" /\ cell'[c].key = cell[c].key /\ cell'[c].lock = "free"
                           /\ cell'[c].registered /\ cell'[c].claim = "none" => Claimable(c) /\ cell[c].state # "Live"
        /\ \A c \in Cells \ gone : cell'[c] = cell[c]
        /\ UNCHANGED <<task, todo>>
  BY DEF Sweeps
<1>2. MapBooks'
  <2>1. ASSUME NEW d \in Cells, cell'[d].state \in {"Starting", "Live", "Retiring"}
        PROVE  cell'[d].key \in Keys /\ slots'[cell'[d].key] = d
    <3>1. d \notin gone
      BY <1>1, <2>1
    <3>2. cell'[d] = cell[d] /\ cell[d].key \in Keys /\ slots[cell[d].key] = d
      BY <1>0, <1>1, <2>1, <3>1 DEF MapBooks
    <3> QED BY <1>1, <3>1, <3>2
  <2>2. ASSUME NEW j \in Keys, slots'[j] # 0
        PROVE  cell'[slots'[j]].key = j /\ cell'[slots'[j]].state # "unused"
    <3>1. slots'[j] = slots[j] /\ slots[j] \in Cells \ gone
      BY <1>0, <1>1, <2>2 DEF PoolTyped
    <3> QED BY <1>0, <1>1, <2>2, <3>1 DEF MapBooks
  <2>3. \A d \in todo' : cell'[d].state # "unused"
    BY <1>0, <1>1 DEF MapBooks, PoolTyped
  <2>4. Cardinality(Occupied(slots')) <= max_instances
    BY <1>0, <1>1, FewerSlots
  <2> QED BY <2>1, <2>2, <2>3, <2>4 DEF MapBooks
<1>3. ASSUME NEW b \in Tasks PROVE HolderBooks(b)'
  <2>1. task'[b] = task[b] /\ HolderBooks(b) /\ b # "free"
    BY <1>0, <1>1, Locks
  <2>2. CASE task[b].at \in gone
    BY <1>1, <2>1, <2>2 DEF HolderBooks
  <2>3. CASE task[b].at \notin gone
    BY <1>1, <2>1, <2>3 DEF HolderBooks
  <2> QED BY <2>2, <2>3
<1>4. ASSUME NEW d \in Cells PROVE ClaimBooks(d)'
  <2>1. CASE d \in gone
    BY <1>0, <1>1, <2>1 DEF ClaimBooks, Claimable
  <2>2. CASE d \notin gone
    BY <1>0, <1>1, <2>2 DEF ClaimBooks, Claimable
  <2> QED BY <2>1, <2>2
<1> QED BY <1>2, <1>3, <1>4 DEF BooksKept

\* a dropped dispatch,
LEMMA CancelsKeeps ==
  ASSUME PoolBooks, NEW r \in Requests, Cancels(r)
  PROVE  BooksKept
<1> DEFINE c == task[r].at
<1>0. PoolTyped /\ MapBooks /\ (\A b \in Tasks : HolderBooks(b)) /\ (\A d \in Cells : ClaimBooks(d))
  BY DEF PoolBooks
<1>1. /\ \A d \in Cells :
          /\ cell'[d].state = cell[d].state /\ cell'[d].key = cell[d].key
          /\ cell'[d].lock = IF d = c /\ cell[d].lock = r THEN "free" ELSE cell[d].lock
          /\ cell'[d].registered /\ cell'[d].claim = "none" =>
                Claimable(d) /\ ~(d = c /\ cell[d].lock = r /\ task[r].pc = "handshake")
      /\ task'[r].pc = "done" /\ (\A b \in Tasks \ {r} : task'[b] = task[b])
      /\ slots' = slots /\ todo' = todo
  BY DEF Cancels
<1>2. MapBooks'
  <2>1. \A d \in Cells : cell'[d].state \in {"Starting", "Live", "Retiring"} =>
           cell'[d].key \in Keys /\ slots'[cell'[d].key] = d
    BY <1>0, <1>1 DEF MapBooks
  <2>2. \A k \in Keys : slots'[k] # 0 => cell'[slots'[k]].key = k /\ cell'[slots'[k]].state # "unused"
    BY <1>0, <1>1 DEF MapBooks, PoolTyped
  <2>3. \A d \in todo' : cell'[d].state # "unused"
    BY <1>0, <1>1 DEF MapBooks, PoolTyped
  <2>4. Cardinality(Occupied(slots')) <= max_instances
    BY <1>0, <1>1 DEF MapBooks
  <2> QED BY <2>1, <2>2, <2>3, <2>4 DEF MapBooks
<1>3. ASSUME NEW b \in Tasks PROVE HolderBooks(b)'
  <2>1. CASE b = r
    BY <1>1, <2>1 DEF HolderBooks
  <2>2. CASE b # r
    <3>1. task'[b] = task[b] /\ HolderBooks(b)
      BY <1>0, <1>1, <2>2
    <3>2. \A d \in Cells : cell[d].lock = b => cell'[d].lock = b
      BY <1>1, <2>2
    <3> HIDE DEF c
    <3> QED BY <1>1, <3>1, <3>2 DEF HolderBooks
  <2> QED BY <2>1, <2>2
<1>4. ASSUME NEW d \in Cells PROVE ClaimBooks(d)'
  <2> DEFINE b == cell[d].lock
  <2>1. ClaimBooks(d) /\ b \in Tasks \union {"free"} /\ "free" \notin Tasks /\ r \in Tasks
    BY <1>0, Locks DEF Tasks
  <2>2. SUFFICES ASSUME cell'[d].registered, cell'[d].claim = "none", cell[d].state # "Live"
                 PROVE  /\ cell'[d].state = "Starting" /\ cell'[d].lock # "free"
                        /\ task'[cell'[d].lock].pc = "handshake" /\ task'[cell'[d].lock].at = d
    BY <1>1 DEF ClaimBooks, Claimable
  <2>3. Claimable(d) /\ ~(d = c /\ b = r /\ task[r].pc = "handshake")
    BY <1>1, <2>2
  <2>4. cell[d].state = "Starting" /\ b \in Tasks /\ task[b].pc = "handshake" /\ task[b].at = d
    BY <2>1, <2>2, <2>3 DEF ClaimBooks
  <2>5. b # r
    BY <2>3, <2>4
  <2>6. cell'[d].lock = b /\ task'[b] = task[b] /\ cell'[d].state = cell[d].state
    BY <1>1, <2>4, <2>5
  <2> QED BY <2>1, <2>4, <2>6
<1> QED BY <1>2, <1>3, <1>4 DEF BooksKept
-----------------------------------------------------------------------------
(* Every step keeps the books.                                             *)

\* The books of the next state, from its parts.
LEMMA Together ==
  ASSUME PoolBooks, NEW a, NewTypes, BooksKept, Keeps(a), \A b \in Tasks \ {a} : task'[b] = task[b],
         slots' \in [Keys -> Cells \union {0}], last_used' \in [Keys -> Nat],
         allocation' \in Tasks \union {"free"}, todo' \subseteq Cells,
         drains' \in 0 .. MaxDrains, cancels' \in 0 .. MaxCancels
  PROVE  PoolBooks'
<1>1. PoolTyped'
  BY DEF PoolTyped, NewTypes
<1>2. \A r \in Requests : RequestBooks(r)'
  BY RequestsKept DEF PoolBooks
<1> QED BY <1>1, <1>2 DEF PoolBooks, BooksKept

\* What most actions of a task do.
Plain(a) == Retires(a) \/ Frees(a) \/ Holds(a) \/ (Quiet(a) /\ UNCHANGED todo)

\* ... and so do those.
LEMMA PlainKeeps ==
  ASSUME PoolBooks, NEW a \in Tasks, Plain(a), NewTypes, Keeps(a), Rested
  PROVE  PoolBooks'
<1>0. PoolTyped /\ MapBooks
  BY DEF PoolBooks
<1>1. /\ BooksKept /\ UNCHANGED <<slots, todo>> /\ \A b \in Tasks \ {a} : task'[b] = task[b]
  <2>1. CASE Retires(a)
    BY <2>1, RetiresKeeps DEF Retires, TaskAt
  <2>2. CASE Frees(a)
    BY <2>2, FreesKeeps DEF Frees
  <2>3. CASE Holds(a)
    BY <2>3, HoldsKeeps DEF Holds, TaskAt
  <2>4. CASE Quiet(a) /\ UNCHANGED todo
    <3>1. \A c \in todo' : c \in Cells /\ cell[c].state # "unused"
      BY <1>0, <2>4 DEF PoolTyped, MapBooks
    <3> QED BY <2>4, <3>1, SameCellsKeep DEF Quiet
  <2> QED BY <2>1, <2>2, <2>3, <2>4 DEF Plain
<1>2. /\ slots' \in [Keys -> Cells \union {0}] /\ last_used' \in [Keys -> Nat]
      /\ allocation' \in Tasks \union {"free"} /\ todo' \subseteq Cells
      /\ drains' \in 0 .. MaxDrains /\ cancels' \in 0 .. MaxCancels
  BY <1>0, <1>1 DEF PoolTyped, Rested
<1> QED BY <1>1, <1>2, Together

\* The plain actions of a request.
LEMMA PlainSteps ==
  ASSUME PoolBooks, NEW r \in Requests,
         \/ TakeSlot(r) \/ SpawnFails(r) \/ Spawn(r) \/ HandshakeDone(r) \/ HandshakeFails(r)
         \/ exchange(r) \/ WriteFirst(r) \/ WriteRest(r)
         \/ read_answer(r) \/ ReadFails(r) \/ ReadTimesOut(r)
  PROVE  PoolBooks'
<1>0. r \in Tasks /\ PoolTyped /\ HolderBooks(r) /\ (\A c \in Cells : ClaimBooks(c))
  BY DEF PoolBooks, Tasks
<1>1. ASSUME NewTypes, Plain(r), Keeps(r), Rested PROVE PoolBooks'
  BY <1>0, <1>1, PlainKeeps
<1>2. CASE TakeSlot(r)
  BY <1>0, <1>1, <1>2, TakeSlotMoves DEF Plain
<1>3. CASE SpawnFails(r)
  <2>1. ClaimBooks(task[r].at)
    BY <1>0, <1>3 DEF SpawnFails, HolderBooks
  <2> QED BY <1>0, <1>1, <1>3, <2>1, SpawnFailsMoves DEF Plain
<1>4. CASE Spawn(r)
  BY <1>0, <1>1, <1>4, SpawnMoves DEF Plain
<1>5. CASE HandshakeDone(r)
  BY <1>0, <1>1, <1>5, HandshakeDoneMoves DEF Plain
<1>6. CASE HandshakeFails(r)
  BY <1>0, <1>1, <1>6, HandshakeFailsMoves DEF Plain
<1>7. CASE exchange(r)
  BY <1>0, <1>1, <1>7, ExchangeMoves DEF Plain
<1>8. CASE WriteFirst(r)
  BY <1>0, <1>1, <1>8, WriteFirstMoves DEF Plain
<1>9. CASE WriteRest(r)
  BY <1>0, <1>1, <1>9, WriteRestMoves DEF Plain
<1>10. CASE read_answer(r)
  BY <1>0, <1>1, <1>10, ReadAnswerMoves DEF Plain
<1>11. CASE ReadFails(r)
  BY <1>0, <1>1, <1>11, ReadFailsMoves DEF Plain
<1>12. CASE ReadTimesOut(r)
  BY <1>0, <1>1, <1>12, ReadTimesOutMoves DEF Plain
<1> QED BY <1>2, <1>3, <1>4, <1>5, <1>6, <1>7, <1>8, <1>9, <1>10, <1>11, <1>12

\* A retirement: by a request, or by the reload.
LEMMA RetirementSteps ==
  ASSUME PoolBooks, NEW a \in Tasks, retire_slot(a) \/ KillEnds(a) \/ forget_slot(a)
  PROVE  PoolBooks'
<1>0. PoolTyped /\ HolderBooks(a) /\ (\A c \in Cells : ClaimBooks(c))
  BY DEF PoolBooks
<1>1. CASE retire_slot(a)
  <2>1. ClaimBooks(task[a].at)
    BY <1>0, <1>1 DEF retire_slot, HolderBooks
  <2> QED BY <1>0, <1>1, <2>1, RetireSlotMoves, PlainKeeps DEF Plain
<1>2. CASE KillEnds(a)
  BY <1>0, <1>2, KillEndsMoves, PlainKeeps DEF Plain
<1>3. CASE forget_slot(a)
  <2>1. NewTypes /\ Unmaps(a) /\ Keeps(a) /\ Rested /\ slots' \in [Keys -> Cells \union {0}]
    BY <1>0, <1>3, ForgetMoves
  <2>2. BooksKept
    BY <2>1, UnmapsKeeps
  <2>3. /\ last_used' \in [Keys -> Nat] /\ allocation' \in Tasks \union {"free"} /\ todo' \subseteq Cells
        /\ drains' \in 0 .. MaxDrains /\ cancels' \in 0 .. MaxCancels
    BY <1>0, <2>1 DEF PoolTyped, Rested, Unmaps
  <2>4. \A b \in Tasks \ {a} : task'[b] = task[b]
    BY <2>1 DEF Unmaps
  <2> QED BY <2>1, <2>2, <2>3, <2>4, Together
<1> QED BY <1>1, <1>2, <1>3

\* The search for a slot.
LEMMA SlotForStep ==
  ASSUME PoolBooks, NEW r \in Requests, slot_for(r)
  PROVE  PoolBooks'
<1>0. r \in Tasks /\ PoolTyped /\ MapBooks /\ RequestBooks(r)
  BY DEF PoolBooks, Tasks
<1>1. /\ NewTypes /\ (Makes(r) \/ Unmaps(r) \/ (Quiet(r) /\ UNCHANGED todo)) /\ Keeps(r)
      /\ last_used' \in [Keys -> Nat] /\ allocation' \in {"free", r}
      /\ slots' \in [Keys -> Cells \union {0}] /\ UNCHANGED <<drains, cancels>>
  BY <1>0, SlotForMoves
<1>2. BooksKept /\ todo' = todo /\ \A b \in Tasks \ {r} : task'[b] = task[b]
  <2>1. CASE Makes(r)
    BY <2>1, MakesKeeps DEF Makes, TaskAt
  <2>2. CASE Unmaps(r)
    BY <1>0, <2>2, UnmapsKeeps DEF Unmaps
  <2>3. CASE Quiet(r) /\ UNCHANGED todo
    <3>1. \A c \in todo' : c \in Cells /\ cell[c].state # "unused"
      BY <1>0, <2>3 DEF PoolTyped, MapBooks
    <3> QED BY <2>3, <3>1, SameCellsKeep DEF Quiet
  <2> QED BY <1>1, <2>1, <2>2, <2>3
<1>3. /\ allocation' \in Tasks \union {"free"} /\ todo' \subseteq Cells
      /\ drains' \in 0 .. MaxDrains /\ cancels' \in 0 .. MaxCancels
  BY <1>0, <1>1, <1>2 DEF PoolTyped
<1> QED BY <1>1, <1>2, <1>3, Together

\* A request that was answered.
LEMMA TouchStep ==
  ASSUME PoolBooks, NEW r \in Requests, touch(r)
  PROVE  PoolBooks'
<1>0. r \in Tasks /\ PoolTyped /\ MapBooks /\ RequestBooks(r) /\ HolderBooks(r)
  BY DEF PoolBooks, Tasks
<1>1. NewTypes /\ Quiet(r) /\ Keeps(r) /\ UNCHANGED <<todo, allocation, drains, cancels>>
  BY <1>0, TouchMoves
<1>2. last_used' \in [Keys -> Nat]
  <2>1. task[r].key \in Keys
    BY <1>0 DEF RequestBooks
  <2> QED BY <1>0, <2>1, UsedType DEF touch, PoolTyped
<1>3. \A c \in todo' : c \in Cells /\ cell[c].state # "unused"
  BY <1>0, <1>1 DEF PoolTyped, MapBooks
<1>4. BooksKept
  BY <1>1, <1>3, SameCellsKeep DEF Quiet
<1>5. /\ slots' \in [Keys -> Cells \union {0}] /\ allocation' \in Tasks \union {"free"} /\ todo' \subseteq Cells
      /\ drains' \in 0 .. MaxDrains /\ cancels' \in 0 .. MaxCancels /\ \A b \in Tasks \ {r} : task'[b] = task[b]
  BY <1>0, <1>1 DEF PoolTyped, Quiet
<1> QED BY <1>1, <1>2, <1>4, <1>5, Together

\* A dispatch that is dropped.
LEMMA CancelStep ==
  ASSUME PoolBooks, NEW r \in Requests, Cancel(r)
  PROVE  PoolBooks'
<1>0. PoolTyped /\ RequestBooks(r)
  BY DEF PoolBooks
<1>1. /\ NewTypes /\ Cancels(r) /\ Keeps(r) /\ allocation' \in {allocation, "free"}
      /\ cancels' \in 0 .. MaxCancels /\ UNCHANGED <<last_used, drains>>
  BY <1>0, CancelMoves
<1>2. BooksKept
  BY <1>1, CancelsKeeps
<1>3. /\ slots' \in [Keys -> Cells \union {0}] /\ last_used' \in [Keys -> Nat]
      /\ allocation' \in Tasks \union {"free"} /\ todo' \subseteq Cells /\ drains' \in 0 .. MaxDrains
      /\ \A b \in Tasks \ {r} : task'[b] = task[b]
  BY <1>0, <1>1 DEF PoolTyped, Cancels
<1> QED BY <1>1, <1>2, <1>3, Together

\* The reload.
LEMMA DrainSteps ==
  ASSUME PoolBooks, DrainBegins \/ DrainNext
  PROVE  PoolBooks'
<1>0. PoolTyped /\ MapBooks /\ "drain" \in Tasks /\ "drain" \notin Requests
  BY PoolAssumption DEF PoolBooks, Tasks
<1>1. /\ NewTypes /\ Quiet("drain") /\ (\A c \in todo' : c \in Cells /\ cell[c].state # "unused")
      /\ allocation' \in Tasks \union {"free"} /\ drains' \in 0 .. MaxDrains /\ UNCHANGED <<last_used, cancels>>
  <2>1. CASE DrainBegins
    BY <1>0, <2>1, DrainBeginsMoves
  <2>2. CASE DrainNext
    <3>1. /\ NewTypes /\ Quiet("drain") /\ todo' \subseteq todo /\ allocation' \in {allocation, "free"}
          /\ UNCHANGED <<last_used, drains, cancels>>
      BY <1>0, <2>2, DrainNextMoves
    <3> QED BY <1>0, <3>1 DEF PoolTyped, MapBooks
  <2> QED BY <2>1, <2>2
<1>2. BooksKept
  BY <1>1, SameCellsKeep DEF Quiet
<1>3. /\ slots' \in [Keys -> Cells \union {0}] /\ last_used' \in [Keys -> Nat] /\ todo' \subseteq Cells
      /\ cancels' \in 0 .. MaxCancels /\ (\A b \in Tasks \ {"drain"} : task'[b] = task[b]) /\ Keeps("drain")
  BY <1>0, <1>1 DEF PoolTyped, Quiet, Keeps
<1> QED BY <1>1, <1>2, <1>3, Together

\* The sweep.
LEMMA SweepStep ==
  ASSUME PoolBooks, sweep
  PROVE  PoolBooks'
<1>0. PoolTyped
  BY DEF PoolBooks
<1>1. NewTypes /\ Sweeps /\ Rested /\ slots' \in [Keys -> Cells \union {0}]
  BY <1>0, SweepMoves
<1>2. BooksKept
  BY <1>1, SweepsKeeps
<1>3. task' = task /\ todo' = todo
  BY <1>1 DEF Sweeps
<1>4. /\ last_used' \in [Keys -> Nat] /\ allocation' \in Tasks \union {"free"} /\ todo' \subseteq Cells
      /\ drains' \in 0 .. MaxDrains /\ cancels' \in 0 .. MaxCancels
  BY <1>0, <1>1, <1>3 DEF PoolTyped, Rested
<1>5. Keeps("drain") /\ \A b \in Tasks \ {"drain"} : task'[b] = task[b]
  BY <1>3, PoolAssumption DEF Keeps
<1> QED BY <1>1, <1>2, <1>4, <1>5, Together

\* A process, the reaper, or nothing that the pool sees.
LEMMA QuietStep ==
  ASSUME PoolBooks, NewTypes, SameCells, UNCHANGED <<slots, last_used, allocation, task, todo, drains, cancels>>
  PROVE  PoolBooks'
<1>0. PoolTyped /\ MapBooks /\ "free" \notin Tasks
  BY Locks DEF PoolBooks
<1>1. \A c \in todo' : c \in Cells /\ cell[c].state # "unused"
  BY <1>0 DEF PoolTyped, MapBooks
<1>2. BooksKept
  BY <1>0, <1>1, SameCellsKeep
<1>3. /\ slots' \in [Keys -> Cells \union {0}] /\ last_used' \in [Keys -> Nat]
      /\ allocation' \in Tasks \union {"free"} /\ todo' \subseteq Cells
      /\ drains' \in 0 .. MaxDrains /\ cancels' \in 0 .. MaxCancels
  BY <1>0 DEF PoolTyped
<1>5. Keeps("drain") /\ \A b \in Tasks \ {"drain"} : task'[b] = task[b]
  BY PoolAssumption DEF Keeps
<1> QED BY <1>2, <1>3, <1>5, Together
-----------------------------------------------------------------------------
(* The pool is safe.                                                       *)

\* The pool begins with its books in order: no slots, and no request under way.
LEMMA PoolInit == Init => PoolBooks
<1> SUFFICES ASSUME Init PROVE PoolBooks
  OBVIOUS
<1>1. PICK key \in Resolved : task = [a \in Tasks |-> IF a = "drain" THEN Done("none") ELSE Call(key[a])]
  BY DEF Init
<1>2. key \in [Requests -> Keys] /\ "drain" \notin Requests
  BY PoolAssumption
<1>3. Done("none") \in TaskTypes /\ Done("none").pc = "done"
  BY DoneType
<1>4. \A k \in Keys : /\ Call(k) \in TaskTypes /\ Call(k).pc = "alloc" /\ Call(k).key = k /\ Call(k).writes = 0
                      /\ Call(k).answer = "none"
  BY DEF Call, TaskTypes
<1>5. \A r \in Requests : task[r] = Call(key[r]) /\ key[r] \in Keys
  BY <1>1, <1>2 DEF Tasks
<1>6. \A a \in Tasks : task[a] \in TaskTypes /\ task[a].pc \in {"done", "alloc"}
  BY <1>1, <1>2, <1>3, <1>4 DEF Tasks
<1>7. NoCell \in CellTypes /\ NoCell.state = "unused" /\ NoCell.registered = FALSE
  <2>1. <<>> \in Seq(Requests)
    OBVIOUS
  <2> QED BY <2>1 DEF NoCell, CellTypes
<1>8. \A c \in Cells : cell[c] = NoCell
  BY DEF Init
<1>9. PoolTyped
  <2>1. slots \in [Keys -> Cells \union {0}] /\ last_used \in [Keys -> Nat] /\ allocation = "free" /\ todo = {}
        /\ drains = 0 /\ cancels = 0
    BY DEF Init
  <2>2. cell \in [Cells -> CellTypes]
    BY <1>7 DEF Init
  <2>3. task \in [Tasks -> TaskTypes]
    BY <1>1, <1>6
  <2> QED BY <2>1, <2>2, <2>3, PoolAssumption DEF PoolTyped
<1>10. MapBooks
  <2>1. Occupied(slots) = {} /\ todo = {} /\ \A k \in Keys : slots[k] = 0
    BY DEF Init, Occupied
  <2>2. Cardinality(Occupied(slots)) <= max_instances
    BY <2>1, FS_EmptySet, PoolAssumption
  <2> QED BY <1>7, <1>8, <2>1, <2>2 DEF MapBooks
<1>11. \A a \in Tasks : HolderBooks(a)
  BY <1>6 DEF HolderBooks
<1>12. \A c \in Cells : ClaimBooks(c)
  BY <1>7, <1>8 DEF ClaimBooks, Claimable
<1>13. \A r \in Requests : RequestBooks(r)
  BY <1>4, <1>5 DEF RequestBooks
<1> QED BY <1>9, <1>10, <1>11, <1>12, <1>13 DEF PoolBooks

\* Every step keeps them in order.
LEMMA PoolStep == PoolBooks /\ [Next]_vars => PoolBooks'
<1> SUFFICES ASSUME PoolBooks, [Next]_vars PROVE PoolBooks'
  OBVIOUS
<1>0. PoolTyped /\ "drain" \in Tasks /\ Requests \subseteq Tasks
  BY DEF PoolBooks, Tasks
<1>1. ASSUME NEW r \in Requests, Step(r) PROVE PoolBooks'
  BY <1>0, <1>1, SlotForStep, PlainSteps, TouchStep, RetirementSteps DEF Step
<1>2. ASSUME NEW r \in Requests, Cancel(r) PROVE PoolBooks'
  BY <1>2, CancelStep
<1>3. CASE DrainBegins
  BY <1>3, DrainSteps
<1>4. CASE Drain
  BY <1>0, <1>4, DrainSteps, RetirementSteps DEF Drain
<1>5. CASE sweep
  BY <1>5, SweepStep
<1>6. ASSUME NEW c \in Cells, Exit(c) \/ Answer(c) \/ ReaperClaims(c) \/ ReaperKills(c) PROVE PoolBooks'
  BY <1>0, <1>6, ProcessMoves, QuietStep
<1>7. CASE UNCHANGED vars
  <2>1. UNCHANGED <<slots, last_used, allocation, cell, task, todo, drains, cancels>>
    BY <1>7 DEF vars
  <2>2. NewTypes /\ SameCells
    BY <1>0, <2>1, SameCellsNone DEF NewTypes, PoolTyped
  <2> QED BY <2>1, <2>2, QuietStep
<1> QED BY <1>1, <1>2, <1>3, <1>4, <1>5, <1>6, <1>7 DEF Next

\* A process that nobody is killing has a slot of its own in the map, and the
\* map is never larger than the cap.
LEMMA CapIsKept == PoolBooks => CapKept
<1> SUFFICES ASSUME PoolBooks PROVE CapKept
  OBVIOUS
<1> DEFINE S == {c \in Cells : cell[c].proc = "running" /\ Claimable(c)}
           O == Occupied(slots)
           f == [c \in S |-> cell[c].key]
<1>1. \A c \in S : cell[c].key \in Keys /\ slots[cell[c].key] = c /\ c # 0
  <2> TAKE c \in S
  <2>1. c \in Cells /\ cell[c].state \in {"Live", "Starting"}
    BY DEF PoolBooks, ClaimBooks
  <2> QED BY <2>1 DEF PoolBooks, MapBooks, Cells
<1>2. \A c \in S : cell[c].key \in O
  BY <1>1 DEF Occupied
<1>3. f \in Injection(S, O)
  <2>1. f \in [S -> O]
    BY <1>2
  <2>2. \A c, d \in S : f[c] = f[d] => c = d
    BY <1>1
  <2> QED BY <2>1, <2>2 DEF Injection, IsInjective
<1>4. O \in SUBSET Keys /\ Cardinality(O) <= max_instances
  BY DEF Occupied, PoolBooks, MapBooks
<1> HIDE DEF S, O, f
<1>5. IsFiniteSet(S) /\ Cardinality(S) <= Cardinality(O) /\ Cardinality(O) \in Nat /\ Cardinality(S) \in Nat
  BY <1>3, <1>4, FewKeys, FS_Injection, FS_CardinalityType
<1>6. Cardinality(S) <= max_instances
  BY <1>4, <1>5, PoolAssumption
<1> QED BY <1>6 DEF CapKept, S

\* Whatever is cancelled, evicted, drained or dies, an instance in a slot can be
\* found through the map, and the processes that nobody is killing stay under
\* the cap of [agent] max_instances.
THEOREM PoolSafe == Spec => []PoolInv
<1>1. Init => PoolBooks
  BY PoolInit
<1>2. PoolBooks /\ [Next]_vars => PoolBooks'
  BY PoolStep
<1>3. PoolBooks => PoolInv
  <2> SUFFICES ASSUME PoolBooks PROVE PoolInv
    OBVIOUS
  <2>1. TypeOK
    BY DEF PoolBooks, PoolTyped, TypeOK, CellTypes
  <2>2. NoneUnreachable
    BY DEF PoolBooks, MapBooks, NoneUnreachable
  <2> QED BY <2>1, <2>2, CapIsKept DEF PoolInv
<1> QED BY <1>1, <1>2, <1>3, PTL DEF Spec

\* The bytes of a request reach one process at most, and a request that is
\* answered has its own answer, whatever is retried, abandoned or late.
THEOREM RequestsRunOnce == Spec => []RunOnceAnsweredRight
<1>1. Init => PoolBooks
  BY PoolInit
<1>2. PoolBooks /\ [Next]_vars => PoolBooks'
  BY PoolStep
<1>3. PoolBooks => RunOnceAnsweredRight
  BY DEF PoolBooks, RequestBooks, RunOnceAnsweredRight, AtMostOnce, OwnAnswer
<1> QED BY <1>1, <1>2, <1>3, PTL DEF Spec
=============================================================================
