--------------------------- MODULE GatewayProofs ---------------------------
(***************************************************************************)
(* Proofs about the gateway, for any number of messages, conversations and *)
(* workers, any cap, any queue depth and any number of panics.             *)
(***************************************************************************)
EXTENDS Gateway, FiniteSetTheorems, SequenceTheorems, TLAPS

-----------------------------------------------------------------------------
(* The inductive invariant.                                                *)

\* Until the supervisor drains, the map leads to every worker that may run
\* something.
Tied == stage = "up" => \A w \in Serving : map[serves[w]] = w

\* A worker that may run something serves a conversation, and no two serve the
\* same.
Named == \A w \in Serving : serves[w] \in Keys
Alone == \A v, w \in Serving : serves[v] = serves[w] => v = w

\* The slot of a worker that closed its channel is marked.
Marked == stage = "up" => \A w \in Serving : w \in closed => w \in retiring

\* The entries of the map, and the workers, stay under the cap.
Capped == IsFiniteSet(Occupied) /\ Cardinality(Occupied) <= max_concurrent_sessions
Bounded == IsFiniteSet(Serving) /\ Cardinality(Serving) <= max_concurrent_sessions

\* A submit is handled only until the supervisor drains.
Handling == admitting.at # "none" => stage = "up" /\ admitting.job \in Jobs

\* While the map is locked for a send, its entry is the worker that was found,
\* and that worker does not close its channel.
Routed == admitting.at = "routed" => /\ admitting.to \in Workers
                                     /\ map[Key[admitting.job]] = admitting.to
                                     /\ admitting.to \notin closed

\* A worker that processes has a job.
Working == \A w \in Workers : pc[w] \in Processing => job[w] \in Jobs

GatewayInv ==
    /\ TypeOK /\ Tied /\ Named /\ Alone /\ Marked
    /\ Capped /\ Bounded /\ Handling /\ Routed /\ Working

-----------------------------------------------------------------------------
\* Initially there is no worker.
LEMMA GatewayInit == Init => GatewayInv
<1> SUFFICES ASSUME Init PROVE GatewayInv
  OBVIOUS
<1> USE GatewayAssumption
<1>1. TypeOK
  <2>1. channel \in Seq(Jobs) /\ queue \in [Workers -> Seq(Jobs)]
    BY EmptySeq DEF Init
  <2>2. panics \in 0 .. MaxPanics
    BY DEF Init
  <2> QED BY <2>1, <2>2 DEF Init, TypeOK, Idle, Verdicts, Phases
<1>2. Serving = {} /\ Occupied = {}
  BY DEF Init, Serving, Occupied
<1>3. Capped /\ Bounded
  BY <1>2, FS_EmptySet DEF Capped, Bounded
<1>4. Tied /\ Named /\ Alone /\ Marked
  BY <1>2 DEF Tied, Named, Alone, Marked
<1>5. Handling /\ Routed /\ Working
  BY DEF Init, Handling, Routed, Working, Idle, Processing
<1> QED BY <1>1, <1>3, <1>4, <1>5 DEF GatewayInv

-----------------------------------------------------------------------------
(* Types.                                                                  *)

Submits == [job : Jobs \union {None}, at : {"none", "checked", "routed"},
            to : Workers \union {None}]

\* Ending the tasks of a set of workers leaves well-typed workers.
LEMMA EndType ==
  ASSUME TypeOK, NEW S, End(S)
  PROVE  /\ pc' \in [Workers -> Phases]
         /\ queue' \in [Workers -> Seq(Jobs)]
         /\ job' \in [Workers -> Jobs \union {None}]
  BY EmptySeq DEF TypeOK, End, Phases

\* Every step keeps the types.
LEMMA TypeStep ==
  ASSUME GatewayInv, [Next]_vars
  PROVE  TypeOK'
<1> USE GatewayAssumption DEF GatewayInv
<1>1. ASSUME NEW j \in Jobs, submit(j) PROVE TypeOK'
  <2>1. channel' \in Seq(Jobs)
    <3>1. Append(channel, j) \in Seq(Jobs) /\ channel \in Seq(Jobs)
      BY <1>1 DEF TypeOK
    <3>2. channel' \in {channel, Append(channel, j)}
      BY <1>1 DEF submit
    <3> QED BY <3>1, <3>2
  <2>2. ack' \in [Jobs -> Verdicts]
    BY <1>1 DEF TypeOK, submit, Verdicts
  <2> QED BY <1>1, <2>1, <2>2 DEF TypeOK, submit, slots, worker
<1>2. ASSUME handle_submit PROVE TypeOK'
  <2>1. Head(channel) \in Jobs /\ Tail(channel) \in Seq(Jobs)
    BY <1>2 DEF TypeOK, handle_submit
  <2>2. admitting' \in Submits
    BY <1>2, <2>1 DEF TypeOK, handle_submit, Submits
  <2>3. ack' \in [Jobs -> Verdicts]
    BY <1>2, <2>1 DEF TypeOK, handle_submit, Verdicts
  <2> QED BY <1>2, <2>1, <2>2, <2>3 DEF TypeOK, handle_submit, slots, worker, Submits
<1>3. ASSUME Route PROVE TypeOK'
  <2> DEFINE k == Key[admitting.job]
  <2>1. admitting.job \in Jobs /\ k \in Keys
    BY <1>3 DEF Route, Handling
  <2>2. channel' = channel /\ queue' = queue /\ job' = job /\ retiring' = retiring
        /\ answered' = answered /\ shutdown' = shutdown /\ stage' = stage /\ panics' = panics
    BY <1>3 DEF Route, SpawnWorker, slots, worker
  <2>3. ASSUME NEW w \in Fresh, map' = [map EXCEPT ![k] = w], pc' = [pc EXCEPT ![w] = "select"],
               serves' = [serves EXCEPT ![w] = k], closed' = closed \ {w}, UNCHANGED ack,
               admitting' = [admitting EXCEPT !.at = "routed", !.to = w]
        PROVE  TypeOK'
    <3>1. w \in Workers
      BY DEF Fresh
    <3>2. admitting' \in Submits
      BY <2>1, <2>3, <3>1 DEF TypeOK, Submits
    <3>3. pc' \in [Workers -> Phases]
      BY <2>3 DEF TypeOK, Phases
    <3>4. map' \in [Keys -> Workers \union {None}] /\ serves' \in [Workers -> Keys \union {None}]
      BY <2>1, <2>3, <3>1 DEF TypeOK
    <3> QED BY <2>2, <2>3, <3>2, <3>3, <3>4 DEF TypeOK, Submits
  <2>4. ASSUME reject("Unavailable") \/ reject("CapExceeded"),
               map' \in {map, [map EXCEPT ![k] = None]}, UNCHANGED worker
        PROVE  TypeOK'
    <3>1. admitting' \in Submits
      BY <2>4 DEF reject, Idle, Submits
    <3>2. ack' \in [Jobs -> Verdicts]
      BY <2>4, <2>1 DEF TypeOK, reject, Verdicts
    <3>3. map' \in [Keys -> Workers \union {None}]
      BY <2>4 DEF TypeOK
    <3> QED BY <2>2, <2>4, <3>1, <3>2, <3>3 DEF TypeOK, Submits, worker
  <2>5. ASSUME admitting' = [admitting EXCEPT !.at = "routed", !.to = map[k]],
               UNCHANGED <<ack, map, worker>>
        PROVE  TypeOK'
    <3>1. admitting' \in Submits
      BY <2>1, <2>5 DEF TypeOK, Submits
    <3> QED BY <2>2, <2>5, <3>1 DEF TypeOK, Submits, worker
  <2> QED BY <1>3, <2>3, <2>4, <2>5 DEF Route, SpawnWorker, slots
<1>4. ASSUME try_send PROVE TypeOK'
  <2>1. admitting.job \in Jobs /\ admitting.to \in Workers
    BY <1>4 DEF try_send, Handling, Routed
  <2>2. Append(queue[admitting.to], admitting.job) \in Seq(Jobs)
    BY <2>1 DEF TypeOK
  <2> DEFINE longer == Append(queue[admitting.to], admitting.job)
  <2>3. queue' \in [Workers -> Seq(Jobs)]
    <3>1. queue' \in {queue, [queue EXCEPT ![admitting.to] = longer]}
      BY <1>4 DEF try_send
    <3>2. longer \in Seq(Jobs)
      BY <2>2
    <3>3. queue \in [Workers -> Seq(Jobs)]
      BY DEF TypeOK
    <3> HIDE DEF longer
    <3>4. [queue EXCEPT ![admitting.to] = longer] \in [Workers -> Seq(Jobs)]
      BY <3>2, <3>3
    <3> QED BY <3>1, <3>3, <3>4
  <2>6. map' \in [Keys -> Workers \union {None}]
    BY <1>4, <2>1 DEF TypeOK, try_send
  <2>4. ack' \in [Jobs -> Verdicts] /\ admitting' = Idle
    BY SMTT(20), <1>4, <2>1 DEF TypeOK, try_send, reject, Verdicts
  <2>5. Idle \in Submits
    BY DEF Idle, Submits
  <2> QED BY <1>4, <2>3, <2>4, <2>5, <2>6 DEF TypeOK, try_send, Submits
<1>5. ASSUME NEW w \in Workers, Take(w) PROVE TypeOK'
  <2>1. Head(queue[w]) \in Jobs /\ Tail(queue[w]) \in Seq(Jobs)
    BY <1>5 DEF TypeOK, Take
  <2> QED BY <1>5, <2>1 DEF TypeOK, Take, Goto, admission, slots, Phases, Processing
<1>6. ASSUME NEW w \in Workers,
             \/ SeesShutdown(w) \/ GoesIdle(w) \/ Drained(w) \/ record_triggered(w)
             \/ begin_retirement(w)
      PROVE TypeOK'
  <2>1. PICK p \in Phases : pc' = [pc EXCEPT ![w] = p]
    BY <1>6 DEF SeesShutdown, GoesIdle, Drained, record_triggered, begin_retirement, Goto,
                Phases, Processing
  <2>2. pc' \in [Workers -> Phases]
    BY <2>1 DEF TypeOK
  <2>3. retiring' \subseteq Workers /\ closed' \subseteq Workers
    BY <1>6 DEF TypeOK, SeesShutdown, GoesIdle, Drained, record_triggered, begin_retirement,
                slots
  <2>4. UNCHANGED <<channel, ack, admitting, map, serves, queue, job, answered, shutdown, stage,
                    panics>>
    BY <1>6 DEF SeesShutdown, GoesIdle, Drained, record_triggered, begin_retirement, admission,
                slots
  <2> QED BY <2>2, <2>3, <2>4 DEF TypeOK
<1>7. ASSUME NEW w \in Workers, finish_retirement(w) PROVE TypeOK'
  BY <1>7 DEF TypeOK, finish_retirement, Goto, admission, Phases
<1>8. ASSUME NEW w \in Workers, Leave(w) \/ Panic(w) PROVE TypeOK'
  BY <1>8, EndType DEF TypeOK, Leave, Panic, admission, slots
<1>9. ASSUME NEW w \in Workers, process(w) \/ ForcedShutdown(w) PROVE TypeOK'
  <2>1. PICK p \in Phases : pc' = [pc EXCEPT ![w] = p]
    BY <1>9 DEF process, ForcedShutdown, record_triggered, Proceed, Abandon, Goto, Phases,
                Processing
  <2>2. pc' \in [Workers -> Phases]
    BY <2>1 DEF TypeOK
  <2>3. job' \in [Workers -> Jobs \union {None}]
    BY <1>9 DEF TypeOK, process, ForcedShutdown, record_triggered, Proceed, Abandon
  <2>4. UNCHANGED <<channel, ack, admitting, map, retiring, serves, queue, closed, answered,
                    shutdown, stage, panics>>
    BY <1>9 DEF process, ForcedShutdown, record_triggered, Proceed, Abandon, admission, slots
  <2> QED BY <2>2, <2>3, <2>4 DEF TypeOK
<1>10. ASSUME NEW w \in Workers, reply(w) PROVE TypeOK'
  BY <1>10 DEF TypeOK, Working, reply, Goto, admission, slots, Phases, Processing
<1>11. ASSUME RaiseShutdown \/ StopAdmitting \/ ForceWorkers PROVE TypeOK'
  BY <1>11 DEF TypeOK, RaiseShutdown, StopAdmitting, ForceWorkers, admission, slots, worker
<1>12. ASSUME AbortAll PROVE TypeOK'
  BY <1>12, EndType DEF TypeOK, AbortAll, admission, slots
<1>13. ASSUME Stopped PROVE TypeOK'
  <2>1. channel' \in Seq(Jobs)
    BY <1>13, EmptySeq DEF Stopped
  <2> QED BY <1>13, <2>1 DEF TypeOK, Stopped, slots, worker, Verdicts
<1>14. ASSUME UNCHANGED vars PROVE TypeOK'
  BY <1>14 DEF TypeOK, vars, admission, slots, worker
<1> QED BY <1>1, <1>2, <1>3, <1>4, <1>5, <1>6, <1>7, <1>8, <1>9, <1>10, <1>11, <1>12, <1>13,
           <1>14 DEF Next, Supervise, Work, Polled

-----------------------------------------------------------------------------
(* Nobody but a submit that finds no worker adds one.                      *)

\* Workers that a map leads to are at most as many as its entries.
LEMMA ServingFitsMap ==
  ASSUME NEW S, NEW sv, NEW m, NEW O, IsFiniteSet(O),
         \A w \in S : sv[w] \in O /\ m[sv[w]] = w
  PROVE  IsFiniteSet(S) /\ Cardinality(S) <= Cardinality(O)
<1> DEFINE f == [w \in S |-> sv[w]]
<1>1. f \in Injection(S, O)
  BY DEF Injection, IsInjective
<1> QED BY <1>1, FS_Injection

\* A step after which nobody new serves and the map has no new entry keeps the
\* workers apart and under the cap.
LEMMA QuietStep ==
  ASSUME GatewayInv, TypeOK', Serving' \subseteq Serving, Occupied' \subseteq Occupied,
         UNCHANGED serves
  PROVE  Named' /\ Alone' /\ Capped' /\ Bounded'
<1> USE GatewayAssumption DEF GatewayInv
<1>1. Named' /\ Alone'
  BY DEF Named, Alone
<1>2. IsFiniteSet(Serving') /\ Cardinality(Serving') <= Cardinality(Serving)
  BY FS_Subset DEF Bounded
<1>3. IsFiniteSet(Occupied') /\ Cardinality(Occupied') <= Cardinality(Occupied)
  BY FS_Subset DEF Capped
<1>4. /\ Cardinality(Serving) \in Nat /\ Cardinality(Serving') \in Nat
      /\ Cardinality(Occupied) \in Nat /\ Cardinality(Occupied') \in Nat
  BY <1>2, <1>3, FS_CardinalityType DEF Bounded, Capped
<1> QED BY <1>1, <1>2, <1>3, <1>4 DEF Capped, Bounded

\* A step that leaves the slots alone and starts no worker keeps the invariant.
LEMMA SlotsKept ==
  ASSUME GatewayInv, TypeOK', Working', Handling', Routed', Serving' \subseteq Serving,
         stage' = "up" => stage = "up", UNCHANGED <<map, retiring, serves, closed>>
  PROVE  GatewayInv'
<1> USE DEF GatewayInv
<1>1. Occupied' = Occupied
  BY DEF Occupied
<1>2. Named' /\ Alone' /\ Capped' /\ Bounded'
  BY <1>1, QuietStep
<1>3. Tied' /\ Marked'
  BY DEF Tied, Marked
<1> QED BY <1>2, <1>3

\* The supervisor's steps that leave the workers alone.
LEMMA SupervisorStep ==
  ASSUME GatewayInv, TypeOK',
         \/ \E j \in Jobs : submit(j)
         \/ handle_submit \/ RaiseShutdown \/ ForceWorkers \/ Stopped \/ UNCHANGED vars
  PROVE  GatewayInv'
<1> USE DEF GatewayInv
<1>1. UNCHANGED <<map, retiring, pc, serves, job, closed>>
  BY DEF submit, handle_submit, RaiseShutdown, ForceWorkers, Stopped, vars, slots, worker
<1>2. Serving' = Serving /\ Working'
  BY <1>1 DEF Serving, Working
<1>3. CASE handle_submit
  <2>1. Head(channel) \in Jobs
    BY <1>3 DEF TypeOK, handle_submit
  <2>2. Handling' /\ Routed'
    BY <1>1, <1>3, <2>1 DEF handle_submit, Handling, Routed
  <2>3. stage' = stage
    BY <1>3 DEF handle_submit
  <2> QED BY <1>1, <1>2, <2>2, <2>3, SlotsKept
<1>4. CASE ~handle_submit
  <2>1. UNCHANGED admitting /\ (stage' = "up" => stage = "up") /\ (stage = "up" => stage' = "up")
    BY <1>4 DEF submit, RaiseShutdown, ForceWorkers, Stopped, vars, admission
  <2>2. Handling' /\ Routed'
    BY <1>1, <2>1 DEF Handling, Routed
  <2> QED BY <1>1, <1>2, <2>1, <2>2, SlotsKept
<1> QED BY <1>3, <1>4

\* A worker's steps that leave the slots alone, and the end of all workers.
LEMMA WorkerStep ==
  ASSUME GatewayInv, TypeOK',
         \/ AbortAll
         \/ \E w \in Workers : \/ Take(w) \/ SeesShutdown(w) \/ GoesIdle(w) \/ Drained(w)
                               \/ Leave(w) \/ process(w) \/ ForcedShutdown(w) \/ reply(w)
                               \/ Panic(w)
  PROVE  GatewayInv'
<1> USE GatewayAssumption DEF GatewayInv
<1>1. UNCHANGED <<admitting, map, retiring, serves, closed, stage>>
  BY DEF AbortAll, Take, SeesShutdown, GoesIdle, Drained, Leave, process, record_triggered, Proceed,
         ForcedShutdown, Abandon, reply, Panic, admission, slots
<1>2. Handling' /\ Routed'
  BY <1>1 DEF Handling, Routed
<1>3. ASSUME NEW S, End(S) PROVE Serving' \subseteq Serving /\ Working'
  BY <1>3 DEF TypeOK, End, Serving, Working, Processing
<1>4. ASSUME NEW w \in Workers, Take(w) PROVE Serving' \subseteq Serving /\ Working'
  <2>1. Head(queue[w]) \in Jobs
    BY <1>4 DEF TypeOK, Take
  <2> QED BY <1>4, <2>1 DEF TypeOK, Take, Goto, Serving, Working, Processing
<1>5. ASSUME NEW w \in Workers, SeesShutdown(w) \/ GoesIdle(w) \/ Drained(w)
      PROVE  Serving' \subseteq Serving /\ Working'
  BY <1>5 DEF TypeOK, SeesShutdown, GoesIdle, Drained, Goto, Serving, Working, Processing
<1>6. ASSUME NEW w \in Workers, process(w) \/ ForcedShutdown(w) \/ reply(w)
      PROVE  Serving' \subseteq Serving /\ Working'
  <2>1. pc[w] \in Processing
    BY <1>6 DEF process, record_triggered, Proceed, ForcedShutdown, reply, Processing
  <2>2. PICK p : pc' = [pc EXCEPT ![w] = p] /\ (p \notin Processing \/ UNCHANGED job)
    <3>1. CASE record_triggered(w)
      BY <3>1 DEF record_triggered, Goto
    <3>2. ASSUME NEW from, NEW to, Proceed(w, from, to)
          PROVE  \E p : pc' = [pc EXCEPT ![w] = p] /\ (p \notin Processing \/ UNCHANGED job)
      BY <3>2 DEF Proceed, Goto
    <3>3. CASE Abandon(w)
      <4> DEFINE q == IF w \in closed THEN "finish" ELSE "leaving"
      <4>1. pc' = [pc EXCEPT ![w] = q]
        BY <3>3 DEF Abandon, Goto
      <4>2. q \notin Processing
        BY DEF Processing
      <4> HIDE DEF q
      <4> QED BY <4>1, <4>2
    <3>4. CASE reply(w)
      <4> DEFINE q == IF w \in closed THEN "drain" ELSE "select"
      <4>1. pc' = [pc EXCEPT ![w] = q]
        BY <3>4 DEF reply, Goto
      <4>2. q \notin Processing
        BY DEF Processing
      <4> HIDE DEF q
      <4> QED BY <4>1, <4>2
    <3> QED BY <1>6, <3>1, <3>2, <3>3, <3>4 DEF process, ForcedShutdown
  <2>3. \A v \in Workers : v # w => job'[v] = job[v]
    BY <1>6 DEF TypeOK, process, record_triggered, Proceed, ForcedShutdown, Abandon, reply
  <2>4. Serving' \subseteq Serving
    BY <2>1, <2>2 DEF TypeOK, Serving, Processing
  <2>5. Working'
    BY <2>1, <2>2, <2>3 DEF TypeOK, Working
  <2> QED BY <2>4, <2>5
<1>7. Serving' \subseteq Serving /\ Working'
  BY <1>3, <1>4, <1>5, <1>6 DEF AbortAll, Leave, Panic
<1> QED BY <1>1, <1>2, <1>7, SlotsKept

-----------------------------------------------------------------------------
(* Retirement and shutdown.                                                *)

\* The slot is marked, or the map no longer leads to the worker.
LEMMA BeginRetirementStep ==
  ASSUME GatewayInv, TypeOK', NEW w \in Workers, begin_retirement(w)
  PROVE  GatewayInv'
<1> USE GatewayAssumption DEF GatewayInv
<1>1. /\ UNCHANGED <<admitting, map, serves, job, stage>>
      /\ pc[w] = "idle" /\ pc' = [pc EXCEPT ![w] = "drain"]
      /\ closed' = closed \union {w} /\ admitting.at # "routed"
  BY DEF begin_retirement, MapFree, Goto, admission
<1>2. Serving' = Serving /\ Occupied' = Occupied /\ w \in Serving
  BY <1>1 DEF TypeOK, Serving, Occupied
<1>3. Named' /\ Alone' /\ Capped' /\ Bounded'
  BY <1>1, <1>2, QuietStep
<1>4. Tied' /\ Handling' /\ Routed'
  BY <1>1, <1>2 DEF Tied, Handling, Routed
<1>5. Marked'
  <2> SUFFICES ASSUME stage = "up", NEW v \in Serving, v \in closed'
               PROVE  v \in retiring'
    BY <1>1, <1>2 DEF Marked
  <2>1. CASE v = w
    BY <2>1, <1>2 DEF Tied, begin_retirement
  <2>2. CASE v # w
    BY <2>2, <1>1 DEF Marked, begin_retirement
  <2> QED BY <2>1, <2>2
<1>6. Working'
  BY <1>1 DEF TypeOK, Working, Processing
<1> QED BY <1>3, <1>4, <1>5, <1>6

\* The worker serves no longer when its entry goes.
LEMMA FinishRetirementStep ==
  ASSUME GatewayInv, TypeOK', NEW w \in Workers, finish_retirement(w)
  PROVE  GatewayInv'
<1> USE GatewayAssumption DEF GatewayInv
<1>1. /\ UNCHANGED <<admitting, serves, job, closed, stage>>
      /\ pc[w] = "finish" /\ pc' = [pc EXCEPT ![w] = "leaving"]
      /\ retiring' = retiring \ {w} /\ admitting.at # "routed"
      /\ map' = [map EXCEPT ![serves[w]] = IF @ = w /\ w \in retiring THEN None ELSE @]
  BY DEF finish_retirement, MapFree, Goto, admission
<1>2. w \in Serving /\ serves[w] \in Keys /\ Serving' = Serving \ {w}
  BY <1>1 DEF TypeOK, Serving, Named
<1>3. Occupied' \subseteq Occupied
  BY <1>1, <1>2 DEF TypeOK, Occupied
<1>4. Named' /\ Alone' /\ Capped' /\ Bounded'
  BY <1>1, <1>2, <1>3, QuietStep
<1>5. Tied'
  BY <1>1, <1>2 DEF TypeOK, Tied
<1>6. Marked' /\ Handling' /\ Routed'
  BY <1>1, <1>2 DEF Marked, Handling, Routed
<1>7. Working'
  BY <1>1 DEF TypeOK, Working, Processing
<1> QED BY <1>4, <1>5, <1>6, <1>7

\* The map is cleared and nobody is started any more.
LEMMA StopAdmittingStep ==
  ASSUME GatewayInv, TypeOK', StopAdmitting
  PROVE  GatewayInv'
<1> USE GatewayAssumption DEF GatewayInv
<1>1. /\ UNCHANGED <<pc, serves, job>> /\ admitting' = Idle /\ stage' = "draining"
      /\ map' = [k \in Keys |-> None]
  BY DEF StopAdmitting, admission, worker
<1>2. Serving' = Serving /\ Occupied' = {}
  BY <1>1 DEF Serving, Occupied
<1>3. Named' /\ Alone' /\ Capped' /\ Bounded'
  BY <1>1, <1>2, QuietStep
<1>4. Tied' /\ Marked' /\ Handling' /\ Routed' /\ Working'
  BY <1>1 DEF Tied, Marked, Handling, Routed, Working, Idle
<1> QED BY <1>3, <1>4

-----------------------------------------------------------------------------
(* Admission.                                                              *)

\* Where the map does not lead to a live worker, nobody serves the conversation.
LEMMA NobodyServes ==
  ASSUME GatewayInv, stage = "up", NEW k \in Keys,
         map[k] = None \/ (map[k] \notin retiring /\ is_closed(map[k]))
  PROVE  \A w \in Serving : serves[w] # k
<1> SUFFICES ASSUME NEW w \in Serving, serves[w] = k PROVE FALSE
  OBVIOUS
<1>1. map[k] = w /\ w \in Workers /\ pc[w] # "gone"
  BY DEF GatewayInv, Tied, Serving
<1>2. w # None
  BY <1>1, GatewayAssumption
<1>3. w \in closed => w \in retiring
  BY DEF GatewayInv, Marked
<1> QED BY <1>1, <1>2, <1>3 DEF is_closed

\* A dead entry is healed or a send fails: nobody loses a worker.
LEMMA EntryGoes ==
  ASSUME GatewayInv, TypeOK', stage = "up", NEW k \in Keys, \A w \in Serving : serves[w] # k,
         map' \in {map, [map EXCEPT ![k] = None]}, admitting' = Idle,
         UNCHANGED <<retiring, pc, serves, job, closed, stage>>
  PROVE  GatewayInv'
<1> USE GatewayAssumption DEF GatewayInv
<1>1. Serving' = Serving
  BY DEF Serving
<1>2. Occupied' \subseteq Occupied
  BY DEF TypeOK, Occupied
<1>3. Named' /\ Alone' /\ Capped' /\ Bounded'
  BY <1>1, <1>2, QuietStep
<1>4. Tied'
  <2> SUFFICES ASSUME NEW w \in Serving PROVE map'[serves[w]] = w
    BY <1>1 DEF Tied
  <2>1. serves[w] \in Keys \ {k} /\ map[serves[w]] = w
    BY DEF Named, Tied
  <2> QED BY <2>1 DEF TypeOK
<1>5. Marked' /\ Handling' /\ Routed' /\ Working'
  BY <1>1 DEF Marked, Handling, Routed, Working, Idle
<1> QED BY <1>3, <1>4, <1>5

\* A worker is started for a conversation that has none, under the cap.
LEMMA SpawnStep ==
  ASSUME GatewayInv, TypeOK', stage = "up", admitting.at = "checked",
         NEW k \in Keys, k = Key[admitting.job],
         map[k] = None \/ (map[k] \notin retiring /\ is_closed(map[k])),
         Cardinality(Occupied \ {k}) < max_concurrent_sessions,
         SpawnWorker(k), UNCHANGED stage
  PROVE  GatewayInv'
<1> USE GatewayAssumption DEF GatewayInv
<1>1. PICK w \in Fresh : /\ map' = [map EXCEPT ![k] = w]
                         /\ pc' = [pc EXCEPT ![w] = "select"]
                         /\ serves' = [serves EXCEPT ![w] = k]
                         /\ closed' = closed \ {w}
                         /\ admitting' = [admitting EXCEPT !.at = "routed", !.to = w]
                         /\ UNCHANGED <<ack, retiring, queue, job>>
  BY DEF SpawnWorker
<1>2. w \in Workers /\ w # None /\ w \notin Serving
  BY DEF Fresh, Serving
<1>3. Serving' = Serving \union {w}
  BY <1>1, <1>2 DEF TypeOK, Serving
<1>4. \A v \in Serving : v # w /\ serves'[v] = serves[v] /\ serves[v] \in Keys \ {k}
  BY <1>1, <1>2, NobodyServes DEF TypeOK, Named, Serving
<1>5. serves'[w] = k /\ map'[k] = w
  BY <1>1, <1>2 DEF TypeOK
<1>6. Named'
  BY <1>3, <1>4, <1>5 DEF Named
<1>7. \A v \in Serving' : map'[serves'[v]] = v
  <2>1. \A v \in Serving : map'[serves[v]] = map[serves[v]]
    BY <1>1, <1>4 DEF TypeOK
  <2> QED BY <1>3, <1>4, <1>5, <2>1 DEF Tied
<1>8. Capped'
  <2>1. Occupied' = (Occupied \ {k}) \union {k}
    BY <1>1, <1>2 DEF TypeOK, Occupied
  <2>2. IsFiniteSet(Occupied \ {k})
    BY FS_RemoveElement DEF Capped
  <2>3. IsFiniteSet(Occupied') /\ Cardinality(Occupied') = Cardinality(Occupied \ {k}) + 1
    BY <2>1, <2>2, FS_AddElement
  <2>4. Cardinality(Occupied \ {k}) \in Nat
    BY <2>2, FS_CardinalityType
  <2> QED BY <2>3, <2>4 DEF Capped
<1>9. Bounded' /\ Alone'
  <2>1. \A v \in Serving' : serves'[v] \in Occupied' /\ map'[serves'[v]] = v
    BY <1>2, <1>3, <1>6, <1>7 DEF Named, Occupied, Serving
  <2>2. IsFiniteSet(Serving') /\ Cardinality(Serving') <= Cardinality(Occupied')
    BY <1>8, <2>1, ServingFitsMap DEF Capped
  <2>3. Cardinality(Serving') \in Nat /\ Cardinality(Occupied') \in Nat
    BY <1>8, <2>2, FS_CardinalityType DEF Capped
  <2>4. Bounded'
    BY <1>8, <2>2, <2>3 DEF Bounded, Capped
  <2>5. Alone'
    BY <1>7 DEF Alone
  <2> QED BY <2>4, <2>5
<1>10. Marked'
  BY <1>1, <1>3 DEF Marked
<1>11. Handling' /\ Routed'
  BY <1>1, <1>2, <1>5 DEF TypeOK, Handling, Routed
<1>12. Working'
  BY <1>1, <1>2 DEF TypeOK, Working, Processing
<1> QED BY <1>6, <1>7, <1>8, <1>9, <1>10, <1>11, <1>12 DEF Tied

\* The lookup in the map.
LEMMA RouteStep ==
  ASSUME GatewayInv, TypeOK', Route
  PROVE  GatewayInv'
<1> USE GatewayAssumption DEF GatewayInv
<1> DEFINE k == Key[admitting.job]
           w == map[k]
<1>1. stage = "up" /\ admitting.job \in Jobs /\ k \in Keys /\ UNCHANGED stage
      /\ admitting.at = "checked"
  BY DEF Route, Handling
<1>2. CASE reject("Unavailable") /\ UNCHANGED <<slots, worker>>
  <2>1. admitting' = Idle /\ UNCHANGED <<map, retiring, pc, serves, job, closed>>
    BY <1>2 DEF reject, slots, worker
  <2>2. Serving' = Serving /\ Working' /\ Handling' /\ Routed'
    BY <2>1 DEF Serving, Working, Handling, Routed, Idle
  <2> QED BY <1>1, <2>1, <2>2, SlotsKept
<1>3. CASE /\ w # None /\ ~is_closed(w)
           /\ admitting' = [admitting EXCEPT !.at = "routed", !.to = w]
           /\ UNCHANGED <<ack, slots, worker>>
  <2>1. UNCHANGED <<map, retiring, pc, serves, job, closed>>
    BY <1>3 DEF slots, worker
  <2>2. Serving' = Serving /\ Working'
    BY <2>1 DEF Serving, Working
  <2>3. Handling' /\ Routed'
    BY <1>1, <1>3, <2>1 DEF TypeOK, Handling, Routed, is_closed
  <2> QED BY <1>1, <2>1, <2>2, <2>3, SlotsKept
<1>4. CASE /\ w = None \/ (w \notin retiring /\ is_closed(w))
           /\ Cardinality(Occupied \ {k}) < max_concurrent_sessions
           /\ SpawnWorker(k)
  BY <1>1, <1>4, SpawnStep
<1>5. CASE /\ w = None \/ (w \notin retiring /\ is_closed(w))
           /\ reject("CapExceeded")
           /\ map' = [map EXCEPT ![k] = None]
           /\ UNCHANGED <<retiring, worker>>
  <2>1. admitting' = Idle /\ UNCHANGED <<retiring, pc, serves, job, closed>>
    BY <1>5 DEF reject, worker
  <2>2. \A v \in Serving : serves[v] # k
    BY <1>1, <1>5, NobodyServes
  <2> HIDE DEF k
  <2> QED BY <1>1, <1>5, <2>1, <2>2, EntryGoes
<1> QED BY <1>2, <1>3, <1>4, <1>5 DEF Route

\* The send: its worker has not retired since the lookup, but it may have died.
LEMMA SendStep ==
  ASSUME GatewayInv, TypeOK', try_send
  PROVE  GatewayInv'
<1> USE GatewayAssumption DEF GatewayInv
<1> DEFINE k == Key[admitting.job]
           w == admitting.to
<1>1. /\ stage = "up" /\ k \in Keys /\ w \in Workers /\ map[k] = w /\ w \notin closed
      /\ admitting' = Idle /\ UNCHANGED <<retiring, pc, serves, job, closed, stage>>
  BY DEF try_send, reject, Handling, Routed
<1>2. CASE UNCHANGED map
  <2>1. Serving' = Serving /\ Working' /\ Handling' /\ Routed'
    BY <1>1 DEF Serving, Working, Handling, Routed, Idle
  <2> QED BY <1>1, <1>2, <2>1, SlotsKept
<1>3. CASE is_closed(w) /\ map' = [map EXCEPT ![k] = None]
  <2>1. pc[w] = "gone"
    BY <1>1, <1>3 DEF is_closed
  <2>2. \A v \in Serving : serves[v] # k
    BY <1>1, <2>1 DEF Tied, Serving
  <2> HIDE DEF k
  <2> QED BY <1>1, <1>3, <2>2, EntryGoes
<1> QED BY <1>2, <1>3 DEF try_send

-----------------------------------------------------------------------------
(* The theorems.                                                           *)

\* Every step keeps the invariant.
LEMMA GatewayStep == GatewayInv /\ [Next]_vars => GatewayInv'
<1> SUFFICES ASSUME GatewayInv, [Next]_vars PROVE GatewayInv'
  OBVIOUS
<1>1. TypeOK'
  BY TypeStep
<1> QED BY <1>1, SupervisorStep, WorkerStep, BeginRetirementStep, FinishRetirementStep,
           StopAdmittingStep, RouteStep, SendStep DEF Next, Supervise, Work, Polled

\* The invariant holds throughout.
LEMMA GatewayInvariance == Spec => []GatewayInv
  BY GatewayInit, GatewayStep, PTL DEF Spec

\* Channels, slots and workers keep their types, whatever dies and whenever the
\* gateway is stopped: in particular what goes to a sink is the answer to a job.
THEOREM GatewayTypes == Spec => []TypeOK
<1>1. GatewayInv => TypeOK
  BY DEF GatewayInv
<1> QED BY <1>1, GatewayInvariance, PTL

\* A conversation has at most one worker that may still run something: handle_submit
\* refuses while the old one drains and replaces only one that is gone.
THEOREM OneWorkerAlways == Spec => []OneWorker
<1>1. ASSUME GatewayInv PROVE OneWorker
  <2> SUFFICES ASSUME NEW k \in Keys
               PROVE  Cardinality({w \in Serving : serves[w] = k}) <= 1
    BY DEF OneWorker
  <2> DEFINE W == {w \in Serving : serves[w] = k}
  <2>1. CASE W = {}
    BY <2>1, FS_EmptySet
  <2>2. CASE W # {}
    <3>1. PICK w : W = {w}
      BY <1>1, <2>2 DEF GatewayInv, Alone
    <3>2. Cardinality({w}) = 1
      BY FS_Singleton
    <3>3. Cardinality(W) = 1
      BY <3>1, <3>2
    <3> QED BY <3>3
  <2> QED BY <2>1, <2>2
<1> QED BY <1>1, GatewayInvariance, PTL

\* Both at once: what goes to a sink is the answer to a job, and no second worker of a
\* conversation gives one, whoever retires, panics or is replaced (handle_submit, begin_retirement).
THEOREM WorkersSafe == Spec => []WorkersInv
BY GatewayTypes, OneWorkerAlways, PTL DEF WorkersInv

\* The workers that may still run something never exceed max_concurrent_sessions,
\* although the cap is compared with the entries of a map that panics leave behind
\* and retirements empty.
THEOREM SessionsBoundedAlways == Spec => []SessionsBounded
<1>1. GatewayInv => SessionsBounded
  BY DEF GatewayInv, Bounded, SessionsBounded
<1> QED BY <1>1, GatewayInvariance, PTL

-----------------------------------------------------------------------------
(* The gateway implements Conversation.                                    *)

\* Workers that may run something or were sent something they have not taken.
Engaged == {w \in Workers : w \in Serving \/ queue[w] # <<>>}

\* No two of them serve the same conversation, and until the supervisor drains
\* the map leads to each.
Solo == \A v, w \in Engaged : serves[v] = serves[w] => v = w
Led == stage = "up" => \A w \in Engaged : map[serves[w]] = w /\ (w \in closed => w \in retiring)

\* An entry of the map is a worker that was started for its conversation.
Mapped == \A k \in Keys : map[k] # None => serves[map[k]] = k /\ pc[map[k]] # "unborn"

\* What a worker holds: nothing before it starts and after it is gone, a job
\* only while it processes, and once it has left its loop no accepted message,
\* unless the gateway stops.
Holds(w) ==
    /\ pc[w] \in {"unborn", "gone"} => queue[w] = <<>>
    /\ job[w] # None => pc[w] \in Processing
    /\ pc[w] \in {"drain", "finish"} => w \in closed
    /\ pc[w] = "leaving" /\ w \notin closed => shutdown
    /\ pc[w] = "finish" /\ queue[w] # <<>> => stage # "up"
    /\ pc[w] = "leaving" /\ queue[w] # <<>> => shutdown
    /\ queue[w] # <<>> => serves[w] \in Keys

ChatsInv ==
    /\ Solo /\ Led /\ Mapped
    /\ \A w \in Workers : Holds(w)
    /\ stage # "up" => shutdown

\* Where the map does not lead to a live worker, nobody is engaged for the
\* conversation.
LEMMA NobodyEngaged ==
  ASSUME GatewayInv, ChatsInv, stage = "up", NEW k \in Keys,
         map[k] = None \/ (map[k] \notin retiring /\ is_closed(map[k]))
  PROVE  \A w \in Engaged : serves[w] # k
<1> SUFFICES ASSUME NEW w \in Engaged, serves[w] = k PROVE FALSE
  OBVIOUS
<1>1. map[k] = w /\ w \in Workers /\ w # None /\ (w \in closed => w \in retiring)
  BY GatewayAssumption DEF ChatsInv, Led, Engaged
<1>2. pc[w] # "gone"
  BY <1>1 DEF ChatsInv, Holds, Engaged, Serving
<1> QED BY <1>1, <1>2 DEF is_closed

\* Every step keeps what the workers hold.
LEMMA ChatsStep ==
  ASSUME GatewayInv, GatewayInv', ChatsInv, [Next]_vars
  PROVE  ChatsInv'
<1> USE GatewayAssumption
<1>1. ASSUME NEW j \in Jobs, submit(j) PROVE ChatsInv'
  BY <1>1 DEF submit, slots, worker, TypeOK, GatewayInv, ChatsInv, Solo, Led, Mapped, Holds, Engaged, Serving, Processing
<1>2. CASE handle_submit
  BY <1>2 DEF handle_submit, slots, worker, TypeOK, GatewayInv, ChatsInv, Solo, Led, Mapped, Holds, Engaged, Serving, Processing
<1>3. CASE Route
  <2> DEFINE k == Key[admitting.job]
             w == map[k]
  <2>1. stage = "up" /\ k \in Keys /\ UNCHANGED <<shutdown, stage>>
    BY <1>3 DEF Route, Handling, GatewayInv
  <2>2. CASE UNCHANGED <<slots, worker>>
    BY <2>1, <2>2 DEF slots, worker, TypeOK, GatewayInv, ChatsInv, Solo, Led, Mapped, Holds, Engaged, Serving, Processing
  <2>3. CASE (w = None \/ (w \notin retiring /\ is_closed(w))) /\ SpawnWorker(k)
    <3>1. \A v \in Engaged : serves[v] # k
      BY <2>1, <2>3, NobodyEngaged
    <3>2. PICK f \in Fresh : /\ map' = [map EXCEPT ![k] = f]
                             /\ pc' = [pc EXCEPT ![f] = "select"]
                             /\ serves' = [serves EXCEPT ![f] = k]
                             /\ closed' = closed \ {f}
                             /\ UNCHANGED <<retiring, queue, job>>
      BY <2>3 DEF SpawnWorker
    <3>3. /\ f \in Workers /\ f # None /\ pc[f] \in {"unborn", "gone"}
          /\ \A q \in Keys : map[q] # f
      BY <3>2, GatewayAssumption DEF Fresh
    <3>4. /\ f \notin Engaged /\ queue[f] = <<>> /\ job[f] = None
          /\ Engaged' = Engaged \union {f}
      <4>1. Holds(f)
        BY <3>3 DEF ChatsInv
      <4>2. queue[f] = <<>> /\ job[f] = None
        BY <4>1, <3>3 DEF Holds, Processing
      <4>3. \A v \in Workers : pc'[v] = IF v = f THEN "select" ELSE pc[v]
        BY <3>2 DEF TypeOK, GatewayInv
      <4> QED BY <3>2, <3>3, <4>2, <4>3 DEF Engaged, Serving
    <3>5. /\ serves'[f] = k /\ map'[k] = f /\ pc'[f] = "select"
          /\ \A v \in Workers : v # f => serves'[v] = serves[v] /\ pc'[v] = pc[v]
          /\ \A q \in Keys : q # k => map'[q] = map[q]
      BY <2>1, <3>2, <3>3 DEF TypeOK, GatewayInv
    <3>6. \A v \in Engaged : /\ v \in Workers /\ v # f
                             /\ map[serves[v]] = v /\ serves[v] \in Keys
      BY <2>1, <3>4 DEF ChatsInv, Led, Engaged, Holds, GatewayInv, Named
    <3>7. Solo'
      BY <3>1, <3>4, <3>5, <3>6 DEF ChatsInv, Solo
    <3>8. Led'
      BY <2>1, <3>1, <3>2, <3>4, <3>5, <3>6 DEF ChatsInv, Led
    <3>9. Mapped'
      <4> SUFFICES ASSUME NEW q \in Keys, map'[q] # None
                   PROVE  serves'[map'[q]] = q /\ pc'[map'[q]] # "unborn"
        BY DEF Mapped
      <4>1. CASE q = k
        BY <3>5, <4>1
      <4>2. CASE q # k
        <5>1. map'[q] = map[q] /\ map[q] \in Workers /\ map[q] # f
          BY <3>3, <3>5, <4>2 DEF TypeOK, GatewayInv
        <5>2. serves[map[q]] = q /\ pc[map[q]] # "unborn"
          BY <5>1 DEF ChatsInv, Mapped
        <5> QED BY <3>5, <5>1, <5>2
      <4> QED BY <4>1, <4>2
    <3>10. \A v \in Workers : Holds(v)'
      BY <2>1, <3>2, <3>4, <3>5 DEF ChatsInv, Holds, Processing
    <3> QED BY <2>1, <3>7, <3>8, <3>9, <3>10 DEF ChatsInv
  <2>4. CASE /\ w = None \/ (w \notin retiring /\ is_closed(w))
             /\ map' = [map EXCEPT ![k] = None] /\ UNCHANGED <<retiring, worker>>
    <3>1. \A v \in Engaged : serves[v] # k
      BY <2>1, <2>4, NobodyEngaged
    <3> QED BY <2>1, <2>4, <3>1 DEF worker, TypeOK, GatewayInv, ChatsInv, Solo, Led, Mapped, Holds, Engaged, Serving, Processing
  <2> QED BY <1>3, <2>2, <2>3, <2>4 DEF Route
<1>4. CASE try_send
  <2> DEFINE k == Key[admitting.job]
             w == admitting.to
  <2>1. /\ stage = "up" /\ k \in Keys /\ w \in Workers /\ map[k] = w /\ w \notin closed
        /\ UNCHANGED <<retiring, pc, serves, job, closed, shutdown, stage>>
    BY <1>4 DEF try_send, Handling, Routed, GatewayInv
  <2>2. CASE UNCHANGED <<map, queue>>
    BY <2>1, <2>2 DEF TypeOK, GatewayInv, ChatsInv, Solo, Led, Mapped, Holds, Engaged, Serving, Processing
  <2>3. CASE is_closed(w) /\ map' = [map EXCEPT ![k] = None] /\ UNCHANGED queue
    <3>1. pc[w] = "gone" /\ w # None
      BY <2>1, <2>3, GatewayAssumption DEF is_closed
    <3>2. \A v \in Engaged : serves[v] # k
      BY <2>1, <3>1 DEF TypeOK, GatewayInv, ChatsInv, Solo, Led, Mapped, Holds, Engaged, Serving, Processing
    <3> QED BY <2>1, <2>3, <3>2 DEF TypeOK, GatewayInv, ChatsInv, Solo, Led, Mapped, Holds, Engaged, Serving, Processing
  <2>4. CASE /\ ~is_closed(w) /\ UNCHANGED map
             /\ queue' = [queue EXCEPT ![w] = Append(@, admitting.job)]
    <3>1. /\ serves[w] = k /\ pc[w] \notin {"unborn", "gone", "drain", "finish"}
          /\ pc[w] = "leaving" => shutdown
      BY <2>1, <2>4, GatewayAssumption DEF is_closed, ChatsInv, Mapped, Holds
    <3>2. /\ Engaged' \subseteq Engaged \union {w}
          /\ \A v \in Workers : v # w => queue'[v] = queue[v]
      BY <2>1, <2>4 DEF TypeOK, GatewayInv, Engaged, Serving
    <3>3. \A v \in Engaged : serves[v] = k => v = w
      BY <2>1 DEF ChatsInv, Led
    <3>4. Solo' /\ Led' /\ Mapped'
      BY <2>1, <2>4, <3>1, <3>2, <3>3 DEF ChatsInv, Solo, Led, Mapped
    <3>5. \A v \in Workers : Holds(v)'
      BY <2>1, <3>1, <3>2 DEF ChatsInv, Holds
    <3> QED BY <2>1, <3>4, <3>5 DEF ChatsInv
  <2> QED BY <1>4, <2>2, <2>3, <2>4 DEF try_send
<1>5. CASE StopAdmitting
  BY <1>5 DEF StopAdmitting, worker, TypeOK, GatewayInv, ChatsInv, Solo, Led, Mapped, Holds, Engaged, Serving, Processing
<1>6. CASE ForceWorkers
  BY <1>6 DEF ForceWorkers, slots, worker, TypeOK, GatewayInv, ChatsInv, Solo, Led, Mapped, Holds, Engaged, Serving, Processing
<1>7. CASE AbortAll
  BY <1>7 DEF AbortAll, End, slots, Alive, TypeOK, GatewayInv, ChatsInv, Solo, Led, Mapped, Holds, Engaged, Serving, Processing
<1>8. CASE Stopped
  BY <1>8 DEF Stopped, slots, worker, TypeOK, GatewayInv, ChatsInv, Solo, Led, Mapped, Holds, Engaged, Serving, Processing
<1>9. ASSUME NEW w \in Workers, Take(w) PROVE ChatsInv'
  BY <1>9, SMTT(30) DEF Take, Goto, slots, TypeOK, GatewayInv, ChatsInv, Solo, Led, Mapped, Holds, Engaged, Serving, Processing
<1>10. ASSUME NEW w \in Workers, SeesShutdown(w) PROVE ChatsInv'
  BY <1>10 DEF SeesShutdown, Goto, slots, forced, TypeOK, GatewayInv, ChatsInv, Solo, Led, Mapped, Holds, Engaged, Serving, Processing
<1>11. ASSUME NEW w \in Workers, GoesIdle(w) PROVE ChatsInv'
  BY <1>11 DEF GoesIdle, Goto, slots, TypeOK, GatewayInv, ChatsInv, Solo, Led, Mapped, Holds, Engaged, Serving, Processing
<1>12. ASSUME NEW w \in Workers, begin_retirement(w) PROVE ChatsInv'
  BY <1>12 DEF begin_retirement, Goto, MapFree, TypeOK, GatewayInv, ChatsInv, Solo, Led, Mapped, Holds, Engaged, Serving, Processing
<1>13. ASSUME NEW w \in Workers, Drained(w) PROVE ChatsInv'
  BY <1>13 DEF Drained, Goto, slots, TypeOK, GatewayInv, ChatsInv, Solo, Led, Mapped, Holds, Engaged, Serving, Processing
<1>14. ASSUME NEW w \in Workers, finish_retirement(w) PROVE ChatsInv'
  <2>1. /\ pc[w] = "finish" /\ pc' = [pc EXCEPT ![w] = "leaving"] /\ retiring' = retiring \ {w}
        /\ map' = [map EXCEPT ![serves[w]] = IF @ = w /\ w \in retiring THEN None ELSE @]
        /\ UNCHANGED <<serves, queue, job, closed, shutdown, stage>>
    BY <1>14 DEF finish_retirement, Goto
  <2>2. w \in Serving /\ serves[w] \in Keys /\ w \in closed
    BY <2>1 DEF GatewayInv, Named, ChatsInv, Holds, Serving
  <2>3. Engaged' \subseteq Engaged /\ (queue[w] = <<>> => w \notin Engaged')
    BY <2>1 DEF GatewayInv, TypeOK, Engaged, Serving
  <2>4. Solo'
    BY <2>1, <2>3 DEF ChatsInv, Solo
  <2>5. Holds(w)'
    BY ZenonT(40), <2>1, <2>2 DEF GatewayInv, TypeOK, ChatsInv, Holds, Processing
  <2>6. \A v \in Workers : Holds(v)'
    BY <2>1, <2>5 DEF GatewayInv, TypeOK, ChatsInv, Holds
  <2>7. Mapped'
    BY <2>1, <2>2 DEF GatewayInv, TypeOK, ChatsInv, Mapped
  <2>8. Led'
    <3> SUFFICES ASSUME stage = "up", NEW v \in Engaged'
                 PROVE  map'[serves[v]] = v /\ (v \in closed => v \in retiring')
      BY <2>1 DEF Led
    <3>1. v \in Engaged /\ v # w
      BY <2>1, <2>3 DEF ChatsInv, Holds
    <3>2. serves[v] # serves[w]
      BY <2>2, <3>1 DEF ChatsInv, Solo, Engaged, Serving
    <3>3. map[serves[v]] = v /\ (v \in closed => v \in retiring)
      BY <3>1 DEF ChatsInv, Led
    <3> QED BY <2>1, <3>1, <3>2, <3>3 DEF GatewayInv, TypeOK
  <2> QED BY <2>1, <2>4, <2>6, <2>7, <2>8 DEF ChatsInv
<1>15. ASSUME NEW w \in Workers, Leave(w) PROVE ChatsInv'
  BY <1>15 DEF Leave, End, slots, TypeOK, GatewayInv, ChatsInv, Solo, Led, Mapped, Holds, Engaged, Serving, Processing
<1>16. ASSUME NEW w \in Workers, ForcedShutdown(w) PROVE ChatsInv'
  BY <1>16 DEF ForcedShutdown, Abandon, forced, Goto, slots, TypeOK, GatewayInv, ChatsInv, Solo, Led, Mapped, Holds, Engaged, Serving, Processing
<1>17. ASSUME NEW w \in Workers, process(w) PROVE ChatsInv'
  <2>1. UNCHANGED <<map, retiring, serves, queue, closed, shutdown, stage>>
    BY <1>17 DEF process, record_triggered, Proceed, Abandon, slots
  <2>2. pc[w] \in Processing
    BY <1>17 DEF process, record_triggered, Proceed, Processing
  <2>3. PICK q : /\ pc' = [pc EXCEPT ![w] = q]
                 /\ \/ q \in Processing /\ UNCHANGED job
                    \/ /\ forced /\ job' = [job EXCEPT ![w] = None]
                       /\ q = IF w \in closed THEN "finish" ELSE "leaving"
    BY <1>17 DEF process, record_triggered, Proceed, Abandon, Goto, Processing
  <2>4. Engaged' \subseteq Engaged
    BY <2>1, <2>2, <2>3 DEF TypeOK, GatewayInv, ChatsInv, Solo, Led, Mapped, Holds, Engaged, Serving, Processing
  <2> QED BY <2>1, <2>2, <2>3, <2>4
          DEF forced, TypeOK, GatewayInv, ChatsInv, Solo, Led, Mapped, Holds, Processing
<1>18. ASSUME NEW w \in Workers, reply(w) PROVE ChatsInv'
  BY <1>18 DEF reply, Goto, slots, TypeOK, GatewayInv, ChatsInv, Solo, Led, Mapped, Holds, Engaged, Serving, Processing
<1>19. ASSUME NEW w \in Workers, Panic(w) PROVE ChatsInv'
  BY <1>19 DEF Panic, End, slots, TypeOK, GatewayInv, ChatsInv, Solo, Led, Mapped, Holds, Engaged, Serving, Processing
<1>20. CASE RaiseShutdown
  BY <1>20 DEF RaiseShutdown, slots, worker, TypeOK, GatewayInv, ChatsInv, Solo, Led, Mapped, Holds, Engaged, Serving, Processing
<1>21. CASE UNCHANGED vars
  BY <1>21 DEF vars, slots, worker, TypeOK, GatewayInv, ChatsInv, Solo, Led, Mapped, Holds, Engaged, Serving, Processing
<1> QED BY <1>1, <1>2, <1>3, <1>4, <1>5, <1>6, <1>7, <1>8, <1>9, <1>10, <1>11, <1>12, <1>13, <1>14, <1>15, <1>16, <1>17, <1>18, <1>19, <1>20, <1>21 DEF Next, Supervise, Work, Polled

\* The gateway starts with nothing in its workers' hands.
LEMMA ChatsInit == Init => ChatsInv
  BY GatewayAssumption
     DEF Init, ChatsInv, Solo, Led, Mapped, Holds, Engaged, Serving, Processing

\* What a worker alone holds for its conversation is what the client sees of it.
AloneWith(w) ==
    \A v \in Workers : v # w /\ serves[v] = serves[w] => queue[v] = <<>> /\ job[v] = None
SeenOf(w) ==
    (\A v \in Workers : Holds(v)) /\ AloneWith(w) =>
        WaitingOf(serves[w]) = queue[w] /\ ActiveOf(serves[w]) = job[w]
AllSeen == \A w \in Workers : SeenOf(w)

\* Where nobody else holds anything for its conversation, a worker's channel and job are all of it.
LEMMA SoleHolder == AllSeen
<1> SUFFICES ASSUME NEW w \in Workers, \A v \in Workers : Holds(v), AloneWith(w)
             PROVE  WaitingOf(serves[w]) = queue[w] /\ ActiveOf(serves[w]) = job[w]
  BY DEF AllSeen, SeenOf
<1> USE DEF AloneWith
<1> DEFINE W == {v \in Alive : serves[v] = serves[w] /\ queue[v] # <<>>}
           A == {v \in Alive : serves[v] = serves[w] /\ job[v] # None}
<1>1. W = IF queue[w] = <<>> THEN {} ELSE {w}
  BY DEF Holds, Alive, Processing
<1>2. A = IF job[w] = None THEN {} ELSE {w}
  BY DEF Holds, Alive, Processing
<1>3. WaitingOf(serves[w]) = IF W = {} THEN <<>> ELSE queue[CHOOSE v \in W : TRUE]
  BY DEF WaitingOf
<1>4. ActiveOf(serves[w]) = IF A = {} THEN None ELSE job[CHOOSE v \in A : TRUE]
  BY DEF ActiveOf
<1> HIDE DEF W, A
<1>5. W # {} => (CHOOSE v \in W : TRUE) = w
  BY <1>1
<1>6. A # {} => (CHOOSE v \in A : TRUE) = w
  BY <1>2
<1> QED BY <1>1, <1>2, <1>3, <1>4, <1>5, <1>6

\* A conversation whose workers hold what they held looks the same.
LEMMA ChatStays ==
  ASSUME \A v \in Workers : Holds(v), \A v \in Workers : Holds(v)', NEW k,
         \A v \in Workers : serves[v] = k \/ serves'[v] = k =>
             /\ queue'[v] = queue[v] /\ job'[v] = job[v]
             /\ queue[v] # <<>> \/ job[v] # None => serves'[v] = serves[v]
  PROVE  WaitingOf(k)' = WaitingOf(k) /\ ActiveOf(k)' = ActiveOf(k)
<1> DEFINE W == {v \in Alive : serves[v] = k /\ queue[v] # <<>>}
           A == {v \in Alive : serves[v] = k /\ job[v] # None}
<1>1. W' = W /\ A' = A
  BY DEF Holds, Alive, Processing
<1>2. \A v \in W : queue'[v] = queue[v]
  BY DEF Alive
<1>3. \A v \in A : job'[v] = job[v]
  BY DEF Alive
<1>4. /\ WaitingOf(k) = IF W = {} THEN <<>> ELSE queue[CHOOSE v \in W : TRUE]
      /\ WaitingOf(k)' = IF W' = {} THEN <<>> ELSE queue'[CHOOSE v \in W' : TRUE]
  BY DEF WaitingOf
<1>5. /\ ActiveOf(k) = IF A = {} THEN None ELSE job[CHOOSE v \in A : TRUE]
      /\ ActiveOf(k)' = IF A' = {} THEN None ELSE job'[CHOOSE v \in A' : TRUE]
  BY DEF ActiveOf
<1> HIDE DEF W, A
<1>6. W # {} => (CHOOSE v \in W : TRUE) \in W
  OBVIOUS
<1>7. A # {} => (CHOOSE v \in A : TRUE) \in A
  OBVIOUS
<1> QED BY <1>1, <1>2, <1>3, <1>4, <1>5, <1>6, <1>7

\* No worker holds anything for the conversation of an engaged worker, and so it
\* is for one that is about to be engaged.
LEMMA EngagedAlone ==
  ASSUME ChatsInv, NEW w \in Workers, \A v \in Engaged : serves[v] = serves[w] => v = w
  PROVE  AloneWith(w)
  BY DEF ChatsInv, Holds, Engaged, Serving, Processing, AloneWith

\* A step of one worker is a step of its conversation, and of no other.
LEMMA OneMoves ==
  ASSUME ChatsInv, ChatsInv', NEW w \in Workers, UNCHANGED serves,
         \A v \in Engaged : serves[v] = serves[w] => v = w,
         \A v \in Workers : v # w => queue'[v] = queue[v] /\ job'[v] = job[v]
  PROVE  /\ WaitingOf(serves[w]) = queue[w] /\ ActiveOf(serves[w]) = job[w]
         /\ WaitingOf(serves[w])' = queue'[w] /\ ActiveOf(serves[w])' = job'[w]
         /\ \A k \in Keys : k # serves[w] =>
                WaitingOf(k)' = WaitingOf(k) /\ ActiveOf(k)' = ActiveOf(k)
<1>1. AloneWith(w) /\ AloneWith(w)'
  <2>1. AloneWith(w)
    BY EngagedAlone
  <2> QED BY <2>1 DEF AloneWith
<1>2. (\A v \in Workers : Holds(v)) /\ (\A v \in Workers : Holds(v)')
  BY DEF ChatsInv
<1>3. WaitingOf(serves[w]) = queue[w] /\ ActiveOf(serves[w]) = job[w]
  BY <1>1, <1>2, SoleHolder DEF AllSeen, SeenOf
<1>4. WaitingOf(serves[w])' = queue'[w] /\ ActiveOf(serves[w])' = job'[w]
  <2>1. AllSeen'
    BY SoleHolder, PTL
  <2>2. SeenOf(w)'
    BY <2>1 DEF AllSeen
  <2> QED BY <1>1, <1>2, <2>2 DEF SeenOf
<1>5. ASSUME NEW k \in Keys, k # serves[w]
      PROVE  WaitingOf(k)' = WaitingOf(k) /\ ActiveOf(k)' = ActiveOf(k)
  BY <1>2, <1>5, ChatStays
<1> QED BY <1>3, <1>4, <1>5

\* A worker that serves is the only one engaged for its conversation.
LEMMA ServesAlone ==
  ASSUME GatewayInv, ChatsInv, NEW w \in Serving
  PROVE  /\ w \in Workers /\ serves[w] \in Keys
         /\ \A v \in Engaged : serves[v] = serves[w] => v = w
  BY DEF GatewayInv, Named, ChatsInv, Solo, Engaged, Serving

\* A step that moves no message.
LEMMA QuietChats ==
  ASSUME ChatsInv, ChatsInv', UNCHANGED <<queue, job, answered, panics, shutdown>>,
         \A v \in Workers : queue[v] # <<>> \/ job[v] # None => serves'[v] = serves[v]
  PROVE  UNCHANGED Chats!conversation
<1>1. \A k \in Keys : WaitingOf(k)' = WaitingOf(k) /\ ActiveOf(k)' = ActiveOf(k)
  BY ChatStays DEF ChatsInv
<1> QED BY <1>1 DEF Chats!conversation

\* While the gateway stops, a worker gives up what it holds.
LEMMA DropOne ==
  ASSUME GatewayInv, ChatsInv, ChatsInv', NEW w \in Workers, shutdown,
         \A v \in Engaged : serves[v] = serves[w] => v = w,
         UNCHANGED <<serves, answered, panics, shutdown>>,
         \A v \in Workers : v # w => queue'[v] = queue[v] /\ job'[v] = job[v],
         queue'[w] \in {queue[w], <<>>}, job'[w] \in {job[w], None}
  PROVE  Chats!Drop
<1>1. ASSUME NEW k \in Keys
      PROVE  WaitingOf(k)' \in {WaitingOf(k), <<>>} /\ ActiveOf(k)' \in {ActiveOf(k), None}
  BY OneMoves
<1> QED BY <1>1 DEF Chats!Drop

\* Every step is a step of Conversation, or changes nothing a client sees.
LEMMA ConversationStep ==
  ASSUME GatewayInv, GatewayInv', ChatsInv, ChatsInv', [Next]_vars
  PROVE  [Chats!Next]_(Chats!conversation)
<1> USE GatewayAssumption
<1>1. CASE \/ \E j \in Jobs : submit(j)
           \/ handle_submit \/ StopAdmitting \/ ForceWorkers \/ Stopped \/ UNCHANGED vars
           \/ \E w \in Workers : \/ SeesShutdown(w) \/ GoesIdle(w) \/ begin_retirement(w)
                                 \/ Drained(w) \/ finish_retirement(w)
  <2>1. UNCHANGED <<queue, job, answered, panics, shutdown, serves>>
    BY <1>1 DEF submit, handle_submit, StopAdmitting, ForceWorkers, Stopped, vars, SeesShutdown,
                GoesIdle, begin_retirement, Drained, finish_retirement, slots, worker
  <2> QED BY <2>1, QuietChats
<1>2. CASE Route
  <2>1. UNCHANGED <<queue, job, answered, panics, shutdown>>
    BY <1>2 DEF Route, SpawnWorker, worker
  <2>2. \A v \in Workers : queue[v] # <<>> \/ job[v] # None => serves'[v] = serves[v]
    <3>1. \A v \in Workers : v \in Fresh => queue[v] = <<>> /\ job[v] = None
      BY DEF Fresh, ChatsInv, Holds, Processing
    <3>2. \/ UNCHANGED serves
          \/ \E f \in Fresh : serves' = [serves EXCEPT ![f] = Key[admitting.job]]
      BY <1>2 DEF Route, SpawnWorker, worker
    <3> QED BY <3>1, <3>2 DEF GatewayInv, TypeOK
  <2> QED BY <2>1, <2>2, QuietChats
<1>3. CASE try_send
  <2>1. PICK j \in Jobs, k \in Keys, w \in Workers :
               j = admitting.job /\ k = Key[j] /\ w = admitting.to /\ map[k] = w
    BY <1>3 DEF try_send, Handling, Routed, GatewayInv
  <2>2. stage = "up" /\ w # None /\ UNCHANGED <<job, answered, panics, shutdown, serves>>
    BY <1>3 DEF try_send, Handling, GatewayInv
  <2>3. CASE UNCHANGED queue
    BY <2>3, <2>2, QuietChats
  <2>4. CASE queue' = [queue EXCEPT ![w] = Append(@, j)]
    <3>1. serves[w] = k
      BY <2>1, <2>2 DEF ChatsInv, Mapped
    <3>2. \A v \in Engaged : serves[v] = serves[w] => v = w
      BY <2>1, <2>2, <3>1 DEF ChatsInv, Led
    <3>3. /\ queue'[w] = Append(queue[w], j)
          /\ \A v \in Workers : v # w => queue'[v] = queue[v] /\ job'[v] = job[v]
      BY <2>1, <2>4, <2>2 DEF GatewayInv, TypeOK
    <3>4. /\ WaitingOf(k)' = Append(WaitingOf(k), j)
          /\ \A q \in Keys : /\ q # k => WaitingOf(q)' = WaitingOf(q)
                             /\ ActiveOf(q)' = ActiveOf(q)
      <4>1. /\ WaitingOf(serves[w]) = queue[w] /\ ActiveOf(serves[w]) = job[w]
            /\ WaitingOf(serves[w])' = queue'[w] /\ ActiveOf(serves[w])' = job'[w]
            /\ \A q \in Keys : q # serves[w] =>
                   WaitingOf(q)' = WaitingOf(q) /\ ActiveOf(q)' = ActiveOf(q)
        BY <2>2, <3>2, <3>3, OneMoves
      <4> QED BY <2>2, <3>1, <3>3, <4>1
    <3>5. Chats!Accept(j)
      <4> DEFINE before == [q \in Keys |-> WaitingOf(q)]
                 after == [q \in Keys |-> WaitingOf(q)']
      <4>1. after = [before EXCEPT ![k] = Append(@, j)]
        BY <2>1, <3>4
      <4>2. [q \in Keys |-> ActiveOf(q)'] = [q \in Keys |-> ActiveOf(q)]
        BY <3>4
      <4> QED BY <2>1, <2>2, <4>1, <4>2 DEF Chats!Accept
    <3> QED BY <2>1, <3>5 DEF Chats!Next
  <2> QED BY <1>3, <2>1, <2>3, <2>4 DEF try_send
<1>4. ASSUME NEW w \in Workers, Take(w) PROVE Chats!Next
  <2>1. /\ w \in Serving /\ job[w] = None /\ queue[w] # <<>>
        /\ UNCHANGED <<serves, answered, panics, shutdown>>
    BY <1>4 DEF Take, slots, Serving, ChatsInv, Holds, Processing
  <2>2. /\ queue'[w] = Tail(queue[w]) /\ job'[w] = Head(queue[w])
        /\ \A v \in Workers : v # w => queue'[v] = queue[v] /\ job'[v] = job[v]
    BY <1>4 DEF Take, GatewayInv, TypeOK
  <2> DEFINE k == serves[w]
  <2>3. /\ k \in Keys /\ WaitingOf(k) = queue[w] /\ ActiveOf(k) = None
        /\ WaitingOf(k)' = Tail(WaitingOf(k)) /\ ActiveOf(k)' = Head(WaitingOf(k))
        /\ \A q \in Keys : q # k => WaitingOf(q)' = WaitingOf(q) /\ ActiveOf(q)' = ActiveOf(q)
    BY <2>1, <2>2, ServesAlone, OneMoves
  <2>4. Chats!Begin(k)
    BY <2>1, <2>3 DEF Chats!Begin
  <2> QED BY <2>3, <2>4 DEF Chats!Next
<1>5. ASSUME NEW w \in Workers, reply(w) PROVE Chats!Next
  <2>1. /\ w \in Serving /\ job[w] # None /\ answered' = answered \union {job[w]}
        /\ UNCHANGED <<serves, panics, shutdown>>
    BY <1>5 DEF reply, slots, Serving, GatewayInv, Working, Processing
  <2>2. /\ queue'[w] = queue[w] /\ job'[w] = None
        /\ \A v \in Workers : v # w => queue'[v] = queue[v] /\ job'[v] = job[v]
    BY <1>5 DEF reply, GatewayInv, TypeOK
  <2> DEFINE k == serves[w]
  <2>3. /\ k \in Keys /\ ActiveOf(k) = job[w] /\ WaitingOf(k)' = WaitingOf(k) /\ ActiveOf(k)' = None
        /\ \A q \in Keys : q # k => WaitingOf(q)' = WaitingOf(q) /\ ActiveOf(q)' = ActiveOf(q)
    BY <2>1, <2>2, ServesAlone, OneMoves
  <2>4. Chats!Answer(k)
    BY <2>1, <2>3 DEF Chats!Answer
  <2> QED BY <2>3, <2>4 DEF Chats!Next
<1>6. ASSUME NEW w \in Workers, Panic(w) PROVE Chats!Next
  <2>1. w \in Serving /\ panics' = panics + 1 /\ UNCHANGED <<serves, answered, shutdown>>
    BY <1>6 DEF Panic, slots, Serving
  <2>2. /\ queue'[w] = <<>> /\ job'[w] = None
        /\ \A v \in Workers : v # w => queue'[v] = queue[v] /\ job'[v] = job[v]
    BY <1>6 DEF Panic, End
  <2> DEFINE k == serves[w]
  <2>3. /\ k \in Keys /\ WaitingOf(k)' = <<>> /\ ActiveOf(k)' = None
        /\ \A q \in Keys : q # k => WaitingOf(q)' = WaitingOf(q) /\ ActiveOf(q)' = ActiveOf(q)
    BY <2>1, <2>2, ServesAlone, OneMoves
  <2>4. Chats!Crash(k)
    BY <2>1, <2>3 DEF Chats!Crash
  <2> QED BY <2>3, <2>4 DEF Chats!Next
<1>7. ASSUME NEW w \in Workers, process(w) \/ ForcedShutdown(w)
      PROVE  [Chats!Next]_(Chats!conversation)
  <2>1. UNCHANGED <<serves, queue, answered, panics, shutdown>>
    BY <1>7 DEF process, record_triggered, Proceed, ForcedShutdown, Abandon, slots
  <2>2. CASE UNCHANGED job
    BY <2>1, <2>2, QuietChats
  <2>3. CASE forced /\ job' = [job EXCEPT ![w] = None] /\ pc[w] \in Processing
    <3>1. w \in Serving /\ shutdown
      BY <2>3 DEF Serving, Processing, forced, ChatsInv
    <3>2. /\ job'[w] = None
          /\ \A v \in Workers : v # w => queue'[v] = queue[v] /\ job'[v] = job[v]
      BY <2>1, <2>3 DEF GatewayInv, TypeOK
    <3>3. Chats!Drop
      BY <2>1, <3>1, <3>2, ServesAlone, DropOne
    <3> QED BY <3>3 DEF Chats!Next
  <2> QED BY <1>7, <2>2, <2>3
          DEF process, record_triggered, Proceed, ForcedShutdown, Abandon, Processing
<1>8. ASSUME NEW w \in Workers, Leave(w) PROVE [Chats!Next]_(Chats!conversation)
  <2>1. pc[w] = "leaving" /\ UNCHANGED <<serves, answered, panics, shutdown>>
    BY <1>8 DEF Leave, slots
  <2>2. /\ queue'[w] = <<>> /\ job'[w] = None /\ job[w] = None
        /\ \A v \in Workers : v # w => queue'[v] = queue[v] /\ job'[v] = job[v]
    BY <1>8, <2>1 DEF Leave, End, ChatsInv, Holds, Processing
  <2>3. CASE queue[w] = <<>>
    <3>1. queue' = queue /\ job' = job
      BY <1>8, <2>2, <2>3 DEF Leave, End, GatewayInv, TypeOK
    <3> QED BY <2>1, <3>1, QuietChats
  <2>4. CASE queue[w] # <<>>
    <3>1. w \in Engaged /\ shutdown
      BY <2>1, <2>4 DEF Engaged, ChatsInv, Holds
    <3>2. \A v \in Engaged : serves[v] = serves[w] => v = w
      BY <3>1 DEF ChatsInv, Solo
    <3>3. Chats!Drop
      BY <2>1, <2>2, <3>1, <3>2, DropOne
    <3> QED BY <3>3 DEF Chats!Next
  <2> QED BY <2>3, <2>4
<1>9. CASE AbortAll
  <2>1. shutdown /\ UNCHANGED <<answered, panics, shutdown>>
    BY <1>9 DEF AbortAll, ChatsInv
  <2>2. Alive' = {}
    BY <1>9 DEF AbortAll, End, Alive
  <2>3. \A k \in Keys : WaitingOf(k)' = <<>> /\ ActiveOf(k)' = None
    BY <2>2 DEF WaitingOf, ActiveOf
  <2>4. Chats!Drop
    BY <2>1, <2>3 DEF Chats!Drop
  <2> QED BY <2>4 DEF Chats!Next
<1>10. CASE RaiseShutdown
  <2>1. UNCHANGED <<queue, job, pc, serves, answered, panics>> /\ shutdown' = TRUE
    BY <1>10 DEF RaiseShutdown, worker
  <2>2. \A k \in Keys : WaitingOf(k)' = WaitingOf(k) /\ ActiveOf(k)' = ActiveOf(k)
    BY <2>1, ChatStays DEF ChatsInv
  <2>3. Chats!Stop
    BY <2>1, <2>2 DEF Chats!Stop
  <2> QED BY <2>3 DEF Chats!Next
<1> QED BY <1>1, <1>2, <1>3, <1>4, <1>5, <1>6, <1>7, <1>8, <1>9, <1>10
        DEF Next, Supervise, Work, Polled

\* Whatever retires, dies, fills up or stops: messages of a conversation are
\* answered one at a time and in the order they were accepted, and one is lost
\* only with the crash of its worker or while the gateway stops.
THEOREM GatewayImplementsConversation == Spec => ConversationsKept
<1>1. Spec => [](GatewayInv /\ ChatsInv)
  <2>1. Init => GatewayInv /\ ChatsInv
    BY GatewayInit, ChatsInit
  <2>2. GatewayInv /\ ChatsInv /\ [Next]_vars => GatewayInv' /\ ChatsInv'
    BY GatewayStep, ChatsStep
  <2> QED BY <2>1, <2>2, PTL DEF Spec
<1>2. Init => Chats!Init
  <2> SUFFICES ASSUME Init PROVE Chats!Init
    OBVIOUS
  <2>1. Alive = {}
    BY DEF Init, Alive
  <2>2. \A k \in Keys : WaitingOf(k) = <<>> /\ ActiveOf(k) = None
    BY <2>1 DEF WaitingOf, ActiveOf
  <2> QED BY <2>2 DEF Init, Chats!Init
<1>3. (GatewayInv /\ ChatsInv) /\ (GatewayInv /\ ChatsInv)' /\ [Next]_vars
        => [Chats!Next]_(Chats!conversation)
  BY ConversationStep
<1> QED BY <1>1, <1>2, <1>3, PTL DEF Spec, ConversationsKept, Chats!Spec
=============================================================================
