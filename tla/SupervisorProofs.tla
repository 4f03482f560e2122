-------------------------- MODULE SupervisorProofs --------------------------
(***************************************************************************)
(* Proofs about the supervisor, for every set of processes, every deadline *)
(* and every deadline the pool sets later.                                 *)
(***************************************************************************)
EXTENDS Supervisor, FiniteSetTheorems, SequenceTheorems, WellFoundedInduction, TLAPS

-----------------------------------------------------------------------------
(* What the pieces of a step do.                                           *)

Terminal == {"finished", "killed_timeout"}

\* The nearest deadline is one of the deadlines, and none is nearer.
LEMMA NearestOf ==
  ASSUME NEW S \in SUBSET Nat, S # {}
  PROVE  Min(S) \in S /\ \A y \in S : Min(S) <= y
<1> DEFINE R == OpToRel(<, Nat)
<1>1. PICK x \in S : \A y \in S : ~(<<y, x>> \in R)
  <2>1. IsWellFoundedOn(R, Nat)
    BY NatLessThanWellFounded
  <2> HIDE DEF R
  <2> QED BY <2>1, WFMin
<1>2. \A y \in S : ~(y < x)
  BY <1>1 DEF OpToRel
<1>3. x \in S /\ \A y \in S : x <= y
  BY <1>2
<1> QED BY <1>3 DEF Min

\* A kill turns what runs into a zombie, and touches no other child.
LEMMA KillFacts ==
  ASSUME TypeOK, NEW S, NEW by \in Kills, Kill(S, by)
  PROVE  /\ os' \in [Ids -> {"unborn", "running", "zombie", "reaped"}]
         /\ stray' \subseteq Kills
         /\ \A p \in Ids : /\ os'[p] = IF p \in S /\ os[p] = "running" THEN "zombie" ELSE os[p]
                           /\ os'[p] = "unborn" <=> os[p] = "unborn"
                           /\ os'[p] = "reaped" <=> os[p] = "reaped"
  BY DEF TypeOK, Kill

\* A SIGTERM records at most that its sender signalled a freed pid.
LEMMA TermFacts ==
  ASSUME TypeOK, NEW S, NEW by \in Kills, Term(S, by)
  PROVE  stray' \subseteq Kills
  BY DEF TypeOK, Term

\* An event is added to the processes it is about, and to no other.
LEMMA EmitFacts ==
  ASSUME TypeOK, NEW S, NEW e \in Terminal, Emit(S, e)
  PROVE  /\ events' \in [Ids -> Seq(Terminal)]
         /\ \A p \in Ids : p \notin S => events'[p] = events[p]
         /\ \A p \in Ids : p \in S => events'[p] = Append(events[p], e)
  BY DEF TypeOK, Emit, Terminal

\* What leaves the registry takes its claim and its deadline along.
LEMMA RemoveFacts ==
  ASSUME TypeOK, NEW S, Remove(S)
  PROVE  /\ registered' \subseteq Ids /\ claimed' \subseteq registered'
         /\ expires' \in [Ids -> Nat]
         /\ registered' = registered \ S /\ claimed' = claimed \ S
  BY DEF TypeOK, Remove

-----------------------------------------------------------------------------
(* One step per action.                                                    *)

\* Every step keeps the types.
LEMMA TypeStep ==
  ASSUME TypeOK, [Next]_vars
  PROVE  TypeOK'
<1> USE SupervisorAssumption DEF registry, owner, sweeper, history
<1>1. ASSUME NEW p \in Ids, Spawn(p) PROVE TypeOK'
  BY <1>1 DEF TypeOK, Spawn, Time
<1>2. ASSUME NEW p \in Ids, Exit(p) PROVE TypeOK'
  BY <1>2 DEF TypeOK, Exit
<1>3. ASSUME NEW p \in Ids, Collect(p) PROVE TypeOK'
  BY <1>3 DEF TypeOK, Collect
<1>4. ASSUME NEW p \in Ids, try_wait(p) PROVE TypeOK'
  BY <1>4 DEF TypeOK, try_wait
<1>5. ASSUME NEW p \in Ids, NEW d \in Retimes, retime(p, d) PROVE TypeOK'
  BY <1>5 DEF TypeOK, retime, Time
<1>6. ASSUME NEW p \in Ids, Wait(p) PROVE TypeOK'
  BY <1>6 DEF TypeOK, Wait, Time
<1>7. ASSUME NEW p \in Ids, WaitReturns(p) PROVE TypeOK'
  BY <1>7 DEF TypeOK, WaitReturns
<1>8. ASSUME NEW p \in Ids, finish(p) PROVE TypeOK'
  BY <1>8, RemoveFacts, EmitFacts DEF TypeOK, finish, Terminal
<1>9. ASSUME NEW p \in Ids, WaitExpires(p) PROVE TypeOK'
  <2>1. mode[p] \in Kills
    BY DEF TypeOK, Kills
  <2>2. CASE p \in registered \ claimed
    <3>1. stray' \subseteq Kills
      BY <1>9, <2>1, <2>2, TermFacts DEF WaitExpires
    <3> QED BY ZenonT(40), <1>9, <2>2, <3>1 DEF TypeOK, WaitExpires
  <2>3. CASE p \notin registered \ claimed
    BY <1>9, <2>3 DEF TypeOK, WaitExpires
  <2> QED BY <2>2, <2>3
<1>10. ASSUME NEW p \in Ids, KillExpired(p) PROVE TypeOK'
  <2>1. mode[p] \in Kills
    BY DEF TypeOK, Kills
  <2>2. /\ os' \in [Ids -> {"unborn", "running", "zombie", "reaped"}]
        /\ stray' \subseteq Kills
    BY <1>10, <2>1, KillFacts DEF KillExpired
  <2>3. events' \in [Ids -> Seq(Terminal)]
    BY <1>10, EmitFacts DEF KillExpired, Terminal
  <2> QED BY <1>10, <2>2, <2>3, RemoveFacts DEF TypeOK, KillExpired, Terminal
<1>11. ASSUME NEW p \in Ids, CancelOutput(p) PROVE TypeOK'
  BY <1>11 DEF TypeOK, CancelOutput
<1>12. ASSUME NEW p \in Ids, CancelWait(p) PROVE TypeOK'
  BY ZenonT(40), <1>12, KillFacts, RemoveFacts, EmitFacts DEF TypeOK, CancelWait, Terminal, Kills
<1>13. ASSUME NEW p \in Ids, DropHandle(p) PROVE TypeOK'
  BY ZenonT(40), <1>13 DEF TypeOK, DropHandle
<1>14. ASSUME NEW p \in Ids, deregister(p) PROVE TypeOK'
  BY <1>14, RemoveFacts DEF TypeOK, deregister
<1>15. ASSUME NEW p \in Ids, terminate(p) PROVE TypeOK'
  BY <1>15, TermFacts DEF TypeOK, terminate, Kills
<1>16. ASSUME NEW p \in Ids, TerminateEnds(p) PROVE TypeOK'
  BY ZenonT(40), <1>16, KillFacts, RemoveFacts, EmitFacts DEF TypeOK, TerminateEnds, Terminal, Kills
<1>17. ASSUME NEW p \in Ids, TerminateAborted(p) PROVE TypeOK'
  BY <1>17 DEF TypeOK, TerminateAborted
<1>18. CASE Subscribe
  BY <1>18 DEF TypeOK, Subscribe
<1>19. CASE next_deadline
  <2>1. CASE registered \ claimed = {}
    BY <1>19, <2>1 DEF TypeOK, next_deadline
  <2>2. CASE registered \ claimed # {}
    <3> DEFINE D == {expires[p] : p \in registered \ claimed}
    <3>1. D \subseteq Nat /\ D # {}
      BY <2>2 DEF TypeOK
    <3>2. Min(D) \in Nat
      <4> HIDE DEF D
      <4> QED BY <3>1, NearestOf
    <3> QED BY <1>19, <2>2, <3>2 DEF TypeOK, next_deadline
  <2> QED BY <2>1, <2>2
<1>20. CASE WakeUp
  BY <1>20 DEF TypeOK, WakeUp
<1>21. CASE sweep_once
  BY <1>21, TermFacts DEF TypeOK, sweep_once, Kills, Overdue
<1>22. CASE SweepKills
  BY <1>22, KillFacts, RemoveFacts, EmitFacts DEF TypeOK, SweepKills, Terminal, Kills
<1>23. CASE Stop
  BY <1>23 DEF TypeOK, Stop
<1>24. CASE shutdown
  BY <1>24, TermFacts DEF TypeOK, shutdown, Kills
<1>25. CASE ShutdownKills
  BY <1>25, KillFacts DEF TypeOK, ShutdownKills, Kills
<1>26. CASE Pass
  BY <1>26 DEF TypeOK, Pass, Time
<1>27. CASE UNCHANGED vars
  BY <1>27 DEF TypeOK, vars
<1> QED BY <1>1, <1>2, <1>3, <1>4, <1>5, <1>6, <1>7, <1>8, <1>9, <1>10, <1>11, <1>12, <1>13, <1>14, <1>15, <1>16, <1>17, <1>18, <1>19, <1>20, <1>21, <1>22, <1>23, <1>24, <1>25, <1>26, <1>27 DEF Next, Reaper

\* Every step keeps what the owners know.
LEMMA KnowStep ==
  ASSUME TypeOK, OwnersKnow, [Next]_vars
  PROVE  OwnersKnow'
<1> USE SupervisorAssumption DEF registry, owner, sweeper, history
<1>1. ASSUME NEW p \in Ids, Spawn(p) PROVE OwnersKnow'
  BY <1>1 DEF TypeOK, OwnersKnow, OwnerKnows, Spawn
<1>2. ASSUME NEW p \in Ids, Exit(p) PROVE OwnersKnow'
  BY <1>2 DEF TypeOK, OwnersKnow, OwnerKnows, Exit
<1>3. ASSUME NEW p \in Ids, Collect(p) PROVE OwnersKnow'
  BY <1>3 DEF TypeOK, OwnersKnow, OwnerKnows, Collect
<1>4. ASSUME NEW p \in Ids, try_wait(p) PROVE OwnersKnow'
  BY <1>4 DEF TypeOK, OwnersKnow, OwnerKnows, try_wait
<1>5. ASSUME NEW p \in Ids, NEW d \in Retimes, retime(p, d) PROVE OwnersKnow'
  BY <1>5 DEF TypeOK, OwnersKnow, OwnerKnows, retime
<1>6. ASSUME NEW p \in Ids, Wait(p) PROVE OwnersKnow'
  <2>1. PICK m \in {"status", "output"} : mode' = [mode EXCEPT ![p] = m]
    BY <1>6 DEF Wait
  <2> QED BY <1>6, <2>1 DEF TypeOK, OwnersKnow, OwnerKnows, Wait
<1>7. ASSUME NEW p \in Ids, WaitReturns(p) PROVE OwnersKnow'
  BY <1>7 DEF TypeOK, OwnersKnow, OwnerKnows, WaitReturns
<1>8. ASSUME NEW p \in Ids, finish(p) PROVE OwnersKnow'
  <2>1. CASE p \in registered \ claimed
    <3>1. \A q \in Ids : q # p => events'[q] = events[q]
      BY <1>8, <2>1, EmitFacts DEF finish, Terminal
    <3>2. registered' = registered \ {p} /\ claimed' = claimed \ {p}
      BY <1>8, <2>1 DEF finish, Remove
    <3> QED BY <1>8, <2>1, <3>1, <3>2 DEF TypeOK, OwnersKnow, OwnerKnows, finish
  <2>2. CASE p \notin registered \ claimed
    BY <1>8, <2>2 DEF TypeOK, OwnersKnow, OwnerKnows, finish
  <2> QED BY <2>1, <2>2
<1>9. ASSUME NEW p \in Ids, WaitExpires(p) PROVE OwnersKnow'
  BY <1>9 DEF TypeOK, OwnersKnow, OwnerKnows, WaitExpires
<1>10. ASSUME NEW p \in Ids, KillExpired(p) PROVE OwnersKnow'
  <2>1. \A q \in Ids : q # p => events'[q] = events[q]
    BY <1>10, EmitFacts DEF KillExpired, Terminal
  <2>2. registered' = registered \ {p} /\ claimed' = claimed \ {p}
    BY <1>10 DEF KillExpired, Remove
  <2>3. \A q \in Ids : /\ os'[q] = "unborn" <=> os[q] = "unborn"
                       /\ os'[q] = "reaped" <=> os[q] = "reaped"
    BY <1>10, KillFacts DEF KillExpired, TypeOK, Kills
  <2> QED BY <1>10, <2>1, <2>2, <2>3 DEF TypeOK, OwnersKnow, OwnerKnows, KillExpired
<1>11. ASSUME NEW p \in Ids, CancelOutput(p) PROVE OwnersKnow'
  BY <1>11 DEF TypeOK, OwnersKnow, OwnerKnows, CancelOutput
<1>12. ASSUME NEW p \in Ids, CancelWait(p) PROVE OwnersKnow'
  <2> DEFINE mine == \/ handle[p] = "killing"
                     \/ handle[p] # "collecting" /\ p \in registered \ claimed
             by == IF mode[p] = "output" THEN "cancel_output" ELSE "cancel_status"
  <2>1. CASE mine
    <3>1. p \in registered
      BY <2>1 DEF TypeOK, OwnersKnow, OwnerKnows
    <3>2. Kill({p}, by) /\ Remove({p}) /\ Emit({p}, "finished")
      BY <1>12, <2>1 DEF CancelWait
    <3>3. \A q \in Ids : q # p => events'[q] = events[q]
      BY <3>2, EmitFacts DEF Terminal
    <3>4. registered' = registered \ {p} /\ claimed' = claimed \ {p}
      BY <3>2 DEF Remove
    <3>5. by \in Kills
      BY DEF Kills
    <3>6. \A q \in Ids : /\ os'[q] = "unborn" <=> os[q] = "unborn"
                         /\ os'[q] = "reaped" <=> os[q] = "reaped"
      BY <3>2, <3>5, KillFacts
    <3>7. /\ handle' = [handle EXCEPT ![p] = "done"] /\ released' = released \union {p}
          /\ UNCHANGED <<mode, terminating, reaper, victims, opted>>
      BY <1>12 DEF CancelWait
    <3> QED BY <3>1, <3>3, <3>4, <3>6, <3>7, <1>12 DEF TypeOK, OwnersKnow, OwnerKnows, CancelWait
  <2>2. CASE ~mine
    BY <1>12, <2>2 DEF TypeOK, OwnersKnow, OwnerKnows, CancelWait
  <2> QED BY <2>1, <2>2
<1>13. ASSUME NEW p \in Ids, DropHandle(p) PROVE OwnersKnow'
  BY <1>13 DEF TypeOK, OwnersKnow, OwnerKnows, DropHandle
<1>14. ASSUME NEW p \in Ids, deregister(p) PROVE OwnersKnow'
  BY <1>14, RemoveFacts DEF TypeOK, OwnersKnow, OwnerKnows, deregister
<1>15. ASSUME NEW p \in Ids, terminate(p) PROVE OwnersKnow'
  BY <1>15 DEF TypeOK, OwnersKnow, OwnerKnows, terminate
<1>16. ASSUME NEW p \in Ids, TerminateEnds(p) PROVE OwnersKnow'
  <2>1. p \in registered
    BY <1>16 DEF TerminateEnds, TypeOK, OwnersKnow, OwnerKnows
  <2>2. \A q \in Ids : q # p => events'[q] = events[q]
    BY <1>16, <2>1, EmitFacts DEF TerminateEnds, Terminal
  <2>3. registered' = registered \ {p} /\ claimed' = claimed \ {p}
    BY <1>16, <2>1 DEF TerminateEnds, Remove
  <2>4. \A q \in Ids : /\ os'[q] = "unborn" <=> os[q] = "unborn"
                       /\ os'[q] = "reaped" <=> os[q] = "reaped"
    BY <1>16, KillFacts DEF TerminateEnds, Kills
  <2> QED BY <1>16, <2>1, <2>2, <2>3, <2>4 DEF TypeOK, OwnersKnow, OwnerKnows, TerminateEnds
<1>17. ASSUME NEW p \in Ids, TerminateAborted(p) PROVE OwnersKnow'
  BY <1>17 DEF TypeOK, OwnersKnow, OwnerKnows, TerminateAborted
<1>18. CASE Subscribe
  BY <1>18 DEF TypeOK, OwnersKnow, OwnerKnows, Subscribe
<1>19. CASE next_deadline
  BY <1>19 DEF TypeOK, OwnersKnow, OwnerKnows, next_deadline
<1>20. CASE WakeUp
  BY <1>20 DEF TypeOK, OwnersKnow, OwnerKnows, WakeUp
<1>21. CASE sweep_once
  BY <1>21 DEF TypeOK, OwnersKnow, OwnerKnows, sweep_once, Overdue
<1>22. CASE SweepKills
  <2>1. \A q \in Ids : q \notin victims \intersect registered => events'[q] = events[q]
    BY <1>22, EmitFacts DEF SweepKills, Terminal
  <2>2. registered' = registered \ victims /\ claimed' = claimed \ victims
    BY <1>22 DEF SweepKills, Remove
  <2>3. \A q \in Ids : /\ os'[q] = "unborn" <=> os[q] = "unborn"
                       /\ os'[q] = "reaped" <=> os[q] = "reaped"
    BY <1>22, KillFacts DEF SweepKills, Kills
  <2> QED BY <1>22, <2>1, <2>2, <2>3 DEF TypeOK, OwnersKnow, OwnerKnows, SweepKills
<1>23. CASE Stop
  BY <1>23 DEF TypeOK, OwnersKnow, OwnerKnows, Stop
<1>24. CASE shutdown
  BY <1>24 DEF TypeOK, OwnersKnow, OwnerKnows, shutdown
<1>25. CASE ShutdownKills
  BY <1>25, KillFacts DEF TypeOK, OwnersKnow, OwnerKnows, ShutdownKills, Kills
<1>26. CASE Pass
  BY <1>26 DEF TypeOK, OwnersKnow, OwnerKnows, Pass
<1>27. CASE UNCHANGED vars
  BY <1>27 DEF OwnersKnow, OwnerKnows, vars
<1> QED BY <1>1, <1>2, <1>3, <1>4, <1>5, <1>6, <1>7, <1>8, <1>9, <1>10, <1>11, <1>12, <1>13, <1>14, <1>15, <1>16, <1>17, <1>18, <1>19, <1>20, <1>21, <1>22, <1>23, <1>24, <1>25, <1>26, <1>27 DEF Next, Reaper

\* While the daemon is up every claim has an owner.
ClaimsAreHeld ==
    stage = "up" => \A p \in claimed : \/ p \in victims \/ p \in terminating
                                       \/ handle[p] = "killing"

\* What the owners know keeps the hands that may hold a claim apart, so that one
\* owner for each claim is the same as some owner.
LEMMA OneOwner ==
  ASSUME TypeOK, OwnersKnow
  PROVE  ClaimHasOneOwner <=> ClaimsAreHeld
<1> DEFINE Owners(p) == {o \in {"reaper", "terminate", "waiter"} :
                           \/ o = "reaper" /\ p \in victims
                           \/ o = "terminate" /\ p \in terminating
                           \/ o = "waiter" /\ handle[p] = "killing"}
<1>1. ASSUME NEW p \in claimed PROVE Cardinality(Owners(p)) <= 1
  <2>1. p \in Ids
    BY DEF TypeOK
  <2>2. \/ Owners(p) = {} \/ Owners(p) = {"reaper"} \/ Owners(p) = {"terminate"}
        \/ Owners(p) = {"waiter"}
    BY <2>1 DEF OwnersKnow, OwnerKnows
  <2>3. \A o : Cardinality({o}) = 1
    BY FS_Singleton
  <2>4. Cardinality({}) = 0
    BY FS_EmptySet
  <2> HIDE DEF Owners
  <2>5. Cardinality(Owners(p)) = 0 \/ Cardinality(Owners(p)) = 1
    BY <2>2, <2>3, <2>4
  <2> QED BY <2>5
<1>2. ASSUME NEW p \in claimed
      PROVE  Owners(p) # {} <=> (p \in victims \/ p \in terminating \/ handle[p] = "killing")
  OBVIOUS
<1>3. ClaimHasOneOwner
        <=> \A p \in claimed : Cardinality(Owners(p)) <= 1 /\ (stage = "up" => Owners(p) # {})
  BY DEF ClaimHasOneOwner
<1> HIDE DEF Owners
<1> QED BY <1>1, <1>2, <1>3 DEF ClaimsAreHeld

\* While the daemon is up no step leaves a claim without its owner.
LEMMA HeldStep ==
  ASSUME TypeOK, OwnersKnow, ClaimsAreHeld, [Next]_vars
  PROVE  ClaimsAreHeld'
<1> USE SupervisorAssumption DEF registry, owner, sweeper, history
<1>1. ASSUME NEW p \in Ids, Spawn(p) PROVE ClaimsAreHeld'
  BY <1>1 DEF TypeOK, OwnersKnow, OwnerKnows, ClaimsAreHeld, Spawn
<1>2. ASSUME NEW p \in Ids, Exit(p) PROVE ClaimsAreHeld'
  BY <1>2 DEF TypeOK, OwnersKnow, OwnerKnows, ClaimsAreHeld, Exit
<1>3. ASSUME NEW p \in Ids, Collect(p) PROVE ClaimsAreHeld'
  BY <1>3 DEF TypeOK, OwnersKnow, OwnerKnows, ClaimsAreHeld, Collect
<1>4. ASSUME NEW p \in Ids, try_wait(p) PROVE ClaimsAreHeld'
  BY <1>4 DEF TypeOK, OwnersKnow, OwnerKnows, ClaimsAreHeld, try_wait
<1>5. ASSUME NEW p \in Ids, NEW d \in Retimes, retime(p, d) PROVE ClaimsAreHeld'
  BY <1>5 DEF TypeOK, OwnersKnow, OwnerKnows, ClaimsAreHeld, retime
<1>6. ASSUME NEW p \in Ids, Wait(p) PROVE ClaimsAreHeld'
  BY <1>6 DEF TypeOK, OwnersKnow, OwnerKnows, ClaimsAreHeld, Wait
<1>7. ASSUME NEW p \in Ids, WaitReturns(p) PROVE ClaimsAreHeld'
  BY <1>7 DEF TypeOK, OwnersKnow, OwnerKnows, ClaimsAreHeld, WaitReturns
<1>8. ASSUME NEW p \in Ids, finish(p) PROVE ClaimsAreHeld'
  BY <1>8 DEF TypeOK, OwnersKnow, OwnerKnows, ClaimsAreHeld, finish, Remove
<1>9. ASSUME NEW p \in Ids, WaitExpires(p) PROVE ClaimsAreHeld'
  BY <1>9 DEF TypeOK, OwnersKnow, OwnerKnows, ClaimsAreHeld, WaitExpires
<1>10. ASSUME NEW p \in Ids, KillExpired(p) PROVE ClaimsAreHeld'
  BY <1>10 DEF TypeOK, OwnersKnow, OwnerKnows, ClaimsAreHeld, KillExpired, Remove
<1>11. ASSUME NEW p \in Ids, CancelOutput(p) PROVE ClaimsAreHeld'
  BY <1>11 DEF TypeOK, OwnersKnow, OwnerKnows, ClaimsAreHeld, CancelOutput
<1>12. ASSUME NEW p \in Ids, CancelWait(p) PROVE ClaimsAreHeld'
  BY <1>12 DEF TypeOK, OwnersKnow, OwnerKnows, ClaimsAreHeld, CancelWait, Remove
<1>13. ASSUME NEW p \in Ids, DropHandle(p) PROVE ClaimsAreHeld'
  BY <1>13 DEF TypeOK, OwnersKnow, OwnerKnows, ClaimsAreHeld, DropHandle
<1>14. ASSUME NEW p \in Ids, deregister(p) PROVE ClaimsAreHeld'
  BY <1>14 DEF TypeOK, OwnersKnow, OwnerKnows, ClaimsAreHeld, deregister, Remove
<1>15. ASSUME NEW p \in Ids, terminate(p) PROVE ClaimsAreHeld'
  BY <1>15 DEF TypeOK, OwnersKnow, OwnerKnows, ClaimsAreHeld, terminate
<1>16. ASSUME NEW p \in Ids, TerminateEnds(p) PROVE ClaimsAreHeld'
  BY <1>16 DEF TypeOK, OwnersKnow, OwnerKnows, ClaimsAreHeld, TerminateEnds, Remove
<1>17. ASSUME NEW p \in Ids, TerminateAborted(p) PROVE ClaimsAreHeld'
  BY <1>17 DEF TypeOK, OwnersKnow, OwnerKnows, ClaimsAreHeld, TerminateAborted
<1>18. CASE Subscribe
  BY <1>18 DEF TypeOK, OwnersKnow, OwnerKnows, ClaimsAreHeld, Subscribe
<1>19. CASE next_deadline
  BY <1>19 DEF TypeOK, OwnersKnow, OwnerKnows, ClaimsAreHeld, next_deadline
<1>20. CASE WakeUp
  BY <1>20 DEF TypeOK, OwnersKnow, OwnerKnows, ClaimsAreHeld, WakeUp
<1>21. CASE sweep_once
  BY <1>21 DEF TypeOK, OwnersKnow, OwnerKnows, ClaimsAreHeld, sweep_once, Overdue
<1>22. CASE SweepKills
  BY <1>22 DEF TypeOK, OwnersKnow, OwnerKnows, ClaimsAreHeld, SweepKills, Remove
<1>23. CASE Stop
  BY <1>23 DEF TypeOK, OwnersKnow, OwnerKnows, ClaimsAreHeld, Stop
<1>24. CASE shutdown
  BY <1>24 DEF TypeOK, OwnersKnow, OwnerKnows, ClaimsAreHeld, shutdown
<1>25. CASE ShutdownKills
  BY <1>25 DEF TypeOK, OwnersKnow, OwnerKnows, ClaimsAreHeld, ShutdownKills
<1>26. CASE Pass
  BY <1>26 DEF TypeOK, OwnersKnow, OwnerKnows, ClaimsAreHeld, Pass
<1>27. CASE UNCHANGED vars
  BY <1>27 DEF ClaimsAreHeld, vars
<1> QED BY <1>1, <1>2, <1>3, <1>4, <1>5, <1>6, <1>7, <1>8, <1>9, <1>10, <1>11, <1>12, <1>13, <1>14, <1>15, <1>16, <1>17, <1>18, <1>19, <1>20, <1>21, <1>22, <1>23, <1>24, <1>25, <1>26, <1>27 DEF Next, Reaper

\* No step leaves the reaper asleep past a deadline without waking it.
LEMMA OversleepStep ==
  ASSUME TypeOK, NeverOversleeps, [Next]_vars
  PROVE  NeverOversleeps'
<1> USE SupervisorAssumption DEF registry, owner, sweeper, history
<1>1. ASSUME NEW p \in Ids, Spawn(p) PROVE NeverOversleeps'
  BY <1>1 DEF TypeOK, NeverOversleeps, Spawn
<1>2. ASSUME NEW p \in Ids, Exit(p) PROVE NeverOversleeps'
  BY <1>2 DEF TypeOK, NeverOversleeps, Exit
<1>3. ASSUME NEW p \in Ids, Collect(p) PROVE NeverOversleeps'
  BY <1>3 DEF TypeOK, NeverOversleeps, Collect
<1>4. ASSUME NEW p \in Ids, try_wait(p) PROVE NeverOversleeps'
  BY <1>4 DEF TypeOK, NeverOversleeps, try_wait
<1>5. ASSUME NEW p \in Ids, NEW d \in Retimes, retime(p, d) PROVE NeverOversleeps'
  BY <1>5 DEF TypeOK, NeverOversleeps, retime
<1>6. ASSUME NEW p \in Ids, Wait(p) PROVE NeverOversleeps'
  BY <1>6 DEF TypeOK, NeverOversleeps, Wait
<1>7. ASSUME NEW p \in Ids, WaitReturns(p) PROVE NeverOversleeps'
  BY <1>7 DEF TypeOK, NeverOversleeps, WaitReturns
<1>8. ASSUME NEW p \in Ids, finish(p) PROVE NeverOversleeps'
  BY <1>8 DEF TypeOK, NeverOversleeps, finish, Remove
<1>9. ASSUME NEW p \in Ids, WaitExpires(p) PROVE NeverOversleeps'
  BY <1>9 DEF TypeOK, NeverOversleeps, WaitExpires
<1>10. ASSUME NEW p \in Ids, KillExpired(p) PROVE NeverOversleeps'
  BY <1>10 DEF TypeOK, NeverOversleeps, KillExpired, Remove
<1>11. ASSUME NEW p \in Ids, CancelOutput(p) PROVE NeverOversleeps'
  BY <1>11 DEF TypeOK, NeverOversleeps, CancelOutput
<1>12. ASSUME NEW p \in Ids, CancelWait(p) PROVE NeverOversleeps'
  BY <1>12 DEF TypeOK, NeverOversleeps, CancelWait, Remove
<1>13. ASSUME NEW p \in Ids, DropHandle(p) PROVE NeverOversleeps'
  BY <1>13 DEF TypeOK, NeverOversleeps, DropHandle
<1>14. ASSUME NEW p \in Ids, deregister(p) PROVE NeverOversleeps'
  BY <1>14 DEF TypeOK, NeverOversleeps, deregister, Remove
<1>15. ASSUME NEW p \in Ids, terminate(p) PROVE NeverOversleeps'
  BY <1>15 DEF TypeOK, NeverOversleeps, terminate
<1>16. ASSUME NEW p \in Ids, TerminateEnds(p) PROVE NeverOversleeps'
  BY <1>16 DEF TypeOK, NeverOversleeps, TerminateEnds, Remove
<1>17. ASSUME NEW p \in Ids, TerminateAborted(p) PROVE NeverOversleeps'
  BY <1>17 DEF TypeOK, NeverOversleeps, TerminateAborted
<1>18. CASE Subscribe
  BY <1>18 DEF TypeOK, NeverOversleeps, Subscribe
<1>19. CASE next_deadline
  <2>1. CASE registered \ claimed = {}
    BY <1>19, <2>1 DEF TypeOK, NeverOversleeps, next_deadline
  <2>2. CASE registered \ claimed # {}
    <3> DEFINE D == {expires[p] : p \in registered \ claimed}
    <3>1. D \subseteq Nat /\ D # {}
      BY <2>2 DEF TypeOK
    <3>2. \A y \in D : Min(D) <= y
      <4> HIDE DEF D
      <4> QED BY <3>1, NearestOf
    <3>3. \A p \in registered \ claimed : Min(D) <= expires[p]
      BY <3>2
    <3> QED BY <1>19, <2>2, <3>3 DEF TypeOK, NeverOversleeps, next_deadline
  <2> QED BY <2>1, <2>2
<1>20. CASE WakeUp
  BY <1>20 DEF TypeOK, NeverOversleeps, WakeUp
<1>21. CASE sweep_once
  BY <1>21 DEF TypeOK, NeverOversleeps, sweep_once
<1>22. CASE SweepKills
  BY <1>22 DEF TypeOK, NeverOversleeps, SweepKills, Remove
<1>23. CASE Stop
  BY <1>23 DEF TypeOK, NeverOversleeps, Stop
<1>24. CASE shutdown
  BY <1>24 DEF TypeOK, NeverOversleeps, shutdown
<1>25. CASE ShutdownKills
  BY <1>25 DEF TypeOK, NeverOversleeps, ShutdownKills
<1>26. CASE Pass
  BY <1>26 DEF TypeOK, NeverOversleeps, Pass
<1>27. CASE UNCHANGED vars
  BY <1>27 DEF NeverOversleeps, vars
<1> QED BY <1>1, <1>2, <1>3, <1>4, <1>5, <1>6, <1>7, <1>8, <1>9, <1>10, <1>11, <1>12, <1>13, <1>14, <1>15, <1>16, <1>17, <1>18, <1>19, <1>20, <1>21, <1>22, <1>23, <1>24, <1>25, <1>26, <1>27 DEF Next, Reaper

\* No step loses sight of a child that runs.
LEMMA EscapeStep ==
  ASSUME TypeOK, OwnersKnow, NothingEscapes, [Next]_vars
  PROVE  NothingEscapes'
<1> USE SupervisorAssumption DEF registry, owner, sweeper, history
<1>1. ASSUME NEW p \in Ids, Spawn(p) PROVE NothingEscapes'
  BY <1>1 DEF TypeOK, OwnersKnow, OwnerKnows, NothingEscapes, Spawn, Running
<1>2. ASSUME NEW p \in Ids, Exit(p) PROVE NothingEscapes'
  BY <1>2 DEF TypeOK, OwnersKnow, OwnerKnows, NothingEscapes, Exit, Running
<1>3. ASSUME NEW p \in Ids, Collect(p) PROVE NothingEscapes'
  BY <1>3 DEF TypeOK, OwnersKnow, OwnerKnows, NothingEscapes, Collect, Running
<1>4. ASSUME NEW p \in Ids, try_wait(p) PROVE NothingEscapes'
  BY <1>4 DEF TypeOK, OwnersKnow, OwnerKnows, NothingEscapes, try_wait, Running
<1>5. ASSUME NEW p \in Ids, NEW d \in Retimes, retime(p, d) PROVE NothingEscapes'
  BY <1>5 DEF TypeOK, OwnersKnow, OwnerKnows, NothingEscapes, retime, Running
<1>6. ASSUME NEW p \in Ids, Wait(p) PROVE NothingEscapes'
  BY <1>6 DEF TypeOK, OwnersKnow, OwnerKnows, NothingEscapes, Wait, Running
<1>7. ASSUME NEW p \in Ids, WaitReturns(p) PROVE NothingEscapes'
  BY <1>7 DEF TypeOK, OwnersKnow, OwnerKnows, NothingEscapes, WaitReturns, Running
<1>8. ASSUME NEW p \in Ids, finish(p) PROVE NothingEscapes'
  BY <1>8 DEF TypeOK, OwnersKnow, OwnerKnows, NothingEscapes, finish, Remove, Kill, Running
<1>9. ASSUME NEW p \in Ids, WaitExpires(p) PROVE NothingEscapes'
  BY <1>9 DEF TypeOK, OwnersKnow, OwnerKnows, NothingEscapes, WaitExpires, Running
<1>10. ASSUME NEW p \in Ids, KillExpired(p) PROVE NothingEscapes'
  BY <1>10 DEF TypeOK, OwnersKnow, OwnerKnows, NothingEscapes, KillExpired, Remove, Kill, Running
<1>11. ASSUME NEW p \in Ids, CancelOutput(p) PROVE NothingEscapes'
  BY <1>11 DEF TypeOK, OwnersKnow, OwnerKnows, NothingEscapes, CancelOutput, Running
<1>12. ASSUME NEW p \in Ids, CancelWait(p) PROVE NothingEscapes'
  BY <1>12 DEF TypeOK, OwnersKnow, OwnerKnows, NothingEscapes, CancelWait, Remove, Kill, Running
<1>13. ASSUME NEW p \in Ids, DropHandle(p) PROVE NothingEscapes'
  BY <1>13 DEF TypeOK, OwnersKnow, OwnerKnows, NothingEscapes, DropHandle, Running
<1>14. ASSUME NEW p \in Ids, deregister(p) PROVE NothingEscapes'
  BY <1>14 DEF TypeOK, OwnersKnow, OwnerKnows, NothingEscapes, deregister, Remove, Kill, Running
<1>15. ASSUME NEW p \in Ids, terminate(p) PROVE NothingEscapes'
  BY <1>15 DEF TypeOK, OwnersKnow, OwnerKnows, NothingEscapes, terminate, Running
<1>16. ASSUME NEW p \in Ids, TerminateEnds(p) PROVE NothingEscapes'
  BY <1>16 DEF TypeOK, OwnersKnow, OwnerKnows, NothingEscapes, TerminateEnds, Remove, Kill, Running
<1>17. ASSUME NEW p \in Ids, TerminateAborted(p) PROVE NothingEscapes'
  BY <1>17 DEF TypeOK, OwnersKnow, OwnerKnows, NothingEscapes, TerminateAborted, Running
<1>18. CASE Subscribe
  BY <1>18 DEF TypeOK, OwnersKnow, OwnerKnows, NothingEscapes, Subscribe, Running
<1>19. CASE next_deadline
  BY <1>19 DEF TypeOK, OwnersKnow, OwnerKnows, NothingEscapes, next_deadline, Running
<1>20. CASE WakeUp
  BY <1>20 DEF TypeOK, OwnersKnow, OwnerKnows, NothingEscapes, WakeUp, Running
<1>21. CASE sweep_once
  BY <1>21 DEF TypeOK, OwnersKnow, OwnerKnows, NothingEscapes, sweep_once, Running
<1>22. CASE SweepKills
  BY <1>22 DEF TypeOK, OwnersKnow, OwnerKnows, NothingEscapes, SweepKills, Remove, Kill, Running
<1>23. CASE Stop
  BY <1>23 DEF TypeOK, OwnersKnow, OwnerKnows, NothingEscapes, Stop, Running
<1>24. CASE shutdown
  BY <1>24 DEF TypeOK, OwnersKnow, OwnerKnows, NothingEscapes, shutdown, Running
<1>25. CASE ShutdownKills
  BY <1>25 DEF TypeOK, OwnersKnow, OwnerKnows, NothingEscapes, ShutdownKills, Remove, Kill, Running
<1>26. CASE Pass
  BY <1>26 DEF TypeOK, OwnersKnow, OwnerKnows, NothingEscapes, Pass, Running
<1>27. CASE UNCHANGED vars
  BY <1>27 DEF NothingEscapes, vars
<1> QED BY <1>1, <1>2, <1>3, <1>4, <1>5, <1>6, <1>7, <1>8, <1>9, <1>10, <1>11, <1>12, <1>13, <1>14, <1>15, <1>16, <1>17, <1>18, <1>19, <1>20, <1>21, <1>22, <1>23, <1>24, <1>25, <1>26, <1>27 DEF Next, Reaper

\* No step has wait_status signal a pid it has let go of.
LEMMA SignalStep ==
  ASSUME TypeOK, OwnersKnow, StatusWaiterSignalsItsOwn, [Next]_vars
  PROVE  StatusWaiterSignalsItsOwn'
<1> USE SupervisorAssumption DEF registry, owner, sweeper, history
<1>1. ASSUME NEW p \in Ids, Spawn(p) PROVE StatusWaiterSignalsItsOwn'
  BY <1>1 DEF StatusWaiterSignalsItsOwn, Spawn
<1>2. ASSUME NEW p \in Ids, Exit(p) PROVE StatusWaiterSignalsItsOwn'
  BY <1>2 DEF StatusWaiterSignalsItsOwn, Exit
<1>3. ASSUME NEW p \in Ids, Collect(p) PROVE StatusWaiterSignalsItsOwn'
  BY <1>3 DEF StatusWaiterSignalsItsOwn, Collect
<1>4. ASSUME NEW p \in Ids, try_wait(p) PROVE StatusWaiterSignalsItsOwn'
  BY <1>4 DEF StatusWaiterSignalsItsOwn, try_wait
<1>5. ASSUME NEW p \in Ids, NEW d \in Retimes, retime(p, d) PROVE StatusWaiterSignalsItsOwn'
  BY <1>5 DEF StatusWaiterSignalsItsOwn, retime
<1>6. ASSUME NEW p \in Ids, Wait(p) PROVE StatusWaiterSignalsItsOwn'
  BY <1>6 DEF StatusWaiterSignalsItsOwn, Wait
<1>7. ASSUME NEW p \in Ids, WaitReturns(p) PROVE StatusWaiterSignalsItsOwn'
  BY <1>7 DEF StatusWaiterSignalsItsOwn, WaitReturns
<1>8. ASSUME NEW p \in Ids, finish(p) PROVE StatusWaiterSignalsItsOwn'
  BY <1>8 DEF StatusWaiterSignalsItsOwn, finish
<1>9. ASSUME NEW p \in Ids, WaitExpires(p) PROVE StatusWaiterSignalsItsOwn'
  BY <1>9 DEF TypeOK, OwnersKnow, OwnerKnows, StatusWaiterSignalsItsOwn, WaitExpires, Kill, Term
<1>10. ASSUME NEW p \in Ids, KillExpired(p) PROVE StatusWaiterSignalsItsOwn'
  BY <1>10 DEF TypeOK, OwnersKnow, OwnerKnows, StatusWaiterSignalsItsOwn, KillExpired, Kill, Term
<1>11. ASSUME NEW p \in Ids, CancelOutput(p) PROVE StatusWaiterSignalsItsOwn'
  BY <1>11 DEF StatusWaiterSignalsItsOwn, CancelOutput
<1>12. ASSUME NEW p \in Ids, CancelWait(p) PROVE StatusWaiterSignalsItsOwn'
  BY <1>12 DEF TypeOK, OwnersKnow, OwnerKnows, StatusWaiterSignalsItsOwn, CancelWait, Kill, Term
<1>13. ASSUME NEW p \in Ids, DropHandle(p) PROVE StatusWaiterSignalsItsOwn'
  BY <1>13 DEF StatusWaiterSignalsItsOwn, DropHandle
<1>14. ASSUME NEW p \in Ids, deregister(p) PROVE StatusWaiterSignalsItsOwn'
  BY <1>14 DEF StatusWaiterSignalsItsOwn, deregister
<1>15. ASSUME NEW p \in Ids, terminate(p) PROVE StatusWaiterSignalsItsOwn'
  BY <1>15 DEF TypeOK, OwnersKnow, OwnerKnows, StatusWaiterSignalsItsOwn, terminate, Kill, Term
<1>16. ASSUME NEW p \in Ids, TerminateEnds(p) PROVE StatusWaiterSignalsItsOwn'
  BY <1>16 DEF TypeOK, OwnersKnow, OwnerKnows, StatusWaiterSignalsItsOwn, TerminateEnds, Kill, Term
<1>17. ASSUME NEW p \in Ids, TerminateAborted(p) PROVE StatusWaiterSignalsItsOwn'
  BY <1>17 DEF StatusWaiterSignalsItsOwn, TerminateAborted
<1>18. CASE Subscribe
  BY <1>18 DEF StatusWaiterSignalsItsOwn, Subscribe
<1>19. CASE next_deadline
  BY <1>19 DEF StatusWaiterSignalsItsOwn, next_deadline
<1>20. CASE WakeUp
  BY <1>20 DEF StatusWaiterSignalsItsOwn, WakeUp
<1>21. CASE sweep_once
  BY <1>21 DEF TypeOK, OwnersKnow, OwnerKnows, StatusWaiterSignalsItsOwn, sweep_once, Kill, Term
<1>22. CASE SweepKills
  BY <1>22 DEF TypeOK, OwnersKnow, OwnerKnows, StatusWaiterSignalsItsOwn, SweepKills, Kill, Term
<1>23. CASE Stop
  BY <1>23 DEF StatusWaiterSignalsItsOwn, Stop
<1>24. CASE shutdown
  BY <1>24 DEF TypeOK, OwnersKnow, OwnerKnows, StatusWaiterSignalsItsOwn, shutdown, Kill, Term
<1>25. CASE ShutdownKills
  BY <1>25 DEF TypeOK, OwnersKnow, OwnerKnows, StatusWaiterSignalsItsOwn, ShutdownKills, Kill, Term
<1>26. CASE Pass
  BY <1>26 DEF StatusWaiterSignalsItsOwn, Pass
<1>27. CASE UNCHANGED vars
  BY <1>27 DEF StatusWaiterSignalsItsOwn, vars
<1> QED BY <1>1, <1>2, <1>3, <1>4, <1>5, <1>6, <1>7, <1>8, <1>9, <1>10, <1>11, <1>12, <1>13, <1>14, <1>15, <1>16, <1>17, <1>18, <1>19, <1>20, <1>21, <1>22, <1>23, <1>24, <1>25, <1>26, <1>27 DEF Next, Reaper

-----------------------------------------------------------------------------
\* The daemon starts with no child.
LEMMA SupervisorInit == Init => SupervisorInv
<1> SUFFICES ASSUME Init PROVE SupervisorInv
  OBVIOUS
<1>1. <<>> \in Seq({"finished", "killed_timeout"})
  BY EmptySeq
<1>2. now \in Time /\ events \in [Ids -> Seq({"finished", "killed_timeout"})]
  BY <1>1, SupervisorAssumption DEF Init, Time
<1>3. TypeOK
  BY <1>2 DEF Init, TypeOK
<1>4. OwnersKnow /\ NeverOversleeps /\ ClaimsAreHeld /\ NothingEscapes
      /\ StatusWaiterSignalsItsOwn
  BY DEF Init, OwnersKnow, OwnerKnows, NeverOversleeps, ClaimsAreHeld, NothingEscapes,
         StatusWaiterSignalsItsOwn
<1> QED BY <1>3, <1>4, OneOwner DEF SupervisorInv

\* Every step keeps the invariant.
LEMMA SupervisorStep == SupervisorInv /\ [Next]_vars => SupervisorInv'
<1> SUFFICES ASSUME SupervisorInv, [Next]_vars PROVE SupervisorInv'
  OBVIOUS
<1>1. TypeOK /\ OwnersKnow /\ ClaimsAreHeld
  BY OneOwner DEF SupervisorInv
<1>2. TypeOK' /\ OwnersKnow' /\ ClaimsAreHeld'
  BY <1>1, TypeStep, KnowStep, HeldStep
<1>3. ClaimHasOneOwner'
  <2>1. ASSUME TypeOK', OwnersKnow' PROVE (ClaimHasOneOwner <=> ClaimsAreHeld)'
    BY <2>1, OneOwner, PTL
  <2> QED BY <1>2, <2>1
<1>4. NeverOversleeps' /\ NothingEscapes' /\ StatusWaiterSignalsItsOwn'
  BY <1>1, OversleepStep, EscapeStep, SignalStep DEF SupervisorInv
<1> QED BY <1>2, <1>3, <1>4 DEF SupervisorInv

\* Whatever races to end a child, the reaper, the waiter that times out or is
\* dropped, terminate, the pool or the shutdown: the reaper sleeps past no
\* deadline, a claim has one owner, no running child leaves the registry unless
\* its handle was dropped, and wait_status signals only a pid it still holds.
THEOREM SupervisorSafe == Spec => []SupervisorInv
<1>1. QED BY SupervisorInit, SupervisorStep, PTL DEF Spec

-----------------------------------------------------------------------------
(* The supervisor implements Lifecycle.                                    *)

\* A step that neither spawns, removes nor publishes leaves every life alone.
LEMMA LifeStays ==
  ASSUME registered' = registered, events' = events,
         \A q \in Ids : os'[q] = "unborn" <=> os[q] = "unborn"
  PROVE  [Life!Next]_(Life!lifecycle)
<1>1. \A q \in Ids : LifeOf(q)' = LifeOf(q)
  BY DEF LifeOf
<1> QED BY <1>1 DEF Life!lifecycle

\* Entries that leave the registry with an event have ended, with that event
\* alone.
LEMMA LifeEnds ==
  ASSUME TypeOK, OwnersKnow,
         NEW S \in SUBSET registered, S # {}, NEW e \in Terminal, Emit(S, e),
         registered' = registered \ S,
         \A q \in Ids : os'[q] = "unborn" <=> os[q] = "unborn"
  PROVE  [Life!Next]_(Life!lifecycle)
<1>1. \A q \in S : q \in Ids /\ os[q] # "unborn" /\ events[q] = <<>>
  BY DEF TypeOK, OwnersKnow, OwnerKnows
<1>2. Append(<<>>, e) = <<e>> /\ <<e>> # <<>>
  OBVIOUS
<1>3. events' = [q \in Ids |-> IF q \in S THEN <<e>> ELSE events[q]]
  BY <1>1, <1>2 DEF Emit
<1>4. \A q \in S : LifeOf(q) = "live" /\ LifeOf(q)' = "ended"
  BY <1>1, <1>2, <1>3 DEF LifeOf
<1>5. \A q \in Ids \ S : LifeOf(q)' = LifeOf(q)
  BY <1>3 DEF LifeOf
<1>6. Life!End(S)
  <2>1. e \in Life!Terminal
    BY DEF Terminal, Life!Terminal
  <2> QED BY <2>1, <1>1, <1>3, <1>4, <1>5 DEF Life!End
<1>7. S \in SUBSET Ids
  BY <1>1
<1> QED BY <1>6, <1>7 DEF Life!Next

\* Every step begins a life, ends some, releases one, or leaves them all alone.
LEMMA LifecycleStep ==
  ASSUME TypeOK, OwnersKnow, [Next]_vars
  PROVE  [Life!Next]_(Life!lifecycle)
<1> USE SupervisorAssumption DEF registry, owner, sweeper, history
<1>1. ASSUME NEW p \in Ids, Spawn(p) PROVE [Life!Next]_(Life!lifecycle)
  <2>1. p \in Ids /\ os[p] = "unborn" /\ os' = [os EXCEPT ![p] = "running"]
        /\ registered' = registered \union {p} /\ events' = events
    BY <1>1 DEF Spawn
  <2>2. LifeOf(p) = "unborn" /\ LifeOf(p)' = "live"
        /\ \A q \in Ids : q # p => LifeOf(q)' = LifeOf(q)
    BY <2>1 DEF LifeOf, TypeOK
  <2>3. Life!Start(p)
    BY <2>1, <2>2 DEF Life!Start
  <2> QED BY <2>3 DEF Life!Next
<1>2. ASSUME NEW p \in Ids, Exit(p) PROVE [Life!Next]_(Life!lifecycle)
  BY <1>2, LifeStays DEF TypeOK, Exit
<1>3. ASSUME NEW p \in Ids, Collect(p) PROVE [Life!Next]_(Life!lifecycle)
  BY <1>3, LifeStays DEF TypeOK, Collect
<1>4. ASSUME NEW p \in Ids, try_wait(p) PROVE [Life!Next]_(Life!lifecycle)
  BY <1>4, LifeStays DEF TypeOK, try_wait
<1>5. ASSUME NEW p \in Ids, NEW d \in Retimes, retime(p, d) PROVE [Life!Next]_(Life!lifecycle)
  BY <1>5, LifeStays DEF TypeOK, retime
<1>6. ASSUME NEW p \in Ids, Wait(p) PROVE [Life!Next]_(Life!lifecycle)
  BY <1>6, LifeStays DEF TypeOK, Wait
<1>7. ASSUME NEW p \in Ids, WaitReturns(p) PROVE [Life!Next]_(Life!lifecycle)
  BY <1>7, LifeStays DEF TypeOK, WaitReturns
<1>8. ASSUME NEW p \in Ids, finish(p) PROVE [Life!Next]_(Life!lifecycle)
  <2>1. CASE p \in registered \ claimed
    <3>1. /\ Emit({p}, "finished") /\ registered' = registered \ {p}
          /\ \A q \in Ids : os'[q] = "unborn" <=> os[q] = "unborn"
      BY <1>8, <2>1 DEF finish, Remove
    <3> QED BY <2>1, <3>1, LifeEnds DEF Terminal
  <2>2. CASE p \notin registered \ claimed
    BY <1>8, <2>2, LifeStays DEF finish
  <2> QED BY <2>1, <2>2
<1>9. ASSUME NEW p \in Ids, WaitExpires(p) PROVE [Life!Next]_(Life!lifecycle)
  BY <1>9, LifeStays DEF TypeOK, WaitExpires
<1>10. ASSUME NEW p \in Ids, KillExpired(p) PROVE [Life!Next]_(Life!lifecycle)
  <2>1. p \in registered
    BY <1>10 DEF KillExpired, TypeOK, OwnersKnow, OwnerKnows
  <2>2. /\ Emit({p}, "killed_timeout") /\ registered' = registered \ {p}
        /\ \A q \in Ids : os'[q] = "unborn" <=> os[q] = "unborn"
    BY <1>10 DEF KillExpired, Remove, Kill, TypeOK
  <2> QED BY <2>1, <2>2, LifeEnds DEF Terminal
<1>11. ASSUME NEW p \in Ids, CancelOutput(p) PROVE [Life!Next]_(Life!lifecycle)
  BY <1>11, LifeStays DEF TypeOK, CancelOutput
<1>12. ASSUME NEW p \in Ids, CancelWait(p) PROVE [Life!Next]_(Life!lifecycle)
  <2>1. CASE registered' = registered /\ events' = events /\ os' = os
    BY <2>1, LifeStays
  <2>2. CASE \E by \in Kills : /\ p \in registered /\ Kill({p}, by) /\ Remove({p})
                               /\ Emit({p}, "finished")
    <3>1. registered' = registered \ {p} /\ \A q \in Ids : os'[q] = "unborn" <=> os[q] = "unborn"
      BY <2>2 DEF Remove, Kill, TypeOK
    <3> QED BY <2>2, <3>1, LifeEnds DEF Terminal
  <2>3. handle[p] = "killing" => p \in registered
    BY DEF TypeOK, OwnersKnow, OwnerKnows
  <2> QED BY <1>12, <2>1, <2>2, <2>3 DEF CancelWait, Kills
<1>13. ASSUME NEW p \in Ids, DropHandle(p) PROVE [Life!Next]_(Life!lifecycle)
  BY <1>13, LifeStays DEF TypeOK, DropHandle
<1>14. ASSUME NEW p \in Ids, deregister(p) PROVE [Life!Next]_(Life!lifecycle)
  <2>2. /\ os[p] # "unborn" /\ os' = os /\ events' = events
        /\ registered' = registered \ {p}
    BY <1>14 DEF deregister, Remove, OwnersKnow, OwnerKnows
  <2>3. CASE p \in registered
    <3>1. LifeOf(p) = "live" /\ LifeOf(p)' = "released"
          /\ \A q \in Ids : q # p => LifeOf(q)' = LifeOf(q)
      BY <2>2, <2>3 DEF LifeOf, OwnersKnow, OwnerKnows
    <3>2. Life!Release(p)
      BY <2>2, <3>1 DEF Life!Release
    <3> QED BY <3>2 DEF Life!Next
  <2>4. CASE p \notin registered
    BY <2>2, <2>4, LifeStays
  <2> QED BY <2>3, <2>4
<1>15. ASSUME NEW p \in Ids, terminate(p) PROVE [Life!Next]_(Life!lifecycle)
  BY <1>15, LifeStays DEF TypeOK, terminate
<1>16. ASSUME NEW p \in Ids, TerminateEnds(p) PROVE [Life!Next]_(Life!lifecycle)
  <2>1. p \in registered
    BY <1>16 DEF TerminateEnds, TypeOK, OwnersKnow, OwnerKnows
  <2>2. /\ Emit({p}, "finished") /\ registered' = registered \ {p}
        /\ \A q \in Ids : os'[q] = "unborn" <=> os[q] = "unborn"
    BY <1>16, <2>1 DEF TerminateEnds, Remove, Kill, TypeOK
  <2> QED BY <2>1, <2>2, LifeEnds DEF Terminal
<1>17. ASSUME NEW p \in Ids, TerminateAborted(p) PROVE [Life!Next]_(Life!lifecycle)
  BY <1>17, LifeStays DEF TypeOK, TerminateAborted
<1>18. CASE Subscribe
  BY <1>18, LifeStays DEF TypeOK, Subscribe
<1>19. CASE next_deadline
  BY <1>19, LifeStays DEF TypeOK, next_deadline
<1>20. CASE WakeUp
  BY <1>20, LifeStays DEF TypeOK, WakeUp
<1>21. CASE sweep_once
  BY <1>21, LifeStays DEF TypeOK, sweep_once
<1>22. CASE SweepKills
  <2> DEFINE S == victims \intersect registered
  <2>1. /\ Emit(S, "killed_timeout") /\ registered' = registered \ S
        /\ \A q \in Ids : os'[q] = "unborn" <=> os[q] = "unborn"
    BY <1>22 DEF SweepKills, Remove, Kill, TypeOK
  <2>2. CASE S = {}
    <3>1. events' = events
      BY <2>1, <2>2 DEF Emit, TypeOK
    <3> QED BY <2>1, <2>2, <3>1, LifeStays
  <2>3. CASE S # {}
    <3>1. S \in SUBSET registered
      OBVIOUS
    <3> HIDE DEF S
    <3> QED BY <2>1, <2>3, <3>1, LifeEnds DEF Terminal
  <2> QED BY <2>2, <2>3
<1>23. CASE Stop
  BY <1>23, LifeStays DEF TypeOK, Stop
<1>24. CASE shutdown
  BY <1>24, LifeStays DEF TypeOK, shutdown
<1>25. CASE ShutdownKills
  BY <1>25, LifeStays DEF TypeOK, ShutdownKills, Kill
<1>26. CASE Pass
  BY <1>26, LifeStays DEF TypeOK, Pass
<1>27. CASE UNCHANGED vars
  BY <1>27, LifeStays DEF vars
<1> QED BY <1>1, <1>2, <1>3, <1>4, <1>5, <1>6, <1>7, <1>8, <1>9, <1>10, <1>11, <1>12, <1>13, <1>14, <1>15, <1>16, <1>17, <1>18, <1>19, <1>20, <1>21, <1>22, <1>23, <1>24, <1>25, <1>26, <1>27 DEF Next, Reaper

\* However many race to end a process, it leaves the registry once, with exactly
\* one terminal event or because its owner let go of it.
THEOREM SupervisorImplementsLifecycle == Spec => LifecycleKept
<1>1. Init => Life!Init
  BY DEF Init, Life!Init, LifeOf
<1>2. SupervisorInv /\ [Next]_vars => [Life!Next]_(Life!lifecycle)
  BY LifecycleStep DEF SupervisorInv
<1> QED BY <1>1, <1>2, SupervisorSafe, PTL DEF Spec, LifecycleKept, Life!Spec
=============================================================================
