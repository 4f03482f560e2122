-------------------------- MODULE StateFilesProofs --------------------------
(***************************************************************************)
(* Proofs about the files that several processes write: the state files,   *)
(* for any finite number of processes, any size of the tables and any      *)
(* number of faults; and the audit log, for any writers and any kills.     *)
(***************************************************************************)
EXTENDS StateFiles, AuditLog, SequenceTheorems, FiniteSetTheorems, WellFoundedInduction, TLAPS

-----------------------------------------------------------------------------
(* Types, and the protocol of write_json.                                  *)

Vals == [success : Nat, attempts : Nat, entries : SUBSET Nat]
Contents == [kind : {"none", "whole", "torn"}, val : Vals]
Actors == [pc : {"idle", "lock", "fill", "rename", "begin", "running", "count"},
           doc : Docs \union {"none"}, val : Vals,
           then : {"idle", "running", "count"}, stamp : Nat, attempts : Nat]

FilesTyped ==
    /\ content \in [Docs -> Contents] /\ tmp \in [Docs -> Contents]
    /\ lock \in [Docs -> Procs \union {"free"}]
    /\ actor \in [Procs -> Actors]
    /\ starts \in 0 .. MaxStarts /\ recorded \subseteq 1 .. starts
    /\ overlapped \in BOOLEAN /\ erased \in BOOLEAN

\* Where a process stands with its document.
AtWork(p) ==
    /\ actor[p].pc \in {"lock", "fill", "rename"} =>
           /\ actor[p].doc \in Docs
           /\ actor[p].then = "idle" <=> actor[p].doc # "heartbeat"
    /\ actor[p].pc \in {"begin", "running", "count"} => actor[p].doc # "table"

\* The lock of a document is held by who writes it.
LockBooks ==
    \A p \in Procs, d \in Docs :
        lock[d] = p <=> actor[p].pc \in {"fill", "rename"} /\ actor[p].doc = d

\* A temporary file that is about to be renamed is whole.
TmpHolds(p) == actor[p].pc = "rename" => tmp[actor[p].doc] = WholeFile(actor[p].val)
TmpBooks == \A p \in Procs : TmpHolds(p)

WriteProtocol == (\A p \in Procs : AtWork(p)) /\ LockBooks /\ TmpBooks /\ WholeDocuments

\* Stamps are given out once.
StampBooks ==
    /\ \A p \in Procs : actor[p].pc # "idle" =>
         actor[p].stamp \in 1 .. starts /\ actor[p].stamp \notin recorded
    /\ \A p, q \in Procs :
         /\ p # q /\ actor[p].pc # "idle" /\ actor[q].pc # "idle"
         => actor[p].stamp # actor[q].stamp

\* The table as its writer is about to leave it.
TableHolds(p) ==
    actor[p].pc \in {"fill", "rename"} /\ actor[p].doc = "table"
        => actor[p].val.entries = Insert(content["table"].val.entries, actor[p].stamp)
TableBooks == TableKeepsNewest /\ \A p \in Procs : TableHolds(p)

\* A run that may still succeed.
MayWin(p) ==
    \/ actor[p].pc \in {"begin", "running"}
    \/ actor[p].pc \in {"lock", "fill", "rename"} /\ actor[p].then = "running"

Winners == {p \in Procs : MayWin(p)}

\* A heartbeat on its way to the disk claims no success that no run had.
ClaimHolds(p) ==
    actor[p].pc \in {"lock", "fill", "rename"} /\ actor[p].doc = "heartbeat"
        => actor[p].val.success \in won \union {0}

\* Every success is of a run of its own, and no file claims another.
WonBooks ==
    /\ IsFiniteSet(won) /\ won = 1 .. Cardinality(won)
    /\ Cardinality(won) + Cardinality(Winners) <= starts
SuccessBooks == WonBooks /\ SuccessIsReal /\ \A p \in Procs : ClaimHolds(p)

\* A run that is about to replace the heartbeat by what it came to.
Finishing(p) == actor[p].pc \in {"lock", "fill", "rename"} /\ actor[p].then = "count"

\* A run without another beside it works on what the files hold, and what it does to
\* them is counted.
OnlyRun == \A p, q \in Procs : InRun(p) /\ InRun(q) => p = q
RunHolds(p) ==
    InRun(p) =>
        /\ actor[p].attempts = content["window"].val.attempts
        /\ actor[p].pc \in {"lock", "fill", "rename"} /\ actor[p].doc = "window"
             => actor[p].val.attempts = actor[p].attempts + 1
        /\ actor[p].pc \in {"lock", "fill", "rename"} /\ actor[p].doc = "heartbeat"
             => actor[p].val.success = Cardinality(won)
HeartbeatKept == content["heartbeat"].val.success = Cardinality(won) \/ \E p \in Procs : Finishing(p)
Busy == {p \in Procs : actor[p].pc # "idle"}
AllCounted == content["window"].val.attempts + Cardinality(recorded) + Cardinality(Busy) = starts
AloneBooks ==
    ~overlapped /\ ~erased =>
        OnlyRun /\ (\A p \in Procs : RunHolds(p)) /\ HeartbeatKept /\ AllCounted

StateBooks == FilesTyped /\ WriteProtocol /\ StampBooks /\ TableBooks /\ SuccessBooks /\ AloneBooks

-----------------------------------------------------------------------------
(* The types.                                                              *)

\* Docs and records that every file and process starts from.
LEMMA Defaults ==
  /\ Blank \in Vals /\ Absent \in Contents /\ Torn \in Contents /\ ProcIdle \in Actors
  /\ \A v \in Vals : WholeFile(v) \in Contents
BY DEF Blank, Vals, Absent, Contents, Torn, ProcIdle, Actors, WholeFile

\* What a writer puts into a table is a set of stamps.
LEMMA InsertType == ASSUME NEW S \in SUBSET Nat, NEW e \in Nat PROVE Insert(S, e) \in SUBSET Nat
BY DEF Insert

\* Whoever sets out to write a document stays an actor.
LEMMA WriteType ==
  ASSUME NEW p \in Procs, NEW d \in Docs, NEW v \in Vals, NEW t \in {"idle", "running", "count"},
         actor \in [Procs -> Actors], Write(p, d, v, t)
  PROVE  actor' \in [Procs -> Actors]
<1> DEFINE a == [actor[p] EXCEPT !.pc = "lock", !.doc = d, !.val = v, !.then = t]
<1>1. a \in Actors
  BY DEF Actors
<1>2. actor' = [actor EXCEPT ![p] = a]
  BY DEF Write
<1> HIDE DEF a
<1> QED BY <1>1, <1>2

\* So does one that begins a run or the entry of a table.
LEMMA StartType ==
  ASSUME NEW n \in Nat, NEW k \in Nat, NEW v \in Vals
  PROVE  /\ [ProcIdle EXCEPT !.pc = "begin", !.stamp = n + 1, !.attempts = k] \in Actors
         /\ [ProcIdle EXCEPT !.pc = "lock", !.doc = "table", !.stamp = n + 1, !.val = v] \in Actors
<1>1. n + 1 \in Nat /\ Blank \in Vals
  BY Defaults
<1> QED BY <1>1 DEF ProcIdle, Actors, Docs

\* And one that fills its temporary file.
LEMMA FillType ==
  ASSUME NEW a \in Actors, NEW es \in SUBSET Nat
  PROVE  [a EXCEPT !.pc = "fill", !.val.entries = es] \in Actors
<1>1. [a.val EXCEPT !.entries = es] \in Vals
  BY DEF Actors, Vals
<1>2. [a EXCEPT !.pc = "fill", !.val.entries = es] = [a EXCEPT !.pc = "fill", !.val = [a.val EXCEPT !.entries = es]]
  BY DEF Actors
<1> QED BY <1>1, <1>2 DEF Actors

\* Every step keeps the types.
LEMMA TypedStep == FilesTyped /\ WriteProtocol /\ [StateNext]_stateVars /\ StampBooks /\ Cardinality(won) \in Nat => FilesTyped'
<1> SUFFICES ASSUME FilesTyped, WriteProtocol, [StateNext]_stateVars, StampBooks, Cardinality(won) \in Nat
             PROVE  FilesTyped'
  OBVIOUS
<1> USE StateFilesAssumption DEF FilesTyped, Docs
<1>0. ASSUME NEW p \in Procs PROVE
        /\ actor[p] \in Actors /\ actor[p].val \in Vals /\ actor[p].stamp \in Nat /\ actor[p].attempts \in Nat
        /\ \A d \in Docs : content[d].val \in Vals /\ tmp[d] \in Contents /\ content[d] \in Contents
  BY DEF Actors, Contents
<1>a. starts \in Nat
  OBVIOUS
<1>1. ASSUME NEW p \in Procs, dispatch_one(p) PROVE FilesTyped'
  <2>1. content["window"].val.attempts \in Nat
    BY <1>0 DEF Vals
  <2> DEFINE a == [ProcIdle EXCEPT !.pc = "begin", !.stamp = starts + 1,
                                   !.attempts = content["window"].val.attempts]
  <2>2. a \in Actors
    BY <1>a, <2>1, Defaults, StartType
  <2>3. actor' = [actor EXCEPT ![p] = a]
    BY <1>1 DEF dispatch_one
  <2> HIDE DEF a
  <2> QED BY <1>1, <2>2, <2>3 DEF dispatch_one
<1>2. ASSUME NEW p \in Procs, begin_heartbeat(p) PROVE FilesTyped'
  <2>1. actor' \in [Procs -> Actors]
    BY <1>0, <1>2, WriteType DEF begin_heartbeat
  <2> QED BY <1>2, <2>1 DEF begin_heartbeat
<1>3. ASSUME NEW p \in Procs, write_window(p) PROVE FilesTyped'
  <2>1. [Blank EXCEPT !.attempts = actor[p].attempts + 1] \in Vals
    BY <1>0 DEF Blank, Vals
  <2>2. actor' \in [Procs -> Actors]
    BY <1>3, <2>1, WriteType DEF write_window
  <2> QED BY <1>3, <2>2 DEF write_window
<1>4. ASSUME NEW p \in Procs, record_for_chat(p) PROVE FilesTyped'
  <2> DEFINE a == [ProcIdle EXCEPT !.pc = "lock", !.doc = "table", !.stamp = starts + 1,
                                   !.val = content["table"].val]
  <2>1. a \in Actors
    BY <1>a, <1>0, StartType
  <2>2. actor' = [actor EXCEPT ![p] = a]
    BY <1>4 DEF record_for_chat
  <2> HIDE DEF a
  <2> QED BY <1>4, <2>1, <2>2 DEF record_for_chat
<1>5. ASSUME NEW p \in Procs, NEW ok \in BOOLEAN, finish_heartbeat(p, ok) PROVE FilesTyped'
  <2> DEFINE v == IF ok THEN [content["heartbeat"].val EXCEPT !.success = NextStamp]
                        ELSE content["heartbeat"].val
  <2>1. v \in Vals
    BY <1>0 DEF Vals, NextStamp
  <2>2. Write(p, "heartbeat", v, "count")
    BY <1>5 DEF finish_heartbeat
  <2> HIDE DEF v
  <2>3. actor' \in [Procs -> Actors]
    BY <2>1, <2>2, WriteType
  <2> QED BY <1>5, <2>3 DEF finish_heartbeat
<1>6. ASSUME NEW p \in Procs, TakeLock(p) PROVE FilesTyped'
  <2> DEFINE d == actor[p].doc
             es == IF d = "table" THEN Insert(content[d].val.entries, actor[p].stamp) ELSE {}
  <2>1. d \in Docs
    BY <1>6, <1>0 DEF TakeLock, WriteProtocol, AtWork
  <2>2. es \in SUBSET Nat
    <3>1. content[d].val.entries \in SUBSET Nat /\ actor[p].stamp \in Nat
      BY <1>0, <2>1 DEF Vals
    <3> HIDE DEF d
    <3> QED BY <3>1, InsertType
  <2> DEFINE a == [actor[p] EXCEPT !.pc = "fill", !.val.entries = es]
  <2>3. actor' = [actor EXCEPT ![p] = a]
    BY <1>6 DEF TakeLock
  <2> HIDE DEF es
  <2>4. a \in Actors
    BY <1>0, <2>2, FillType
  <2> HIDE DEF a
  <2>5. lock' \in [Docs -> Procs \union {"free"}] /\ tmp' \in [Docs -> Contents]
    BY <1>6, <2>1, Defaults DEF TakeLock
  <2> QED BY <1>6, <2>3, <2>4, <2>5 DEF TakeLock
<1>7. ASSUME NEW p \in Procs, Fill(p) PROVE FilesTyped'
  <2>1. actor' \in [Procs -> Actors]
    BY <1>0, <1>7 DEF Fill, Actors
  <2>2. tmp' \in [Docs -> Contents]
    BY <1>0, <1>7, Defaults DEF Fill
  <2> QED BY <1>7, <2>1, <2>2 DEF Fill
<1>8. ASSUME NEW p \in Procs, RenameDocument(p) PROVE FilesTyped'
  <2>0. actor[p].doc \in Docs
    BY <1>8, <1>0 DEF RenameDocument, WriteProtocol, AtWork
  <2>1. actor' \in [Procs -> Actors]
    BY <1>0, <1>8 DEF RenameDocument, Actors
  <2>2. tmp' \in [Docs -> Contents] /\ content' \in [Docs -> Contents]
        /\ lock' \in [Docs -> Procs \union {"free"}]
    BY <1>0, <1>8, <2>0, Defaults DEF RenameDocument
  <2>3. recorded' \subseteq 1 .. starts
    BY <1>8 DEF RenameDocument, StampBooks
  <2> QED BY <1>8, <2>1, <2>2, <2>3 DEF RenameDocument
<1>9. ASSUME NEW p \in Procs, WriteDocumentFails(p) PROVE FilesTyped'
  <2>1. actor' \in [Procs -> Actors]
    BY <1>0, <1>9 DEF WriteDocumentFails, Actors
  <2> QED BY <1>9, <2>1 DEF WriteDocumentFails
<1>10. ASSUME NEW p \in Procs, Crash(p) PROVE FilesTyped'
  BY <1>0, <1>10, Defaults DEF Crash
<1>11. CASE RemoveHeartbeat
  BY <1>11, Defaults DEF RemoveHeartbeat
<1>12. CASE UNCHANGED stateVars
  BY <1>12 DEF stateVars
<1> QED BY <1>1, <1>2, <1>3, <1>4, <1>5, <1>6, <1>7, <1>8, <1>9, <1>10, <1>11, <1>12 DEF StateNext

-----------------------------------------------------------------------------
(* What each process is at, after a step.                                  *)

\* What a step does to the processes: the one that takes it moves on, the others
\* rest.
Moved(p, pc, doc) ==
    /\ actor'[p].pc = pc /\ actor'[p].doc = doc
    /\ \A q \in Procs \ {p} : actor'[q] = actor[q]

\* What a process is and what the documents hold.
LEMMA ActorTypes ==
  ASSUME FilesTyped, NEW p \in Procs
  PROVE  /\ actor \in [Procs -> Actors] /\ actor[p] \in Actors /\ actor[p].val \in Vals
         /\ content["heartbeat"].val \in Vals /\ content["window"].val \in Vals
         /\ content["table"].val \in Vals
BY DEF FilesTyped, Actors, Contents, Docs

\* One lemma for each action of a process.
LEMMA DispatchMoves ==
  ASSUME FilesTyped, NEW p \in Procs, dispatch_one(p)
  PROVE  /\ actor[p].pc = "idle" /\ Moved(p, "begin", "none")
         /\ actor'[p].stamp = starts + 1 /\ actor'[p].then = "idle"
         /\ actor'[p].attempts = content["window"].val.attempts
         /\ starts < MaxStarts /\ starts' = starts + 1 /\ UNCHANGED <<content, lock, tmp, won, recorded, erased>>
         /\ overlapped' = (overlapped \/ \E q \in Procs \ {p} : InRun(q))
BY ActorTypes DEF Moved, FilesTyped, dispatch_one, ProcIdle

\* What each action does, pointwise: the heartbeat of a run that begins is on its way to the lock;
LEMMA BeginMoves ==
  ASSUME FilesTyped, NEW p \in Procs, begin_heartbeat(p)
  PROVE  /\ actor[p].pc = "begin" /\ Moved(p, "lock", "heartbeat") /\ actor'[p].then = "running"
         /\ actor'[p].stamp = actor[p].stamp /\ actor'[p].attempts = actor[p].attempts
         /\ actor'[p].val = content["heartbeat"].val
         /\ UNCHANGED <<content, lock, tmp, starts, won, recorded, overlapped, erased>>
BY ActorTypes DEF Moved, FilesTyped, begin_heartbeat, Write, Actors

\* of a run that ends, with the success if it was one;
LEMMA FinishMoves ==
  ASSUME FilesTyped, NEW p \in Procs, NEW ok \in BOOLEAN, finish_heartbeat(p, ok)
  PROVE  /\ actor[p].pc = "running" /\ Moved(p, "lock", "heartbeat") /\ actor'[p].then = "count"
         /\ actor'[p].stamp = actor[p].stamp /\ actor'[p].attempts = actor[p].attempts
         /\ actor'[p].val.success = IF ok THEN NextStamp ELSE content["heartbeat"].val.success
         /\ won' = IF ok THEN won \union {NextStamp} ELSE won
         /\ UNCHANGED <<content, lock, tmp, starts, recorded, overlapped, erased>>
BY ActorTypes DEF Moved, FilesTyped, finish_heartbeat, Write, Actors, Vals

\* the attempt is counted on what was read before the run;
LEMMA CountMoves ==
  ASSUME FilesTyped, NEW p \in Procs, write_window(p)
  PROVE  /\ actor[p].pc = "count" /\ Moved(p, "lock", "window") /\ actor'[p].then = "idle"
         /\ actor'[p].stamp = actor[p].stamp /\ actor'[p].attempts = actor[p].attempts
         /\ actor'[p].val.attempts = actor[p].attempts + 1
         /\ UNCHANGED <<content, lock, tmp, starts, won, recorded, overlapped, erased>>
BY ActorTypes DEF Moved, FilesTyped, write_window, Write, Actors, Blank

\* a message is recorded under a stamp of its own;
LEMMA RecordMoves ==
  ASSUME FilesTyped, NEW p \in Procs, record_for_chat(p)
  PROVE  /\ actor[p].pc = "idle" /\ Moved(p, "lock", "table")
         /\ actor'[p].stamp = starts + 1 /\ actor'[p].then = "idle"
         /\ starts < MaxStarts /\ starts' = starts + 1
         /\ UNCHANGED <<content, lock, tmp, won, recorded, overlapped, erased>>
BY ActorTypes DEF Moved, FilesTyped, record_for_chat, ProcIdle

\* the lock of the document is taken, and its table read under it;
LEMMA LockMoves ==
  ASSUME FilesTyped, NEW p \in Procs, TakeLock(p)
  PROVE  /\ actor[p].pc = "lock" /\ lock[actor[p].doc] = "free"
         /\ Moved(p, "fill", actor[p].doc) /\ actor'[p].then = actor[p].then
         /\ actor'[p].stamp = actor[p].stamp /\ actor'[p].attempts = actor[p].attempts
         /\ actor'[p].val.success = actor[p].val.success
         /\ actor'[p].val.attempts = actor[p].val.attempts
         /\ actor[p].doc = "table" =>
              actor'[p].val.entries = Insert(content["table"].val.entries, actor[p].stamp)
         /\ \A d \in Docs : /\ lock'[d] = IF d = actor[p].doc THEN p ELSE lock[d]
                            /\ tmp'[d] = IF d = actor[p].doc THEN Torn ELSE tmp[d]
         /\ UNCHANGED <<content, starts, won, recorded, overlapped, erased>>
BY ActorTypes DEF Moved, FilesTyped, TakeLock, Actors, Vals

\* the temporary file is written;
LEMMA FillMoves ==
  ASSUME FilesTyped, NEW p \in Procs, Fill(p)
  PROVE  /\ actor[p].pc = "fill" /\ Moved(p, "rename", actor[p].doc)
         /\ actor'[p].then = actor[p].then /\ actor'[p].val = actor[p].val
         /\ actor'[p].stamp = actor[p].stamp /\ actor'[p].attempts = actor[p].attempts
         /\ \A d \in Docs : tmp'[d] = IF d = actor[p].doc THEN WholeFile(actor[p].val) ELSE tmp[d]
         /\ UNCHANGED <<content, lock, starts, won, recorded, overlapped, erased>>
BY ActorTypes DEF Moved, FilesTyped, Fill, Actors

\* it replaces the document, and the lock is given back;
LEMMA RenameMoves ==
  ASSUME FilesTyped, NEW p \in Procs, RenameDocument(p)
  PROVE  /\ actor[p].pc = "rename" /\ Moved(p, actor[p].then, actor[p].doc)
         /\ actor'[p].then = actor[p].then /\ actor'[p].val = actor[p].val
         /\ actor'[p].stamp = actor[p].stamp /\ actor'[p].attempts = actor[p].attempts
         /\ \A d \in Docs : content'[d] = IF d = actor[p].doc THEN tmp[d] ELSE content[d]
         /\ \A d \in Docs : lock'[d] = IF d = actor[p].doc THEN "free" ELSE lock[d]
         /\ \A d \in Docs : tmp'[d] = IF d = actor[p].doc THEN Absent ELSE tmp[d]
         /\ recorded' = IF actor[p].doc = "table" THEN recorded \union {actor[p].stamp} ELSE recorded
         /\ UNCHANGED <<starts, won, overlapped, erased>>
<1>1. actor \in [Procs -> Actors] /\ actor[p] \in Actors /\ actor' = [actor EXCEPT ![p].pc = actor[p].then]
  BY ActorTypes DEF RenameDocument
<1>2. /\ Moved(p, actor[p].then, actor[p].doc)
      /\ actor'[p].then = actor[p].then /\ actor'[p].val = actor[p].val
      /\ actor'[p].stamp = actor[p].stamp /\ actor'[p].attempts = actor[p].attempts
  BY <1>1 DEF Moved, Actors
<1>3. \A d \in Docs : content'[d] = IF d = actor[p].doc THEN tmp[d] ELSE content[d]
  BY DEF FilesTyped, RenameDocument
<1>4. \A d \in Docs : lock'[d] = IF d = actor[p].doc THEN "free" ELSE lock[d]
  BY DEF FilesTyped, RenameDocument
<1>5. \A d \in Docs : tmp'[d] = IF d = actor[p].doc THEN Absent ELSE tmp[d]
  BY DEF FilesTyped, RenameDocument
<1>6. /\ actor[p].pc = "rename"
      /\ recorded' = IF actor[p].doc = "table" THEN recorded \union {actor[p].stamp} ELSE recorded
      /\ UNCHANGED <<starts, won, overlapped, erased>>
  BY DEF RenameDocument
<1> QED BY <1>2, <1>3, <1>4, <1>5, <1>6, Zenon

\* the write fails, and the document stays;
LEMMA FailMoves ==
  ASSUME FilesTyped, NEW p \in Procs, WriteDocumentFails(p)
  PROVE  /\ actor[p].pc = "fill"
         /\ Moved(p, IF actor[p].doc = "heartbeat" THEN "count" ELSE "idle", actor[p].doc)
         /\ actor'[p].then = actor[p].then
         /\ actor'[p].stamp = actor[p].stamp /\ actor'[p].attempts = actor[p].attempts
         /\ \A d \in Docs : lock'[d] = IF d = actor[p].doc THEN "free" ELSE lock[d]
         /\ erased' /\ UNCHANGED <<content, tmp, starts, won, recorded, overlapped>>
BY ActorTypes DEF Moved, FilesTyped, WriteDocumentFails, Actors

\* the process dies, and the kernel gives its locks back;
LEMMA CrashMoves ==
  ASSUME FilesTyped, NEW p \in Procs, Crash(p)
  PROVE  /\ actor[p].pc # "idle" /\ Moved(p, "idle", "none")
         /\ \A d \in Docs : lock'[d] = IF lock[d] = p THEN "free" ELSE lock[d]
         /\ erased' /\ UNCHANGED <<content, tmp, starts, won, recorded, overlapped>>
BY ActorTypes DEF Moved, FilesTyped, Crash, ProcIdle

\* the heartbeat is removed.
LEMMA RemoveMoves ==
  ASSUME FilesTyped, RemoveHeartbeat
  PROVE  /\ \A d \in Docs : content'[d] = IF d = "heartbeat" THEN Absent ELSE content[d]
         /\ erased' /\ UNCHANGED <<lock, tmp, actor, starts, won, recorded, overlapped>>
BY DEF FilesTyped, RemoveHeartbeat

-----------------------------------------------------------------------------
(* The protocol, and the stamps.                                           *)

\* Where a process stands.
LEMMA WorkStep ==
  ASSUME FilesTyped, WriteProtocol, [StateNext]_stateVars, NEW q \in Procs
  PROVE  AtWork(q)'
<1>0. actor[q].pc \in {"idle", "lock", "fill", "rename", "begin", "running", "count"}
      /\ actor[q].then \in {"idle", "running", "count"} /\ AtWork(q)
  BY DEF FilesTyped, Actors, WriteProtocol
<1> USE <1>0 DEF AtWork, Docs, Moved
<1>1. ASSUME NEW p \in Procs, dispatch_one(p) PROVE AtWork(q)'
  BY <1>1, DispatchMoves
<1>2. ASSUME NEW p \in Procs, begin_heartbeat(p) PROVE AtWork(q)'
  BY <1>2, BeginMoves
<1>3. ASSUME NEW p \in Procs, write_window(p) PROVE AtWork(q)'
  BY <1>3, CountMoves
<1>4. ASSUME NEW p \in Procs, record_for_chat(p) PROVE AtWork(q)'
  BY <1>4, RecordMoves
<1>5. ASSUME NEW p \in Procs, NEW ok \in BOOLEAN, finish_heartbeat(p, ok) PROVE AtWork(q)'
  BY <1>5, FinishMoves
<1>6. ASSUME NEW p \in Procs, TakeLock(p) PROVE AtWork(q)'
  BY <1>6, LockMoves
<1>7. ASSUME NEW p \in Procs, Fill(p) PROVE AtWork(q)'
  BY <1>7, FillMoves
<1>8. ASSUME NEW p \in Procs, RenameDocument(p) PROVE AtWork(q)'
  BY <1>8, RenameMoves
<1>9. ASSUME NEW p \in Procs, WriteDocumentFails(p) PROVE AtWork(q)'
  BY <1>9, FailMoves
<1>10. ASSUME NEW p \in Procs, Crash(p) PROVE AtWork(q)'
  BY <1>10, CrashMoves
<1>11. CASE RemoveHeartbeat
  BY <1>11, RemoveMoves
<1>12. CASE UNCHANGED stateVars
  BY <1>12 DEF stateVars
<1> QED BY <1>1, <1>2, <1>3, <1>4, <1>5, <1>6, <1>7, <1>8, <1>9, <1>10, <1>11, <1>12 DEF StateNext

\* Who holds which lock.
LEMMA LockStep ==
  ASSUME FilesTyped, WriteProtocol, [StateNext]_stateVars
  PROVE  LockBooks'
<1>0. LockBooks /\ (\A q \in Procs : AtWork(q)) /\ lock \in [Docs -> Procs \union {"free"}] /\ "free" \notin Procs
  BY StateFilesAssumption DEF WriteProtocol, FilesTyped
<1> USE <1>0 DEF LockBooks, AtWork, Moved
<1>1. ASSUME NEW p \in Procs, dispatch_one(p) PROVE LockBooks'
  BY <1>1, DispatchMoves
<1>2. ASSUME NEW p \in Procs, begin_heartbeat(p) PROVE LockBooks'
  BY <1>2, BeginMoves
<1>3. ASSUME NEW p \in Procs, write_window(p) PROVE LockBooks'
  BY <1>3, CountMoves
<1>4. ASSUME NEW p \in Procs, record_for_chat(p) PROVE LockBooks'
  BY <1>4, RecordMoves
<1>5. ASSUME NEW p \in Procs, NEW ok \in BOOLEAN, finish_heartbeat(p, ok) PROVE LockBooks'
  BY <1>5, FinishMoves
<1>6. ASSUME NEW p \in Procs, TakeLock(p) PROVE LockBooks'
  BY <1>6, LockMoves
<1>7. ASSUME NEW p \in Procs, Fill(p) PROVE LockBooks'
  BY <1>7, FillMoves
<1>8. ASSUME NEW p \in Procs, RenameDocument(p) PROVE LockBooks'
  <2>1. actor[p].doc \in Docs /\ lock[actor[p].doc] = p /\ p # "free"
    BY <1>8, RenameMoves
  <2>2. actor[p].then \notin {"fill", "rename"}
    BY ActorTypes DEF Actors
  <2>3. \A q \in Procs \ {p} : lock[actor[p].doc] # q
    BY <2>1
  <2> QED BY <1>8, <2>1, <2>2, <2>3, RenameMoves
<1>9. ASSUME NEW p \in Procs, WriteDocumentFails(p) PROVE LockBooks'
  BY <1>9, FailMoves
<1>10. ASSUME NEW p \in Procs, Crash(p) PROVE LockBooks'
  BY <1>10, CrashMoves
<1>11. CASE RemoveHeartbeat
  BY <1>11, RemoveMoves
<1>12. CASE UNCHANGED stateVars
  BY <1>12 DEF stateVars
<1> QED BY <1>1, <1>2, <1>3, <1>4, <1>5, <1>6, <1>7, <1>8, <1>9, <1>10, <1>11, <1>12 DEF StateNext

\* What the temporary file of a process holds.
LEMMA TmpStep ==
  ASSUME FilesTyped, WriteProtocol, [StateNext]_stateVars, NEW q \in Procs
  PROVE  TmpHolds(q)'
<1>0. TmpHolds(q) /\ LockBooks /\ (\A r \in Procs : AtWork(r))
  BY DEF WriteProtocol, TmpBooks
<1>a. /\ actor[q].pc = "rename" => actor[q].doc \in Docs /\ lock[actor[q].doc] = q
      /\ actor[q].pc \in {"lock", "fill", "rename"} => actor[q].doc \in Docs
      /\ actor[q].then # "rename"
  BY <1>0 DEF AtWork, LockBooks, FilesTyped, Actors
<1>b. q # "free"
  BY StateFilesAssumption
<1>d. \A r \in Procs : actor[r].pc \in {"fill", "rename"} => actor[r].doc \in Docs /\ lock[actor[r].doc] = r
  BY <1>0 DEF AtWork, LockBooks
<1>c. TmpHolds(q)' <=> (actor'[q].pc = "rename" => tmp'[actor'[q].doc] = WholeFile(actor'[q].val))
  BY DEF TmpHolds, WholeFile
<1> USE <1>0, <1>a, <1>b, <1>c DEF TmpHolds, Moved
<1>1. ASSUME NEW p \in Procs, dispatch_one(p) PROVE TmpHolds(q)'
  BY <1>1, DispatchMoves
<1>2. ASSUME NEW p \in Procs, begin_heartbeat(p) PROVE TmpHolds(q)'
  BY <1>2, BeginMoves
<1>3. ASSUME NEW p \in Procs, write_window(p) PROVE TmpHolds(q)'
  BY <1>3, CountMoves
<1>4. ASSUME NEW p \in Procs, record_for_chat(p) PROVE TmpHolds(q)'
  BY <1>4, RecordMoves
<1>5. ASSUME NEW p \in Procs, NEW ok \in BOOLEAN, finish_heartbeat(p, ok) PROVE TmpHolds(q)'
  BY <1>5, FinishMoves
<1>6. ASSUME NEW p \in Procs, TakeLock(p) PROVE TmpHolds(q)'
  BY <1>6, LockMoves
<1>7. ASSUME NEW p \in Procs, Fill(p) PROVE TmpHolds(q)'
  <2>1. CASE q = p
    BY <1>7, <2>1, FillMoves
  <2>2. CASE q # p
    <3>1. actor'[q] = actor[q]
      BY <1>7, <2>2, FillMoves DEF Moved
    <3>2. lock[actor[p].doc] = p /\ actor[p].doc \in Docs
      BY <1>7, <1>d, FillMoves
    <3> QED BY <1>7, <2>2, <3>1, <3>2, FillMoves
  <2> QED BY <2>1, <2>2
<1>8. ASSUME NEW p \in Procs, RenameDocument(p) PROVE TmpHolds(q)'
  <2>1. CASE q = p
    BY <1>8, <2>1, RenameMoves
  <2>2. CASE q # p
    <3>1. actor'[q] = actor[q]
      BY <1>8, <2>2, RenameMoves DEF Moved
    <3>2. lock[actor[p].doc] = p /\ actor[p].doc \in Docs
      BY <1>8, <1>d, RenameMoves
    <3> QED BY <1>8, <2>2, <3>1, <3>2, RenameMoves
  <2> QED BY <2>1, <2>2
<1>9. ASSUME NEW p \in Procs, WriteDocumentFails(p) PROVE TmpHolds(q)'
  BY <1>9, FailMoves
<1>10. ASSUME NEW p \in Procs, Crash(p) PROVE TmpHolds(q)'
  BY <1>10, CrashMoves
<1>11. CASE RemoveHeartbeat
  BY <1>11, RemoveMoves
<1>12. CASE UNCHANGED stateVars
  BY <1>12 DEF stateVars
<1> QED BY <1>1, <1>2, <1>3, <1>4, <1>5, <1>6, <1>7, <1>8, <1>9, <1>10, <1>11, <1>12 DEF StateNext

\* The documents that readers see.
LEMMA WholeStep ==
  ASSUME FilesTyped, WriteProtocol, [StateNext]_stateVars
  PROVE  WholeDocuments'
<1>0. WholeDocuments /\ \A p \in Procs : TmpHolds(p)
  BY DEF WriteProtocol, TmpBooks
<1>a. WholeDocuments' <=> \A d \in Docs : content'[d].kind # "torn"
  BY DEF WholeDocuments
<1>b. Absent.kind # "torn" /\ \A v \in Vals : WholeFile(v).kind # "torn"
  BY DEF Absent, WholeFile
<1> USE <1>0, <1>a, <1>b DEF WholeDocuments
<1>1. ASSUME NEW p \in Procs, dispatch_one(p) PROVE WholeDocuments'
  BY <1>1, DispatchMoves
<1>2. ASSUME NEW p \in Procs, begin_heartbeat(p) PROVE WholeDocuments'
  BY <1>2, BeginMoves
<1>3. ASSUME NEW p \in Procs, write_window(p) PROVE WholeDocuments'
  BY <1>3, CountMoves
<1>4. ASSUME NEW p \in Procs, record_for_chat(p) PROVE WholeDocuments'
  BY <1>4, RecordMoves
<1>5. ASSUME NEW p \in Procs, NEW ok \in BOOLEAN, finish_heartbeat(p, ok) PROVE WholeDocuments'
  BY <1>5, FinishMoves
<1>6. ASSUME NEW p \in Procs, TakeLock(p) PROVE WholeDocuments'
  BY <1>6, LockMoves
<1>7. ASSUME NEW p \in Procs, Fill(p) PROVE WholeDocuments'
  BY <1>7, FillMoves
<1>8. ASSUME NEW p \in Procs, RenameDocument(p) PROVE WholeDocuments'
  <2>1. actor[p].doc \in Docs => tmp[actor[p].doc].kind # "torn"
    BY <1>8, RenameMoves, ActorTypes DEF TmpHolds
  <2> QED BY <1>8, <2>1, RenameMoves
<1>9. ASSUME NEW p \in Procs, WriteDocumentFails(p) PROVE WholeDocuments'
  BY <1>9, FailMoves
<1>10. ASSUME NEW p \in Procs, Crash(p) PROVE WholeDocuments'
  BY <1>10, CrashMoves
<1>11. CASE RemoveHeartbeat
  BY <1>11, RemoveMoves
<1>12. CASE UNCHANGED stateVars
  BY <1>12 DEF stateVars
<1> QED BY <1>1, <1>2, <1>3, <1>4, <1>5, <1>6, <1>7, <1>8, <1>9, <1>10, <1>11, <1>12 DEF StateNext

\* The protocol is kept.
LEMMA ProtocolStep ==
  ASSUME FilesTyped, WriteProtocol, [StateNext]_stateVars
  PROVE  WriteProtocol'
BY WorkStep, LockStep, TmpStep, WholeStep DEF WriteProtocol, TmpBooks

\* No two processes have the same stamp, and none has one that was used.
LEMMA StampStep ==
  ASSUME FilesTyped, WriteProtocol, StampBooks, [StateNext]_stateVars
  PROVE  StampBooks'
<1>0. StampBooks /\ starts \in Nat /\ recorded \subseteq 1 .. starts
  BY StateFilesAssumption DEF FilesTyped
<1>a. \A p \in Procs : actor[p].then \in {"idle", "running", "count"}
  BY ActorTypes DEF Actors
<1> USE <1>0, <1>a DEF StampBooks, Moved
<1>1. ASSUME NEW p \in Procs, dispatch_one(p) PROVE StampBooks'
  BY <1>1, DispatchMoves
<1>2. ASSUME NEW p \in Procs, begin_heartbeat(p) PROVE StampBooks'
  BY <1>2, BeginMoves
<1>3. ASSUME NEW p \in Procs, write_window(p) PROVE StampBooks'
  BY <1>3, CountMoves
<1>4. ASSUME NEW p \in Procs, record_for_chat(p) PROVE StampBooks'
  BY <1>4, RecordMoves
<1>5. ASSUME NEW p \in Procs, NEW ok \in BOOLEAN, finish_heartbeat(p, ok) PROVE StampBooks'
  BY <1>5, FinishMoves
<1>6. ASSUME NEW p \in Procs, TakeLock(p) PROVE StampBooks'
  BY <1>6, LockMoves
<1>7. ASSUME NEW p \in Procs, Fill(p) PROVE StampBooks'
  BY <1>7, FillMoves
<1>8. ASSUME NEW p \in Procs, RenameDocument(p) PROVE StampBooks'
  <2>1. actor[p].doc = "table" => actor'[p].pc = "idle"
    BY <1>8, RenameMoves DEF WriteProtocol, AtWork
  <2>2. \A q \in Procs : actor'[q].pc # "idle" => actor[q].pc # "idle" /\ actor'[q].stamp = actor[q].stamp
    BY <1>8, RenameMoves
  <2>3. \A q \in Procs : actor'[q].pc # "idle" => actor[q].stamp \notin recorded'
    BY <1>8, <2>1, <2>2, RenameMoves
  <2> QED BY <1>8, <2>2, <2>3, RenameMoves
<1>9. ASSUME NEW p \in Procs, WriteDocumentFails(p) PROVE StampBooks'
  BY <1>9, FailMoves
<1>10. ASSUME NEW p \in Procs, Crash(p) PROVE StampBooks'
  BY <1>10, CrashMoves
<1>11. CASE RemoveHeartbeat
  BY <1>11, RemoveMoves
<1>12. CASE UNCHANGED stateVars
  BY <1>12 DEF stateVars
<1> QED BY <1>1, <1>2, <1>3, <1>4, <1>5, <1>6, <1>7, <1>8, <1>9, <1>10, <1>11, <1>12 DEF StateNext

-----------------------------------------------------------------------------
(* The lookup table.                                                       *)

\* The lowest and the highest of some stamps.
LEMMA MinOfStamps ==
  ASSUME NEW S \in SUBSET Nat, S # {}
  PROVE  Min(S) \in S /\ \A y \in S : Min(S) <= y
<1> DEFINE R == OpToRel(<, Nat)
<1>1. IsWellFoundedOn(R, Nat)
  BY NatLessThanWellFounded
<1>2. PICK x \in S : \A y \in S : ~(<<y, x>> \in R)
  <2> HIDE DEF R
  <2> QED BY <1>1, WFMin
<1>3. \A y \in S : x <= y
  <2> SUFFICES ASSUME NEW y \in S PROVE ~(y < x)
    OBVIOUS
  <2> QED BY <1>2 DEF OpToRel
<1> QED BY <1>3 DEF Min

\* A set of stamps that is not empty has a latest one.
LEMMA MaxOfStamps ==
  ASSUME NEW n \in Nat, NEW S \in SUBSET (0 .. n), S # {}
  PROVE  Max(S) \in S /\ \A y \in S : y <= Max(S)
<1> DEFINE T == {k \in Nat : n - k \in S}
<1>1. \A y \in S : y \in Nat /\ n - y \in T
  OBVIOUS
<1>2. T \in SUBSET Nat /\ T # {}
  BY <1>1
<1>3. Min(T) \in T /\ \A y \in T : Min(T) <= y
  <2> HIDE DEF T
  <2> QED BY <1>2, MinOfStamps
<1>4. n - Min(T) \in S /\ \A y \in S : n - Min(T) >= y
  BY <1>1, <1>3
<1> QED BY <1>4 DEF Max

\* The newest entries of a table.
Above(R, e) == {f \in R : f > e}
NewestOf(R) == {e \in R : Cardinality(Above(R, e)) < MAX_ENTRIES}

\* There are at most MAX_ENTRIES of them, none older than an entry that is not, and
\* a table with room left has them all.
LEMMA NewestFacts ==
  ASSUME NEW n \in Nat, NEW R \in SUBSET (1 .. n)
  PROVE  /\ IsFiniteSet(R) /\ IsFiniteSet(NewestOf(R)) /\ Cardinality(NewestOf(R)) \in 0 .. MAX_ENTRIES
         /\ \A e \in NewestOf(R), f \in R : f > e => f \in NewestOf(R)
         /\ Cardinality(NewestOf(R)) < MAX_ENTRIES => NewestOf(R) = R
<1> DEFINE N == NewestOf(R)
<1>0. MAX_ENTRIES \in Nat /\ R \in SUBSET Nat
  BY StateFilesAssumption
<1>1. IsFiniteSet(R)
  <2>1. IsFiniteSet(1 .. n)
    BY FS_Interval
  <2> QED BY <2>1, FS_Subset
<1>2. IsFiniteSet(N) /\ N \subseteq R
  BY <1>1, FS_Subset DEF NewestOf
<1>3. \A e \in R : IsFiniteSet(Above(R, e)) /\ Cardinality(Above(R, e)) \in Nat
  <2> TAKE e \in R
  <2>1. Above(R, e) \in SUBSET R
    BY DEF Above
  <2> QED BY <1>1, <2>1, FS_Subset, FS_CardinalityType
<1>4. ASSUME NEW e \in N, NEW f \in R, f > e PROVE f \in N
  <2>1. e \in R /\ Cardinality(Above(R, e)) < MAX_ENTRIES
    BY DEF NewestOf
  <2>2. Above(R, f) \in SUBSET Above(R, e)
    <3> SUFFICES ASSUME NEW g \in R, g > f PROVE g > e
      BY DEF Above
    <3>1. e \in Nat /\ f \in Nat /\ g \in Nat
      BY <1>0, <2>1
    <3> QED BY <1>4, <3>1
  <2>3. Cardinality(Above(R, f)) <= Cardinality(Above(R, e))
    BY <1>3, <2>1, <2>2, FS_Subset
  <2> QED BY <1>0, <1>3, <2>1, <2>3 DEF NewestOf
<1>5. Cardinality(N) \in Nat /\ Cardinality(N) <= MAX_ENTRIES
  <2>1. CASE N = {}
    BY <1>0, <2>1, FS_EmptySet
  <2>2. CASE N # {}
    <3> DEFINE m == Min(N)
    <3>1. m \in N /\ \A y \in N : m <= y
      <4>1. N \in SUBSET Nat
        BY <1>0, <1>2
      <4> HIDE DEF N
      <4> QED BY <2>2, <4>1, MinOfStamps
    <3> HIDE DEF m
    <3>2. N \ {m} \in SUBSET Above(R, m)
      <4> SUFFICES ASSUME NEW g \in N, g # m PROVE g \in R /\ g > m
        BY DEF Above
      <4>1. g \in Nat /\ m \in Nat /\ g \in R /\ m <= g
        BY <1>0, <1>2, <3>1
      <4> HIDE DEF N
      <4> QED BY <4>1
    <3>3. m \in R /\ Cardinality(Above(R, m)) < MAX_ENTRIES
      BY <3>1 DEF NewestOf
    <3> HIDE DEF N
    <3>4. Cardinality(N \ {m}) <= Cardinality(Above(R, m))
      BY <1>3, <3>2, <3>3, FS_Subset
    <3>5. Cardinality(N \ {m}) = Cardinality(N) - 1 /\ Cardinality(N) \in Nat
      BY <1>2, <3>1, FS_RemoveElement, FS_CardinalityType
    <3> QED BY <1>0, <1>3, <3>3, <3>4, <3>5
  <2> QED BY <2>1, <2>2
<1>6. ASSUME Cardinality(N) < MAX_ENTRIES, N # R PROVE FALSE
  <2> DEFINE m == Max(R \ N)
  <2>1. m \in R \ N /\ \A y \in R \ N : y <= m
    <3>1. R \ N \in SUBSET (0 .. n) /\ R \ N # {}
      <4>1. N # R /\ N \subseteq R /\ R \in SUBSET (0 .. n)
        BY <1>2, <1>6
      <4> HIDE DEF N
      <4> QED BY <4>1
    <3> HIDE DEF N
    <3> QED BY <3>1, MaxOfStamps
  <2> HIDE DEF m
  <2>2. Above(R, m) \in SUBSET N
    <3> SUFFICES ASSUME NEW g \in R, g > m PROVE g \in N
      BY DEF Above
    <3>1. g \in Nat /\ m \in Nat
      BY <1>0, <2>1
    <3> HIDE DEF N
    <3> QED BY <2>1, <3>1
  <2>3. Cardinality(Above(R, m)) <= Cardinality(N)
    <3> HIDE DEF N
    <3> QED BY <1>2, <2>2, FS_Subset
  <2>4. ~(Cardinality(Above(R, m)) < MAX_ENTRIES)
    BY <2>1 DEF NewestOf
  <2> QED BY <1>0, <1>3, <1>5, <1>6, <2>1, <2>3, <2>4
<1> QED BY <1>0, <1>1, <1>2, <1>4, <1>5, <1>6

\* Whoever inserts a stamp into the newest is left with the newest.
LEMMA NewestInsert ==
  ASSUME NEW n \in Nat, NEW R \in SUBSET (1 .. n), NEW s \in 1 .. n, s \notin R
  PROVE  Insert(NewestOf(R), s) = NewestOf(R \union {s})
<1> DEFINE N == NewestOf(R)
           T == N \union {s}
           P == R \union {s}
<1>0. MAX_ENTRIES \in Nat \ {0} /\ R \subseteq Nat /\ s \in Nat
  BY StateFilesAssumption
<1>1. /\ IsFiniteSet(R) /\ IsFiniteSet(N) /\ Cardinality(N) \in 0 .. MAX_ENTRIES
      /\ \A e \in N, f \in R : f > e => f \in N
      /\ Cardinality(N) < MAX_ENTRIES => N = R
  BY NewestFacts
<1>2. N \subseteq R
  BY DEF NewestOf
<1>3. \A e \in R : e \notin N => ~(Cardinality(Above(R, e)) < MAX_ENTRIES)
  BY DEF NewestOf
<1>n. N = NewestOf(R)
  OBVIOUS
<1> HIDE DEF N
<1> SUFFICES Insert(N, s) = NewestOf(P)
  BY <1>n
<1>4. IsFiniteSet(T) /\ Cardinality(T) = Cardinality(N) + 1
  BY <1>1, <1>2, FS_AddElement
<1>5. IsFiniteSet(P) /\ T \subseteq P /\ P \subseteq Nat
  BY <1>0, <1>1, <1>2, FS_AddElement
<1>6. \A e \in P : Above(P, e) \in SUBSET P /\ IsFiniteSet(Above(P, e)) /\ Cardinality(Above(P, e)) \in Nat
  <2> HIDE DEF P
  <2>1. \A e \in P : Above(P, e) \in SUBSET P
    BY DEF Above
  <2> QED BY <1>5, <2>1, FS_Subset, FS_CardinalityType
<1>7. CASE Cardinality(T) <= MAX_ENTRIES
  <2>1. N = R
    BY <1>0, <1>1, <1>4, <1>7
  <2>2. T = P
    BY <2>1
  <2>3. ASSUME NEW e \in P PROVE Cardinality(Above(P, e)) < MAX_ENTRIES
    <3>1. Above(P, e) \in SUBSET (P \ {e})
      BY <1>5 DEF Above
    <3>2. IsFiniteSet(P \ {e}) /\ Cardinality(P \ {e}) = Cardinality(P) - 1
      <4> HIDE DEF P
      <4> QED BY <1>5, FS_RemoveElement
    <3>3. Cardinality(Above(P, e)) <= Cardinality(P \ {e})
      <4> HIDE DEF P
      <4> QED BY <3>1, <3>2, FS_Subset
    <3>4. Cardinality(P) <= MAX_ENTRIES /\ Cardinality(P) \in Nat
      BY <1>1, <1>4, <1>7, <2>2
    <3> HIDE DEF P
    <3> QED BY <1>0, <1>6, <3>2, <3>3, <3>4
  <2>4. NewestOf(P) = P
    BY <2>3 DEF NewestOf
  <2> QED BY <1>7, <2>2, <2>4 DEF Insert
<1>8. CASE ~(Cardinality(T) <= MAX_ENTRIES)
  <2>1. Cardinality(T) = MAX_ENTRIES + 1
    BY <1>0, <1>1, <1>4, <1>8
  <2> DEFINE m == Min(T)
  <2>2. m \in T /\ \A y \in T : m <= y
    <3>1. T \in SUBSET Nat /\ T # {}
      BY <1>0, <1>2
    <3> HIDE DEF T
    <3> QED BY <3>1, MinOfStamps
  <2>3. Insert(N, s) = T \ {m}
    BY <1>8 DEF Insert
  <2> HIDE DEF m
  <2>4. ASSUME NEW e \in T \ {m} PROVE Cardinality(Above(P, e)) < MAX_ENTRIES
    <3>1. e > m
      BY <1>0, <1>2, <2>2
    <3>2. \A f \in R : f > e => f \in N
      BY <1>0, <1>1, <1>2, <2>2, <3>1
    <3>3. Above(P, e) \in SUBSET ((T \ {m}) \ {e})
      <4> SUFFICES ASSUME NEW f \in P, f > e PROVE f \in T /\ f # m /\ f # e
        BY DEF Above
      <4>1. e \in Nat /\ f \in Nat /\ m \in Nat
        BY <1>0, <1>2, <1>5, <2>2
      <4> QED BY <4>1, <2>2, <3>1, <3>2
    <3>4. IsFiniteSet(T \ {m}) /\ Cardinality(T \ {m}) = MAX_ENTRIES
      <4>1. Cardinality(T) - 1 = MAX_ENTRIES
        BY <1>0, <2>1
      <4> HIDE DEF T
      <4> QED BY <1>4, <2>2, <4>1, FS_RemoveElement
    <3>5. IsFiniteSet((T \ {m}) \ {e}) /\ Cardinality((T \ {m}) \ {e}) = MAX_ENTRIES - 1
      <4> HIDE DEF T
      <4> QED BY <3>4, FS_RemoveElement
    <3>6. Cardinality(Above(P, e)) <= MAX_ENTRIES - 1
      <4> HIDE DEF T, P
      <4> QED BY <3>3, <3>5, FS_Subset
    <3>7. Cardinality(Above(P, e)) \in Nat
      <4>1. e \in P
        BY <1>5
      <4> HIDE DEF P
      <4> QED BY <1>6, <4>1
    <3> QED BY <1>0, <3>6, <3>7
  <2>5. ASSUME NEW e \in P, e \notin T \ {m} PROVE ~(Cardinality(Above(P, e)) < MAX_ENTRIES)
    <3>1. CASE e = m
      <4>1. T \ {m} \in SUBSET Above(P, e)
        BY <1>0, <1>2, <2>2, <3>1 DEF Above
      <4>2. IsFiniteSet(T \ {m}) /\ Cardinality(T \ {m}) = MAX_ENTRIES
        <5> HIDE DEF T
        <5> QED BY <1>0, <1>4, <2>1, <2>2, FS_RemoveElement
      <4>3. Cardinality(T \ {m}) <= Cardinality(Above(P, e))
        <5> HIDE DEF T, P
        <5> QED BY <1>6, <4>1, FS_Subset
      <4> QED BY <1>0, <1>6, <4>2, <4>3
    <3>2. CASE e # m
      <4>1. e \in R /\ e \notin N
        BY <2>5, <3>2
      <4>2. Above(R, e) \in SUBSET Above(P, e)
        BY DEF Above
      <4>3. Cardinality(Above(R, e)) <= Cardinality(Above(P, e))
        <5> HIDE DEF P
        <5> QED BY <1>6, <4>2, FS_Subset
      <4>4. Cardinality(Above(R, e)) \in Nat
        <5>1. Above(R, e) \in SUBSET R
          BY DEF Above
        <5> QED BY <1>1, <5>1, FS_Subset, FS_CardinalityType
      <4> QED BY <1>0, <1>3, <1>6, <4>1, <4>3, <4>4
    <3> QED BY <3>1, <3>2
  <2>6. NewestOf(P) = T \ {m}
    BY <1>5, <2>4, <2>5 DEF NewestOf
  <2> QED BY <2>3, <2>6
<1> QED BY <1>7, <1>8

\* Only the writer of the table replaces it.
LEMMA WriterStep ==
  ASSUME FilesTyped, WriteProtocol, TableBooks, [StateNext]_stateVars, NEW q \in Procs
  PROVE  TableHolds(q)'
<1>0. TableHolds(q) /\ (actor[q].pc \in {"fill", "rename"} /\ actor[q].doc = "table" => lock["table"] = q)
  BY DEF TableBooks, WriteProtocol, LockBooks, Docs
<1>a. actor[q].then \notin {"fill", "rename"}
  BY ActorTypes DEF Actors
<1>b. TableHolds(q)' <=> (actor'[q].pc \in {"fill", "rename"} /\ actor'[q].doc = "table"
        => actor'[q].val.entries = Insert(content'["table"].val.entries, actor'[q].stamp))
  BY DEF TableHolds, Insert
<1>c. \A p \in Procs : actor[p].pc = "rename" /\ actor[p].doc = "table" => lock["table"] = p
  BY DEF WriteProtocol, LockBooks, Docs
<1> USE <1>0, <1>a, <1>b DEF TableHolds, Moved, Docs
<1>1. ASSUME NEW p \in Procs, dispatch_one(p) PROVE TableHolds(q)'
  BY <1>1, DispatchMoves
<1>2. ASSUME NEW p \in Procs, begin_heartbeat(p) PROVE TableHolds(q)'
  BY <1>2, BeginMoves
<1>3. ASSUME NEW p \in Procs, write_window(p) PROVE TableHolds(q)'
  BY <1>3, CountMoves
<1>4. ASSUME NEW p \in Procs, record_for_chat(p) PROVE TableHolds(q)'
  BY <1>4, RecordMoves
<1>5. ASSUME NEW p \in Procs, NEW ok \in BOOLEAN, finish_heartbeat(p, ok) PROVE TableHolds(q)'
  BY <1>5, FinishMoves
<1>6. ASSUME NEW p \in Procs, TakeLock(p) PROVE TableHolds(q)'
  BY <1>6, LockMoves
<1>7. ASSUME NEW p \in Procs, Fill(p) PROVE TableHolds(q)'
  BY <1>7, FillMoves
<1>8. ASSUME NEW p \in Procs, RenameDocument(p) PROVE TableHolds(q)'
  <2>1. CASE q = p
    BY <1>8, <2>1, RenameMoves
  <2>2. CASE q # p
    <3>1. actor'[q] = actor[q]
      BY <1>8, <2>2, RenameMoves
    <3>2. actor[q].pc \in {"fill", "rename"} /\ actor[q].doc = "table" => actor[p].doc # "table"
      BY <1>8, <1>c, <2>2, RenameMoves
    <3>3. actor[p].doc # "table" => content'["table"] = content["table"]
      BY <1>8, RenameMoves
    <3> QED BY <3>1, <3>2, <3>3
  <2> QED BY <2>1, <2>2
<1>9. ASSUME NEW p \in Procs, WriteDocumentFails(p) PROVE TableHolds(q)'
  BY <1>9, FailMoves
<1>10. ASSUME NEW p \in Procs, Crash(p) PROVE TableHolds(q)'
  BY <1>10, CrashMoves
<1>11. CASE RemoveHeartbeat
  BY <1>11, RemoveMoves
<1>12. CASE UNCHANGED stateVars
  <2>1. actor'[q] = actor[q] /\ content' = content
    BY <1>12 DEF stateVars
  <2> QED BY <2>1
<1> QED BY <1>1, <1>2, <1>3, <1>4, <1>5, <1>6, <1>7, <1>8, <1>9, <1>10, <1>11, <1>12 DEF StateNext

\* The table holds the newest of what was recorded.
LEMMA NewestStep ==
  ASSUME FilesTyped, WriteProtocol, StampBooks, TableBooks, [StateNext]_stateVars
  PROVE  TableKeepsNewest'
<1>0. TableKeepsNewest <=> content["table"].val.entries = NewestOf(recorded)
  BY DEF TableKeepsNewest, NewestOf, Above
<1>a. TableKeepsNewest' <=> content'["table"].val.entries = NewestOf(recorded')
  BY DEF TableKeepsNewest, NewestOf, Above
<1>b. TableKeepsNewest
  BY DEF TableBooks
<1> USE <1>0, <1>a, <1>b DEF Docs
<1>1. ASSUME NEW p \in Procs, dispatch_one(p) PROVE TableKeepsNewest'
  BY <1>1, DispatchMoves
<1>2. ASSUME NEW p \in Procs, begin_heartbeat(p) PROVE TableKeepsNewest'
  BY <1>2, BeginMoves
<1>3. ASSUME NEW p \in Procs, write_window(p) PROVE TableKeepsNewest'
  BY <1>3, CountMoves
<1>4. ASSUME NEW p \in Procs, record_for_chat(p) PROVE TableKeepsNewest'
  BY <1>4, RecordMoves
<1>5. ASSUME NEW p \in Procs, NEW ok \in BOOLEAN, finish_heartbeat(p, ok) PROVE TableKeepsNewest'
  BY <1>5, FinishMoves
<1>6. ASSUME NEW p \in Procs, TakeLock(p) PROVE TableKeepsNewest'
  BY <1>6, LockMoves
<1>7. ASSUME NEW p \in Procs, Fill(p) PROVE TableKeepsNewest'
  BY <1>7, FillMoves
<1>8. ASSUME NEW p \in Procs, RenameDocument(p) PROVE TableKeepsNewest'
  <2>1. CASE actor[p].doc # "table"
    BY <1>8, <2>1, RenameMoves
  <2>2. CASE actor[p].doc = "table"
    <3> DEFINE s == actor[p].stamp
    <3>1. content'["table"] = WholeFile(actor[p].val) /\ recorded' = recorded \union {s}
      BY <1>8, <2>2, RenameMoves DEF WriteProtocol, TmpBooks, TmpHolds
    <3>2. content'["table"].val.entries = Insert(NewestOf(recorded), s)
      BY <1>8, <2>2, <3>1, RenameMoves DEF WholeFile, TableBooks, TableHolds
    <3>3. starts \in Nat /\ recorded \in SUBSET (1 .. starts) /\ s \in 1 .. starts /\ s \notin recorded
      BY <1>8, StateFilesAssumption, RenameMoves DEF FilesTyped, StampBooks
    <3> HIDE DEF s
    <3>4. Insert(NewestOf(recorded), s) = NewestOf(recorded \union {s})
      BY <3>3, NewestInsert
    <3> QED BY <3>1, <3>2, <3>4
  <2> QED BY <2>1, <2>2
<1>9. ASSUME NEW p \in Procs, WriteDocumentFails(p) PROVE TableKeepsNewest'
  BY <1>9, FailMoves
<1>10. ASSUME NEW p \in Procs, Crash(p) PROVE TableKeepsNewest'
  BY <1>10, CrashMoves
<1>11. CASE RemoveHeartbeat
  <2>1. content'["table"] = content["table"] /\ recorded' = recorded
    BY <1>11, RemoveMoves
  <2> QED BY <2>1
<1>12. CASE UNCHANGED stateVars
  BY <1>12 DEF stateVars
<1> QED BY <1>1, <1>2, <1>3, <1>4, <1>5, <1>6, <1>7, <1>8, <1>9, <1>10, <1>11, <1>12 DEF StateNext

\* The table is kept.
LEMMA TableStep ==
  ASSUME FilesTyped, WriteProtocol, StampBooks, TableBooks, [StateNext]_stateVars
  PROVE  TableBooks'
BY WriterStep, NewestStep DEF TableBooks

-----------------------------------------------------------------------------
(* The successes.                                                          *)

\* The runs that may still succeed are finitely many.
LEMMA FewWinners ==
  /\ IsFiniteSet(Winners) /\ Cardinality(Winners) \in Nat
  /\ \A S \in SUBSET Winners : Cardinality(S) <= Cardinality(Winners)
<1>1. IsFiniteSet(Winners)
  BY StateFilesAssumption, FS_Subset DEF Winners
<1> QED BY <1>1, FS_Subset, FS_CardinalityType

\* Every success takes the place of a run that might have had it.
LEMMA WonStep ==
  ASSUME FilesTyped, WriteProtocol, WonBooks, [StateNext]_stateVars
  PROVE  WonBooks'
<1> DEFINE n == Cardinality(won)
           k == Cardinality(Winners)
<1>0. /\ IsFiniteSet(won) /\ won = 1 .. n /\ n + k <= starts /\ n \in Nat /\ k \in Nat /\ starts \in Nat
      /\ IsFiniteSet(Winners)
  BY StateFilesAssumption, FewWinners, FS_CardinalityType DEF WonBooks, FilesTyped
<1>a. WonBooks' <=> /\ IsFiniteSet(won') /\ won' = 1 .. Cardinality(won')
                    /\ Cardinality(won') + Cardinality(Winners') <= starts'
  BY DEF WonBooks
<1>b. ASSUME Winners' \in SUBSET Winners, won' = won, starts' \in Nat, starts' >= starts PROVE WonBooks'
  <2>1. Cardinality(Winners') <= k /\ Cardinality(Winners') \in Nat
    BY <1>0, <1>b, FS_Subset, FS_CardinalityType
  <2> QED BY <1>0, <1>a, <1>b, <2>1
<1>c. \A q \in Procs : actor[q].then \in {"idle", "running", "count"} /\ AtWork(q)
  BY ActorTypes DEF Actors, WriteProtocol
<1> HIDE DEF n, k
<1> USE <1>0, <1>b, <1>c DEF Winners, MayWin, Moved
<1>1. ASSUME NEW p \in Procs, dispatch_one(p) PROVE WonBooks'
  <2>1. Winners' = Winners \union {p} /\ p \notin Winners
    BY <1>1, DispatchMoves
  <2>2. Cardinality(Winners') = k + 1
    <3> HIDE DEF Winners
    <3> QED BY <2>1, FS_AddElement DEF k
  <2>3. won' = won /\ starts' = starts + 1
    BY <1>1, DispatchMoves
  <2> QED BY <1>a, <2>2, <2>3 DEF n
<1>2. ASSUME NEW p \in Procs, begin_heartbeat(p) PROVE WonBooks'
  BY <1>2, BeginMoves
<1>3. ASSUME NEW p \in Procs, write_window(p) PROVE WonBooks'
  BY <1>3, CountMoves
<1>4. ASSUME NEW p \in Procs, record_for_chat(p) PROVE WonBooks'
  BY <1>4, RecordMoves
<1>5. ASSUME NEW p \in Procs, NEW ok \in BOOLEAN, finish_heartbeat(p, ok) PROVE WonBooks'
  <2>1. p \in Winners /\ Winners' = Winners \ {p} /\ starts' = starts
    BY <1>5, FinishMoves
  <2>2. Cardinality(Winners') = k - 1
    <3> HIDE DEF Winners
    <3> QED BY <2>1, FS_RemoveElement DEF k
  <2>3. CASE ~ok
    <3>1. won' = won
      BY <1>5, <2>3, FinishMoves
    <3> QED BY <2>1, <3>1
  <2>4. CASE ok
    <3>1. won' = won \union {n + 1}
      BY <1>5, <2>4, FinishMoves DEF NextStamp, n
    <3>2. won' = 1 .. n + 1
      BY <3>1
    <3>3. IsFiniteSet(won') /\ Cardinality(won') = n + 1
      BY <3>2, FS_Interval
    <3> QED BY <1>a, <2>1, <2>2, <3>2, <3>3
  <2> QED BY <2>3, <2>4
<1>6. ASSUME NEW p \in Procs, TakeLock(p) PROVE WonBooks'
  BY <1>6, LockMoves
<1>7. ASSUME NEW p \in Procs, Fill(p) PROVE WonBooks'
  BY <1>7, FillMoves
<1>8. ASSUME NEW p \in Procs, RenameDocument(p) PROVE WonBooks'
  BY <1>8, RenameMoves
<1>9. ASSUME NEW p \in Procs, WriteDocumentFails(p) PROVE WonBooks'
  BY <1>9, FailMoves
<1>10. ASSUME NEW p \in Procs, Crash(p) PROVE WonBooks'
  BY <1>10, CrashMoves
<1>11. CASE RemoveHeartbeat
  BY <1>11, RemoveMoves
<1>12. CASE UNCHANGED stateVars
  BY <1>12 DEF stateVars
<1> QED BY <1>1, <1>2, <1>3, <1>4, <1>5, <1>6, <1>7, <1>8, <1>9, <1>10, <1>11, <1>12 DEF StateNext

\* No heartbeat claims a success that no run had.
LEMMA ClaimStep ==
  ASSUME FilesTyped, WriteProtocol, SuccessBooks, [StateNext]_stateVars, NEW q \in Procs
  PROVE  ClaimHolds(q)'
<1>0. ClaimHolds(q) /\ content["heartbeat"].val.success \in won \union {0}
  BY DEF SuccessBooks, SuccessIsReal
<1>a. ClaimHolds(q)' <=> (actor'[q].pc \in {"lock", "fill", "rename"} /\ actor'[q].doc = "heartbeat"
                            => actor'[q].val.success \in won' \union {0})
  BY DEF ClaimHolds
<1>b. actor[q].then \notin {"lock", "fill", "rename"}
  BY ActorTypes DEF Actors
<1> USE <1>0, <1>a, <1>b DEF ClaimHolds, Moved
<1>1. ASSUME NEW p \in Procs, dispatch_one(p) PROVE ClaimHolds(q)'
  BY <1>1, DispatchMoves
<1>2. ASSUME NEW p \in Procs, begin_heartbeat(p) PROVE ClaimHolds(q)'
  BY <1>2, BeginMoves
<1>3. ASSUME NEW p \in Procs, write_window(p) PROVE ClaimHolds(q)'
  BY <1>3, CountMoves
<1>4. ASSUME NEW p \in Procs, record_for_chat(p) PROVE ClaimHolds(q)'
  BY <1>4, RecordMoves
<1>5. ASSUME NEW p \in Procs, NEW ok \in BOOLEAN, finish_heartbeat(p, ok) PROVE ClaimHolds(q)'
  BY <1>5, FinishMoves
<1>6. ASSUME NEW p \in Procs, TakeLock(p) PROVE ClaimHolds(q)'
  BY <1>6, LockMoves
<1>7. ASSUME NEW p \in Procs, Fill(p) PROVE ClaimHolds(q)'
  BY <1>7, FillMoves
<1>8. ASSUME NEW p \in Procs, RenameDocument(p) PROVE ClaimHolds(q)'
  BY <1>8, RenameMoves
<1>9. ASSUME NEW p \in Procs, WriteDocumentFails(p) PROVE ClaimHolds(q)'
  BY <1>9, FailMoves
<1>10. ASSUME NEW p \in Procs, Crash(p) PROVE ClaimHolds(q)'
  BY <1>10, CrashMoves
<1>11. CASE RemoveHeartbeat
  BY <1>11, RemoveMoves
<1>12. CASE UNCHANGED stateVars
  BY <1>12 DEF stateVars
<1> QED BY <1>1, <1>2, <1>3, <1>4, <1>5, <1>6, <1>7, <1>8, <1>9, <1>10, <1>11, <1>12 DEF StateNext

\* No success is on file that was not one.
LEMMA RealStep ==
  ASSUME FilesTyped, WriteProtocol, SuccessBooks, [StateNext]_stateVars
  PROVE  SuccessIsReal'
<1>0. content["heartbeat"].val.success \in won \union {0} /\ \A p \in Procs : ClaimHolds(p)
  BY DEF SuccessBooks, SuccessIsReal
<1>a. SuccessIsReal' <=> content'["heartbeat"].val.success \in won' \union {0}
  BY DEF SuccessIsReal
<1> USE <1>0, <1>a DEF Docs
<1>1. ASSUME NEW p \in Procs, dispatch_one(p) PROVE SuccessIsReal'
  BY <1>1, DispatchMoves
<1>2. ASSUME NEW p \in Procs, begin_heartbeat(p) PROVE SuccessIsReal'
  BY <1>2, BeginMoves
<1>3. ASSUME NEW p \in Procs, write_window(p) PROVE SuccessIsReal'
  BY <1>3, CountMoves
<1>4. ASSUME NEW p \in Procs, record_for_chat(p) PROVE SuccessIsReal'
  BY <1>4, RecordMoves
<1>5. ASSUME NEW p \in Procs, NEW ok \in BOOLEAN, finish_heartbeat(p, ok) PROVE SuccessIsReal'
  BY <1>5, FinishMoves
<1>6. ASSUME NEW p \in Procs, TakeLock(p) PROVE SuccessIsReal'
  BY <1>6, LockMoves
<1>7. ASSUME NEW p \in Procs, Fill(p) PROVE SuccessIsReal'
  BY <1>7, FillMoves
<1>8. ASSUME NEW p \in Procs, RenameDocument(p) PROVE SuccessIsReal'
  <2>1. actor[p].doc = "heartbeat" => tmp["heartbeat"].val.success \in won \union {0}
    <3>1. actor[p].pc = "rename" /\ tmp[actor[p].doc] = WholeFile(actor[p].val)
      BY <1>8, RenameMoves DEF WriteProtocol, TmpBooks, TmpHolds
    <3> QED BY <3>1 DEF WholeFile, ClaimHolds
  <2>2. /\ content'["heartbeat"] = IF actor[p].doc = "heartbeat" THEN tmp["heartbeat"] ELSE content["heartbeat"]
        /\ won' = won
    BY <1>8, RenameMoves
  <2> QED BY <2>1, <2>2
<1>9. ASSUME NEW p \in Procs, WriteDocumentFails(p) PROVE SuccessIsReal'
  BY <1>9, FailMoves
<1>10. ASSUME NEW p \in Procs, Crash(p) PROVE SuccessIsReal'
  BY <1>10, CrashMoves
<1>11. CASE RemoveHeartbeat
  <2>1. content'["heartbeat"].val.success = 0
    BY <1>11, RemoveMoves DEF Absent, Blank
  <2> QED BY <2>1
<1>12. CASE UNCHANGED stateVars
  BY <1>12 DEF stateVars
<1> QED BY <1>1, <1>2, <1>3, <1>4, <1>5, <1>6, <1>7, <1>8, <1>9, <1>10, <1>11, <1>12 DEF StateNext

\* What is on file, and on its way there, is the latest success there was.
LEMMA SuccessStep ==
  ASSUME FilesTyped, WriteProtocol, SuccessBooks, [StateNext]_stateVars
  PROVE  SuccessBooks'
BY WonStep, ClaimStep, RealStep DEF SuccessBooks

-----------------------------------------------------------------------------
(* Runs that have the files to themselves.                                 *)

\* Who has them to himself had them before.
LEMMA AloneBefore ==
  ASSUME FilesTyped, [StateNext]_stateVars, ~overlapped', ~erased'
  PROVE  ~overlapped /\ ~erased
<1> DEFINE G == ~overlapped /\ ~erased
<1>1. ASSUME NEW p \in Procs, dispatch_one(p) PROVE G
  BY <1>1, DispatchMoves
<1>2. ASSUME NEW p \in Procs, begin_heartbeat(p) PROVE G
  BY <1>2, BeginMoves
<1>3. ASSUME NEW p \in Procs, write_window(p) PROVE G
  BY <1>3, CountMoves
<1>4. ASSUME NEW p \in Procs, record_for_chat(p) PROVE G
  BY <1>4, RecordMoves
<1>5. ASSUME NEW p \in Procs, NEW ok \in BOOLEAN, finish_heartbeat(p, ok) PROVE G
  BY <1>5, FinishMoves
<1>6. ASSUME NEW p \in Procs, TakeLock(p) PROVE G
  BY <1>6, LockMoves
<1>7. ASSUME NEW p \in Procs, Fill(p) PROVE G
  BY <1>7, FillMoves
<1>8. ASSUME NEW p \in Procs, RenameDocument(p) PROVE G
  BY <1>8, RenameMoves
<1>9. ASSUME NEW p \in Procs, WriteDocumentFails(p) PROVE G
  BY <1>9, FailMoves
<1>10. ASSUME NEW p \in Procs, Crash(p) PROVE G
  BY <1>10, CrashMoves
<1>11. CASE RemoveHeartbeat
  BY <1>11, RemoveMoves
<1>12. CASE UNCHANGED stateVars
  BY <1>12 DEF stateVars
<1> QED BY <1>1, <1>2, <1>3, <1>4, <1>5, <1>6, <1>7, <1>8, <1>9, <1>10, <1>11, <1>12 DEF StateNext

\* A run begins beside another only if that is noted.
LEMMA OnlyRunStep ==
  ASSUME FilesTyped, WriteProtocol, StampBooks, SuccessBooks, AloneBooks, [StateNext]_stateVars,
         ~overlapped', ~erased'
  PROVE  OnlyRun'
<1>0. OnlyRun /\ (\A r \in Procs : RunHolds(r)) /\ HeartbeatKept /\ AllCounted
  BY AloneBefore DEF AloneBooks
<1>e. ~erased' /\ ~overlapped' /\ \A r \in Procs : AtWork(r) /\ TmpHolds(r)
  BY DEF WriteProtocol, TmpBooks
<1>t. \A r \in Procs : /\ actor[r].then \in {"idle", "running", "count"}
                       /\ actor[r].pc \in {"begin", "running", "count"} => actor[r].doc # "table"
  BY <1>e, ActorTypes DEF Actors, AtWork
<1>a. OnlyRun' <=> \A r, q \in Procs : InRun(r)' /\ InRun(q)' => r = q
  BY DEF OnlyRun
<1>b. ASSUME NEW p \in Procs, \A q \in Procs : InRun(q)' => InRun(q) PROVE OnlyRun'
  BY <1>0, <1>a, <1>b DEF OnlyRun
<1> USE <1>e, <1>b, <1>t DEF InRun, Moved
<1>1. ASSUME NEW p \in Procs, dispatch_one(p) PROVE OnlyRun'
  <2>1. \A q \in Procs \ {p} : ~InRun(q) /\ actor'[q] = actor[q]
    <3> HIDE DEF InRun
    <3> QED BY <1>1, DispatchMoves
  <2>2. \A q \in Procs \ {p} : ~InRun(q)'
    BY <2>1
  <2> QED BY <1>a, <2>2
<1>2. ASSUME NEW p \in Procs, begin_heartbeat(p) PROVE OnlyRun'
  BY <1>2, BeginMoves
<1>3. ASSUME NEW p \in Procs, write_window(p) PROVE OnlyRun'
  BY <1>3, CountMoves
<1>4. ASSUME NEW p \in Procs, record_for_chat(p) PROVE OnlyRun'
  BY <1>4, RecordMoves
<1>5. ASSUME NEW p \in Procs, NEW ok \in BOOLEAN, finish_heartbeat(p, ok) PROVE OnlyRun'
  BY <1>5, FinishMoves
<1>6. ASSUME NEW p \in Procs, TakeLock(p) PROVE OnlyRun'
  BY <1>6, LockMoves
<1>7. ASSUME NEW p \in Procs, Fill(p) PROVE OnlyRun'
  BY <1>7, FillMoves
<1>8. ASSUME NEW p \in Procs, RenameDocument(p) PROVE OnlyRun'
  BY <1>8, RenameMoves
<1>9. ASSUME NEW p \in Procs, WriteDocumentFails(p) PROVE OnlyRun'
  BY <1>9, <1>e, FailMoves
<1>10. ASSUME NEW p \in Procs, Crash(p) PROVE OnlyRun'
  BY <1>10, <1>e, CrashMoves
<1>11. CASE RemoveHeartbeat
  BY <1>11, <1>e, RemoveMoves
<1>12. CASE UNCHANGED stateVars
  <2>1. \A q \in Procs : InRun(q)' <=> InRun(q)
    BY <1>12 DEF stateVars
  <2> QED BY <1>0, <1>a, <2>1 DEF OnlyRun
<1> QED BY <1>1, <1>2, <1>3, <1>4, <1>5, <1>6, <1>7, <1>8, <1>9, <1>10, <1>11, <1>12 DEF StateNext

\* What a run reads in the heartbeat, before it has come to an end.
LEMMA HeartbeatRead ==
  ASSUME FilesTyped, WriteProtocol, OnlyRun, HeartbeatKept, NEW p \in Procs, InRun(p), ~Finishing(p)
  PROVE  content["heartbeat"].val.success = Cardinality(won)
<1>1. \A r \in Procs : AtWork(r)
  BY DEF WriteProtocol
<1>2. ASSUME NEW r \in Procs, Finishing(r) PROVE r = p
  <2>1. InRun(r)
    BY <1>1, <1>2 DEF Finishing, InRun, AtWork
  <2> QED BY <2>1 DEF OnlyRun
<1> QED BY <1>2 DEF HeartbeatKept

\* A success more.
LEMMA OneMoreWon ==
  ASSUME FilesTyped, WonBooks, won' = won \union {NextStamp}
  PROVE  Cardinality(won') = Cardinality(won) + 1 /\ Cardinality(won) \in Nat
<1>1. IsFiniteSet(won) /\ won = 1 .. Cardinality(won) /\ Cardinality(won) \in Nat
  BY FS_CardinalityType DEF WonBooks
<1>2. NextStamp \notin won
  BY <1>1 DEF NextStamp
<1>3. Cardinality(won') = Cardinality(won \union {NextStamp})
  OBVIOUS
<1> QED BY <1>1, <1>2, <1>3, FS_AddElement

\* A run works on what the files hold.
LEMMA RunHoldsStep ==
  ASSUME FilesTyped, WriteProtocol, StampBooks, SuccessBooks, AloneBooks, [StateNext]_stateVars,
         ~overlapped', ~erased', NEW q \in Procs
  PROVE  RunHolds(q)'
<1>0. OnlyRun /\ (\A r \in Procs : RunHolds(r)) /\ HeartbeatKept /\ AllCounted
  BY AloneBefore DEF AloneBooks
<1>e. ~erased' /\ ~overlapped' /\ \A r \in Procs : AtWork(r) /\ TmpHolds(r)
  BY DEF WriteProtocol, TmpBooks
<1>t. \A r \in Procs : /\ actor[r].then \in {"idle", "running", "count"}
                       /\ actor[r].pc \in {"begin", "running", "count"} => actor[r].doc # "table"
  BY <1>e, ActorTypes DEF Actors, AtWork
<1>a. RunHolds(q)' <=>
        (InRun(q)' =>
           /\ actor'[q].attempts = content'["window"].val.attempts
           /\ actor'[q].pc \in {"lock", "fill", "rename"} /\ actor'[q].doc = "window"
                => actor'[q].val.attempts = actor'[q].attempts + 1
           /\ actor'[q].pc \in {"lock", "fill", "rename"} /\ actor'[q].doc = "heartbeat"
                => actor'[q].val.success = Cardinality(won'))
  BY DEF RunHolds
<1>b. InRun(q)' <=> actor'[q].pc # "idle" /\ actor'[q].doc # "table"
  BY DEF InRun
<1>r. RunHolds(q)
  BY <1>0
<1>m. ASSUME NEW p \in Procs, InRun(p), q # p, actor'[q] = actor[q] PROVE RunHolds(q)'
  <2>1. ~InRun(q)
    BY <1>0, <1>m DEF OnlyRun
  <2> QED BY <1>a, <1>m, <2>1 DEF InRun
<1>n. ASSUME NEW p \in Procs, InRun(p), ~Finishing(p)
      PROVE  content["heartbeat"].val.success = Cardinality(won)
  BY <1>0, <1>n, HeartbeatRead
<1> USE <1>a, <1>b, <1>r, <1>e, <1>t DEF RunHolds, Moved, Docs, InRun
<1>1. ASSUME NEW p \in Procs, dispatch_one(p) PROVE RunHolds(q)'
  BY <1>1, DispatchMoves
<1>2. ASSUME NEW p \in Procs, begin_heartbeat(p) PROVE RunHolds(q)'
  <2>1. CASE q # p
    <3>1. InRun(p) /\ actor'[q] = actor[q]
      BY <1>2, <2>1, BeginMoves
    <3> QED BY <1>m, <2>1, <3>1
  <2>2. CASE q = p
    <3>1. content["heartbeat"].val.success = Cardinality(won)
      BY <1>2, <1>n, BeginMoves DEF Finishing
    <3> QED BY <1>2, <2>2, <3>1, BeginMoves
  <2> QED BY <2>1, <2>2
<1>3. ASSUME NEW p \in Procs, write_window(p) PROVE RunHolds(q)'
  BY <1>3, CountMoves
<1>4. ASSUME NEW p \in Procs, record_for_chat(p) PROVE RunHolds(q)'
  BY <1>4, RecordMoves
<1>5. ASSUME NEW p \in Procs, NEW ok \in BOOLEAN, finish_heartbeat(p, ok) PROVE RunHolds(q)'
  <2>1. CASE q # p
    <3>1. InRun(p) /\ actor'[q] = actor[q]
      BY <1>5, <2>1, FinishMoves
    <3> QED BY <1>m, <2>1, <3>1
  <2>2. CASE q = p
    <3>1. content["heartbeat"].val.success = Cardinality(won)
      BY <1>5, <1>n, FinishMoves DEF Finishing
    <3>2. actor'[p].val.success = Cardinality(won')
      <4>1. CASE ok
        BY <1>5, <4>1, FinishMoves, OneMoreWon DEF SuccessBooks, NextStamp
      <4>2. CASE ~ok
        BY <1>5, <3>1, <4>2, FinishMoves
      <4> QED BY <4>1, <4>2
    <3> QED BY <1>5, <2>2, <3>2, FinishMoves
  <2> QED BY <2>1, <2>2
<1>6. ASSUME NEW p \in Procs, TakeLock(p) PROVE RunHolds(q)'
  BY <1>6, LockMoves
<1>7. ASSUME NEW p \in Procs, Fill(p) PROVE RunHolds(q)'
  BY <1>7, FillMoves
<1>8. ASSUME NEW p \in Procs, RenameDocument(p) PROVE RunHolds(q)'
  <2>1. CASE q # p
    <3>1. actor'[q] = actor[q]
      BY <1>8, <2>1, RenameMoves
    <3>2. CASE actor[p].doc = "table"
      BY <1>8, <3>1, <3>2, RenameMoves
    <3>3. CASE actor[p].doc # "table"
      <4>1. InRun(p)
        BY <1>8, <3>3, RenameMoves
      <4> QED BY <1>m, <2>1, <3>1, <4>1
    <3> QED BY <3>2, <3>3
  <2>2. CASE q = p
    BY <1>8, <2>2, RenameMoves DEF AtWork
  <2> QED BY <2>1, <2>2
<1>9. ASSUME NEW p \in Procs, WriteDocumentFails(p) PROVE RunHolds(q)'
  BY <1>9, <1>e, FailMoves
<1>10. ASSUME NEW p \in Procs, Crash(p) PROVE RunHolds(q)'
  BY <1>10, <1>e, CrashMoves
<1>11. CASE RemoveHeartbeat
  BY <1>11, <1>e, RemoveMoves
<1>12. CASE UNCHANGED stateVars
  <2>1. actor'[q] = actor[q] /\ content' = content /\ won' = won
    BY <1>12 DEF stateVars
  <2> QED BY <2>1
<1> QED BY <1>1, <1>2, <1>3, <1>4, <1>5, <1>6, <1>7, <1>8, <1>9, <1>10, <1>11, <1>12 DEF StateNext

\* Unless a run is about to replace it, the heartbeat tells the last success.
LEMMA HeartbeatKeptStep ==
  ASSUME FilesTyped, WriteProtocol, StampBooks, SuccessBooks, AloneBooks, [StateNext]_stateVars,
         ~overlapped', ~erased'
  PROVE  HeartbeatKept'
<1>0. OnlyRun /\ (\A r \in Procs : RunHolds(r)) /\ HeartbeatKept /\ AllCounted
  BY AloneBefore DEF AloneBooks
<1>e. ~erased' /\ ~overlapped' /\ \A r \in Procs : AtWork(r) /\ TmpHolds(r)
  BY DEF WriteProtocol, TmpBooks
<1>t. \A r \in Procs : /\ actor[r].then \in {"idle", "running", "count"}
                       /\ actor[r].pc \in {"begin", "running", "count"} => actor[r].doc # "table"
  BY <1>e, ActorTypes DEF Actors, AtWork
<1>a. HeartbeatKept' <=> \/ content'["heartbeat"].val.success = Cardinality(won')
                         \/ \E r \in Procs : Finishing(r)'
  BY DEF HeartbeatKept
<1>s. ASSUME content' = content, won' = won, \A r \in Procs : Finishing(r) => Finishing(r)' PROVE HeartbeatKept'
  BY <1>0, <1>a, <1>s DEF HeartbeatKept
<1> USE <1>e, <1>t, <1>s DEF Finishing, Moved
<1>1. ASSUME NEW p \in Procs, dispatch_one(p) PROVE HeartbeatKept'
  BY <1>1, DispatchMoves
<1>2. ASSUME NEW p \in Procs, begin_heartbeat(p) PROVE HeartbeatKept'
  BY <1>2, BeginMoves
<1>3. ASSUME NEW p \in Procs, write_window(p) PROVE HeartbeatKept'
  BY <1>3, CountMoves
<1>4. ASSUME NEW p \in Procs, record_for_chat(p) PROVE HeartbeatKept'
  BY <1>4, RecordMoves
<1>5. ASSUME NEW p \in Procs, NEW ok \in BOOLEAN, finish_heartbeat(p, ok) PROVE HeartbeatKept'
  <2>1. Finishing(p)'
    BY <1>5, FinishMoves
  <2> QED BY <1>a, <2>1
<1>6. ASSUME NEW p \in Procs, TakeLock(p) PROVE HeartbeatKept'
  BY <1>6, LockMoves
<1>7. ASSUME NEW p \in Procs, Fill(p) PROVE HeartbeatKept'
  BY <1>7, FillMoves
<1>8. ASSUME NEW p \in Procs, RenameDocument(p) PROVE HeartbeatKept'
  <2>0. actor[p].pc = "rename" /\ actor[p].doc \in Docs /\ tmp[actor[p].doc] = WholeFile(actor[p].val)
    BY <1>8, RenameMoves DEF AtWork, TmpHolds
  <2>1. CASE actor[p].doc = "heartbeat"
    <3>1. actor[p].val.success = Cardinality(won)
      BY <1>0, <2>0, <2>1 DEF RunHolds, InRun
    <3>2. content'["heartbeat"] = WholeFile(actor[p].val) /\ won' = won
      BY <1>8, <2>0, <2>1, RenameMoves
    <3> QED BY <1>a, <3>1, <3>2 DEF WholeFile
  <2>2. CASE actor[p].doc # "heartbeat"
    <3>1. content'["heartbeat"] = content["heartbeat"] /\ won' = won
      BY <1>8, <2>2, RenameMoves DEF Docs
    <3>2. actor[p].then = "idle"
      BY <2>0, <2>2 DEF AtWork
    <3>3. \A r \in Procs : Finishing(r) => Finishing(r)'
      BY <1>8, <3>2, RenameMoves
    <3> HIDE DEF Finishing
    <3> QED BY <1>0, <1>a, <3>1, <3>3 DEF HeartbeatKept
  <2> QED BY <2>1, <2>2
<1>9. ASSUME NEW p \in Procs, WriteDocumentFails(p) PROVE HeartbeatKept'
  BY <1>9, <1>e, FailMoves
<1>10. ASSUME NEW p \in Procs, Crash(p) PROVE HeartbeatKept'
  BY <1>10, <1>e, CrashMoves
<1>11. CASE RemoveHeartbeat
  BY <1>11, <1>e, RemoveMoves
<1>12. CASE UNCHANGED stateVars
  BY <1>12 DEF stateVars
<1> QED BY <1>1, <1>2, <1>3, <1>4, <1>5, <1>6, <1>7, <1>8, <1>9, <1>10, <1>11, <1>12 DEF StateNext

\* What is counted are finite sets.
LEMMA FewBusy ==
  ASSUME FilesTyped
  PROVE  /\ IsFiniteSet(Busy) /\ Cardinality(Busy) \in Nat
         /\ IsFiniteSet(recorded) /\ Cardinality(recorded) \in Nat
<1>1. IsFiniteSet(Busy)
  BY StateFilesAssumption, FS_Subset DEF Busy
<1>2. starts \in Int /\ recorded \in SUBSET (1 .. starts)
  BY StateFilesAssumption DEF FilesTyped
<1>3. IsFiniteSet(1 .. starts)
  BY <1>2, FS_Interval
<1>4. IsFiniteSet(recorded)
  BY <1>2, <1>3, FS_Subset
<1> QED BY <1>1, <1>4, FS_CardinalityType

\* Every run that has ended is counted in the window, every record in the table.
LEMMA CountedStep ==
  ASSUME FilesTyped, WriteProtocol, StampBooks, SuccessBooks, AloneBooks, [StateNext]_stateVars,
         ~overlapped', ~erased'
  PROVE  AllCounted'
<1>0. OnlyRun /\ (\A r \in Procs : RunHolds(r)) /\ HeartbeatKept /\ AllCounted
  BY AloneBefore DEF AloneBooks
<1>e. ~erased' /\ ~overlapped' /\ \A r \in Procs : AtWork(r) /\ TmpHolds(r)
  BY DEF WriteProtocol, TmpBooks
<1>t. \A r \in Procs : /\ actor[r].then \in {"idle", "running", "count"}
                       /\ actor[r].pc \in {"begin", "running", "count"} => actor[r].doc # "table"
  BY <1>e, ActorTypes DEF Actors, AtWork
<1>a. AllCounted' <=>
        content'["window"].val.attempts + Cardinality(recorded') + Cardinality(Busy') = starts'
  BY DEF AllCounted
<1>f. IsFiniteSet(Busy) /\ Cardinality(Busy) \in Nat /\ IsFiniteSet(recorded) /\ Cardinality(recorded) \in Nat
  BY FewBusy
<1>g. /\ content["window"].val.attempts \in Nat /\ starts \in Nat
      /\ content["window"].val.attempts + Cardinality(recorded) + Cardinality(Busy) = starts
  BY <1>0, StateFilesAssumption DEF AllCounted, FilesTyped, Contents, Vals, Docs
<1>s. ASSUME Busy' = Busy, content' = content, recorded' = recorded, starts' = starts PROVE AllCounted'
  BY <1>a, <1>g, <1>s
<1> USE <1>e, <1>t DEF Busy, Moved
<1>1. ASSUME NEW p \in Procs, dispatch_one(p) PROVE AllCounted'
  <2>1. /\ Busy' = Busy \union {p} /\ p \notin Busy
        /\ content' = content /\ recorded' = recorded /\ starts' = starts + 1
    BY <1>1, DispatchMoves
  <2>2. Cardinality(Busy') = Cardinality(Busy) + 1
    <3> HIDE DEF Busy
    <3> QED BY <1>f, <2>1, FS_AddElement
  <2> QED BY <1>a, <1>f, <1>g, <2>1, <2>2
<1>2. ASSUME NEW p \in Procs, begin_heartbeat(p) PROVE AllCounted'
  <2>1. Busy' = Busy /\ content' = content /\ recorded' = recorded /\ starts' = starts
    BY <1>2, BeginMoves
  <2> QED BY <1>s, <2>1
<1>3. ASSUME NEW p \in Procs, write_window(p) PROVE AllCounted'
  <2>1. Busy' = Busy /\ content' = content /\ recorded' = recorded /\ starts' = starts
    BY <1>3, CountMoves
  <2> QED BY <1>s, <2>1
<1>4. ASSUME NEW p \in Procs, record_for_chat(p) PROVE AllCounted'
  <2>1. /\ Busy' = Busy \union {p} /\ p \notin Busy
        /\ content' = content /\ recorded' = recorded /\ starts' = starts + 1
    BY <1>4, RecordMoves
  <2>2. Cardinality(Busy') = Cardinality(Busy) + 1
    <3> HIDE DEF Busy
    <3> QED BY <1>f, <2>1, FS_AddElement
  <2> QED BY <1>a, <1>f, <1>g, <2>1, <2>2
<1>5. ASSUME NEW p \in Procs, NEW ok \in BOOLEAN, finish_heartbeat(p, ok) PROVE AllCounted'
  <2>1. Busy' = Busy /\ content' = content /\ recorded' = recorded /\ starts' = starts
    BY <1>5, FinishMoves
  <2> QED BY <1>s, <2>1
<1>6. ASSUME NEW p \in Procs, TakeLock(p) PROVE AllCounted'
  <2>1. Busy' = Busy /\ content' = content /\ recorded' = recorded /\ starts' = starts
    BY <1>6, LockMoves
  <2> QED BY <1>s, <2>1
<1>7. ASSUME NEW p \in Procs, Fill(p) PROVE AllCounted'
  <2>1. Busy' = Busy /\ content' = content /\ recorded' = recorded /\ starts' = starts
    BY <1>7, FillMoves
  <2> QED BY <1>s, <2>1
<1>8. ASSUME NEW p \in Procs, RenameDocument(p) PROVE AllCounted'
  <2>0. /\ actor[p].pc = "rename" /\ actor[p].doc \in Docs /\ tmp[actor[p].doc] = WholeFile(actor[p].val)
        /\ actor[p].then = "idle" <=> actor[p].doc # "heartbeat"
        /\ starts' = starts
    BY <1>8, RenameMoves DEF AtWork, TmpHolds
  <2>1. CASE actor[p].doc = "heartbeat"
    <3>1. Busy' = Busy /\ content'["window"] = content["window"] /\ recorded' = recorded
      BY <1>8, <2>0, <2>1, RenameMoves DEF Docs
    <3> HIDE DEF Busy
    <3> QED BY <1>a, <1>g, <2>0, <3>1
  <2>2. CASE actor[p].doc # "heartbeat"
    <3>1. Busy' = Busy \ {p} /\ p \in Busy
      BY <1>8, <2>0, <2>2, RenameMoves
    <3> HIDE DEF Busy
    <3>2. Cardinality(Busy') = Cardinality(Busy) - 1
      BY <1>f, <3>1, FS_RemoveElement
    <3>3. CASE actor[p].doc = "window"
      <4>1. actor[p].val.attempts = content["window"].val.attempts + 1
        BY <1>0, <2>0, <3>3 DEF RunHolds, InRun
      <4>2. content'["window"] = WholeFile(actor[p].val) /\ recorded' = recorded
        BY <1>8, <2>0, <3>3, RenameMoves
      <4>3. content'["window"].val.attempts = content["window"].val.attempts + 1
        BY <4>1, <4>2 DEF WholeFile
      <4> QED BY <1>a, <1>f, <1>g, <2>0, <3>2, <4>2, <4>3
    <3>4. CASE actor[p].doc = "table"
      <4>1. content'["window"] = content["window"] /\ recorded' = recorded \union {actor[p].stamp}
        BY <1>8, <3>4, RenameMoves DEF Docs
      <4>2. actor[p].stamp \notin recorded
        BY <2>0 DEF StampBooks
      <4>3. Cardinality(recorded') = Cardinality(recorded) + 1
        BY <1>f, <4>1, <4>2, FS_AddElement
      <4> QED BY <1>a, <1>f, <1>g, <2>0, <3>2, <4>1, <4>3
    <3> QED BY <2>0, <2>2, <3>3, <3>4 DEF Docs
  <2> QED BY <2>1, <2>2
<1>9. ASSUME NEW p \in Procs, WriteDocumentFails(p) PROVE AllCounted'
  BY <1>9, <1>e, FailMoves
<1>10. ASSUME NEW p \in Procs, Crash(p) PROVE AllCounted'
  BY <1>10, <1>e, CrashMoves
<1>11. CASE RemoveHeartbeat
  BY <1>11, <1>e, RemoveMoves
<1>12. CASE UNCHANGED stateVars
  BY <1>12, <1>s DEF stateVars
<1> QED BY <1>1, <1>2, <1>3, <1>4, <1>5, <1>6, <1>7, <1>8, <1>9, <1>10, <1>11, <1>12 DEF StateNext

\* A run that has the files to itself works on what they hold.
LEMMA AloneStep ==
  ASSUME FilesTyped, WriteProtocol, StampBooks, SuccessBooks, AloneBooks, [StateNext]_stateVars
  PROVE  AloneBooks'
BY OnlyRunStep, RunHoldsStep, HeartbeatKeptStep, CountedStep DEF AloneBooks

-----------------------------------------------------------------------------
\* The books hold at first.
LEMMA BooksInit == StateInit => StateBooks
<1> SUFFICES ASSUME StateInit PROVE StateBooks
  OBVIOUS
<1> USE DEF StateInit
<1>1. /\ content = [d \in Docs |-> Absent] /\ tmp = [d \in Docs |-> Absent] /\ lock = [d \in Docs |-> "free"]
      /\ \A p \in Procs : actor[p] = ProcIdle
  OBVIOUS
<1>2. FilesTyped
  <2>1. content \in [Docs -> Contents] /\ tmp \in [Docs -> Contents]
    BY <1>1, Defaults
  <2>2. actor \in [Procs -> Actors] /\ lock \in [Docs -> Procs \union {"free"}]
    BY <1>1, Defaults
  <2>3. starts \in 0 .. MaxStarts /\ recorded \subseteq 1 .. starts /\ overlapped \in BOOLEAN /\ erased \in BOOLEAN
    <3>1. starts = 0 /\ recorded = {} /\ overlapped = FALSE /\ erased = FALSE
      OBVIOUS
    <3>2. 0 \in 0 .. MaxStarts
      BY StateFilesAssumption
    <3> QED BY <3>1, <3>2
  <2> QED BY <2>1, <2>2, <2>3 DEF FilesTyped
<1>3. WriteProtocol
  BY StateFilesAssumption DEF WriteProtocol, AtWork, LockBooks, TmpBooks, TmpHolds, WholeDocuments, ProcIdle, Absent
<1>4. StampBooks
  BY DEF StampBooks, ProcIdle
<1>5. TableBooks
  BY DEF TableBooks, TableHolds, TableKeepsNewest, ProcIdle, Docs, Absent, Blank
<1>6. Winners = {} /\ Busy = {}
  BY DEF Winners, MayWin, Busy, ProcIdle
<1>7. SuccessBooks
  <2>1. WonBooks
    BY <1>6, FS_EmptySet DEF WonBooks
  <2> QED BY <2>1 DEF SuccessBooks, SuccessIsReal, ClaimHolds, ProcIdle, Docs, Absent, Blank
<1>8. AloneBooks
  <2>1. OnlyRun /\ (\A p \in Procs : RunHolds(p))
    BY DEF OnlyRun, RunHolds, InRun, ProcIdle
  <2>2. HeartbeatKept /\ AllCounted
    BY <1>6, FS_EmptySet DEF HeartbeatKept, AllCounted, Docs, Absent, Blank
  <2> QED BY <2>1, <2>2 DEF AloneBooks
<1> QED BY <1>2, <1>3, <1>4, <1>5, <1>7, <1>8 DEF StateBooks

\* Every step keeps them.
LEMMA BooksStep == StateBooks /\ [StateNext]_stateVars => StateBooks'
<1> SUFFICES ASSUME StateBooks, [StateNext]_stateVars PROVE StateBooks'
  OBVIOUS
<1>1. FilesTyped /\ WriteProtocol /\ StampBooks /\ TableBooks /\ SuccessBooks /\ AloneBooks
  BY DEF StateBooks
<1>2. Cardinality(won) \in Nat
  BY <1>1, FS_CardinalityType DEF SuccessBooks, WonBooks
<1>3. FilesTyped'
  BY <1>1, <1>2, TypedStep
<1>4. WriteProtocol' /\ StampBooks' /\ TableBooks' /\ SuccessBooks' /\ AloneBooks'
  BY <1>1, ProtocolStep, StampStep, TableStep, SuccessStep, AloneStep
<1> QED BY <1>3, <1>4 DEF StateBooks

\* What a reader of the files relies on follows from them.
LEMMA BooksSuffice == StateBooks => StateInv
<1> SUFFICES ASSUME StateBooks PROVE StateInv
  OBVIOUS
<1>1. FilesTyped /\ WriteProtocol /\ TableBooks /\ SuccessBooks /\ AloneBooks
  BY DEF StateBooks
<1> DEFINE n == Cardinality(won)
<1>2. won = 1 .. n /\ n \in Nat /\ n + Cardinality(Winners) <= starts /\ Cardinality(Winners) \in Nat
  BY <1>1, FewWinners, FS_CardinalityType DEF SuccessBooks, WonBooks
<1>3. starts \in 0 .. MaxStarts /\ MaxStarts \in Nat
  BY <1>1, StateFilesAssumption DEF FilesTyped
<1> HIDE DEF n
<1>4. StateTypeOK
  BY <1>1, <1>2, <1>3 DEF StateTypeOK, FilesTyped
<1>5. AloneNothingIsLost
  <2> SUFFICES ASSUME ~overlapped, ~erased, \A p \in Procs : ~InRun(p)
               PROVE  /\ content["heartbeat"].val.success = (IF won = {} THEN 0 ELSE Max(won))
                      /\ content["window"].val.attempts = starts - Cardinality(recorded) - Cardinality(Busy)
    BY DEF AloneNothingIsLost, Busy
  <2>1. HeartbeatKept /\ AllCounted
    BY <1>1 DEF AloneBooks
  <2>2. ~ \E p \in Procs : Finishing(p)
    BY <1>1 DEF Finishing, InRun, WriteProtocol, AtWork
  <2>3. content["heartbeat"].val.success = n
    BY <2>1, <2>2 DEF HeartbeatKept, n
  <2>4. n = IF won = {} THEN 0 ELSE Max(won)
    <3>1. CASE n = 0
      BY <1>2, <3>1
    <3>2. CASE n # 0
      <4>1. won \in SUBSET (0 .. n) /\ n \in won /\ won # {}
        BY <1>2, <3>2
      <4>2. Max(won) \in won /\ \A y \in won : y <= Max(won)
        BY <1>2, <4>1, MaxOfStamps
      <4>3. Max(won) = n
        BY <1>2, <4>1, <4>2
      <4> QED BY <4>1, <4>3
    <3> QED BY <3>1, <3>2
  <2>5. content["window"].val.attempts \in Nat /\ Cardinality(recorded) \in Nat /\ Cardinality(Busy) \in Nat
    BY <1>1, FewBusy, ActorTypes DEF FilesTyped, Contents, Vals, Docs
  <2>6. content["window"].val.attempts = starts - Cardinality(recorded) - Cardinality(Busy)
    BY <1>3, <2>1, <2>5 DEF AllCounted
  <2> QED BY <2>3, <2>4, <2>6
<1> QED BY <1>1, <1>4, <1>5 DEF StateInv, WriteProtocol, SuccessBooks, TableBooks

\* Whatever the processes do and however they are interrupted, no reader meets half a
\* document, no success is made up, runs without another beside them lose nothing, and
\* the table keeps the newest: write_json, with_locked_table and the heartbeats of a run.
THEOREM StateFilesSafe == StateSpec => []StateInv
<1>1. StateInit => StateBooks
  BY BooksInit
<1>2. StateBooks /\ [StateNext]_stateVars => StateBooks'
  BY BooksStep
<1>3. StateBooks => StateInv
  BY BooksSuffice
<1> QED BY <1>1, <1>2, <1>3, PTL DEF StateSpec

-----------------------------------------------------------------------------
(* The audit log.                                                          *)

LogLines == [kind : {"entry", "seam", "torn", "garbage"}, id : Nat \ {0}, prev : Nat, seg : Nat \X Nat]
LogFiles == [lines : Seq(LogLines), newline : BOOLEAN]
WriterStates ==
    [pc : {"idle", "rotate", "seam", "hash", "write"}, seg : Nat \X Nat, prev : Nat]

\* What read_tail makes of a file: whether it has text, and the hash of the last of it.
HasText(f) == LastLine(f).found
TailHash(f) == LastLine(f).hash

\* File n was begun after segment s.
Later(s, n) == n = NoName \/ Before(s, n)

LogTyped ==
    /\ live \in LogFiles
    /\ DOMAIN segs \subseteq SegmentNames /\ segs \in [DOMAIN segs -> LogFiles]
    /\ stamp \in 1 .. MaxStamp
    /\ alock \in Writers \union {"free"}
    /\ writer \in [Writers -> WriterStates]
    /\ logged \in 0 .. MaxLines /\ acked \subseteq 1 .. logged
    /\ \A l \in LinesOnDisk : l.id <= logged /\ l.prev <= logged

\* What a writer has read still stands, for the log is its own.
WriterAt(p, w) ==
    /\ w.pc # "idle" => alock = p
    /\ w.pc = "rotate" => HasText(live)
    /\ w.pc = "seam" => ~HasText(live) /\ w.seg \in DOMAIN segs /\ \A s \in DOMAIN segs : ~Before(w.seg, s)
    /\ w.pc \in {"hash", "write"} => HasText(live) \/ DOMAIN segs = {}
    /\ w.pc = "write" => w.prev = TailHash(live)
WriterBooks == \A p \in Writers : WriterAt(p, writer[p])

\* Segments are numbered from 0 in their second, and end below what is live; the number
\* of a segment is less than that of its last line.
NameBooks ==
    \A s \in DOMAIN segs :
        /\ s[1] <= stamp
        /\ s[1] = stamp => \A m \in 0 .. s[2] - 1 : <<stamp, m>> \in DOMAIN segs
        /\ HasText(segs[s]) /\ s[2] < TailHash(segs[s])
        /\ HasText(live) => TailHash(segs[s]) < TailHash(live)

\* Nobody follows the last line of what is live; who follows that of a segment is in a later file.
Follows(l, h) == Parses(l) /\ l.prev = h
ForkBooks ==
    /\ HasText(live) => \A l \in LinesOnDisk : ~Follows(l, TailHash(live))
    /\ \A s \in DOMAIN segs, n \in FileNames : \A i \in DOMAIN File(n).lines :
          Follows(File(n).lines[i], TailHash(segs[s])) => Later(s, n)
    /\ NoFork

\* The head of file n: nothing before it, or the seam to the segment just before it.
HeadBooks(l, n) ==
    IF l.prev = GENESIS THEN \A s \in DOMAIN segs : ~Later(s, n)
    ELSE /\ l.kind = "seam"
         /\ l.seg[1] <= stamp /\ (l.seg[1] = stamp => l.seg \in DOMAIN segs)
         /\ Later(l.seg, n)
         /\ \A s \in DOMAIN segs : ~(Before(l.seg, s) /\ Later(s, n))
         /\ l.seg \in DOMAIN segs => TailHash(segs[l.seg]) = l.prev

\* A file without a torn line is one chain.
AllParse(f) == \A i \in DOMAIN f.lines : Parses(f.lines[i])
ChainBooks ==
    \A n \in FileNames :
        /\ AllParse(File(n)) => verify_links(File(n))
        /\ File(n).lines # <<>> /\ Parses(File(n).lines[1]) => HeadBooks(File(n).lines[1], n)

\* The disk, whoever is at work on it.
DiskBooks == NameBooks /\ ForkBooks /\ AckedStays /\ ChainBooks
AuditBooks == LogTyped /\ WriterBooks /\ DiskBooks

-----------------------------------------------------------------------------
(* The last line of a file.                                                *)

\* A set of numbers that is not empty has a least one.
LEMMA LeastOf ==
  ASSUME NEW S \in SUBSET Nat, S # {}
  PROVE  \E x \in S : \A y \in S : x <= y
<1> DEFINE R == OpToRel(<, Nat)
<1>1. IsWellFoundedOn(R, Nat)
  BY NatLessThanWellFounded
<1>2. PICK x \in S : \A y \in S : ~(<<y, x>> \in R)
  <2> HIDE DEF R
  <2> QED BY <1>1, WFMin
<1>3. \A y \in S : x <= y
  <2> SUFFICES ASSUME NEW y \in S PROVE ~(y < x)
    OBVIOUS
  <2> QED BY <1>2 DEF OpToRel
<1> QED BY <1>3

\* The lines of a file that read_tail does not step over.
TextOf(f) == {i \in DOMAIN f.lines : f.lines[i].kind # "garbage"}

\* read_tail: the last line that is not garbage, if there is one.
LEMMA LastLineIs ==
  ASSUME NEW f, f.lines \in Seq(LogLines)
  PROVE  /\ HasText(f) \in BOOLEAN /\ (HasText(f) <=> TextOf(f) # {})
         /\ ~HasText(f) => TailHash(f) = GENESIS
         /\ HasText(f) => \E i \in TextOf(f) : TailHash(f) = f.lines[i].id /\ \A j \in TextOf(f) : j <= i
         /\ TailHash(f) \in Nat
<1> DEFINE T == TextOf(f)
           n == Len(f.lines)
<1>1. n \in Nat /\ DOMAIN f.lines = 1 .. n /\ \A i \in 1 .. n : f.lines[i] \in LogLines
  BY LenProperties, ElementOfSeq
<1>2. CASE T = {}
  BY <1>2 DEF HasText, TailHash, LastLine, TextOf, GENESIS
<1>3. CASE T # {}
  <2> DEFINE D == {n - i : i \in T}
  <2>1. T \subseteq 1 .. n
    BY <1>1 DEF TextOf
  <2>2. D \in SUBSET Nat /\ D # {}
    BY <2>1, <1>1, <1>3
  <2>3. PICK d \in D : \A e \in D : d <= e
    BY <2>2, LeastOf
  <2>4. PICK i \in T : d = n - i
    BY <2>3
  <2>5. \A j \in T : j <= i
    <3> SUFFICES ASSUME NEW j \in T PROVE j <= i
      OBVIOUS
    <3>1. n - j \in D
      OBVIOUS
    <3>2. n - i <= n - j
      BY <3>1, <2>3, <2>4
    <3> QED BY <3>2, <2>1, <1>1
  <2> DEFINE last == CHOOSE k \in T : \A j \in T : j <= k
  <2>6. last \in T /\ \A j \in T : j <= last
    BY <2>5
  <2>7. LastLine(f) = [found |-> TRUE, hash |-> f.lines[last].id]
    BY <1>3 DEF LastLine, TextOf
  <2>8. f.lines[last].id \in Nat
    BY <2>6, <2>1, <1>1 DEF LogLines
  <2> HIDE DEF last
  <2> QED BY <2>6, <2>7, <2>8, <1>3 DEF HasText, TailHash
<1> QED BY <1>2, <1>3

\* Only the lines count.
LEMMA LastLineOf ==
  ASSUME NEW f, NEW g, f.lines = g.lines
  PROVE  HasText(f) = HasText(g) /\ TailHash(f) = TailHash(g)
BY DEF HasText, TailHash, LastLine

\* What a line at the end makes of it.
LEMMA LastLineAppended ==
  ASSUME NEW f, NEW g, NEW l \in LogLines, g.lines \in Seq(LogLines), f.lines = Append(g.lines, l)
  PROVE  /\ l.kind # "garbage" => HasText(f) /\ TailHash(f) = l.id
         /\ l.kind = "garbage" => HasText(f) = HasText(g) /\ TailHash(f) = TailHash(g)
<1> DEFINE n == Len(g.lines)
<1>1. /\ n \in Nat /\ DOMAIN g.lines = 1 .. n /\ f.lines \in Seq(LogLines) /\ DOMAIN f.lines = 1 .. n + 1
      /\ f.lines[n + 1] = l /\ \A i \in 1 .. n : f.lines[i] = g.lines[i]
  BY AppendProperties, LenProperties
<1>2. CASE l.kind # "garbage"
  <2>1. n + 1 \in TextOf(f) /\ \A j \in TextOf(f) : j <= n + 1
    BY <1>1, <1>2 DEF TextOf
  <2>2. PICK i \in TextOf(f) : TailHash(f) = f.lines[i].id /\ \A j \in TextOf(f) : j <= i
    BY <2>1, <1>1, LastLineIs
  <2>3. i = n + 1
    BY <2>1, <2>2, <1>1 DEF TextOf
  <2> QED BY <2>1, <2>2, <2>3, <1>1, <1>2, LastLineIs
<1>3. CASE l.kind = "garbage"
  <2>1. TextOf(f) = TextOf(g)
    <3>1. \A i \in 1 .. n + 1 : i \in TextOf(f) <=> i \in TextOf(g)
      <4> TAKE i \in 1 .. n + 1
      <4>1. CASE i = n + 1
        BY <4>1, <1>1, <1>3 DEF TextOf
      <4>2. CASE i # n + 1
        <5>1. i \in 1 .. n
          BY <4>2, <1>1
        <5> QED BY <5>1, <1>1 DEF TextOf
      <4> QED BY <4>1, <4>2
    <3>2. TextOf(f) \subseteq 1 .. n + 1 /\ TextOf(g) \subseteq 1 .. n + 1
      BY <1>1 DEF TextOf
    <3> QED BY <3>1, <3>2
  <2>2. CASE TextOf(g) = {}
    <3>1. LastLine(f) = LastLine(g)
      BY <2>1, <2>2 DEF LastLine, TextOf
    <3> QED BY <3>1, <1>3 DEF HasText, TailHash
  <2>3. CASE TextOf(g) # {}
    <3>1. PICK i \in TextOf(f) : TailHash(f) = f.lines[i].id /\ \A j \in TextOf(f) : j <= i
      BY <2>1, <2>3, <1>1, LastLineIs
    <3>2. PICK k \in TextOf(g) : TailHash(g) = g.lines[k].id /\ \A j \in TextOf(g) : j <= k
      BY <2>3, LastLineIs
    <3>3. i = k /\ k \in 1 .. n
      BY <3>1, <3>2, <2>1, <1>1 DEF TextOf
    <3> QED BY <3>1, <3>2, <3>3, <2>1, <2>3, <1>1, <1>3, LastLineIs
  <2> QED BY <2>2, <2>3
<1> QED BY <1>2, <1>3

\* A file of nothing but text ends on its last line.
LEMMA LastLineParses ==
  ASSUME NEW f, f.lines \in Seq(LogLines), AllParse(f), f.lines # <<>>
  PROVE  HasText(f) /\ TailHash(f) = f.lines[Len(f.lines)].id
<1>1. Len(f.lines) \in Nat \ {0} /\ DOMAIN f.lines = 1 .. Len(f.lines)
  BY LenProperties, EmptySeq
<1>2. TextOf(f) = 1 .. Len(f.lines)
  BY <1>1 DEF TextOf, AllParse, Parses
<1>3. PICK i \in TextOf(f) : TailHash(f) = f.lines[i].id /\ \A j \in TextOf(f) : j <= i
  BY <1>1, <1>2, LastLineIs
<1>4. i = Len(f.lines)
  <2> DEFINE n == Len(f.lines)
  <2>1. n \in 1 .. n
    BY <1>1
  <2>2. n <= i /\ i \in 1 .. n
    BY <2>1, <1>2, <1>3
  <2> QED BY <2>2, <1>1
<1> QED BY <1>1, <1>2, <1>3, <1>4, LastLineIs

-----------------------------------------------------------------------------
(* The lines on disk.                                                      *)

LinesOf(f) == {f.lines[i] : i \in DOMAIN f.lines}

\* A line is on disk in what is live or in a segment.
LEMMA DiskIs ==
  /\ \A l : l \in LinesOnDisk <=> l \in LinesOf(live) \/ \E n \in DOMAIN segs : l \in LinesOf(segs[n])
  /\ \A l : l \in LinesOnDisk' <=> l \in LinesOf(live') \/ \E n \in DOMAIN segs' : l \in LinesOf(segs'[n])
BY DEF LinesOnDisk, Everywhere, LinesOf

\* Segments have names of their own.
LEMMA FileIs ==
  ASSUME DOMAIN segs \subseteq SegmentNames
  PROVE  /\ NoName \notin DOMAIN segs /\ File(NoName) = live
         /\ \A n \in DOMAIN segs : File(n) = segs[n]
         /\ \A n \in DOMAIN segs : n \in Nat \X Nat /\ n[1] \in Nat /\ n[2] \in Nat /\ n = <<n[1], n[2]>>
BY AuditAssumption DEF SegmentNames, NoName, File

LEMMA FileIsNext ==
  ASSUME DOMAIN segs' \subseteq SegmentNames
  PROVE  /\ NoName \notin DOMAIN segs' /\ File(NoName)' = live'
         /\ \A n \in DOMAIN segs' : File(n)' = segs'[n]
         /\ FileNames' = DOMAIN segs' \union {NoName}
BY AuditAssumption DEF SegmentNames, NoName, File, FileNames

\* The order of names.
LEMMA BeforeIs ==
  ASSUME NEW a \in Nat \X Nat, NEW b \in Nat \X Nat, NEW c \in Nat \X Nat
  PROVE  /\ ~Before(a, a) /\ (a = b \/ Before(a, b) \/ Before(b, a))
         /\ Before(a, b) => ~Before(b, a)
         /\ Before(a, b) /\ Before(b, c) => Before(a, c)
<1>1. PICK a1 \in Nat, a2 \in Nat : a = <<a1, a2>>
  OBVIOUS
<1>2. PICK b1 \in Nat, b2 \in Nat : b = <<b1, b2>>
  OBVIOUS
<1>3. PICK c1 \in Nat, c2 \in Nat : c = <<c1, c2>>
  OBVIOUS
<1> QED BY <1>1, <1>2, <1>3 DEF Before

\* A line of a typed file.
LEMMA LineTyped ==
  ASSUME NEW f, f.lines \in Seq(LogLines), NEW l \in LinesOf(f)
  PROVE  l \in LogLines
BY LenProperties, ElementOfSeq DEF LinesOf

\* A segment and what is live are typed, and end below what was written.
LEMMA TailTyped ==
  ASSUME LogTyped
  PROVE  /\ live.lines \in Seq(LogLines)
         /\ TailHash(live) \in Nat /\ TailHash(live) <= logged
         /\ \A s \in DOMAIN segs :
               segs[s].lines \in Seq(LogLines) /\ TailHash(segs[s]) \in Nat /\ TailHash(segs[s]) <= logged
<1>1. live.lines \in Seq(LogLines) /\ \A s \in DOMAIN segs : segs[s].lines \in Seq(LogLines)
  BY DEF LogTyped, LogFiles
<1>2. \A f \in Everywhere : f.lines \in Seq(LogLines)
  BY <1>1 DEF Everywhere
<1>3. ASSUME NEW f \in Everywhere
      PROVE  TailHash(f) \in Nat /\ TailHash(f) <= logged
  <2>1. f.lines \in Seq(LogLines)
    BY <1>2
  <2>2. \A i \in TextOf(f) : f.lines[i] \in LinesOnDisk
    BY DEF LinesOnDisk, TextOf
  <2>3. \A i \in TextOf(f) : f.lines[i].id <= logged
    BY <2>2 DEF LogTyped
  <2>4. CASE HasText(f)
    BY <2>1, <2>3, <2>4, LastLineIs
  <2>5. CASE ~HasText(f)
    BY <2>1, <2>5, LastLineIs DEF GENESIS, LogTyped
  <2> QED BY <2>1, <2>4, <2>5, LastLineIs
<1> QED BY <1>1, <1>3 DEF Everywhere

\* Who is in a file with nothing but garbage does not parse.
LEMMA NoTextNoLine ==
  ASSUME NEW f, f.lines \in Seq(LogLines), ~HasText(f), NEW l \in LinesOf(f)
  PROVE  l.kind = "garbage" /\ ~Parses(l)
<1>1. TextOf(f) = {}
  BY LastLineIs
<1> QED BY <1>1 DEF TextOf, LinesOf, Parses

-----------------------------------------------------------------------------
(* What is live changes: it loses garbage, or a line is written.           *)

\* The file a write starts from: what is live, or nothing where that has no text.
IsBase(f) == f.lines = live.lines \/ (f.lines = <<>> /\ ~HasText(live))

LEMMA BaseIs ==
  ASSUME LogTyped, NEW f, IsBase(f)
  PROVE  /\ f.lines \in Seq(LogLines)
         /\ HasText(f) = HasText(live) /\ TailHash(f) = TailHash(live)
         /\ LinesOf(f) \subseteq LinesOf(live)
         /\ \A l \in LinesOf(live) : l.kind # "garbage" => l \in LinesOf(f)
<1>1. live.lines \in Seq(LogLines)
  BY TailTyped
<1>2. CASE f.lines = live.lines
  BY <1>1, <1>2, LastLineOf DEF LinesOf
<1>3. CASE f.lines = <<>> /\ ~HasText(live)
  <2>1. f.lines \in Seq(LogLines) /\ DOMAIN f.lines = {}
    BY <1>3
  <2>2. TextOf(f) = {}
    BY <2>1 DEF TextOf
  <2>3. ~HasText(f) /\ TailHash(f) = GENESIS /\ TailHash(live) = GENESIS
    BY <2>1, <2>2, <1>1, <1>3, LastLineIs
  <2>4. LinesOf(f) = {}
    BY <2>1 DEF LinesOf
  <2> QED BY <2>1, <2>3, <2>4, <1>1, <1>3, NoTextNoLine, LastLineIs
<1> QED BY <1>2, <1>3 DEF IsBase

\* A line may be written to f: no one will read it, or it is the entry or the seam that is due.
MayWrite(f, l) ==
    \/ l.kind \in {"torn", "garbage"}
    \/ /\ l.kind = "entry" /\ f.lines = live.lines
       /\ l.prev = TailHash(live) /\ (HasText(live) \/ DOMAIN segs = {})
    \/ /\ l.kind = "seam" /\ f.lines = <<>> /\ ~HasText(live)
       /\ l.seg \in DOMAIN segs /\ (\A s \in DOMAIN segs : ~Before(l.seg, s))
       /\ l.prev = TailHash(segs[l.seg])

\* The files other than the live one stay as they are.
LEMMA SegmentsRest ==
  ASSUME LogTyped, UNCHANGED segs
  PROVE  /\ \A n \in DOMAIN segs : n \in DOMAIN segs' /\ segs'[n] = segs[n] /\ File(n)' = segs[n] /\ File(n) = segs[n]
         /\ NoName \notin DOMAIN segs /\ File(NoName) = live /\ File(NoName)' = live'
         /\ FileNames' = DOMAIN segs \union {NoName} /\ FileNames = DOMAIN segs \union {NoName}
         /\ DOMAIN segs' = DOMAIN segs
<1>1. DOMAIN segs \subseteq SegmentNames
  BY DEF LogTyped
<1> QED BY <1>1, FileIs, FileIsNext DEF FileNames

\* What heads of segments say does not depend on what is live.
LEMMA HeadRests ==
  ASSUME UNCHANGED <<segs, stamp>>, NEW l, NEW n, HeadBooks(l, n)
  PROVE  HeadBooks(l, n)'
BY DEF HeadBooks, Later, Before, TailHash, LastLine

\* A line is written behind a base.
LEMMA GrowKeeps ==
  ASSUME LogTyped, DiskBooks, UNCHANGED <<segs, stamp>>,
         NEW f, IsBase(f), NEW l \in LogLines, MayWrite(f, l),
         l.id = logged + 1, l.prev <= logged, live'.lines = Append(f.lines, l),
         logged' = logged + 1,
         acked' \subseteq acked \union (IF l.kind = "entry" THEN {l.id} ELSE {})
  PROVE  DiskBooks' /\ \A k \in LinesOnDisk' : k.id <= logged' /\ k.prev <= logged'
<1> DEFINE n == Len(f.lines)
<1>1. /\ f.lines \in Seq(LogLines)
      /\ HasText(f) = HasText(live) /\ TailHash(f) = TailHash(live)
      /\ LinesOf(f) \subseteq LinesOf(live)
      /\ \A k \in LinesOf(live) : k.kind # "garbage" => k \in LinesOf(f)
  BY BaseIs
<1>2. /\ n \in Nat /\ DOMAIN f.lines = 1 .. n /\ live'.lines \in Seq(LogLines) /\ DOMAIN live'.lines = 1 .. n + 1
      /\ Len(live'.lines) = n + 1
      /\ live'.lines[n + 1] = l /\ \A i \in 1 .. n : live'.lines[i] = f.lines[i]
  BY <1>1, AppendProperties, LenProperties
<1>3. LinesOf(live') = LinesOf(f) \union {l}
  <2>1. \A k : k \in LinesOf(live') => k \in LinesOf(f) \union {l}
    <3> SUFFICES ASSUME NEW i \in 1 .. n + 1 PROVE live'.lines[i] \in LinesOf(f) \union {l}
      BY <1>2 DEF LinesOf
    <3>1. CASE i = n + 1
      BY <3>1, <1>2
    <3>2. CASE i # n + 1
      <4>1. i \in 1 .. n
        BY <3>2, <1>2
      <4> QED BY <4>1, <1>2 DEF LinesOf
    <3> QED BY <3>1, <3>2
  <2>2. LinesOf(f) \subseteq LinesOf(live')
    <3> SUFFICES ASSUME NEW i \in 1 .. n PROVE f.lines[i] \in LinesOf(live')
      BY <1>2 DEF LinesOf
    <3>1. i \in 1 .. n + 1 /\ live'.lines[i] = f.lines[i]
      BY <1>2
    <3> QED BY <3>1, <1>2 DEF LinesOf
  <2>3. l \in LinesOf(live')
    <3>1. n + 1 \in 1 .. n + 1
      BY <1>2
    <3> QED BY <3>1, <1>2 DEF LinesOf
  <2> QED BY <2>1, <2>2, <2>3
<1>4. /\ l.kind # "garbage" => HasText(live)' /\ TailHash(live)' = l.id
      /\ l.kind = "garbage" => HasText(live)' = HasText(live) /\ TailHash(live)' = TailHash(live)
  <2>1. /\ l.kind # "garbage" => HasText(live') /\ TailHash(live') = l.id
        /\ l.kind = "garbage" => HasText(live') = HasText(f) /\ TailHash(live') = TailHash(f)
    BY <1>1, LastLineAppended
  <2> QED BY <2>1, <1>1 DEF HasText, TailHash, LastLine
<1>5. /\ TailHash(live) \in Nat /\ TailHash(live) <= logged /\ logged \in Nat
      /\ \A s \in DOMAIN segs : TailHash(segs[s]) \in Nat /\ TailHash(segs[s]) <= logged
      /\ \A s \in DOMAIN segs : TailHash(segs[s])' = TailHash(segs[s]) /\ HasText(segs[s])' = HasText(segs[s])
  <2>1. logged \in Nat
    BY AuditAssumption DEF LogTyped
  <2>2. \A s \in DOMAIN segs : TailHash(segs[s])' = TailHash(segs[s]) /\ HasText(segs[s])' = HasText(segs[s])
    BY DEF TailHash, HasText, LastLine
  <2> QED BY <2>1, <2>2, TailTyped
<1>6. \A k \in LinesOnDisk' : k = l \/ k \in LinesOnDisk
  BY <1>1, <1>3, DiskIs
<1>7. \A k \in LinesOnDisk : k.kind # "garbage" => k \in LinesOnDisk'
  BY <1>1, <1>3, DiskIs
<1>8. l \in LinesOnDisk'
  BY <1>3, DiskIs
<1>9. \A k \in LinesOnDisk : k \in LogLines /\ k.id <= logged /\ k.prev <= logged /\ k.id \in Nat /\ k.prev \in Nat
  <2>1. \A k \in LinesOnDisk : k \in LogLines
    BY DiskIs, TailTyped, LineTyped
  <2> QED BY <2>1 DEF LogTyped, LogLines
<1>10. l.id \in Nat /\ l.prev \in Nat
  BY DEF LogLines
<1>11. \A k \in LinesOnDisk' : k.id <= logged' /\ k.prev <= logged'
  BY <1>5, <1>6, <1>9, <1>10
<1>12. NameBooks'
  <2> SUFFICES ASSUME NEW s \in DOMAIN segs
               PROVE  /\ s[1] <= stamp
                      /\ s[1] = stamp => \A m \in 0 .. s[2] - 1 : <<stamp, m>> \in DOMAIN segs
                      /\ HasText(segs[s]) /\ s[2] < TailHash(segs[s])
                      /\ HasText(live)' => TailHash(segs[s]) < TailHash(live)'
    BY <1>5 DEF NameBooks
  <2>1. HasText(live)' => TailHash(segs[s]) < TailHash(live)'
    <3>1. CASE l.kind = "garbage"
      BY <3>1, <1>4 DEF DiskBooks, NameBooks
    <3>2. CASE l.kind # "garbage"
      <4>1. TailHash(live)' = logged + 1 /\ TailHash(segs[s]) \in Nat /\ TailHash(segs[s]) <= logged
        BY <3>2, <1>4, <1>5
      <4> QED BY <4>1, <1>5
    <3> QED BY <3>1, <3>2
  <2> QED BY <2>1 DEF DiskBooks, NameBooks
<1>13. ForkBooks'
  <2>1. HasText(live)' => \A k \in LinesOnDisk' : ~Follows(k, TailHash(live)')
    <3> SUFFICES ASSUME HasText(live)', NEW k \in LinesOnDisk', Follows(k, TailHash(live)') PROVE FALSE
      OBVIOUS
    <3>1. CASE l.kind # "garbage"
      <4>1. k.prev = logged + 1
        BY <3>1, <1>4 DEF Follows
      <4> QED BY <4>1, <1>5, <1>6, <1>9, <1>10
    <3>2. CASE l.kind = "garbage"
      <4>1. k # l
        BY <3>2 DEF Follows, Parses
      <4> QED BY <4>1, <3>2, <1>4, <1>6 DEF DiskBooks, ForkBooks
    <3> QED BY <3>1, <3>2
  <2>2. ASSUME NEW s \in DOMAIN segs', NEW m \in FileNames', NEW i \in DOMAIN File(m)'.lines,
               Follows(File(m)'.lines[i], TailHash(segs[s])')
        PROVE  Later(s, m)
    <3>1. CASE m = NoName
      BY <3>1 DEF Later
    <3>2. CASE m # NoName
      <4>1. s \in DOMAIN segs /\ m \in DOMAIN segs /\ m \in FileNames /\ File(m)' = File(m)
        BY <3>2, SegmentsRest
      <4>2. Follows(File(m).lines[i], TailHash(segs[s])) /\ i \in DOMAIN File(m).lines
        BY <4>1, <1>5, <2>2
      <4> QED BY <4>1, <4>2 DEF DiskBooks, ForkBooks
    <3> QED BY <3>1, <3>2
  <2>3. NoFork'
    <3>1. ASSUME NEW k \in LinesOnDisk, Parses(k), Parses(l), k.prev = l.prev, l.prev # GENESIS
          PROVE  FALSE
      <4>1. CASE l.kind = "entry"
        <5>1. l.prev = TailHash(live) /\ HasText(live)
          <6>1. l.prev = TailHash(live)
            BY <4>1 DEF MayWrite
          <6> QED BY <6>1, <3>1, TailTyped, LastLineIs
        <5> QED BY <5>1, <3>1 DEF DiskBooks, ForkBooks, Follows
      <4>2. CASE l.kind # "entry"
        <5>1. /\ ~HasText(live) /\ l.seg \in DOMAIN segs /\ \A s \in DOMAIN segs : ~Before(l.seg, s)
              /\ l.prev = TailHash(segs[l.seg])
          BY <4>2, <3>1 DEF MayWrite, Parses
        <5>2. k \notin LinesOf(live)
          BY <5>1, <3>1, TailTyped, NoTextNoLine
        <5>3. PICK m \in DOMAIN segs : k \in LinesOf(segs[m])
          BY <5>2, DiskIs
        <5>4. PICK i \in DOMAIN segs[m].lines : k = segs[m].lines[i]
          BY <5>3 DEF LinesOf
        <5>5. File(m) = segs[m] /\ m \in FileNames /\ m # NoName
          BY SegmentsRest
        <5>6. Later(l.seg, m)
          BY <5>1, <5>4, <5>5, <3>1 DEF DiskBooks, ForkBooks, Follows
        <5> QED BY <5>6, <5>5, <5>1 DEF Later
      <4> QED BY <4>1, <4>2
    <3>2. ASSUME NEW a \in LinesOnDisk', NEW b \in LinesOnDisk',
                 Parses(a), Parses(b), a.prev = b.prev, a.prev # GENESIS
          PROVE  a = b
      <4>1. CASE a = l \/ b = l
        BY <4>1, <3>1, <3>2, <1>6
      <4>2. CASE a # l /\ b # l
        BY <4>2, <3>2, <1>6 DEF DiskBooks, ForkBooks, NoFork
      <4> QED BY <4>1, <4>2
    <3> QED BY <3>2 DEF NoFork
  <2> QED BY <2>1, <2>2, <2>3 DEF ForkBooks, Follows, Later, Before, TailHash, HasText
<1>14. AckedStays'
  <2> SUFFICES ASSUME NEW id \in acked' PROVE \E k \in LinesOnDisk' : k.id = id /\ k.kind = "entry"
    BY DEF AckedStays
  <2>1. CASE id \in acked
    <3>1. PICK k \in LinesOnDisk : k.id = id /\ k.kind = "entry"
      BY <2>1 DEF DiskBooks, AckedStays
    <3> QED BY <3>1, <1>7
  <2>2. CASE id \notin acked
    <3>1. l.kind = "entry" /\ id = l.id
      BY <2>2
    <3> QED BY <3>1, <1>8
  <2> QED BY <2>1, <2>2
<1>15. ChainBooks'
  <2> SUFFICES ASSUME NEW m \in FileNames'
               PROVE  /\ AllParse(File(m)') => verify_links(File(m)')
                      /\ \A h : File(m)'.lines # <<>> /\ h = File(m)'.lines[1] /\ Parses(h) => HeadBooks(h, m)'
    BY DEF ChainBooks, AllParse, verify_links, Parses, HeadBooks
  <2>1. CASE m # NoName
    <3>1. m \in FileNames /\ File(m)' = File(m)
      BY <2>1, SegmentsRest
    <3>2. ASSUME NEW h, File(m)'.lines # <<>>, h = File(m)'.lines[1], Parses(h) PROVE HeadBooks(h, m)'
      <4>1. HeadBooks(h, m)
        BY <3>1, <3>2 DEF DiskBooks, ChainBooks
      <4> QED BY <4>1, HeadRests
    <3> QED BY <3>1, <3>2 DEF DiskBooks, ChainBooks
  <2>2. CASE m = NoName
    <3>1. File(m)' = live' /\ File(NoName) = live /\ NoName \in FileNames
      BY <2>2, SegmentsRest
    <3>2. AllParse(live') => verify_links(live')
      <4> SUFFICES ASSUME AllParse(live'), NEW i \in 2 .. n + 1
                   PROVE  live'.lines[i].prev = live'.lines[i - 1].id
        BY <1>2 DEF verify_links
      <4>1. AllParse(f)
        <5> SUFFICES ASSUME NEW j \in 1 .. n PROVE Parses(f.lines[j])
          BY <1>2 DEF AllParse
        <5>1. j \in DOMAIN live'.lines /\ live'.lines[j] = f.lines[j]
          BY <1>2
        <5> QED BY <5>1 DEF AllParse
      <4>2. n >= 1 /\ f.lines # <<>>
        BY <1>1, <1>2
      <4>3. f.lines = live.lines
        BY <4>2 DEF IsBase
      <4>4. CASE i \in 1 .. n
        <5>1. verify_links(live)
          BY <4>1, <4>3, <3>1 DEF DiskBooks, ChainBooks, AllParse
        <5>2. f.lines[i].prev = f.lines[i - 1].id
          BY <5>1, <4>3, <4>4, <1>2 DEF verify_links
        <5>3. i - 1 \in 1 .. n
          BY <4>4
        <5> QED BY <5>2, <5>3, <4>4, <1>2
      <4>5. CASE i \notin 1 .. n
        <5>1. i = n + 1 /\ i - 1 = n /\ n \in 1 .. n
          BY <4>2, <4>5, <1>2
        <5>2. Parses(l)
          <6>1. n + 1 \in DOMAIN live'.lines
            BY <1>2
          <6> QED BY <6>1, <1>2 DEF AllParse
        <5>3. l.prev = TailHash(live)
          BY <5>2, <4>2 DEF MayWrite, Parses
        <5>4. TailHash(f) = f.lines[n].id
          BY <1>1, <4>1, <4>2, LastLineParses
        <5> QED BY <5>1, <5>3, <5>4, <1>1, <1>2
      <4> QED BY <4>4, <4>5
    <3>3. ASSUME NEW h, h = live'.lines[1], Parses(h) PROVE HeadBooks(h, NoName)'
      <4>1. CASE f.lines # <<>>
        <5>1. live.lines = f.lines /\ n >= 1
          BY <4>1, <1>1, <1>2 DEF IsBase
        <5>2. h = live.lines[1]
          BY <5>1, <1>2, <3>3
        <5>3. HeadBooks(h, NoName)
          BY <5>1, <5>2, <4>1, <3>1, <3>3 DEF DiskBooks, ChainBooks
        <5> QED BY <5>2, <5>3, HeadRests
      <4>2. CASE f.lines = <<>>
        <5>1. h = l
          BY <4>2, <1>2, <3>3
        <5>2. ~HasText(live)
          <6>1. TextOf(f) = {}
            BY <4>2 DEF TextOf
          <6> QED BY <6>1, <1>1, LastLineIs
        <5>3. CASE l.kind = "entry"
          <6>1. DOMAIN segs = {} /\ l.prev = GENESIS
            BY <5>2, <5>3, TailTyped, LastLineIs DEF MayWrite
          <6>2. HeadBooks(l, NoName)
            BY <6>1 DEF HeadBooks
          <6> QED BY <6>2, <5>1, HeadRests
        <5>4. CASE l.kind # "entry"
          <6>1. /\ l.kind = "seam" /\ l.seg \in DOMAIN segs /\ \A s \in DOMAIN segs : ~Before(l.seg, s)
                /\ l.prev = TailHash(segs[l.seg])
            BY <5>1, <5>4, <3>3 DEF MayWrite, Parses
          <6>2. l.seg[1] <= stamp /\ l.seg[2] < l.prev
            BY <6>1 DEF DiskBooks, NameBooks
          <6>3. l.prev # GENESIS
            BY <6>1, <6>2, <1>10, FileIs DEF LogTyped, GENESIS
          <6>4. HeadBooks(l, NoName)
            BY <6>1, <6>2, <6>3 DEF HeadBooks, Later
          <6> QED BY <6>4, <5>1, HeadRests
        <5> QED BY <5>3, <5>4
      <4> QED BY <4>1, <4>2
    <3> QED BY <3>1, <3>2, <3>3, <2>2
  <2> QED BY <2>1, <2>2
<1> QED BY <1>11, <1>12, <1>13, <1>14, <1>15 DEF DiskBooks

\* Nothing is written: what is live keeps its text.
LEMMA BaseKeeps ==
  ASSUME LogTyped, DiskBooks, UNCHANGED <<segs, stamp, acked>>, logged' >= logged, logged' \in Nat,
         NEW f, IsBase(f), live'.lines = f.lines
  PROVE  DiskBooks' /\ \A k \in LinesOnDisk' : k.id <= logged' /\ k.prev <= logged'
<1>1. /\ f.lines \in Seq(LogLines)
      /\ HasText(f) = HasText(live) /\ TailHash(f) = TailHash(live)
      /\ LinesOf(f) \subseteq LinesOf(live)
      /\ \A k \in LinesOf(live) : k.kind # "garbage" => k \in LinesOf(f)
  BY BaseIs
<1>2. HasText(live)' = HasText(live) /\ TailHash(live)' = TailHash(live)
  <2>1. HasText(live') = HasText(f) /\ TailHash(live') = TailHash(f)
    BY LastLineOf
  <2> QED BY <2>1, <1>1 DEF HasText, TailHash, LastLine
<1>3. \A s \in DOMAIN segs : TailHash(segs[s])' = TailHash(segs[s]) /\ HasText(segs[s])' = HasText(segs[s])
  BY DEF TailHash, HasText, LastLine
<1>4. LinesOf(live') = LinesOf(f)
  BY DEF LinesOf
<1>5. LinesOnDisk' \subseteq LinesOnDisk /\ \A k \in LinesOnDisk : k.kind # "garbage" => k \in LinesOnDisk'
  BY <1>1, <1>4, DiskIs
<1>6. \A k \in LinesOnDisk' : k.id <= logged' /\ k.prev <= logged'
  <2>1. \A k \in LinesOnDisk : k.id \in Nat /\ k.prev \in Nat /\ k.id <= logged /\ k.prev <= logged
    <3>1. \A k \in LinesOnDisk : k \in LogLines
      BY DiskIs, TailTyped, LineTyped
    <3> QED BY <3>1 DEF LogTyped, LogLines
  <2>2. logged \in Nat
    BY AuditAssumption DEF LogTyped
  <2> QED BY <2>1, <2>2, <1>5
<1>7. NameBooks'
  BY <1>2, <1>3 DEF NameBooks, DiskBooks
<1>8. ForkBooks'
  <2>1. HasText(live)' => \A k \in LinesOnDisk' : ~Follows(k, TailHash(live)')
    BY <1>2, <1>5 DEF DiskBooks, ForkBooks
  <2>2. ASSUME NEW s \in DOMAIN segs', NEW m \in FileNames', NEW i \in DOMAIN File(m)'.lines,
               Follows(File(m)'.lines[i], TailHash(segs[s])')
        PROVE  Later(s, m)
    <3>1. CASE m = NoName
      BY <3>1 DEF Later
    <3>2. CASE m # NoName
      <4>1. s \in DOMAIN segs /\ m \in DOMAIN segs /\ m \in FileNames /\ File(m)' = File(m)
        BY <3>2, SegmentsRest
      <4>2. Follows(File(m).lines[i], TailHash(segs[s])) /\ i \in DOMAIN File(m).lines
        BY <4>1, <1>3, <2>2
      <4> QED BY <4>1, <4>2 DEF DiskBooks, ForkBooks
    <3> QED BY <3>1, <3>2
  <2>3. NoFork'
    BY <1>5 DEF DiskBooks, ForkBooks, NoFork, Parses
  <2> QED BY <2>1, <2>2, <2>3 DEF ForkBooks, Follows, Later, Before, TailHash, HasText
<1>9. AckedStays'
  BY <1>5 DEF DiskBooks, AckedStays
<1>10. ChainBooks'
  <2> SUFFICES ASSUME NEW m \in FileNames'
               PROVE  /\ AllParse(File(m)') => verify_links(File(m)')
                      /\ \A h : File(m)'.lines # <<>> /\ h = File(m)'.lines[1] /\ Parses(h) => HeadBooks(h, m)'
    BY DEF ChainBooks, AllParse, verify_links, Parses, HeadBooks
  <2>1. m \in FileNames
    BY SegmentsRest
  <2>2. CASE File(m)'.lines = File(m).lines
    <3>1. ASSUME NEW h, File(m)'.lines # <<>>, h = File(m)'.lines[1], Parses(h) PROVE HeadBooks(h, m)'
      <4>1. HeadBooks(h, m)
        BY <2>1, <2>2, <3>1 DEF DiskBooks, ChainBooks
      <4> QED BY <4>1, HeadRests
    <3> QED BY <2>1, <2>2, <3>1 DEF DiskBooks, ChainBooks, AllParse, verify_links
  <2>3. CASE File(m)'.lines # File(m).lines
    <3>1. m = NoName /\ File(m)' = live' /\ File(m) = live
      BY <2>1, <2>3, SegmentsRest
    <3>2. live'.lines = <<>>
      BY <2>3, <3>1 DEF IsBase
    <3> QED BY <3>1, <3>2 DEF verify_links
  <2> QED BY <2>2, <2>3
<1> QED BY <1>6, <1>7, <1>8, <1>9, <1>10 DEF DiskBooks

\* A second goes by.
LEMMA SecondKeeps ==
  ASSUME AuditBooks, Second
  PROVE  AuditBooks'
<1>1. /\ stamp' = stamp + 1 /\ stamp \in Nat /\ stamp' \in 1 .. MaxStamp
      /\ UNCHANGED <<live, segs, alock, writer, logged, acked, kills>>
  BY AuditAssumption DEF AuditBooks, LogTyped, Second
<1>2. \A s \in DOMAIN segs : s[1] \in Nat
  BY FileIs DEF AuditBooks, LogTyped
<1>3. LogTyped'
  BY <1>1 DEF AuditBooks, LogTyped, LinesOnDisk, Everywhere
<1>4. WriterBooks'
  <2>1. WriterBooks
    BY DEF AuditBooks
  <2> QED BY <1>1, <2>1 DEF WriterBooks, WriterAt
<1>5. NameBooks'
  <2> SUFFICES ASSUME NEW s \in DOMAIN segs
               PROVE  /\ s[1] <= stamp'
                      /\ s[1] = stamp' => \A m \in 0 .. s[2] - 1 : <<stamp', m>> \in DOMAIN segs
                      /\ HasText(segs[s]) /\ s[2] < TailHash(segs[s])
                      /\ HasText(live) => TailHash(segs[s]) < TailHash(live)
    <3>1. /\ HasText(live)' = HasText(live) /\ TailHash(live)' = TailHash(live)
          /\ \A s \in DOMAIN segs : TailHash(segs[s])' = TailHash(segs[s]) /\ HasText(segs[s])' = HasText(segs[s])
      BY <1>1 DEF TailHash, HasText, LastLine
    <3> QED BY <3>1, <1>1 DEF NameBooks
  <2>1. s[1] <= stamp
    BY DEF AuditBooks, DiskBooks, NameBooks
  <2>2. s[1] <= stamp' /\ s[1] # stamp'
    BY <1>1, <1>2, <2>1
  <2> QED BY <2>2 DEF AuditBooks, DiskBooks, NameBooks
<1>6. ForkBooks' /\ AckedStays'
  <2>1. ForkBooks /\ AckedStays
    BY DEF AuditBooks, DiskBooks
  <2>2. AckedStays' /\ NoFork'
    BY <2>1, <1>1 DEF ForkBooks, AckedStays, NoFork, Parses, LinesOnDisk, Everywhere
  <2>3. HasText(live)' => \A k \in LinesOnDisk' : ~Follows(k, TailHash(live))'
    <3>1. HasText(live)' = HasText(live) /\ TailHash(live)' = TailHash(live) /\ LinesOnDisk' = LinesOnDisk
      BY <1>1 DEF HasText, TailHash, LastLine, LinesOnDisk, Everywhere
    <3> QED BY <2>1, <3>1 DEF ForkBooks, Follows, Parses
  <2>4. (\A s \in DOMAIN segs, n \in FileNames : \A i \in DOMAIN File(n).lines :
            Follows(File(n).lines[i], TailHash(segs[s])) => Later(s, n))'
    <3>1. /\ \A s \in DOMAIN segs : TailHash(segs[s])' = TailHash(segs[s])
          /\ \A n \in FileNames : File(n)' = File(n)
          /\ DOMAIN segs' = DOMAIN segs /\ FileNames' = FileNames
      BY <1>1 DEF TailHash, LastLine, File, FileNames
    <3> QED BY <2>1, <3>1 DEF ForkBooks, Follows, Parses, Later, Before
  <2> QED BY <2>2, <2>3, <2>4 DEF ForkBooks
<1>7. ASSUME NEW h \in LogLines, NEW n, HeadBooks(h, n)
      PROVE  HeadBooks(h, n)'
  <2>1. CASE h.prev = GENESIS
    BY <2>1, <1>7, <1>1 DEF HeadBooks, Later, Before
  <2>2. CASE h.prev # GENESIS
    <3>1. /\ h.kind = "seam" /\ h.seg[1] <= stamp /\ Later(h.seg, n)
          /\ \A s \in DOMAIN segs : ~(Before(h.seg, s) /\ Later(s, n))
          /\ h.seg \in DOMAIN segs => TailHash(segs[h.seg]) = h.prev
      BY <2>2, <1>7 DEF HeadBooks
    <3>2. h.seg[1] \in Nat
      BY DEF LogLines
    <3>3. h.seg[1] <= stamp' /\ h.seg[1] # stamp'
      BY <3>1, <3>2, <1>1
    <3> QED BY <3>1, <3>3, <2>2, <1>1 DEF HeadBooks, Later, Before, TailHash, LastLine
  <2> QED BY <2>1, <2>2
<1>8. ChainBooks'
  <2> SUFFICES ASSUME NEW m \in FileNames
               PROVE  /\ AllParse(File(m)) => verify_links(File(m))
                      /\ \A h : File(m).lines # <<>> /\ h = File(m).lines[1] /\ Parses(h) => HeadBooks(h, m)'
    <3> SUFFICES ASSUME NEW m \in FileNames'
                 PROVE  /\ AllParse(File(m)') => verify_links(File(m)')
                        /\ \A h : File(m)'.lines # <<>> /\ h = File(m)'.lines[1] /\ Parses(h) => HeadBooks(h, m)'
      BY DEF ChainBooks, AllParse, verify_links, Parses, HeadBooks
    <3>1. m \in FileNames /\ File(m)' = File(m)
      BY <1>1 DEF FileNames, File
    <3> QED BY <3>1
  <2>1. ASSUME NEW h, File(m).lines # <<>>, h = File(m).lines[1], Parses(h) PROVE HeadBooks(h, m)'
    <3>1. HeadBooks(h, m)
      BY <2>1 DEF AuditBooks, DiskBooks, ChainBooks
    <3>2. File(m).lines \in Seq(LogLines)
      BY TailTyped, SegmentsRest, <1>1 DEF AuditBooks, FileNames
    <3>3. h \in LogLines
      <4>1. Len(File(m).lines) \in Nat /\ Len(File(m).lines) # 0
        BY <3>2, <2>1, LenProperties, EmptySeq
      <4> QED BY <4>1, <3>2, <2>1, ElementOfSeq
    <3> QED BY <3>1, <3>3, <1>7
  <2> QED BY <2>1 DEF AuditBooks, DiskBooks, ChainBooks
<1> QED BY <1>3, <1>4, <1>5, <1>6, <1>8 DEF AuditBooks, DiskBooks

-----------------------------------------------------------------------------
(* The segments change.                                                    *)

\* next_segment_name finds a name, and one that is newer than every other.
LEMMA NextName ==
  ASSUME LogTyped, NameBooks, HasText(live)
  PROVE  \E n \in 0 .. MaxLines :
            /\ next_segment_name = <<stamp, n>> /\ <<stamp, n>> \notin DOMAIN segs /\ <<stamp, n>> \in SegmentNames
            /\ \A m \in 0 .. n - 1 : <<stamp, m>> \in DOMAIN segs
            /\ n < TailHash(live)
            /\ \A s \in DOMAIN segs : Before(s, <<stamp, n>>)
<1> DEFINE Free == {n \in 0 .. MaxLines : <<stamp, n>> \notin DOMAIN segs}
<1>1. /\ stamp \in Nat /\ stamp \in 1 .. MaxStamp /\ logged \in Nat /\ logged <= MaxLines /\ MaxLines \in Nat
      /\ DOMAIN segs \subseteq SegmentNames
  BY AuditAssumption DEF LogTyped
<1>2. /\ TailHash(live) \in Nat /\ TailHash(live) <= logged /\ TailHash(live) > 0
      /\ \A s \in DOMAIN segs : TailHash(segs[s]) \in Nat /\ TailHash(segs[s]) <= logged
  <2>1. PICK i \in TextOf(live) : TailHash(live) = live.lines[i].id
    BY TailTyped, LastLineIs
  <2>2. live.lines[i] \in LogLines
    BY <2>1, TailTyped, LineTyped DEF LinesOf, TextOf
  <2>3. TailHash(live) # 0
    BY <2>1, <2>2 DEF LogLines
  <2> QED BY <2>3, TailTyped
<1>3. MaxLines \in Free
  <2> SUFFICES ASSUME <<stamp, MaxLines>> \in DOMAIN segs PROVE FALSE
    BY <1>1
  <2>1. <<stamp, MaxLines>>[2] < TailHash(segs[<<stamp, MaxLines>>])
    BY DEF NameBooks
  <2>2. MaxLines < TailHash(segs[<<stamp, MaxLines>>])
    BY <2>1
  <2> QED BY <2>2, <1>1, <1>2
<1>4. PICK n \in Free : \A m \in Free : n <= m
  <2>1. Free \in SUBSET Nat /\ Free # {}
    BY <1>3
  <2> HIDE DEF Free
  <2> QED BY <2>1, LeastOf
<1>5. n \in 0 .. MaxLines /\ <<stamp, n>> \notin DOMAIN segs
  BY <1>4
<1>6. \A m \in 0 .. n - 1 : <<stamp, m>> \in DOMAIN segs
  <2> SUFFICES ASSUME NEW m \in 0 .. n - 1, <<stamp, m>> \notin DOMAIN segs PROVE FALSE
    OBVIOUS
  <2>1. m \in Free /\ m < n
    BY <1>1, <1>5
  <2> QED BY <2>1, <1>4, <1>5
<1>7. \A k \in 0 .. MaxLines :
         <<stamp, k>> \notin DOMAIN segs /\ (\A m \in 0 .. k - 1 : <<stamp, m>> \in DOMAIN segs) => k = n
  <2> SUFFICES ASSUME NEW k \in 0 .. MaxLines, <<stamp, k>> \notin DOMAIN segs,
                      \A m \in 0 .. k - 1 : <<stamp, m>> \in DOMAIN segs
               PROVE  k = n
    OBVIOUS
  <2>1. ~(k < n)
    <3>1. k < n => k \in 0 .. n - 1
      BY <1>5
    <3> QED BY <3>1, <1>6
  <2>2. ~(n < k)
    <3>1. n < k => n \in 0 .. k - 1
      BY <1>5
    <3> QED BY <3>1, <1>5
  <2> QED BY <2>1, <2>2, <1>5
<1>8. next_segment_name = <<stamp, n>>
  <2> HIDE DEF Free
  <2> QED BY <1>5, <1>6, <1>7 DEF next_segment_name
<1>9. n < TailHash(live)
  <2>1. CASE n = 0
    BY <2>1, <1>2
  <2>2. CASE n # 0
    <3>1. n - 1 \in 0 .. n - 1 /\ n - 1 \in Nat
      BY <2>2, <1>5
    <3>2. <<stamp, n - 1>> \in DOMAIN segs
      BY <3>1, <1>6
    <3>3. n - 1 < TailHash(segs[<<stamp, n - 1>>]) /\ TailHash(segs[<<stamp, n - 1>>]) < TailHash(live)
      BY <3>2 DEF NameBooks
    <3> QED BY <3>1, <3>2, <3>3, <1>2, <1>5
  <2> QED BY <2>1, <2>2
<1>10. ASSUME NEW s \in DOMAIN segs
       PROVE  Before(s, <<stamp, n>>)
  <2>1. s[1] \in Nat /\ s[2] \in Nat /\ s = <<s[1], s[2]>> /\ s[1] <= stamp
    BY <1>1, FileIs DEF NameBooks
  <2>2. CASE s[1] # stamp
    BY <2>1, <2>2, <1>1 DEF Before
  <2>3. CASE s[1] = stamp
    <3>1. s[2] # n
      BY <2>1, <2>3, <1>5
    <3>2. ~(n < s[2])
      <4>1. n < s[2] => n \in 0 .. s[2] - 1
        BY <2>1, <1>5
      <4> QED BY <4>1, <2>3, <1>5 DEF NameBooks
    <3>3. s[2] < n
      BY <3>1, <3>2, <2>1, <1>5
    <3> QED BY <3>3, <2>3 DEF Before
  <2> QED BY <2>2, <2>3
<1>11. <<stamp, n>> \in SegmentNames
  BY <1>1, <1>5 DEF SegmentNames
<1> QED BY <1>5, <1>6, <1>8, <1>9, <1>10, <1>11

\* What is live becomes the newest segment.
LEMMA RotateKeeps ==
  ASSUME LogTyped, DiskBooks, HasText(live), NEW name, name = next_segment_name,
         segs' = [n \in DOMAIN segs \union {name} |-> IF n = name THEN live ELSE segs[n]],
         live' = NoFile, UNCHANGED <<stamp, logged, acked>>
  PROVE  /\ DiskBooks' /\ LinesOnDisk' = LinesOnDisk
         /\ DOMAIN segs' \subseteq SegmentNames /\ segs' \in [DOMAIN segs' -> LogFiles]
         /\ ~HasText(live)' /\ name \in DOMAIN segs' /\ name \in Nat \X Nat
         /\ \A s \in DOMAIN segs' : ~Before(name, s)
<1>1. /\ name = <<stamp, name[2]>> /\ name[1] = stamp /\ name[2] \in 0 .. MaxLines
      /\ name \notin DOMAIN segs /\ name \in SegmentNames
      /\ \A m \in 0 .. name[2] - 1 : <<stamp, m>> \in DOMAIN segs
      /\ name[2] < TailHash(live)
      /\ \A s \in DOMAIN segs : Before(s, name)
  <2>1. NameBooks
    BY DEF DiskBooks
  <2>2. PICK n \in 0 .. MaxLines :
            /\ next_segment_name = <<stamp, n>> /\ <<stamp, n>> \notin DOMAIN segs /\ <<stamp, n>> \in SegmentNames
            /\ \A m \in 0 .. n - 1 : <<stamp, m>> \in DOMAIN segs
            /\ n < TailHash(live)
            /\ \A s \in DOMAIN segs : Before(s, <<stamp, n>>)
    BY <2>1, NextName
  <2> QED BY <2>2
<1>2. /\ DOMAIN segs \subseteq SegmentNames /\ segs \in [DOMAIN segs -> LogFiles] /\ live \in LogFiles
      /\ stamp \in Nat /\ \A l \in LinesOnDisk : l \in LogLines
  <2>1. \A l \in LinesOnDisk : l \in LogLines
    BY DiskIs, TailTyped, LineTyped
  <2> QED BY <2>1, AuditAssumption DEF LogTyped
<1>3. /\ DOMAIN segs' = DOMAIN segs \union {name} /\ segs'[name] = live
      /\ \A s \in DOMAIN segs : segs'[s] = segs[s]
  BY <1>1
<1>4. DOMAIN segs' \subseteq SegmentNames /\ segs' \in [DOMAIN segs' -> LogFiles]
  BY <1>1, <1>2, <1>3
<1>5. /\ name # NoName /\ NoName \notin DOMAIN segs /\ name \in Nat \X Nat
      /\ \A s \in DOMAIN segs : s \in Nat \X Nat
  BY <1>1, <1>2, AuditAssumption DEF SegmentNames, NoName
<1>6. /\ FileNames' = DOMAIN segs \union {name, NoName} /\ FileNames = DOMAIN segs \union {NoName}
      /\ File(NoName)' = NoFile /\ File(name)' = live /\ File(NoName) = live
      /\ \A s \in DOMAIN segs : File(s)' = segs[s] /\ File(s) = segs[s]
  BY <1>1, <1>3, <1>5 DEF FileNames, File
<1>7. /\ \A s \in DOMAIN segs : TailHash(segs[s])' = TailHash(segs[s]) /\ HasText(segs[s])' = HasText(segs[s])
      /\ TailHash(segs[name])' = TailHash(live) /\ HasText(segs[name])' = HasText(live)
  <2>1. \A s : TailHash(segs[s])' = TailHash(segs'[s]) /\ HasText(segs[s])' = HasText(segs'[s])
    BY DEF TailHash, HasText, LastLine
  <2> QED BY <2>1, <1>3
<1>8. ~HasText(live)'
  BY DEF HasText, LastLine, NoFile
<1>9. LinesOnDisk' = LinesOnDisk
  <2>1. LinesOf(live') = {}
    BY DEF LinesOf, NoFile
  <2> QED BY <2>1, <1>3, DiskIs
<1>10. \A s \in DOMAIN segs' : ~Before(name, s)
  BY <1>1, <1>3, <1>5, BeforeIs
<1>11. NameBooks'
  <2>1. /\ \A s \in DOMAIN segs : s[1] <= stamp /\ HasText(segs[s]) /\ s[2] < TailHash(segs[s])
        /\ \A s \in DOMAIN segs : s[1] = stamp => \A m \in 0 .. s[2] - 1 : <<stamp, m>> \in DOMAIN segs
    BY DEF DiskBooks, NameBooks
  <2>2. ASSUME NEW s \in DOMAIN segs'
        PROVE  /\ s[1] <= stamp
               /\ s[1] = stamp => \A m \in 0 .. s[2] - 1 : <<stamp, m>> \in DOMAIN segs'
               /\ HasText(segs[s])' /\ s[2] < TailHash(segs[s])'
    <3>1. CASE s = name
      BY <3>1, <1>1, <1>2, <1>3, <1>7
    <3>2. CASE s # name
      BY <3>2, <2>1, <1>3, <1>7
    <3> QED BY <3>1, <3>2
  <2> QED BY <2>2, <1>8 DEF NameBooks
<1>12. ForkBooks'
  <2>1. ASSUME NEW s \in DOMAIN segs', NEW m \in FileNames', NEW i \in DOMAIN File(m)'.lines,
               Follows(File(m)'.lines[i], TailHash(segs[s])')
        PROVE  Later(s, m)
    <3> DEFINE l == File(m)'.lines[i]
    <3>1. CASE m = NoName
      BY <3>1 DEF Later
    <3>2. CASE m # NoName
      <4>1. l \in LinesOnDisk
        BY <3>2, <2>1, <1>3, <1>6, DiskIs DEF LinesOf
      <4>2. CASE s = name
        BY <4>1, <4>2, <2>1, <1>7 DEF DiskBooks, ForkBooks
      <4>3. CASE s # name /\ m = name
        BY <4>3, <1>1, <1>3 DEF Later
      <4>4. CASE s # name /\ m # name
        <5>1. s \in DOMAIN segs /\ m \in FileNames /\ File(m)' = File(m)
          BY <4>4, <3>2, <1>3, <1>6
        <5>2. Follows(File(m).lines[i], TailHash(segs[s])) /\ i \in DOMAIN File(m).lines
          BY <5>1, <1>7, <2>1
        <5> QED BY <5>1, <5>2 DEF DiskBooks, ForkBooks
      <4> QED BY <4>2, <4>3, <4>4
    <3> QED BY <3>1, <3>2
  <2>2. NoFork'
    BY <1>9 DEF DiskBooks, ForkBooks, NoFork, Parses
  <2> QED BY <2>1, <2>2, <1>8 DEF ForkBooks, Follows, Later, Before, TailHash, HasText
<1>13. AckedStays'
  BY <1>9 DEF DiskBooks, AckedStays
<1>14. ASSUME NEW h \in LogLines, NEW n \in FileNames, NEW m \in FileNames', HeadBooks(h, n),
              m = (IF n = NoName THEN name ELSE n)
       PROVE  HeadBooks(h, m)'
  <2>1. m # NoName /\ m \in Nat \X Nat /\ (n # NoName => m = n /\ n \in DOMAIN segs)
    BY <1>5, <1>6, <1>14
  <2>2. \A s \in DOMAIN segs : Later(s, n) <=> Later(s, m)
    BY <2>1, <1>1, <1>14 DEF Later
  <2>3. ~Later(name, m)
    <3>1. CASE n = NoName
      BY <3>1, <2>1, <1>5, <1>14, BeforeIs DEF Later
    <3>2. CASE n # NoName
      BY <3>2, <2>1, <1>1, <1>5, BeforeIs DEF Later
    <3> QED BY <3>1, <3>2
  <2>4. CASE h.prev = GENESIS
    <3>1. \A s \in DOMAIN segs' : ~Later(s, m)
      BY <2>2, <2>3, <2>4, <1>3, <1>14 DEF HeadBooks
    <3> QED BY <3>1, <2>4 DEF HeadBooks, Later, Before
  <2>5. CASE h.prev # GENESIS
    <3>1. /\ h.kind = "seam" /\ h.seg[1] <= stamp /\ (h.seg[1] = stamp => h.seg \in DOMAIN segs)
          /\ Later(h.seg, n) /\ \A s \in DOMAIN segs : ~(Before(h.seg, s) /\ Later(s, n))
          /\ h.seg \in DOMAIN segs => TailHash(segs[h.seg]) = h.prev
      BY <2>5, <1>14 DEF HeadBooks
    <3>2. h.seg # name
      BY <3>1, <1>1
    <3>3. Later(h.seg, m)
      <4>1. CASE n # NoName
        BY <4>1, <2>1, <3>1
      <4>2. CASE n = NoName /\ h.seg \in DOMAIN segs
        BY <4>2, <2>2, <3>1
      <4>3. CASE n = NoName /\ h.seg \notin DOMAIN segs
        <5>1. h.seg[1] \in Nat /\ h.seg[1] < stamp
          BY <4>3, <3>1, <1>2 DEF LogLines
        <5>2. m = name
          BY <4>3, <1>14
        <5> QED BY <5>1, <5>2, <1>1 DEF Later, Before
      <4> QED BY <4>1, <4>2, <4>3
    <3>4. \A s \in DOMAIN segs' : ~(Before(h.seg, s) /\ Later(s, m))
      BY <2>2, <2>3, <3>1, <1>3
    <3>5. h.seg \in DOMAIN segs' => h.seg \in DOMAIN segs /\ TailHash(segs[h.seg])' = h.prev
      BY <3>1, <3>2, <1>3, <1>7
    <3>6. h.seg[1] = stamp => h.seg \in DOMAIN segs'
      BY <3>1, <1>3
    <3> QED BY <3>1, <3>3, <3>4, <3>5, <3>6, <2>5 DEF HeadBooks, Later, Before, TailHash
  <2> QED BY <2>4, <2>5
<1>15. ChainBooks'
  <2> SUFFICES ASSUME NEW m \in FileNames'
               PROVE  /\ AllParse(File(m)') => verify_links(File(m)')
                      /\ \A h : File(m)'.lines # <<>> /\ h = File(m)'.lines[1] /\ Parses(h) => HeadBooks(h, m)'
    BY DEF ChainBooks, AllParse, verify_links, Parses, HeadBooks
  <2>1. CASE m = NoName
    BY <2>1, <1>6 DEF NoFile, verify_links
  <2>2. CASE m # NoName
    <3> DEFINE n == IF m = name THEN NoName ELSE m
    <3>1. n \in FileNames /\ File(m)' = File(n) /\ m = (IF n = NoName THEN name ELSE n)
      BY <2>2, <1>6
    <3>2. AllParse(File(m)') => verify_links(File(m)')
      BY <3>1 DEF DiskBooks, ChainBooks
    <3>3. ASSUME NEW h, File(m)'.lines # <<>>, h = File(m)'.lines[1], Parses(h) PROVE HeadBooks(h, m)'
      <4>1. HeadBooks(h, n)
        BY <3>1, <3>3 DEF DiskBooks, ChainBooks
      <4>2. File(n).lines \in Seq(LogLines)
        BY <3>1, <1>2, <1>6 DEF LogFiles
      <4>3. h \in LogLines
        <5>1. Len(File(n).lines) \in Nat /\ Len(File(n).lines) # 0
          BY <4>2, <3>1, <3>3, LenProperties, EmptySeq
        <5> QED BY <5>1, <4>2, <3>1, <3>3, ElementOfSeq
      <4> HIDE DEF n
      <4> QED BY <4>1, <4>3, <3>1, <1>14
    <3> QED BY <3>2, <3>3
  <2> QED BY <2>1, <2>2
<1> QED BY <1>3, <1>4, <1>5, <1>8, <1>9, <1>10, <1>11, <1>12, <1>13, <1>15 DEF DiskBooks

\* The operator takes a segment away.
LEMMA PruneKeeps ==
  ASSUME AuditBooks, NEW name \in DOMAIN segs, Prune(name)
  PROVE  AuditBooks'
<1>1. /\ LogTyped /\ WriterBooks /\ DiskBooks
      /\ name[1] < stamp /\ alock = "free"
      /\ segs' = [n \in DOMAIN segs \ {name} |-> segs[n]]
      /\ acked' = acked \ {segs[name].lines[i].id : i \in DOMAIN segs[name].lines}
      /\ UNCHANGED <<live, stamp, alock, writer, logged, kills>>
  BY DEF AuditBooks, Prune
<1>2. /\ DOMAIN segs \subseteq SegmentNames /\ segs \in [DOMAIN segs -> LogFiles] /\ stamp \in Nat
      /\ \A s \in DOMAIN segs : s \in Nat \X Nat /\ s[1] \in Nat
  BY <1>1, AuditAssumption DEF LogTyped, SegmentNames
<1>3. /\ DOMAIN segs' = DOMAIN segs \ {name}
      /\ \A s \in DOMAIN segs' : s \in DOMAIN segs /\ segs'[s] = segs[s]
  BY <1>1
<1>4. /\ NoName \notin DOMAIN segs /\ FileNames' \subseteq FileNames
      /\ File(NoName)' = live /\ \A m \in FileNames' : File(m)' = File(m)
      /\ \A s \in DOMAIN segs' : File(s)' = segs[s] /\ File(s) = segs[s]
  BY <1>1, <1>2, <1>3, AuditAssumption DEF FileNames, File, SegmentNames, NoName
<1>5. /\ \A s \in DOMAIN segs' : TailHash(segs[s])' = TailHash(segs[s]) /\ HasText(segs[s])' = HasText(segs[s])
      /\ TailHash(live)' = TailHash(live) /\ HasText(live)' = HasText(live)
  <2>1. \A s : TailHash(segs[s])' = TailHash(segs'[s]) /\ HasText(segs[s])' = HasText(segs'[s])
    BY DEF TailHash, HasText, LastLine
  <2> QED BY <2>1, <1>1, <1>3 DEF TailHash, HasText, LastLine
<1>6. LinesOnDisk' \subseteq LinesOnDisk
  BY <1>1, <1>3, DiskIs
<1>7. LogTyped'
  <2>1. segs' \in [DOMAIN segs' -> LogFiles] /\ DOMAIN segs' \subseteq SegmentNames
    BY <1>2, <1>3, <1>1
  <2> QED BY <2>1, <1>1, <1>6 DEF LogTyped
<1>8. WriterBooks'
  <2> SUFFICES ASSUME NEW p \in Writers PROVE writer[p].pc = "idle"
    BY <1>1 DEF WriterBooks, WriterAt
  <2> QED BY <1>1, AuditAssumption DEF WriterBooks, WriterAt
<1>9. NameBooks'
  <2> SUFFICES ASSUME NEW s \in DOMAIN segs'
               PROVE  /\ s[1] <= stamp
                      /\ s[1] = stamp => \A m \in 0 .. s[2] - 1 : <<stamp, m>> \in DOMAIN segs'
                      /\ HasText(segs[s]) /\ s[2] < TailHash(segs[s])
                      /\ HasText(live) => TailHash(segs[s]) < TailHash(live)
    BY <1>1, <1>5 DEF NameBooks
  <2>1. /\ s \in DOMAIN segs /\ s[1] <= stamp
        /\ s[1] = stamp => \A m \in 0 .. s[2] - 1 : <<stamp, m>> \in DOMAIN segs
        /\ HasText(segs[s]) /\ s[2] < TailHash(segs[s])
        /\ HasText(live) => TailHash(segs[s]) < TailHash(live)
    BY <1>1, <1>3 DEF DiskBooks, NameBooks
  <2>2. \A m : <<stamp, m>> # name
    BY <1>1, <1>2
  <2> QED BY <2>1, <2>2, <1>3
<1>10. ForkBooks'
  <2>1. HasText(live)' => \A k \in LinesOnDisk' : ~Follows(k, TailHash(live))'
    BY <1>1, <1>5, <1>6 DEF DiskBooks, ForkBooks, Follows, Parses
  <2>2. ASSUME NEW s \in DOMAIN segs', NEW m \in FileNames', NEW i \in DOMAIN File(m)'.lines,
               Follows(File(m)'.lines[i], TailHash(segs[s])')
        PROVE  Later(s, m)
    <3>1. s \in DOMAIN segs /\ m \in FileNames /\ File(m)' = File(m)
      BY <1>3, <1>4
    <3>2. Follows(File(m).lines[i], TailHash(segs[s])) /\ i \in DOMAIN File(m).lines
      BY <3>1, <1>5, <2>2
    <3> QED BY <3>1, <3>2, <1>1 DEF DiskBooks, ForkBooks
  <2>3. NoFork'
    BY <1>1, <1>6 DEF DiskBooks, ForkBooks, NoFork, Parses
  <2> QED BY <2>1, <2>2, <2>3 DEF ForkBooks, Follows, Later, Before, TailHash, HasText
<1>11. AckedStays'
  <2> SUFFICES ASSUME NEW id \in acked' PROVE \E k \in LinesOnDisk' : k.id = id /\ k.kind = "entry"
    BY DEF AckedStays
  <2>1. id \in acked /\ \A k \in LinesOf(segs[name]) : k.id # id
    BY <1>1 DEF LinesOf
  <2>2. PICK k \in LinesOnDisk : k.id = id /\ k.kind = "entry"
    BY <2>1, <1>1 DEF DiskBooks, AckedStays
  <2>3. k \notin LinesOf(segs[name])
    BY <2>1, <2>2
  <2>4. k \in LinesOnDisk'
    <3>1. CASE k \in LinesOf(live)
      BY <3>1, <1>1, DiskIs
    <3>2. CASE k \notin LinesOf(live)
      <4>1. PICK n \in DOMAIN segs : k \in LinesOf(segs[n])
        BY <3>2, DiskIs
      <4>2. n \in DOMAIN segs' /\ segs'[n] = segs[n]
        BY <4>1, <2>3, <1>3
      <4> QED BY <4>1, <4>2, DiskIs
    <3> QED BY <3>1, <3>2
  <2> QED BY <2>2, <2>4
<1>12. ASSUME NEW h, NEW n, HeadBooks(h, n)
       PROVE  HeadBooks(h, n)'
  <2>1. CASE h.prev = GENESIS
    <3>1. \A s \in DOMAIN segs' : ~Later(s, n)
      BY <2>1, <1>3, <1>12 DEF HeadBooks
    <3> QED BY <3>1, <2>1 DEF HeadBooks, Later, Before
  <2>2. CASE h.prev # GENESIS
    <3>1. /\ h.kind = "seam" /\ h.seg[1] <= stamp /\ (h.seg[1] = stamp => h.seg \in DOMAIN segs)
          /\ Later(h.seg, n) /\ \A s \in DOMAIN segs : ~(Before(h.seg, s) /\ Later(s, n))
          /\ h.seg \in DOMAIN segs => TailHash(segs[h.seg]) = h.prev
      BY <2>2, <1>12 DEF HeadBooks
    <3>2. h.seg[1] = stamp => h.seg \in DOMAIN segs'
      BY <3>1, <1>1, <1>2, <1>3
    <3>3. \A s \in DOMAIN segs' : ~(Before(h.seg, s) /\ Later(s, n))
      BY <3>1, <1>3
    <3>4. h.seg \in DOMAIN segs' => TailHash(segs[h.seg])' = h.prev
      BY <3>1, <1>3, <1>5
    <3> QED BY <3>1, <3>2, <3>3, <3>4, <2>2, <1>1 DEF HeadBooks, Later, Before, TailHash
  <2> QED BY <2>1, <2>2
<1>13. ChainBooks'
  <2> SUFFICES ASSUME NEW m \in FileNames'
               PROVE  /\ AllParse(File(m)') => verify_links(File(m)')
                      /\ \A h : File(m)'.lines # <<>> /\ h = File(m)'.lines[1] /\ Parses(h) => HeadBooks(h, m)'
    BY DEF ChainBooks, AllParse, verify_links, Parses, HeadBooks
  <2>1. m \in FileNames /\ File(m)' = File(m)
    BY <1>4
  <2>2. ASSUME NEW h, File(m)'.lines # <<>>, h = File(m)'.lines[1], Parses(h) PROVE HeadBooks(h, m)'
    <3>1. HeadBooks(h, m)
      BY <2>1, <2>2, <1>1 DEF DiskBooks, ChainBooks
    <3> QED BY <3>1, <1>12
  <2> QED BY <2>1, <2>2, <1>1 DEF DiskBooks, ChainBooks
<1> QED BY <1>7, <1>8, <1>9, <1>10, <1>11, <1>13 DEF AuditBooks, DiskBooks

-----------------------------------------------------------------------------
(* The newest and the oldest segment.                                      *)

LEMMA LastNameOf ==
  ASSUME NEW D \in SUBSET SegmentNames, D # {}
  PROVE  \E a \in D : \A b \in D : a = b \/ Before(b, a)
<1> DEFINE Firsts == {MaxStamp - a[1] : a \in D}
<1>1. /\ MaxStamp \in Nat /\ MaxLines \in Nat
      /\ \A a \in D : a[1] \in 1 .. MaxStamp /\ a[2] \in 0 .. MaxLines /\ a = <<a[1], a[2]>>
  BY AuditAssumption DEF SegmentNames
<1>2. Firsts \in SUBSET Nat /\ Firsts # {}
  BY <1>1
<1>3. PICK d \in Firsts : \A e \in Firsts : d <= e
  <2> HIDE DEF Firsts
  <2> QED BY <1>2, LeastOf
<1>4. PICK c \in D : d = MaxStamp - c[1]
  BY <1>3
<1>5. \A b \in D : b[1] <= c[1]
  <2> SUFFICES ASSUME NEW b \in D PROVE b[1] <= c[1]
    OBVIOUS
  <2>1. MaxStamp - c[1] <= MaxStamp - b[1]
    BY <1>3, <1>4
  <2> QED BY <2>1, <1>1
<1> DEFINE Seconds == {MaxLines - a[2] : a \in {b \in D : b[1] = c[1]}}
<1>6. Seconds \in SUBSET Nat /\ Seconds # {}
  BY <1>1
<1>7. PICK g \in Seconds : \A e \in Seconds : g <= e
  <2> HIDE DEF Seconds
  <2> QED BY <1>6, LeastOf
<1>8. PICK a \in D : a[1] = c[1] /\ g = MaxLines - a[2]
  BY <1>7
<1>9. ASSUME NEW b \in D PROVE a = b \/ Before(b, a)
  <2>1. CASE b[1] # c[1]
    BY <2>1, <1>1, <1>5, <1>8 DEF Before
  <2>2. CASE b[1] = c[1]
    <3>1. MaxLines - a[2] <= MaxLines - b[2]
      BY <2>2, <1>7, <1>8
    <3>2. b[2] <= a[2] /\ a[2] \in Nat /\ b[2] \in Nat
      BY <3>1, <1>1
    <3>3. CASE b[2] = a[2]
      BY <3>3, <2>2, <1>1, <1>8
    <3>4. CASE b[2] # a[2]
      BY <3>4, <3>2, <2>2, <1>8 DEF Before
    <3> QED BY <3>3, <3>4
  <2> QED BY <2>1, <2>2
<1> QED BY <1>9

LEMMA FirstNameOf ==
  ASSUME NEW D \in SUBSET SegmentNames, D # {}
  PROVE  \E a \in D : \A b \in D : ~Before(b, a)
<1> DEFINE Firsts == {a[1] : a \in D}
<1>1. \A a \in D : a[1] \in Nat /\ a[2] \in Nat
  BY AuditAssumption DEF SegmentNames
<1>2. Firsts \in SUBSET Nat /\ Firsts # {}
  BY <1>1
<1>3. PICK d \in Firsts : \A e \in Firsts : d <= e
  <2> HIDE DEF Firsts
  <2> QED BY <1>2, LeastOf
<1> DEFINE Seconds == {a[2] : a \in {b \in D : b[1] = d}}
<1>4. Seconds \in SUBSET Nat /\ Seconds # {}
  BY <1>1, <1>3
<1>5. PICK g \in Seconds : \A e \in Seconds : g <= e
  <2> HIDE DEF Seconds
  <2> QED BY <1>4, LeastOf
<1>6. PICK a \in D : a[1] = d /\ a[2] = g
  BY <1>5
<1>7. ASSUME NEW b \in D PROVE ~Before(b, a)
  <2>1. d <= b[1] /\ (b[1] = d => g <= b[2])
    BY <1>3, <1>5
  <2> QED BY <2>1, <1>1, <1>6 DEF Before
<1> QED BY <1>7

\* newest_segment: none only where there is none.
LEMMA NewestIs ==
  ASSUME LogTyped
  PROVE  /\ newest_segment = NoName => DOMAIN segs = {}
         /\ newest_segment # NoName =>
               newest_segment \in DOMAIN segs /\ \A s \in DOMAIN segs : ~Before(newest_segment, s)
         /\ newest_segment \in Nat \X Nat
<1>1. DOMAIN segs \in SUBSET SegmentNames /\ NoName \notin DOMAIN segs /\ \A s \in DOMAIN segs : s \in Nat \X Nat
  BY FileIs, AuditAssumption DEF LogTyped, SegmentNames
<1>2. CASE DOMAIN segs = {}
  BY <1>2 DEF newest_segment, NoName
<1>3. CASE DOMAIN segs # {}
  <2>1. newest_segment \in DOMAIN segs /\ \A b \in DOMAIN segs : newest_segment = b \/ Before(b, newest_segment)
    BY <1>1, <1>3, LastNameOf DEF newest_segment
  <2> QED BY <2>1, <1>1, <1>3, BeforeIs
<1> QED BY <1>2, <1>3

-----------------------------------------------------------------------------
(* One step each.                                                          *)

\* With the lock in a writer's hand the others are idle.
LEMMA OthersIdle ==
  ASSUME AuditBooks, NEW p \in Writers, alock \in {"free", p}
  PROVE  \A q \in Writers \ {p} : writer[q].pc = "idle"
BY AuditAssumption DEF AuditBooks, WriterBooks, WriterAt

\* What a writer is about when it moves on.
LEMMA MovesOn ==
  ASSUME AuditBooks, NEW p \in Writers, alock \in {"free", p}, NEW w \in WriterStates,
         writer' = [writer EXCEPT ![p] = w],
         w.pc # "idle" => alock' = p,
         w.pc = "rotate" => HasText(live)',
         w.pc = "seam" => ~HasText(live)' /\ w.seg \in DOMAIN segs' /\ \A s \in DOMAIN segs' : ~Before(w.seg, s),
         w.pc \in {"hash", "write"} => HasText(live)' \/ DOMAIN segs' = {},
         w.pc = "write" => w.prev = TailHash(live)'
  PROVE  WriterBooks' /\ writer' \in [Writers -> WriterStates]
<1>1. writer \in [Writers -> WriterStates]
  BY DEF AuditBooks, LogTyped
<1>2. writer' \in [Writers -> WriterStates] /\ writer'[p] = w /\ \A q \in Writers \ {p} : writer'[q] = writer[q]
  BY <1>1
<1>3. \A q \in Writers \ {p} : writer'[q].pc = "idle"
  BY <1>2, OthersIdle
<1>4. ASSUME NEW q \in Writers PROVE WriterAt(q, writer[q])'
  <2>1. CASE q = p
    BY <2>1, <1>2 DEF WriterAt, HasText, TailHash, Before
  <2>2. CASE q # p
    BY <2>2, <1>3 DEF WriterAt
  <2> QED BY <2>1, <2>2
<1> QED BY <1>2, <1>4 DEF WriterBooks

\* Where Goto sends a writer.
LEMMA GotoIs ==
  ASSUME LogTyped, NEW p \in Writers, NEW pc \in {"idle", "rotate", "seam", "hash", "write"}, NEW s \in Nat \X Nat
  PROVE  /\ [pc |-> pc, seg |-> s, prev |-> GENESIS] \in WriterStates
         /\ Goto(p, pc, s) => writer' = [writer EXCEPT ![p] = [pc |-> pc, seg |-> s, prev |-> GENESIS]]
BY DEF Goto, Idle, WriterStates, GENESIS

LEMMA NoNameIs == NoName \in Nat \X Nat
BY DEF NoName

\* The disk as it was.
LEMMA DiskAsItWas ==
  ASSUME AuditBooks, UNCHANGED <<live, segs, stamp, logged, acked>>
  PROVE  DiskBooks' /\ \A k \in LinesOnDisk' : k.id <= logged' /\ k.prev <= logged'
<1>1. LogTyped /\ DiskBooks /\ IsBase(live) /\ logged' >= logged /\ logged' \in Nat
  BY AuditAssumption DEF AuditBooks, LogTyped, IsBase
<1>2. PICK f : f = live
  OBVIOUS
<1> QED BY <1>1, <1>2, BaseKeeps

LEMMA AppendKeeps ==
  ASSUME AuditBooks, NEW p \in Writers, append(p)
  PROVE  AuditBooks'
<1> DEFINE pc == IF ~HasText(live) /\ newest_segment # NoName THEN "seam"
                 ELSE IF HasText(live) /\ Len(live.lines) >= max_bytes THEN "rotate"
                 ELSE "hash"
           s == IF ~HasText(live) /\ newest_segment # NoName THEN newest_segment ELSE NoName
           w == [pc |-> pc, seg |-> s, prev |-> GENESIS]
<1>1. /\ alock = "free" /\ alock' = p /\ Goto(p, pc, s)
      /\ UNCHANGED <<live, segs, stamp, logged, acked, kills>>
  BY DEF append, HasText
<1>2. LogTyped /\ pc \in {"idle", "rotate", "seam", "hash", "write"} /\ s \in Nat \X Nat
  BY NewestIs, NoNameIs DEF AuditBooks
<1>3. HasText(live)' = HasText(live)
  BY <1>1 DEF HasText, LastLine
<1>4. /\ pc = "rotate" => HasText(live)
      /\ pc = "seam" => ~HasText(live) /\ s \in DOMAIN segs /\ \A t \in DOMAIN segs : ~Before(s, t)
      /\ pc = "hash" => HasText(live) \/ DOMAIN segs = {}
      /\ pc # "write"
  BY <1>2, NewestIs
<1>5. w \in WriterStates /\ writer' = [writer EXCEPT ![p] = w]
  <2> HIDE DEF pc, s
  <2> QED BY <1>1, <1>2, GotoIs
<1>6. WriterBooks' /\ writer' \in [Writers -> WriterStates]
  <2>1. w.pc = pc /\ w.seg = s
    OBVIOUS
  <2> HIDE DEF w, pc, s
  <2> QED BY <2>1, <1>1, <1>3, <1>4, <1>5, MovesOn
<1>7. LogTyped'
  BY <1>1, <1>2, <1>6, DiskAsItWas DEF LogTyped
<1> QED BY <1>1, <1>6, <1>7, DiskAsItWas DEF AuditBooks

LEMMA RotateLockedKeeps ==
  ASSUME AuditBooks, NEW p \in Writers, rotate_locked(p)
  PROVE  AuditBooks'
<1>1. PICK name : name = next_segment_name
  OBVIOUS
<1>2. /\ writer[p].pc = "rotate" /\ live' = NoFile
      /\ segs' = [n \in DOMAIN segs \union {name} |-> IF n = name THEN live ELSE segs[n]]
      /\ Goto(p, "seam", name)
      /\ UNCHANGED <<stamp, alock, logged, acked, kills>>
  BY <1>1 DEF rotate_locked
<1>3. LogTyped /\ DiskBooks /\ HasText(live) /\ alock = p
  BY <1>2 DEF AuditBooks, WriterBooks, WriterAt
<1>4. /\ DiskBooks' /\ LinesOnDisk' = LinesOnDisk
      /\ DOMAIN segs' \subseteq SegmentNames /\ segs' \in [DOMAIN segs' -> LogFiles]
      /\ ~HasText(live)' /\ name \in DOMAIN segs' /\ name \in Nat \X Nat
      /\ \A s \in DOMAIN segs' : ~Before(name, s)
  BY <1>1, <1>2, <1>3, RotateKeeps
<1> DEFINE w == [pc |-> "seam", seg |-> name, prev |-> GENESIS]
<1>5. w \in WriterStates /\ writer' = [writer EXCEPT ![p] = w] /\ w.pc = "seam" /\ w.seg = name
  BY <1>2, <1>3, <1>4, GotoIs
<1>6. WriterBooks' /\ writer' \in [Writers -> WriterStates]
  <2> HIDE DEF w
  <2> QED BY <1>2, <1>3, <1>4, <1>5, MovesOn
<1>7. live' \in LogFiles
  BY <1>2 DEF NoFile, LogFiles
<1>8. LogTyped'
  BY <1>2, <1>3, <1>4, <1>6, <1>7 DEF LogTyped
<1> QED BY <1>4, <1>6, <1>8 DEF AuditBooks

LEMMA SeamFailsKeeps ==
  ASSUME AuditBooks, NEW p \in Writers, SeamFails(p)
  PROVE  AuditBooks'
<1>1. /\ writer[p].pc = "seam" /\ alock' = "free" /\ Goto(p, "idle", NoName)
      /\ UNCHANGED <<live, segs, stamp, logged, acked, kills>>
  BY DEF SeamFails
<1>2. LogTyped /\ alock = p
  BY <1>1 DEF AuditBooks, WriterBooks, WriterAt
<1> DEFINE w == [pc |-> "idle", seg |-> NoName, prev |-> GENESIS]
<1>3. w \in WriterStates /\ writer' = [writer EXCEPT ![p] = w] /\ w.pc = "idle"
  BY <1>1, <1>2, GotoIs, NoNameIs
<1>4. WriterBooks' /\ writer' \in [Writers -> WriterStates]
  <2> HIDE DEF w
  <2> QED BY <1>2, <1>3, MovesOn
<1>5. LogTyped'
  BY <1>1, <1>2, <1>4, DiskAsItWas DEF LogTyped
<1> QED BY <1>1, <1>4, <1>5, DiskAsItWas DEF AuditBooks

LEMMA HashLineKeeps ==
  ASSUME AuditBooks, NEW p \in Writers, hash_line(p)
  PROVE  AuditBooks'
<1> DEFINE w == [writer[p] EXCEPT !.pc = "write", !.prev = TailHash(live)]
<1>1. LogTyped /\ writer[p].pc = "hash" /\ alock = p /\ (HasText(live) \/ DOMAIN segs = {}) /\ writer[p] \in WriterStates
  BY DEF hash_line, AuditBooks, WriterBooks, WriterAt, LogTyped
<1>2. /\ writer' = [writer EXCEPT ![p] = w]
      /\ UNCHANGED <<live, segs, stamp, alock, logged, acked, kills>>
  BY DEF hash_line, TailHash
<1>3. w \in WriterStates /\ w.pc = "write" /\ w.prev = TailHash(live)
  BY <1>1, TailTyped DEF WriterStates
<1>4. HasText(live)' = HasText(live) /\ TailHash(live)' = TailHash(live)
  BY <1>2 DEF HasText, TailHash, LastLine
<1>5. WriterBooks' /\ writer' \in [Writers -> WriterStates]
  <2> HIDE DEF w
  <2> QED BY <1>1, <1>2, <1>3, <1>4, MovesOn
<1>6. LogTyped'
  BY <1>1, <1>2, <1>5, DiskAsItWas DEF LogTyped
<1> QED BY <1>2, <1>5, <1>6, DiskAsItWas DEF AuditBooks

\* A line goes behind a newline: what was there is not touched.
LEMMA PutIs ==
  ASSUME NEW f \in LogFiles, NEW l
  PROVE  /\ Repaired(f).lines = f.lines /\ Repaired(f).newline = TRUE
         /\ Put(Repaired(f), l) = Append(f.lines, l)
         /\ Put(NoFile, l) = Append(<<>>, l) /\ NoFile \in LogFiles
<1>1. f = [lines |-> f.lines, newline |-> f.newline] /\ f.newline \in BOOLEAN
  BY DEF LogFiles
<1>2. Repaired(f).lines = f.lines /\ Repaired(f).newline = TRUE
  <2>1. CASE EndsWithNewline(f)
    BY <2>1, <1>1 DEF Repaired, EndsWithNewline
  <2>2. CASE ~EndsWithNewline(f)
    BY <2>2, <1>1 DEF Repaired
  <2> QED BY <2>1, <2>2
<1>3. Put(Repaired(f), l) = Append(f.lines, l)
  BY <1>2 DEF Put
<1>4. Put(NoFile, l) = Append(<<>>, l) /\ NoFile \in LogFiles
  BY DEF Put, NoFile, LogFiles
<1> QED BY <1>2, <1>3, <1>4

\* A line is written behind a base, and its writer moves on.
LEMMA WriteKeeps ==
  ASSUME AuditBooks, NEW p \in Writers, alock = p,
         NEW f, IsBase(f), NEW l \in LogLines, MayWrite(f, l), l.id = logged + 1, l.prev <= logged, logged < MaxLines,
         live'.lines = Append(f.lines, l), live'.newline \in BOOLEAN,
         live' = [lines |-> live'.lines, newline |-> live'.newline],
         logged' = logged + 1, UNCHANGED <<segs, stamp>>,
         acked' \subseteq acked \union (IF l.kind = "entry" THEN {l.id} ELSE {}),
         NEW pc \in {"idle", "rotate", "hash"}, l.kind = "seam" \/ pc = "idle", Goto(p, pc, NoName),
         alock' = (IF pc = "idle" THEN "free" ELSE p)
  PROVE  AuditBooks'
<1>1. LogTyped /\ DiskBooks
  BY DEF AuditBooks
<1>2. DiskBooks' /\ \A k \in LinesOnDisk' : k.id <= logged' /\ k.prev <= logged'
  BY <1>1, GrowKeeps
<1>3. /\ live' \in LogFiles
      /\ l.kind = "seam" => HasText(live)'
  <2>1. f.lines \in Seq(LogLines)
    BY <1>1, BaseIs
  <2>2. live'.lines \in Seq(LogLines)
    BY <2>1, AppendProperties
  <2>3. l.kind # "garbage" => HasText(live')
    BY <2>1, LastLineAppended
  <2> QED BY <2>2, <2>3 DEF LogFiles, HasText, LastLine
<1> DEFINE w == [pc |-> pc, seg |-> NoName, prev |-> GENESIS]
<1>4. w \in WriterStates /\ writer' = [writer EXCEPT ![p] = w] /\ w.pc = pc
  BY <1>1, GotoIs, NoNameIs
<1>5. WriterBooks' /\ writer' \in [Writers -> WriterStates]
  <2> HIDE DEF w
  <2> QED BY <1>3, <1>4, MovesOn
<1>6. acked' \subseteq 1 .. logged' /\ logged' \in 0 .. MaxLines
  <2>1. logged \in Nat /\ MaxLines \in Nat /\ acked \subseteq 1 .. logged
    BY <1>1, AuditAssumption DEF LogTyped
  <2> QED BY <2>1
<1>7. LogTyped'
  BY <1>1, <1>2, <1>3, <1>5, <1>6 DEF LogTyped
<1> QED BY <1>2, <1>5, <1>7 DEF AuditBooks

LEMMA WriteSeamKeeps ==
  ASSUME AuditBooks, NEW p \in Writers, write_seam_locked(p)
  PROVE  AuditBooks'
<1> DEFINE seg == writer[p].seg
           l == LogLine("seam", logged + 1, TailHash(segs[seg]), seg)
           pc == IF max_bytes <= 1 THEN "rotate" ELSE "hash"
<1>1. /\ writer[p].pc = "seam" /\ logged < MaxLines
      /\ live' = [lines |-> <<l>>, newline |-> TRUE]
      /\ logged' = logged + 1 /\ Goto(p, pc, NoName)
      /\ UNCHANGED <<segs, stamp, alock, acked, kills>>
  BY DEF write_seam_locked, TailHash
<1>2. /\ alock = p /\ ~HasText(live) /\ seg \in DOMAIN segs /\ \A s \in DOMAIN segs : ~Before(seg, s)
      /\ seg \in Nat \X Nat
  BY <1>1 DEF AuditBooks, WriterBooks, WriterAt, LogTyped, WriterStates
<1>3. /\ logged \in Nat /\ TailHash(segs[seg]) \in Nat /\ TailHash(segs[seg]) <= logged
  BY <1>2, TailTyped, AuditAssumption DEF AuditBooks, LogTyped
<1>4. /\ l \in LogLines /\ l.id = logged + 1 /\ l.prev = TailHash(segs[seg]) /\ l.kind = "seam" /\ l.seg = seg
      /\ l.prev <= logged
  BY <1>2, <1>3 DEF LogLine, LogLines
<1> HIDE DEF l
<1>5. IsBase(NoFile) /\ MayWrite(NoFile, l)
  BY <1>2, <1>4 DEF IsBase, MayWrite, NoFile
<1>6. live'.lines = Append(NoFile.lines, l) /\ live'.newline \in BOOLEAN
      /\ live' = [lines |-> live'.lines, newline |-> live'.newline]
  BY <1>1 DEF NoFile
<1>7. pc \in {"idle", "rotate", "hash"} /\ alock' = (IF pc = "idle" THEN "free" ELSE p)
  BY <1>1, <1>2
<1> HIDE DEF pc
<1> QED BY <1>1, <1>2, <1>4, <1>5, <1>6, <1>7, WriteKeeps

LEMMA WriteLineKeeps ==
  ASSUME AuditBooks, NEW p \in Writers, WriteLine(p)
  PROVE  AuditBooks'
<1> DEFINE l == LogLine("entry", logged + 1, writer[p].prev, NoName)
<1>1. /\ writer[p].pc = "write" /\ logged < MaxLines
      /\ live' = Appended(live, l) /\ logged' = logged + 1 /\ acked' = acked \union {logged + 1}
      /\ alock' = "free" /\ Goto(p, "idle", NoName)
      /\ UNCHANGED <<segs, stamp, kills>>
  BY DEF WriteLine
<1>2. /\ alock = p /\ (HasText(live) \/ DOMAIN segs = {}) /\ writer[p].prev = TailHash(live)
      /\ live \in LogFiles
  BY <1>1 DEF AuditBooks, WriterBooks, WriterAt, LogTyped
<1>3. logged \in Nat /\ TailHash(live) \in Nat /\ TailHash(live) <= logged
  BY TailTyped, AuditAssumption DEF AuditBooks, LogTyped
<1>4. l \in LogLines /\ l.id = logged + 1 /\ l.prev = TailHash(live) /\ l.kind = "entry" /\ l.prev <= logged
  BY <1>2, <1>3, NoNameIs DEF LogLine, LogLines
<1> HIDE DEF l
<1>5. IsBase(live) /\ MayWrite(live, l)
  BY <1>2, <1>4 DEF IsBase, MayWrite
<1>6. live' = [lines |-> Append(live.lines, l), newline |-> TRUE]
  BY <1>1, <1>2, PutIs DEF Appended, Whole
<1>7. PICK f : f = live
  OBVIOUS
<1>8. /\ live'.lines = Append(f.lines, l) /\ live'.newline \in BOOLEAN
      /\ live' = [lines |-> live'.lines, newline |-> live'.newline]
      /\ acked' \subseteq acked \union (IF l.kind = "entry" THEN {l.id} ELSE {})
  BY <1>1, <1>4, <1>6, <1>7
<1> QED BY <1>1, <1>2, <1>4, <1>5, <1>7, <1>8, WriteKeeps

\* What a killed write leaves: nothing of its line, or a line, whole or not.
LEMMA LeftIs ==
  ASSUME NEW f, NEW g, f \in LogFiles, f.lines = g.lines, \A k : Put(f, k) = Append(g.lines, k),
         NEW l \in LogLines, NEW x \in Left(f, l)
  PROVE  \/ x = f
         \/ \E kind \in {"torn", "garbage", l.kind} : \E k \in LogLines :
               /\ k.kind = kind /\ k.id = l.id /\ k.prev = l.prev /\ k.seg = l.seg
               /\ x.lines = Append(g.lines, k) /\ x.newline \in BOOLEAN
               /\ x = [lines |-> x.lines, newline |-> x.newline]
<1>1. CASE x = f
  BY <1>1
<1>2. CASE x \in {Cut(f, [l EXCEPT !.kind = k]) : k \in Tears \intersect {"torn", "garbage"}}
  <2>1. PICK kind \in {"torn", "garbage"} : x = Cut(f, [l EXCEPT !.kind = kind])
    BY <1>2
  <2> DEFINE k == [l EXCEPT !.kind = kind]
  <2>2. k \in LogLines /\ k.kind = kind /\ k.id = l.id /\ k.prev = l.prev /\ k.seg = l.seg
    BY DEF LogLines
  <2>3. x = [lines |-> Append(g.lines, k), newline |-> FALSE]
    BY <2>1 DEF Cut
  <2> HIDE DEF k
  <2> QED BY <2>2, <2>3
<1>3. CASE x \in {Cut(f, l), Whole(f, l)}
  <2>1. x = [lines |-> Append(g.lines, l), newline |-> FALSE] \/ x = [lines |-> Append(g.lines, l), newline |-> TRUE]
    BY <1>3 DEF Cut, Whole
  <2>2. /\ x.lines = Append(g.lines, l) /\ x.newline \in BOOLEAN
        /\ x = [lines |-> x.lines, newline |-> x.newline]
    <3>1. CASE x = [lines |-> Append(g.lines, l), newline |-> FALSE]
      BY <3>1
    <3>2. CASE x = [lines |-> Append(g.lines, l), newline |-> TRUE]
      BY <3>2
    <3> QED BY <2>1, <3>1, <3>2
  <2>3. \E k \in LogLines :
           /\ k.kind = l.kind /\ k.id = l.id /\ k.prev = l.prev /\ k.seg = l.seg
           /\ x.lines = Append(g.lines, k) /\ x.newline \in BOOLEAN
           /\ x = [lines |-> x.lines, newline |-> x.newline]
    BY <2>2
  <2> QED BY <2>3
<1> QED BY <1>1, <1>2, <1>3 DEF Left

LEMMA KillKeeps ==
  ASSUME AuditBooks, NEW p \in Writers, Kill(p)
  PROVE  AuditBooks'
<1> DEFINE w == writer[p]
           seam == LogLine("seam", logged + 1, TailHash(segs[w.seg]), w.seg)
           entry == LogLine("entry", logged + 1, w.prev, NoName)
<1>1. /\ w.pc # "idle" /\ Goto(p, "idle", NoName) /\ UNCHANGED <<segs, stamp, acked>>
      /\ alock' = (IF alock = p THEN "free" ELSE alock)
      /\ w.pc = "seam" /\ logged < MaxLines => live' \in {live} \union Left(NoFile, seam)
      /\ w.pc = "write" /\ logged < MaxLines => live' \in {live} \union Left(Repaired(live), entry)
      /\ ~(w.pc \in {"seam", "write"} /\ logged < MaxLines) => live' = live
      /\ logged' = IF live'.lines \notin {<<>>, live.lines} THEN logged + 1 ELSE logged
  BY DEF Kill, TailHash
<1>2. LogTyped /\ DiskBooks /\ alock = p /\ alock' = "free" /\ w \in WriterStates /\ live \in LogFiles /\ WriterAt(p, w)
  BY <1>1 DEF AuditBooks, WriterBooks, WriterAt, LogTyped
<1>3. logged \in Nat /\ MaxLines \in Nat /\ TailHash(live) \in Nat /\ TailHash(live) <= logged
  BY <1>2, TailTyped, AuditAssumption DEF LogTyped
<1> DEFINE v == [pc |-> "idle", seg |-> NoName, prev |-> GENESIS]
<1>4. WriterBooks' /\ writer' \in [Writers -> WriterStates]
  <2>1. v \in WriterStates /\ writer' = [writer EXCEPT ![p] = v] /\ v.pc = "idle"
    BY <1>1, <1>2, GotoIs, NoNameIs
  <2> HIDE DEF v
  <2> QED BY <2>1, <1>2, MovesOn
<1>5. ASSUME NEW f \in LogFiles, IsBase(f), live'.lines = f.lines, live' \in LogFiles
      PROVE  AuditBooks'
  <2>1. logged' = logged
    BY <1>1, <1>5 DEF IsBase
  <2>2. DiskBooks' /\ \A k \in LinesOnDisk' : k.id <= logged' /\ k.prev <= logged'
    <3>1. logged' >= logged /\ logged' \in Nat
      BY <2>1, <1>3
    <3> QED BY <3>1, <1>1, <1>2, <1>5, BaseKeeps
  <2>3. LogTyped'
    BY <2>1, <2>2, <1>1, <1>2, <1>4, <1>5 DEF LogTyped
  <2> QED BY <2>2, <2>3, <1>4 DEF AuditBooks
<1>6. ASSUME NEW f \in LogFiles, IsBase(f), NEW k \in LogLines, MayWrite(f, k), k.id = logged + 1, k.prev <= logged,
             logged < MaxLines,
             live'.lines = Append(f.lines, k), live'.newline \in BOOLEAN,
             live' = [lines |-> live'.lines, newline |-> live'.newline]
      PROVE  AuditBooks'
  <2>1. live'.lines # <<>> /\ live'.lines # live.lines
    <3>1. f.lines \in Seq(LogLines) /\ live.lines \in Seq(LogLines)
      BY <1>2, TailTyped DEF LogFiles
    <3>2. Len(live'.lines) = Len(f.lines) + 1 /\ Len(f.lines) \in Nat
      BY <3>1, <1>6, AppendProperties, LenProperties
    <3>3. CASE f.lines = live.lines
      BY <3>2, <3>3, <3>1, EmptySeq
    <3>4. CASE f.lines = <<>> /\ ~HasText(live)
      <4>1. live'.lines = <<k>>
        BY <3>4, <1>6
      <4>2. live.lines = <<k>> => k \in LinesOnDisk
        BY DiskIs DEF LinesOf
      <4>3. k \notin LinesOnDisk
        BY <1>2, <1>3, <1>6 DEF LogTyped
      <4> QED BY <4>1, <4>2, <4>3
    <3> QED BY <3>3, <3>4, <1>6 DEF IsBase
  <2>2. logged' = logged + 1
    BY <2>1, <1>1
  <2>3. acked' \subseteq acked \union (IF k.kind = "entry" THEN {k.id} ELSE {})
    BY <1>1
  <2> QED BY <2>2, <2>3, <1>1, <1>2, <1>6, WriteKeeps
<1>7. CASE live' = live
  <2>1. PICK f : f = live
    OBVIOUS
  <2>2. IsBase(f) /\ f \in LogFiles
    BY <2>1, <1>2 DEF IsBase
  <2> QED BY <2>1, <2>2, <1>2, <1>5, <1>7
<1>8. CASE w.pc = "seam" /\ logged < MaxLines /\ live' # live
  <2>1. /\ ~HasText(live) /\ w.seg \in DOMAIN segs /\ \A s \in DOMAIN segs : ~Before(w.seg, s)
        /\ w.seg \in Nat \X Nat
    BY <1>2, <1>8 DEF WriterAt, WriterStates
  <2>2. TailHash(segs[w.seg]) \in Nat /\ TailHash(segs[w.seg]) <= logged
    BY <2>1, <1>2, TailTyped
  <2>3. seam \in LogLines /\ seam.id = logged + 1 /\ seam.prev = TailHash(segs[w.seg]) /\ seam.kind = "seam" /\ seam.seg = w.seg
    BY <2>1, <2>2, <1>3 DEF LogLine, LogLines
  <2>4. live' \in Left(NoFile, seam)
    BY <1>1, <1>8
  <2> HIDE DEF seam
  <2>5. IsBase(NoFile) /\ NoFile \in LogFiles /\ \A k : Put(NoFile, k) = Append(NoFile.lines, k)
    BY <2>1, <1>2, PutIs DEF IsBase, NoFile
  <2>6. CASE live' = NoFile
    BY <2>5, <2>6, <1>5
  <2>7. CASE live' # NoFile
    <3>1. PICK kind \in {"torn", "garbage", "seam"}, k \in LogLines :
             /\ k.kind = kind /\ k.id = seam.id /\ k.prev = seam.prev /\ k.seg = seam.seg
             /\ live'.lines = Append(NoFile.lines, k) /\ live'.newline \in BOOLEAN
             /\ live' = [lines |-> live'.lines, newline |-> live'.newline]
      <4>1. PICK x : x = live'
        OBVIOUS
      <4>2. \E kind \in {"torn", "garbage", seam.kind} : \E k \in LogLines :
               /\ k.kind = kind /\ k.id = seam.id /\ k.prev = seam.prev /\ k.seg = seam.seg
               /\ x.lines = Append(NoFile.lines, k) /\ x.newline \in BOOLEAN
               /\ x = [lines |-> x.lines, newline |-> x.newline]
        <5>1. NoFile \in LogFiles /\ x \in Left(NoFile, seam) /\ x # NoFile /\ seam \in LogLines /\ NoFile.lines = NoFile.lines
          BY <4>1, <2>3, <2>4, <2>5, <2>7
        <5> QED BY <5>1, <2>5, LeftIs
      <4> QED BY <4>1, <4>2, <2>3
    <3>2. MayWrite(NoFile, k)
      BY <3>1, <2>1, <2>3 DEF MayWrite, NoFile
    <3>3. k.id = logged + 1 /\ k.prev <= logged
      BY <3>1, <2>2, <2>3
    <3> QED BY <3>1, <3>2, <3>3, <2>5, <1>6, <1>8
  <2> QED BY <2>6, <2>7
<1>9. CASE w.pc = "write" /\ logged < MaxLines /\ live' # live
  <2>1. (HasText(live) \/ DOMAIN segs = {}) /\ w.prev = TailHash(live)
    BY <1>2, <1>9 DEF WriterAt
  <2>2. entry \in LogLines /\ entry.id = logged + 1 /\ entry.prev = TailHash(live) /\ entry.kind = "entry"
    BY <2>1, <1>3, NoNameIs DEF LogLine, LogLines
  <2>3. live' \in Left(Repaired(live), entry)
    BY <1>1, <1>9
  <2> HIDE DEF entry
  <2>4. PICK f : f = live
    OBVIOUS
  <2>5. PICK r : r = Repaired(live)
    OBVIOUS
  <2>6. /\ IsBase(f) /\ f \in LogFiles /\ r.lines = f.lines /\ r.newline = TRUE /\ r \in LogFiles
        /\ \A k : Put(r, k) = Append(f.lines, k)
    <3>1. r.lines = f.lines /\ r.newline = TRUE /\ \A k : Put(r, k) = Append(f.lines, k)
      BY <2>4, <2>5, <1>2, PutIs
    <3>2. r \in LogFiles
      BY <2>5, <1>2 DEF Repaired, LogFiles
    <3> QED BY <3>1, <3>2, <2>4, <1>2 DEF IsBase
  <2>7. CASE live' = r
    BY <2>6, <2>7, <1>5
  <2>8. CASE live' # r
    <3>1. PICK kind \in {"torn", "garbage", "entry"}, k \in LogLines :
             /\ k.kind = kind /\ k.id = entry.id /\ k.prev = entry.prev /\ k.seg = entry.seg
             /\ live'.lines = Append(f.lines, k) /\ live'.newline \in BOOLEAN
             /\ live' = [lines |-> live'.lines, newline |-> live'.newline]
      <4>1. PICK x : x = live'
        OBVIOUS
      <4>2. \E kind \in {"torn", "garbage", entry.kind} : \E k \in LogLines :
               /\ k.kind = kind /\ k.id = entry.id /\ k.prev = entry.prev /\ k.seg = entry.seg
               /\ x.lines = Append(f.lines, k) /\ x.newline \in BOOLEAN
               /\ x = [lines |-> x.lines, newline |-> x.newline]
        <5>1. r \in LogFiles /\ x \in Left(r, entry) /\ x # r /\ entry \in LogLines /\ r.lines = f.lines
          BY <4>1, <2>2, <2>3, <2>5, <2>6, <2>8
        <5>2. \A k : Put(r, k) = Append(f.lines, k)
          BY <2>6
        <5> QED BY <5>1, <5>2, LeftIs
      <4> QED BY <4>1, <4>2, <2>2
    <3>2. MayWrite(f, k)
      BY <3>1, <2>1, <2>2, <2>4 DEF MayWrite
    <3>3. k.id = logged + 1 /\ k.prev <= logged
      BY <3>1, <2>2, <1>3
    <3> QED BY <3>1, <3>2, <3>3, <2>6, <1>6, <1>9
  <2> QED BY <2>7, <2>8
<1> QED BY <1>1, <1>7, <1>8, <1>9

LEMMA AuditBooksInit ==
  ASSUME AuditInit
  PROVE  AuditBooks
<1>1. /\ live = NoFile /\ segs = <<>> /\ DOMAIN segs = {} /\ stamp = 1 /\ alock = "free" /\ logged = 0 /\ acked = {}
      /\ writer = [p \in Writers |-> Idle]
  BY DEF AuditInit
<1>2. live.lines = <<>> /\ live \in LogFiles
  BY <1>1 DEF NoFile, LogFiles
<1>3. ~HasText(live)
  BY <1>1 DEF HasText, LastLine, NoFile
<1>4. LinesOnDisk = {}
  <2>1. LinesOf(live) = {}
    BY <1>2 DEF LinesOf
  <2> QED BY <2>1, <1>1, DiskIs
<1>5. LogTyped
  <2>1. Idle \in WriterStates
    BY NoNameIs DEF Idle, WriterStates, GENESIS
  <2>2. segs \in [DOMAIN segs -> LogFiles] /\ DOMAIN segs \subseteq SegmentNames
    BY <1>1
  <2>3. stamp \in 1 .. MaxStamp /\ logged \in 0 .. MaxLines
    BY <1>1, AuditAssumption
  <2> QED BY <2>1, <2>2, <2>3, <1>1, <1>2, <1>4 DEF LogTyped
<1>6. WriterBooks
  BY <1>1 DEF WriterBooks, WriterAt, Idle
<1>7. FileNames = {NoName} /\ File(NoName) = live
  BY <1>1 DEF FileNames, File
<1>8. NameBooks /\ ForkBooks /\ AckedStays
  BY <1>1, <1>3, <1>4 DEF NameBooks, ForkBooks, NoFork, AckedStays
<1>9. ChainBooks
  BY <1>2, <1>7 DEF ChainBooks, verify_links
<1> QED BY <1>5, <1>6, <1>8, <1>9 DEF AuditBooks, DiskBooks

LEMMA AuditBooksKept ==
  ASSUME AuditBooks, [AuditNext]_auditVars
  PROVE  AuditBooks'
<1>1. CASE UNCHANGED auditVars
  <2>1. UNCHANGED <<live, segs, stamp, alock, writer, logged, acked>>
    BY <1>1 DEF auditVars
  <2>2. DiskBooks' /\ \A k \in LinesOnDisk' : k.id <= logged' /\ k.prev <= logged'
    BY <2>1, DiskAsItWas
  <2>3. LogTyped'
    BY <2>1, <2>2 DEF AuditBooks, LogTyped
  <2>4. WriterBooks'
    BY <2>1 DEF AuditBooks, WriterBooks, WriterAt, HasText, TailHash, LastLine, Before
  <2> QED BY <2>2, <2>3, <2>4 DEF AuditBooks
<1>2. ASSUME NEW p \in Writers,
             append(p) \/ rotate_locked(p) \/ write_seam_locked(p) \/ SeamFails(p) \/ hash_line(p) \/ WriteLine(p) \/ Kill(p)
      PROVE  AuditBooks'
  BY <1>2, AppendKeeps, RotateLockedKeeps, WriteSeamKeeps, SeamFailsKeeps, HashLineKeeps, WriteLineKeeps, KillKeeps
<1>3. ASSUME NEW name \in DOMAIN segs, Prune(name)
      PROVE  AuditBooks'
  BY <1>3, PruneKeeps
<1>4. CASE Second
  BY <1>4, SecondKeeps
<1> QED BY <1>1, <1>2, <1>3, <1>4 DEF AuditNext

-----------------------------------------------------------------------------
(* What the walk finds.                                                    *)

\* The walk begins with what is live, and comes to every segment it is sent on to.
LEMMA WalkedIs ==
  /\ NoName \in Walked /\ Walked \subseteq FileNames
  /\ \A n \in Walked : Turn(n) = "on" => File(n).lines[1].seg \in Walked
  /\ \A S \in SUBSET FileNames :
        NoName \in S /\ (\A n \in S : Turn(n) = "on" => File(n).lines[1].seg \in S) => Walked \subseteq S
<1>1. \A n : Turn(n) = "on" => File(n).lines[1].seg \in DOMAIN segs
  BY DEF Turn, Judge, classify_head
<1>2. ASSUME NEW n \in Walked, Turn(n) = "on" PROVE File(n).lines[1].seg \in Walked
  <2>1. File(n).lines[1].seg \in FileNames
    BY <1>1, <1>2 DEF FileNames
  <2> QED BY <2>1, <1>2 DEF Walked
<1> QED BY <1>2 DEF Walked, FileNames

LEMMA HeadTyped ==
  ASSUME LogTyped, NEW n \in FileNames, File(n).lines # <<>>
  PROVE  /\ File(n).lines[1] \in LogLines /\ 1 \in DOMAIN File(n).lines
         /\ LinesOf(File(n)) \subseteq LinesOnDisk /\ File(n).lines[1] \in LinesOf(File(n))
<1>1. File(n).lines \in Seq(LogLines) /\ LinesOf(File(n)) \subseteq LinesOnDisk
  BY TailTyped, DiskIs DEF FileNames, File
<1>2. Len(File(n).lines) \in Nat /\ Len(File(n).lines) # 0 /\ DOMAIN File(n).lines = 1 .. Len(File(n).lines)
  BY <1>1, LenProperties, EmptySeq
<1>3. 1 \in DOMAIN File(n).lines
  BY <1>2
<1> QED BY <1>1, <1>3, LineTyped DEF LinesOf

\* A file without a torn line passes, and leads to an earlier one.
LEMMA TurnIs ==
  ASSUME AuditBooks, NEW n \in FileNames, AllParse(File(n))
  PROVE  /\ Turn(n) \in {"genesis", "since", "on"}
         /\ Turn(n) = "on" => File(n).lines[1].seg \in DOMAIN segs /\ Later(File(n).lines[1].seg, n)
<1>1. LogTyped /\ DiskBooks /\ verify_links(File(n))
  BY DEF AuditBooks, DiskBooks, ChainBooks
<1>2. CASE File(n).lines = <<>>
  <2>1. n = NoName
    <3> SUFFICES ASSUME n # NoName PROVE FALSE
      OBVIOUS
    <3>1. n \in DOMAIN segs /\ File(n) = segs[n]
      BY DEF FileNames, File
    <3>2. HasText(segs[n]) /\ TextOf(segs[n]) = {}
      BY <3>1, <1>1, <1>2 DEF DiskBooks, NameBooks, TextOf
    <3> QED BY <3>1, <3>2, <1>1, TailTyped, LastLineIs
  <2>2. Judge(n) = "genesis"
    BY <2>1, <1>1, <1>2 DEF Judge, AllParse
  <2> QED BY <2>2 DEF Turn
<1>3. CASE File(n).lines # <<>>
  <2> DEFINE h == File(n).lines[1]
  <2>1. Parses(h)
    BY <1>1, <1>3, HeadTyped DEF AllParse
  <2>2. HeadBooks(h, n)
    BY <2>1, <1>1, <1>3 DEF DiskBooks, ChainBooks
  <2>3. Judge(n) = classify_head(h)
    BY <1>1, <1>3 DEF Judge, AllParse
  <2> HIDE DEF h
  <2>4. CASE h.prev = GENESIS
    BY <2>3, <2>4 DEF Turn, classify_head
  <2>5. CASE h.prev # GENESIS
    <3>1. h.kind = "seam" /\ Later(h.seg, n) /\ (h.seg \in DOMAIN segs => TailHash(segs[h.seg]) = h.prev)
      BY <2>2, <2>5 DEF HeadBooks
    <3>2. Judge(n) = "seam"
      BY <2>3, <2>5, <3>1 DEF classify_head
    <3> QED BY <3>1, <3>2 DEF Turn, TailHash, h
  <2> QED BY <2>4, <2>5
<1> QED BY <1>2, <1>3

\* The walk ends: each seam leads to an earlier segment.
LEMMA WalkEnds ==
  ASSUME AuditBooks
  PROVE  \E n \in Walked : Turn(n) # "on"
<1> SUFFICES ASSUME \A n \in Walked : Turn(n) = "on" PROVE FALSE
  OBVIOUS
<1> DEFINE D == Walked \intersect DOMAIN segs
<1>1. LogTyped /\ DOMAIN segs \in SUBSET SegmentNames /\ NoName \notin DOMAIN segs
  BY FileIs DEF AuditBooks, LogTyped
<1>2. \A n \in Walked : AllParse(File(n))
  BY DEF Turn, Judge, AllParse
<1>3. \A n \in Walked : File(n).lines[1].seg \in D /\ Later(File(n).lines[1].seg, n)
  BY <1>2, WalkedIs, TurnIs
<1>4. D \in SUBSET SegmentNames /\ D # {}
  BY <1>1, <1>3, WalkedIs
<1>5. PICK a \in D : \A b \in D : ~Before(b, a)
  <2> HIDE DEF D
  <2> QED BY <1>4, FirstNameOf
<1>6. a # NoName
  BY <1>1, <1>5
<1> QED BY <1>3, <1>5, <1>6 DEF Later

\* Without a torn line there is no verdict but a good one.
LEMMA BrokenNeedsTear ==
  ASSUME AuditBooks
  PROVE  BrokenOnlyByTear
<1> SUFFICES ASSUME \A l \in LinesOnDisk : Parses(l)
             PROVE  is_trustworthy(verify_chain_status.status)
  BY DEF BrokenOnlyByTear
<1>1. LogTyped /\ DOMAIN segs \in SUBSET SegmentNames /\ NoName \notin DOMAIN segs
  BY FileIs DEF AuditBooks, LogTyped
<1>2. \A n \in FileNames : AllParse(File(n))
  <2> SUFFICES ASSUME NEW n \in FileNames, NEW i \in DOMAIN File(n).lines PROVE Parses(File(n).lines[i])
    BY DEF AllParse
  <2>1. File(n).lines[i] \in LinesOnDisk
    BY <1>1, DiskIs DEF LinesOf, FileNames, File
  <2> QED BY <2>1
<1>3. \E n \in Walked : Turn(n) # "on"
  BY WalkEnds
<1>4. \A n \in Walked : Turn(n) \in {"genesis", "since", "on"}
  BY <1>2, WalkedIs, TurnIs
<1>5. verify_chain_status.status \in {Turn(n) : n \in Walked} /\ verify_chain_status.status # "on"
  BY <1>3 DEF verify_chain_status
<1> QED BY <1>4, <1>5 DEF is_trustworthy

\* Who comes to the beginning has come to every segment.
LEMMA GenesisIsAll ==
  ASSUME AuditBooks
  PROVE  GenesisCoversAll
<1> SUFFICES ASSUME live.lines # <<>>, verify_chain_status.status = "genesis", NEW l \in LinesOnDisk
             PROVE  l.id \in verify_chain_status.checked
  BY DEF GenesisCoversAll
<1>1. /\ LogTyped /\ ChainBooks /\ NoName \notin DOMAIN segs
      /\ \A s \in DOMAIN segs : s \in Nat \X Nat
  BY FileIs DEF AuditBooks, DiskBooks, LogTyped
<1>2. DOMAIN segs \subseteq Walked
  <2> SUFFICES ASSUME NEW x \in DOMAIN segs, x \notin Walked PROVE FALSE
    OBVIOUS
  <2>1. \E n \in Walked : Turn(n) # "on"
    BY WalkEnds
  <2>2. PICK n0 \in Walked : Turn(n0) = "genesis"
    BY <2>1 DEF verify_chain_status
  <2> DEFINE S == {z \in Walked : Later(x, z)}
  <2>3. S \in SUBSET FileNames /\ NoName \in S
    BY WalkedIs DEF Later
  <2>4. ASSUME NEW z \in S, Turn(z) = "on" PROVE File(z).lines[1].seg \in S
    <3> DEFINE h == File(z).lines[1]
    <3>1. /\ Judge(z) = "seam" /\ h.seg \in DOMAIN segs /\ h.seg \in Walked /\ z \in FileNames
      BY <2>4, WalkedIs DEF Turn, Judge, classify_head
    <3>2. /\ \A i \in DOMAIN File(z).lines : Parses(File(z).lines[i])
          /\ File(z).lines # <<>> /\ classify_head(h) = "seam"
      BY <3>1 DEF Judge
    <3>3. Parses(h) /\ HeadBooks(h, z)
      BY <3>1, <3>2, <1>1, HeadTyped DEF ChainBooks
    <3>4. ~(Before(h.seg, x) /\ Later(x, z))
      BY <3>2, <3>3 DEF classify_head, HeadBooks
    <3>5. h.seg = x \/ Before(x, h.seg)
      BY <3>1, <3>4, <2>4, <1>1, BeforeIs
    <3>6. h.seg # x
      BY <3>1
    <3> QED BY <3>1, <3>5, <3>6 DEF Later
  <2>5. n0 \in S
    <3> HIDE DEF S
    <3> QED BY <2>2, <2>3, <2>4, WalkedIs
  <2>6. Judge(n0) = "genesis" /\ n0 \in FileNames
    BY <2>2, WalkedIs DEF Turn
  <2>7. File(n0).lines # <<>>
    <3> SUFFICES ASSUME File(n0).lines = <<>> PROVE FALSE
      OBVIOUS
    <3>1. n0 # NoName
      BY <1>1 DEF File
    <3> QED BY <3>1, <2>6 DEF Judge
  <2>8. Parses(File(n0).lines[1]) /\ File(n0).lines[1].prev = GENESIS
    BY <2>6, <2>7, <1>1, HeadTyped DEF Judge, classify_head
  <2>9. ~Later(x, n0)
    BY <2>6, <2>7, <2>8, <1>1 DEF ChainBooks, HeadBooks
  <2> QED BY <2>5, <2>9
<1>3. PICK n \in Walked : l \in LinesOf(File(n))
  <2>1. CASE l \in LinesOf(live)
    BY <2>1, WalkedIs DEF File
  <2>2. CASE l \notin LinesOf(live)
    <3>1. PICK n \in DOMAIN segs : l \in LinesOf(segs[n])
      BY <2>2, DiskIs
    <3>2. n \in Walked /\ File(n) = segs[n]
      BY <3>1, <1>1, <1>2 DEF File
    <3> QED BY <3>1, <3>2
  <2> QED BY <2>1, <2>2
<1> QED BY <1>3 DEF verify_chain_status, LinesOf

LEMMA AuditBooksGive ==
  ASSUME AuditBooks
  PROVE  AuditInv
<1>1. /\ DOMAIN segs \subseteq SegmentNames /\ alock \in Writers \union {"free"} /\ logged \in 0 .. MaxLines
      /\ acked \subseteq 1 .. logged /\ writer \in [Writers -> WriterStates]
  BY DEF AuditBooks, LogTyped
<1>2. \A l \in LinesOnDisk : l.kind \in {"entry", "seam", "torn", "garbage"}
  <2>1. \A l \in LinesOnDisk : l \in LogLines
    BY DiskIs, TailTyped, LineTyped DEF AuditBooks
  <2> QED BY <2>1 DEF LogLines
<1>3. acked \subseteq 1 .. MaxLines
  BY <1>1, AuditAssumption
<1>4. AuditTypeOK
  BY <1>1, <1>2, <1>3 DEF AuditTypeOK, WriterStates
<1>5. AckedStays /\ NoFork
  BY DEF AuditBooks, DiskBooks, ForkBooks
<1> QED BY <1>4, <1>5, BrokenNeedsTear, GenesisIsAll DEF AuditInv

\* append, rotate_locked, write_seam_locked and verify_chain_status, whoever is killed where and
\* whatever is pruned: acknowledged entries stay, no two entries follow the same line, nothing but a
\* torn write looks like tampering, and `intact from genesis' covers every entry.
THEOREM AuditSafe == AuditSpec => []AuditInv
<1>1. AuditInit => AuditBooks
  BY AuditBooksInit
<1>2. AuditBooks /\ [AuditNext]_auditVars => AuditBooks'
  BY AuditBooksKept
<1>3. AuditBooks => AuditInv
  BY AuditBooksGive
<1> QED BY <1>1, <1>2, <1>3, PTL DEF AuditSpec
=============================================================================
