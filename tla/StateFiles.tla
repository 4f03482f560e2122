----------------------------- MODULE StateFiles -----------------------------
(***************************************************************************)
(* The files of ~/.config/dotagent/state that several processes write: the *)
(* heartbeat of an agent, the state of a window, and the lookup tables of  *)
(* Telegram messages.  dotagent-state/src/lib.rs (read_json, write_json),  *)
(* sent_messages.rs and thread_sessions.rs (with_locked_table), the        *)
(* heartbeats of dotagent-runner/src/lib.rs, and the read and the write of *)
(* the window in daemon.rs (dispatch_one).                                 *)
(*                                                                         *)
(* The processes are the daemon and, beside it, `tick', `run-now' or a     *)
(* worker of the gateway on the same agent and slug.                       *)
(***************************************************************************)
EXTENDS Integers, FiniteSets, FiniteSetsExt

CONSTANTS
    Procs,
    MAX_ENTRIES,              \* of a lookup table
    MaxStarts,                \* bound: runs and table writes begun
    MaxFaults                 \* bound: crashes, write errors, removed files

ASSUME StateFilesAssumption ==
    /\ MAX_ENTRIES \in Nat \ {0} /\ MaxStarts \in Nat /\ MaxFaults \in Nat
    /\ IsFiniteSet(Procs) /\ "free" \notin Procs

VARIABLES
    content,       \* the documents by name
    lock,       \* who holds the flock of each
    tmp,        \* <doc>.json.tmp
    actor,       \* what each process is doing
    starts,     \* runs and table writes begun; a table entry's time
    faults,
    won,        \* stamps of runs that succeeded
    recorded,   \* table entries whose write ended
    overlapped,    \* two runs have run side by side
    erased      \* a file was removed, a write failed or a process died

stateVars == <<content, lock, tmp, actor, starts, faults, won, recorded, overlapped, erased>>

Docs == {"heartbeat", "window", "table"}
Blank == [success |-> 0, attempts |-> 0, entries |-> {}]
Absent == [kind |-> "none", val |-> Blank]
WholeFile(v) == [kind |-> "whole", val |-> v]
Torn == [kind |-> "torn", val |-> Blank]
ProcIdle == [pc |-> "idle", doc |-> "none", val |-> Blank, then |-> "idle", stamp |-> 0, attempts |-> 0]

StateInit ==
    /\ content = [d \in Docs |-> Absent] /\ tmp = content /\ lock = [d \in Docs |-> "free"]
    /\ actor = [p \in Procs |-> ProcIdle]
    /\ starts = 0 /\ faults = 0 /\ won = {} /\ recorded = {} /\ overlapped = FALSE /\ erased = FALSE

-----------------------------------------------------------------------------
(* write_json: lock, write beside, rename.  The lock stays on disk.        *)

Write(p, d, v, then) ==
    actor' = [actor EXCEPT ![p] = [@ EXCEPT !.pc = "lock", !.doc = d, !.val = v, !.then = then]]

\* insert_for_chat, then evict_oldest.
Insert(entries, e) ==
    IF Cardinality(entries \union {e}) <= MAX_ENTRIES THEN entries \union {e}
    ELSE (entries \union {e}) \ {Min(entries \union {e})}

\* Mutant: nobody waits for anybody.
TakeLockUnasked(p) ==
    LET d == actor[p].doc
    IN  /\ actor[p].pc = "lock"
        /\ lock' = [lock EXCEPT ![d] = p]
        /\ tmp' = [tmp EXCEPT ![d] = Torn]
        /\ actor' = [actor EXCEPT ![p].pc = "fill"]
        /\ UNCHANGED <<content, starts, faults, won, recorded, overlapped, erased>>

\* lock_exclusive, then the temporary file is created empty.  with_locked_table reads
\* the table under the lock; a heartbeat and a window were read before.
TakeLock(p) ==
    LET d == actor[p].doc
    IN  /\ actor[p].pc = "lock" /\ lock[d] = "free"
        /\ lock' = [lock EXCEPT ![d] = p]
        /\ tmp' = [tmp EXCEPT ![d] = Torn]
        /\ LET entries == IF d = "table" THEN Insert(content[d].val.entries, actor[p].stamp) ELSE {}
           IN  actor' = [actor EXCEPT ![p] = [@ EXCEPT !.pc = "fill", !.val.entries = entries]]
        /\ UNCHANGED <<content, starts, faults, won, recorded, overlapped, erased>>

Fill(p) ==
    /\ actor[p].pc = "fill"
    /\ tmp' = [tmp EXCEPT ![actor[p].doc] = WholeFile(actor[p].val)]
    /\ actor' = [actor EXCEPT ![p].pc = "rename"]
    /\ UNCHANGED <<content, lock, starts, faults, won, recorded, overlapped, erased>>

RenameDocument(p) ==
    LET d == actor[p].doc
    IN  /\ actor[p].pc = "rename"
        /\ content' = [content EXCEPT ![d] = tmp[d]]
        /\ tmp' = [tmp EXCEPT ![d] = Absent]
        /\ lock' = [lock EXCEPT ![d] = "free"]
        /\ actor' = [actor EXCEPT ![p].pc = actor[p].then]
        /\ recorded' = IF d = "table" THEN recorded \union {actor[p].stamp} ELSE recorded
        /\ UNCHANGED <<starts, faults, won, overlapped, erased>>

\* An I/O error: a heartbeat's ends the run as failed, a window's is logged.
WriteDocumentFails(p) ==
    LET d == actor[p].doc
    IN  /\ actor[p].pc = "fill" /\ faults < MaxFaults
        /\ faults' = faults + 1 /\ erased' = TRUE
        /\ lock' = [lock EXCEPT ![d] = "free"]
        /\ actor' = [actor EXCEPT ![p].pc = IF d = "heartbeat" THEN "count" ELSE "idle"]
        /\ UNCHANGED <<content, tmp, starts, won, recorded, overlapped>>

-----------------------------------------------------------------------------
(* A run.                                                                  *)

InRun(p) == actor[p].pc # "idle" /\ actor[p].doc # "table"

\* dispatch_one reads the window before the run that will be counted in it.
dispatch_one(p) ==
    /\ actor[p].pc = "idle" /\ starts < MaxStarts
    /\ starts' = starts + 1
    /\ actor' = [actor EXCEPT ![p] = [ProcIdle EXCEPT !.pc = "begin", !.stamp = starts + 1,
                                                !.attempts = content["window"].val.attempts]]
    /\ overlapped' = (overlapped \/ \E q \in Procs \ {p} : InRun(q))
    /\ UNCHANGED <<content, lock, tmp, faults, won, recorded, erased>>

\* The last success of the heartbeat that is there is carried over.
begin_heartbeat(p) ==
    /\ actor[p].pc = "begin"
    /\ Write(p, "heartbeat", content["heartbeat"].val, "running")
    /\ UNCHANGED <<content, lock, tmp, starts, faults, won, recorded, overlapped, erased>>

\* The time of the end of a run.
NextStamp == Cardinality(won) + 1

\* The heartbeat is read again; one that is gone is rebuilt without a success.
finish_heartbeat(p, ok) ==
    LET read == content["heartbeat"].val
    IN  /\ actor[p].pc = "running"
        /\ Write(p, "heartbeat", IF ok THEN [read EXCEPT !.success = NextStamp] ELSE read,
                 "count")
        /\ won' = IF ok THEN won \union {NextStamp} ELSE won
        /\ UNCHANGED <<content, lock, tmp, starts, faults, recorded, overlapped, erased>>

\* The attempt is counted in the window as it was read.
write_window(p) ==
    /\ actor[p].pc = "count"
    /\ Write(p, "window", [Blank EXCEPT !.attempts = actor[p].attempts + 1], "idle")
    /\ UNCHANGED <<content, lock, tmp, starts, faults, won, recorded, overlapped, erased>>

-----------------------------------------------------------------------------
\* record_for_chat, of either table.
record_for_chat(p) ==
    /\ actor[p].pc = "idle" /\ starts < MaxStarts
    /\ starts' = starts + 1
    /\ actor' = [actor EXCEPT ![p] = [ProcIdle EXCEPT !.pc = "lock", !.doc = "table",
                                                !.stamp = starts + 1,
                                                !.val = content["table"].val]]
    /\ UNCHANGED <<content, lock, tmp, faults, won, recorded, overlapped, erased>>

Crash(p) ==
    /\ actor[p].pc # "idle" /\ faults < MaxFaults
    /\ faults' = faults + 1 /\ erased' = TRUE
    /\ lock' = [d \in Docs |-> IF lock[d] = p THEN "free" ELSE lock[d]]
    /\ actor' = [actor EXCEPT ![p] = ProcIdle]
    /\ UNCHANGED <<content, tmp, starts, won, recorded, overlapped>>

\* An operator with rm.
RemoveHeartbeat ==
    /\ content["heartbeat"] # Absent /\ faults < MaxFaults
    /\ faults' = faults + 1 /\ erased' = TRUE
    /\ content' = [content EXCEPT !["heartbeat"] = Absent]
    /\ UNCHANGED <<lock, tmp, actor, starts, won, recorded, overlapped>>

StateNext ==
    \/ \E p \in Procs :
         \/ dispatch_one(p) \/ begin_heartbeat(p) \/ write_window(p) \/ record_for_chat(p)
         \/ \E ok \in BOOLEAN : finish_heartbeat(p, ok)
         \/ TakeLock(p) \/ Fill(p) \/ RenameDocument(p) \/ WriteDocumentFails(p) \/ Crash(p)
    \/ RemoveHeartbeat

StateSpec == StateInit /\ [][StateNext]_stateVars

-----------------------------------------------------------------------------
StateTypeOK ==
    /\ \A d \in Docs : lock[d] \in Procs \union {"free"}
    /\ starts \in 0 .. MaxStarts /\ won \subseteq 1 .. MaxStarts /\ recorded \subseteq 1 .. MaxStarts

\* A reader never meets half a document: not while two processes write it and not
\* after one of them died over its temporary file.
WholeDocuments == \A d \in Docs : content[d].kind # "torn"

\* A heartbeat claims no success that no run had; a false one makes the scheduler
\* skip a window.
SuccessIsReal == content["heartbeat"].val.success \in won \union {0}

\* Runs that do not overlap lose nothing: the heartbeat keeps the last success and
\* the window counts every attempt.
AloneNothingIsLost ==
    (~overlapped /\ ~erased /\ \A p \in Procs : ~InRun(p)) =>
        /\ content["heartbeat"].val.success = (IF won = {} THEN 0 ELSE Max(won))
        /\ content["window"].val.attempts = starts - Cardinality(recorded)
             - Cardinality({p \in Procs : actor[p].pc # "idle"})

\* A lookup table holds the newest of all entries recorded, whoever wrote them and
\* however they interleaved.
TableKeepsNewest ==
    LET Newest == {e \in recorded : Cardinality({f \in recorded : f > e}) < MAX_ENTRIES}
    IN  content["table"].val.entries = Newest

\* StateInv: no reader meets half a document, no success is made up, an actor that has a file to itself
\* loses nothing, and the table keeps the newest, of write_json and with_locked_table.
StateInv == StateTypeOK /\ WholeDocuments /\ SuccessIsReal /\ AloneNothingIsLost /\ TableKeepsNewest
=============================================================================
