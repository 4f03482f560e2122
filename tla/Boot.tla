-------------------------------- MODULE Boot --------------------------------
(***************************************************************************)
(* What a daemon leaves for the next one: the pid file, the snapshot of    *)
(* the processes it supervises, and the processes themselves when it dies. *)
(* commands/daemon.rs (pid file, reap_boot_orphans, the end of run),       *)
(* dotagent-supervisor/src/lib.rs (start_snapshot_writer) and orphan.rs.   *)
(*                                                                         *)
(* A pid is given away again some time after its process has ended, to     *)
(* another process of the machine or to another child.  A serial number    *)
(* tells processes apart that the code can only tell apart by its proofs.  *)
(* The probe of a process and the signal that follows it are one step: no  *)
(* pid is given away in the milliseconds between them.                     *)
(***************************************************************************)
EXTENDS Integers, Sequences, FiniteSets, FiniteSetsExt

CONSTANTS
    Daemons,                  \* each boots once
    Pids,
    Commands,                 \* command lines: sequences of tokens
    Tolerance,                \* DEFAULT_START_TOLERANCE
    Forward,                  \* START_FORWARD_TOLERANCE
    MaxTime,                  \* bound: the clock
    MaxSerial,                \* bound: processes ever started
    MaxFails                  \* bound: snapshot writes and signals that fail

ASSUME BootAssumption ==
    /\ Tolerance \in Nat /\ Forward \in Nat /\ Forward < Tolerance
    /\ MaxTime \in Nat \ {0} /\ MaxSerial \in Nat /\ MaxFails \in Nat
    \* render_command begins with the program.
    /\ \A c \in Commands : c \in Seq([base : STRING, path : BOOLEAN]) /\ c # <<>>

VARIABLES
    clock,
    proc,      \* what the kernel knows of each pid
    serials,   \* processes started so far
    pidfile,   \* the daemon it names, or "none"
    snapshot,  \* supervisor.json
    daemon,    \* each daemon, and what its boot is doing
    scribe,    \* each daemon's snapshot writer
    reaped,    \* serials the audit log calls reaped
    excused,   \* serials a boot could not read or signal
    harmed,    \* whom a boot signalled besides orphans
    bfails     \* failures so far

bootVars == <<clock, proc, serials, pidfile, snapshot, daemon, scribe, reaped, excused, harmed,
              bfails>>

Free(t) == [kind |-> "free", serial |-> 0, owner |-> "none", cmd |-> <<>>, start |-> t,
            leader |-> TRUE, at |-> t]
IsAlive(d) == daemon[d].stage \notin {"down", "dead", "stopped"}
Children(d) == {p \in Pids : proc[p].kind = "child" /\ proc[p].owner = d}
Running(s) == \E p \in Pids : proc[p].kind # "free" /\ proc[p].serial = s

\* supervisor.json: not there, not readable, or a set of records.
NoSnapshot == [kind |-> "none", recs |-> {}]
Corrupt == [kind |-> "corrupt", recs |-> {}]
Saved(recs) == [kind |-> "records", recs |-> recs]
NoScribe == [pc |-> "off", payload |-> {}, written |-> NoSnapshot, woken |-> FALSE]

-----------------------------------------------------------------------------
(* Proof of identity.                                                      *)

\* command_matches: the program is one the record names, and the last path of
\* the record (the script) is there as a token of its own.
command_matches(rec, obs) ==
    LET paths == {i \in DOMAIN rec : rec[i].path}
    IN  /\ rec # <<>> /\ obs # <<>>
        /\ \E i \in DOMAIN rec : rec[i].base = obs[1].base
        /\ IF paths = {} THEN Tail(rec) = Tail(obs)
           ELSE \E j \in DOMAIN obs : obs[j] = rec[Max(paths)]

\* Mutant: a window around the recorded start, the same on both sides.
classify_symmetric(r, x) ==
    IF x.kind = "free" THEN "gone"
    ELSE IF ~x.leader THEN "not_leader"
    ELSE IF r.at - x.start > Tolerance \/ x.start - r.at > Tolerance THEN "start"
    ELSE IF ~command_matches(r.cmd, x.cmd) THEN "command"
    ELSE "reap"

\* What ps says about the recorded pid: gone, or ours on all three counts.
classify(r, x) ==
    IF x.kind = "free" THEN "gone"
    ELSE IF ~x.leader THEN "not_leader"
    ELSE IF r.at - x.start > Tolerance \/ x.start - r.at > Forward THEN "start"
    ELSE IF ~command_matches(r.cmd, x.cmd) THEN "command"
    ELSE "reap"

\* Who else than an orphan a signal to the pid of record r reaches.
Victim(r) ==
    LET x == proc[r.pid]
    IN  IF x.kind = "free" THEN {}
        ELSE (IF x.serial # r.serial THEN {"stranger"} ELSE {})
             \union (IF x.kind = "child" /\ IsAlive(x.owner) THEN {"peer"} ELSE {})

-----------------------------------------------------------------------------
BootInit ==
    /\ clock = 1 /\ proc = [p \in Pids |-> Free(-Tolerance)] /\ serials = 0
    /\ pidfile = "none" /\ snapshot \in {NoSnapshot, Corrupt}
    /\ daemon = [d \in Daemons |-> [stage |-> "down", read |-> {}, todo |-> {}]]
    /\ scribe = [d \in Daemons |-> NoScribe]
    /\ reaped = {} /\ excused = {} /\ harmed = {} /\ bfails = 0

At(d, stage) == daemon' = [daemon EXCEPT ![d].stage = stage]

\* The pid file is claimed first.
write_pidfile(d) ==
    /\ daemon[d].stage = "down"
    /\ pidfile' = d
    /\ At(d, "claimed")
    /\ UNCHANGED <<clock, proc, serials, snapshot, scribe, reaped, excused, harmed, bfails>>

\* Another daemon that the pid file names and that runs.
live_peer_daemon(d) == pidfile \in Daemons \ {d} /\ IsAlive(pidfile)

Up(d) == /\ daemon' = [daemon EXCEPT ![d].stage = "up", ![d].todo = {}]
         /\ scribe' = [scribe EXCEPT ![d].pc = "look"]

\* No snapshot, a peer, or a file that cannot be read: nothing is signalled.  The
\* unreadable file is moved aside.
BootWithoutReap(d) ==
    /\ daemon[d].stage = "claimed"
    /\ snapshot.kind # "records" \/ live_peer_daemon(d)
    /\ snapshot' = IF snapshot = Corrupt /\ ~live_peer_daemon(d) THEN NoSnapshot ELSE snapshot
    /\ Up(d)
    /\ UNCHANGED <<clock, proc, serials, pidfile, reaped, excused, harmed, bfails>>

\* reap: every record is judged, and the groups of those that are ours get a
\* SIGTERM.  unread: ps gave no answer; refused: the signal failed.
reap(d, unread, refused) ==
    LET ours == {r \in snapshot.recs \ unread : classify(r, proc[r.pid]) = "reap"}
        signalled == ours \ refused
    IN  /\ daemon[d].stage = "claimed" /\ snapshot.kind = "records"
        /\ ~live_peer_daemon(d)
        /\ unread \union refused = {} \/ bfails < MaxFails
        /\ bfails' = IF unread \union refused = {} THEN bfails ELSE bfails + 1
        /\ harmed' = harmed \union UNION {Victim(r) : r \in signalled}
        /\ excused' = excused \union {r.serial : r \in unread \union (refused \intersect ours)}
        /\ daemon' = [daemon EXCEPT ![d] = [stage |-> "grace", read |-> snapshot.recs,
                                            todo |-> signalled]]
        /\ UNCHANGED <<clock, proc, serials, pidfile, snapshot, scribe, reaped>>

\* After the grace identity is proved again; SIGKILL, and a look whether it worked.
escalate(d, r, works) ==
    LET v == classify(r, proc[r.pid])
        dies == v = "reap" /\ works
    IN  /\ daemon[d].stage = "grace" /\ r \in daemon[d].todo
        /\ works \/ (v = "reap" /\ bfails < MaxFails)
        /\ daemon' = [daemon EXCEPT ![d].todo = @ \ {r}]
        /\ harmed' = IF v = "reap" THEN harmed \union Victim(r) ELSE harmed
        /\ proc' = IF dies THEN [proc EXCEPT ![r.pid] = Free(clock)] ELSE proc
        /\ reaped' = IF v = "gone" \/ dies THEN reaped \union {r.serial} ELSE reaped
        /\ excused' = IF v = "reap" /\ ~works THEN excused \union {r.serial} ELSE excused
        /\ bfails' = IF works THEN bfails ELSE bfails + 1
        /\ UNCHANGED <<clock, serials, pidfile, snapshot, scribe>>

\* The record has been acted on.
reap_boot_orphans(d) ==
    /\ daemon[d].stage = "grace" /\ daemon[d].todo = {}
    /\ snapshot' = NoSnapshot
    /\ Up(d)
    /\ UNCHANGED <<clock, proc, serials, pidfile, reaped, excused, harmed, bfails>>

-----------------------------------------------------------------------------
(* A daemon that is up.                                                    *)

Reusable(p, t) == proc[p].kind = "free" /\ proc[p].start + Forward < t

\* A child leads its group; its record is stamped when spawn has returned.
Spawn(d, p, cmd, lag) ==
    /\ daemon[d].stage = "up" /\ serials < MaxSerial
    /\ Reusable(p, clock - lag)
    /\ serials' = serials + 1
    /\ proc' = [proc EXCEPT ![p] = [kind |-> "child", serial |-> serials + 1, owner |-> d,
                                    cmd |-> cmd, start |-> clock - lag, leader |-> TRUE,
                                    at |-> clock]]
    /\ scribe' = [scribe EXCEPT ![d].woken = TRUE]
    /\ UNCHANGED <<clock, pidfile, snapshot, daemon, reaped, excused, harmed, bfails>>

Record(p) == [pid |-> p, serial |-> proc[p].serial, at |-> proc[p].at, cmd |-> proc[p].cmd]

\* start_snapshot_writer subscribes, then looks; what is on disk is not rewritten.
Look(d) ==
    LET snap == {Record(p) : p \in Children(d)}
    IN  /\ daemon[d].stage = "up" /\ scribe[d].pc = "look"
        /\ scribe' = [scribe EXCEPT ![d].payload = snap, ![d].woken = FALSE,
                                    ![d].pc = IF scribe[d].written # Saved(snap) THEN "write"
                                              ELSE IF snap = {} THEN "parked" ELSE "look"]
        /\ UNCHANGED <<clock, proc, serials, pidfile, snapshot, daemon, reaped, excused, harmed,
                       bfails>>

WriteFails(d) ==
    /\ daemon[d].stage = "up" /\ scribe[d].pc = "write" /\ bfails < MaxFails
    /\ bfails' = bfails + 1
    /\ scribe' = [scribe EXCEPT ![d].pc = "look"]
    /\ UNCHANGED <<clock, proc, serials, pidfile, snapshot, daemon, reaped, excused, harmed>>

\* The rename runs on a thread of its own: an abort of the task does not stop it.
Rename(d) ==
    /\ scribe[d].pc = "write" /\ daemon[d].stage # "dead"
    /\ snapshot' = Saved(scribe[d].payload)
    /\ scribe' = [scribe EXCEPT ![d].written = Saved(scribe[d].payload),
                                ![d].pc = IF daemon[d].stage = "stopped" THEN "off"
                                          ELSE IF scribe[d].payload = {} THEN "parked" ELSE "look"]
    /\ UNCHANGED <<clock, proc, serials, pidfile, daemon, reaped, excused, harmed, bfails>>

Unpark(d) ==
    /\ daemon[d].stage = "up" /\ scribe[d].pc = "parked" /\ scribe[d].woken
    /\ scribe' = [scribe EXCEPT ![d].pc = "look"]
    /\ UNCHANGED <<clock, proc, serials, pidfile, snapshot, daemon, reaped, excused, harmed,
                   bfails>>

\* The end of run: the supervisor ends the children, the writer is aborted, the
\* file removed; PidGuard removes the pid file, whoever it names.
StopCleanly(d) ==
    /\ daemon[d].stage = "up"
    /\ proc' = [p \in Pids |-> IF p \in Children(d) THEN Free(clock) ELSE proc[p]]
    /\ snapshot' = NoSnapshot
    /\ pidfile' = "none"
    /\ scribe' = [scribe EXCEPT ![d].pc = IF @ = "write" THEN "write" ELSE "off"]
    /\ At(d, "stopped")
    /\ UNCHANGED <<clock, serials, reaped, excused, harmed, bfails>>

\* SIGKILL, a panic, kickstart -k: anywhere.
Die(d) ==
    /\ IsAlive(d)
    /\ daemon' = [daemon EXCEPT ![d] = [stage |-> "dead", read |-> {}, todo |-> {}]]
    /\ scribe' = [scribe EXCEPT ![d] = NoScribe]
    /\ UNCHANGED <<clock, proc, serials, pidfile, snapshot, reaped, excused, harmed, bfails>>

-----------------------------------------------------------------------------
(* The machine.                                                            *)

ProcessEnds(p) ==
    /\ proc[p].kind # "free"
    /\ proc' = [proc EXCEPT ![p] = Free(clock)]
    /\ UNCHANGED <<clock, serials, pidfile, snapshot, daemon, scribe, reaped, excused, harmed,
                   bfails>>

\* Somebody else's process, perhaps the same script.
Other(p, cmd, leader) ==
    /\ serials < MaxSerial /\ Reusable(p, clock)
    /\ serials' = serials + 1
    /\ proc' = [proc EXCEPT ![p] = [kind |-> "other", serial |-> serials + 1, owner |-> "none",
                                    cmd |-> cmd, start |-> clock, leader |-> leader,
                                    at |-> clock]]
    /\ UNCHANGED <<clock, pidfile, snapshot, daemon, scribe, reaped, excused, harmed, bfails>>

Later ==
    /\ clock < MaxTime
    /\ clock' = clock + 1
    /\ UNCHANGED <<proc, serials, pidfile, snapshot, daemon, scribe, reaped, excused, harmed,
                   bfails>>

Scribe(d) == Look(d) \/ Rename(d) \/ Unpark(d)

BootNext ==
    \/ \E d \in Daemons :
         \/ write_pidfile(d) \/ BootWithoutReap(d) \/ reap_boot_orphans(d)
         \/ \E unread, refused \in SUBSET snapshot.recs : reap(d, unread, refused)
         \/ \E r \in daemon[d].todo, works \in BOOLEAN : escalate(d, r, works)
         \/ \E p \in Pids, cmd \in Commands, lag \in 0 .. 1 : Spawn(d, p, cmd, lag)
         \/ Scribe(d) \/ WriteFails(d)
         \/ StopCleanly(d) \/ Die(d)
    \/ \E p \in Pids : ProcessEnds(p) \/ \E cmd \in Commands, leader \in BOOLEAN : Other(p, cmd, leader)
    \/ Later

BootSpec == BootInit /\ [][BootNext]_bootVars

-----------------------------------------------------------------------------
BootTypeOK ==
    /\ clock \in 1 .. MaxTime /\ serials \in 0 .. MaxSerial
    /\ pidfile \in Daemons \union {"none"}
    /\ \A d \in Daemons :
         daemon[d].stage \in {"down", "claimed", "grace", "up", "stopped", "dead"}
    /\ reaped \subseteq 1 .. MaxSerial /\ excused \subseteq 1 .. MaxSerial

\* No boot signals a process that is not the recorded one, although pids are
\* given away again, to the same script or in the grace after the SIGTERM.
SparesStrangers == "stranger" \notin harmed

\* The audit log calls a process reaped only when it is gone.
ReapedIsGone == \A s \in reaped : ~Running(s)

\* Once a boot has acted on a snapshot, no process of it runs on, except where
\* the kernel would not say or not obey.
RecordedOrphansEnd ==
    \A d \in Daemons : daemon[d].stage = "up" =>
        \A r \in daemon[d].read : Running(r.serial) => r.serial \in excused

\* The writer sleeps only on a snapshot that agrees with the registry, and with a wake-up on its way
\* otherwise: a child that runs comes to be recorded, or the next boot could not end it; an idle
\* daemon claims none, also when the write of the empty snapshot failed and when a spawn falls
\* between the look and the sleep.  (start_snapshot_writer)
SleepsOnlyUpToDate ==
    \A d \in Daemons :
        daemon[d].stage = "up" /\ scribe[d].pc = "parked" /\ ~scribe[d].woken =>
            scribe[d].written = Saved({Record(p) : p \in Children(d)})

\* BootInv: whom the reaper of orphans may kill, whom it must, and what a daemon leaves it to go by, of
\* reap_boot_orphans, orphan.rs and start_snapshot_writer.
BootInv == BootTypeOK /\ SparesStrangers /\ ReapedIsGone /\ RecordedOrphansEnd /\ SleepsOnlyUpToDate
=============================================================================
