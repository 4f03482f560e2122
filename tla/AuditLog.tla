------------------------------ MODULE AuditLog ------------------------------
(***************************************************************************)
(* crates/dotagent-state/src/audit.rs: the hash-chained audit log.  Every   *)
(* process of dotagent appends to it; past max_bytes the live file is       *)
(* renamed to a segment and a new one begins with a seam.  A writer may be  *)
(* killed anywhere.                                                         *)
(*                                                                          *)
(* A line is a record; its hash is its id, so no two lines share one.  A    *)
(* file is its lines, and whether its last byte is a newline.  The length   *)
(* of a file is counted in lines.                                           *)
(***************************************************************************)
EXTENDS Integers, Sequences, FiniteSets

CONSTANTS
    Writers,     \* processes that append
    max_bytes,   \* lines at which the live file is rotated
    MaxLines,    \* bound: lines ever written
    MaxStamp,    \* bound: the seconds that name segments
    MaxKills,    \* bound: writers killed at work
    Tears        \* what a killed write may leave: "none", "torn", "garbage", "whole"

ASSUME AuditAssumption ==
    /\ max_bytes \in Nat \ {0} /\ MaxLines \in Nat /\ MaxStamp \in Nat \ {0} /\ MaxKills \in Nat
    /\ Tears \subseteq {"none", "torn", "garbage", "whole"}
    /\ "free" \notin Writers

VARIABLES
    live,      \* audit.log
    segs,      \* the segments on disk: name |-> file
    stamp,     \* the local clock, as next_segment_name prints it
    alock,     \* audit.log.lock
    writer,    \* what each process does
    logged,    \* lines written so far
    acked,     \* entries whose append returned
    kills      \* writers killed so far

auditVars == <<live, segs, stamp, alock, writer, logged, acked, kills>>

GENESIS == 0
NoName == <<0, 0>>
SegmentNames == (1 .. MaxStamp) \X (0 .. MaxLines)

\* A torn line is text that does not parse; garbage is not even UTF-8.
LogLine(kind, id, prev, seg) == [kind |-> kind, id |-> id, prev |-> prev, seg |-> seg]
NoFile == [lines |-> <<>>, newline |-> TRUE]
Parses(l) == l.kind \in {"entry", "seam"}
Idle == [pc |-> "idle", seg |-> NoName, prev |-> GENESIS]

-----------------------------------------------------------------------------
(* Reading.                                                                *)

\* read_tail steps over garbage; a torn line counts.
LastLine(f) ==
    LET text == {i \in DOMAIN f.lines : f.lines[i].kind # "garbage"}
    IN  IF text = {} THEN [found |-> FALSE, hash |-> GENESIS]
        ELSE [found |-> TRUE, hash |-> f.lines[CHOOSE i \in text : \A j \in text : j <= i].id]

\* The next append starts on a line of its own.
EndsWithNewline(f) == f.newline /\ (f.lines = <<>> \/ f.lines[Len(f.lines)].kind # "garbage")

\* is_segment_name and segments: by name, which is by second and then by number.
Before(a, b) == a[1] < b[1] \/ (a[1] = b[1] /\ a[2] < b[2])
newest_segment ==
    IF DOMAIN segs = {} THEN NoName
    ELSE CHOOSE a \in DOMAIN segs : \A b \in DOMAIN segs : a = b \/ Before(b, a)

\* summarize_segment fails on a line that is not UTF-8.
Summarizes(f) == \A i \in DOMAIN f.lines : f.lines[i].kind # "garbage"

\* next_segment_name.
next_segment_name ==
    <<stamp, CHOOSE n \in 0 .. MaxLines :
                /\ <<stamp, n>> \notin DOMAIN segs
                /\ \A m \in 0 .. n - 1 : <<stamp, m>> \in DOMAIN segs>>

-----------------------------------------------------------------------------
(* Verification.                                                           *)

verify_links(f) == \A i \in 2 .. Len(f.lines) : f.lines[i].prev = f.lines[i - 1].id

\* Mutant: a seam is taken for the beginning of the log.
classify_head_lenient(head) == IF head.kind = "seam" \/ head.prev = GENESIS THEN "genesis"
                               ELSE "orphan"

\* A seam that names what came before it, the beginning of the log, or neither.
classify_head(head) ==
    IF head.prev = GENESIS THEN "genesis"
    ELSE IF head.kind = "seam" THEN "seam"
    ELSE "orphan"

File(name) == IF name = NoName THEN live ELSE segs[name]

\* What one turn of verify_chain_status finds out about a file.
Judge(name) ==
    LET f == File(name)
    IN  IF \E i \in DOMAIN f.lines : ~Parses(f.lines[i]) THEN "broken"
        ELSE IF ~verify_links(f) THEN "broken"
        ELSE IF f.lines = <<>> THEN (IF name = NoName THEN "genesis" ELSE "broken")
        ELSE classify_head(f.lines[1])

\* The seam at its head is looked up: the verdict that ends the walk, or "on" to the
\* segment that the seam names.
Turn(name) ==
    LET seam == File(name).lines[1]
    IN  IF Judge(name) # "seam" THEN Judge(name)
        ELSE IF seam.seg \notin DOMAIN segs THEN "since"
        ELSE IF LastLine(segs[seam.seg]).hash # seam.prev THEN "broken"
        ELSE "on"

\* The files the walk comes to, from the live one on.  (A seam names an earlier
\* segment: there is no cycle, and the walk ends in one of them.)
FileNames == DOMAIN segs \union {NoName}
Walked ==
    {name \in FileNames :
        \A S \in SUBSET FileNames :
            NoName \in S /\ (\A n \in S : Turn(n) = "on" => File(n).lines[1].seg \in S)
                => name \in S}

verify_chain_status ==
    [status |-> CHOOSE v \in {Turn(n) : n \in Walked} : v # "on",
     checked |-> UNION {{File(n).lines[i].id : i \in DOMAIN File(n).lines} : n \in Walked}]

is_trustworthy(status) == status \in {"genesis", "since"}

-----------------------------------------------------------------------------
AuditInit ==
    /\ live = NoFile /\ segs = <<>>
    /\ stamp = 1 /\ alock = "free"
    /\ writer = [p \in Writers |-> Idle]
    /\ logged = 0 /\ acked = {} /\ kills = 0

Goto(p, pc, seg) == writer' = [writer EXCEPT ![p] = [Idle EXCEPT !.pc = pc, !.seg = seg]]

\* append: lock, read the tail, and decide.  No text in the live file although
\* segments exist: a rotation was interrupted, and its seam is written again.
append(p) ==
    /\ writer[p].pc = "idle" /\ logged < MaxLines
    /\ alock = "free" /\ alock' = p
    /\ IF ~LastLine(live).found /\ newest_segment # NoName
       THEN Goto(p, "seam", newest_segment)
       ELSE Goto(p, IF LastLine(live).found /\ Len(live.lines) >= max_bytes THEN "rotate"
                    ELSE "hash", NoName)
    /\ UNCHANGED <<live, segs, stamp, logged, acked, kills>>

\* rotate_locked: the rename.
rotate_locked(p) ==
    LET name == next_segment_name
    IN  /\ writer[p].pc = "rotate"
        /\ segs' = [n \in DOMAIN segs \union {name} |-> IF n = name THEN live ELSE segs[n]]
        /\ live' = NoFile
        /\ Goto(p, "seam", name)
        /\ UNCHANGED <<stamp, alock, logged, acked, kills>>

\* write_seam_locked truncates the live file and writes the seam ...
write_seam_locked(p) ==
    LET f == segs[writer[p].seg]
        seam == LogLine("seam", logged + 1, LastLine(f).hash, writer[p].seg)
    IN  /\ writer[p].pc = "seam" /\ logged < MaxLines
        /\ Summarizes(f)
        /\ live' = [lines |-> <<seam>>, newline |-> TRUE]
        /\ logged' = logged + 1
        /\ Goto(p, IF max_bytes <= 1 THEN "rotate" ELSE "hash", NoName)
        /\ UNCHANGED <<segs, stamp, alock, acked, kills>>

\* ... or cannot read the segment, and append returns the error.
SeamFails(p) ==
    /\ writer[p].pc = "seam" /\ ~Summarizes(segs[writer[p].seg])
    /\ alock' = "free"
    /\ Goto(p, "idle", NoName)
    /\ UNCHANGED <<live, segs, stamp, logged, acked, kills>>

\* The entry takes its prev_hash from the tail that was read under the lock.
hash_line(p) ==
    /\ writer[p].pc = "hash"
    /\ writer' = [writer EXCEPT ![p].pc = "write", ![p].prev = LastLine(live).hash]
    /\ UNCHANGED <<live, segs, stamp, alock, logged, acked, kills>>

\* The bytes of l at the end of f: a line of its own only behind a newline, else one
\* line with what stood there.
Put(f, l) == IF f.newline THEN Append(f.lines, l)
             ELSE [f.lines EXCEPT ![Len(f.lines)] = [l EXCEPT !.kind = "torn"]]
Whole(f, l) == [lines |-> Put(f, l), newline |-> TRUE]
Cut(f, l) == [lines |-> Put(f, l), newline |-> FALSE]

\* A newline first, where the last writer did not come to write its own.
Repaired(f) == IF EndsWithNewline(f) THEN f ELSE [f EXCEPT !.newline = TRUE]
Appended(f, l) == Whole(Repaired(f), l)

WriteLine(p) ==
    /\ writer[p].pc = "write" /\ logged < MaxLines
    /\ live' = Appended(live, LogLine("entry", logged + 1, writer[p].prev, NoName))
    /\ logged' = logged + 1
    /\ acked' = acked \union {logged + 1}
    /\ alock' = "free"
    /\ Goto(p, "idle", NoName)
    /\ UNCHANGED <<segs, stamp, kills>>

-----------------------------------------------------------------------------
(* A writer is killed; the kernel releases its lock.                       *)

\* What is left of line l, written to f.
Left(f, l) ==
    {Cut(f, [l EXCEPT !.kind = k]) : k \in Tears \intersect {"torn", "garbage"}}
    \union (IF "whole" \in Tears THEN {Cut(f, l), Whole(f, l)} ELSE {})
    \union {f}

Kill(p) ==
    LET w == writer[p]
    IN  /\ w.pc # "idle" /\ kills < MaxKills
        /\ kills' = kills + 1
        /\ alock' = IF alock = p THEN "free" ELSE alock
        /\ Goto(p, "idle", NoName)
        /\ CASE w.pc = "seam" /\ logged < MaxLines ->
                  live' \in {live} \union
                      Left(NoFile, LogLine("seam", logged + 1, LastLine(segs[w.seg]).hash, w.seg))
             [] w.pc = "write" /\ logged < MaxLines ->
                  live' \in {live} \union
                      Left(Repaired(live), LogLine("entry", logged + 1, w.prev, NoName))
             [] OTHER -> live' = live
        /\ logged' = IF live'.lines \notin {<<>>, live.lines} THEN logged + 1 ELSE logged
        /\ UNCHANGED <<segs, stamp, acked>>

Second ==
    /\ stamp < MaxStamp
    /\ stamp' = stamp + 1
    /\ UNCHANGED <<live, segs, alock, writer, logged, acked, kills>>

\* The operator removes a segment of an earlier second while nobody appends.
Prune(name) ==
    /\ name[1] < stamp /\ alock = "free"
    /\ segs' = [n \in DOMAIN segs \ {name} |-> segs[n]]
    /\ acked' = acked \ {segs[name].lines[i].id : i \in DOMAIN segs[name].lines}
    /\ UNCHANGED <<live, stamp, alock, writer, logged, kills>>

AuditNext ==
    \/ \E p \in Writers :
         \/ append(p) \/ rotate_locked(p) \/ write_seam_locked(p) \/ SeamFails(p)
         \/ hash_line(p) \/ WriteLine(p) \/ Kill(p)
    \/ \E name \in DOMAIN segs : Prune(name)
    \/ Second

AuditSpec == AuditInit /\ [][AuditNext]_auditVars

-----------------------------------------------------------------------------
Everywhere == {live} \union {segs[n] : n \in DOMAIN segs}
LinesOnDisk == UNION {{f.lines[i] : i \in DOMAIN f.lines} : f \in Everywhere}

AuditTypeOK ==
    /\ DOMAIN segs \subseteq SegmentNames
    /\ alock \in Writers \union {"free"}
    /\ \A p \in Writers : writer[p].pc \in {"idle", "rotate", "seam", "hash", "write"}
    /\ logged \in 0 .. MaxLines /\ acked \subseteq 1 .. MaxLines
    /\ \A l \in LinesOnDisk : l.kind \in {"entry", "seam", "torn", "garbage"}

\* An entry whose append returned stays on disk, readable, until the operator
\* prunes its segment: no kill, repair or rotation costs one.
AckedStays ==
    \A id \in acked : \E l \in LinesOnDisk : l.id = id /\ l.kind = "entry"

\* No two entries follow the same line: a fork looks like tampering.
NoFork ==
    \A a, b \in LinesOnDisk :
        Parses(a) /\ Parses(b) /\ a.prev = b.prev /\ a.prev # GENESIS => a = b

\* The log is found broken only where a write was torn: kills between two writes,
\* interrupted rotations and pruned segments alone never look like tampering.
BrokenOnlyByTear ==
    alock = "free" /\ ~is_trustworthy(verify_chain_status.status) =>
        \E l \in LinesOnDisk : ~Parses(l)

\* `Intact from GENESIS' covers every entry on disk, as the comment in append
\* asks for: once somebody appends after an interrupted rotation, no segment is
\* disconnected.
GenesisCoversAll ==
    alock = "free" /\ live.lines # <<>> /\ verify_chain_status.status = "genesis" =>
        \A l \in LinesOnDisk : l.id \in verify_chain_status.checked

\* What the log is for: acknowledged entries stay, the chain does not fork, nothing but a torn write
\* looks like tampering, and the strongest verdict covers everything (append, rotate_locked,
\* verify_chain_status).
AuditInv == AuditTypeOK /\ AckedStays /\ NoFork /\ BrokenOnlyByTear /\ GenesisCoversAll
=============================================================================
