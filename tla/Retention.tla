----------------------------- MODULE Retention ------------------------------
(***************************************************************************)
(* The daily sweep of rotated logs and of window files                      *)
(* (dotagent-telemetry retention.rs) beside the processes that write        *)
(* windows under an flock (write_json in dotagent-state).                   *)
(*                                                                         *)
(* Time is counted in days.  A schedule opens a window every Interval days; *)
(* dispatch_one consults it until it is stale or the next one opens.  The   *)
(* log of a day is rotated when the day ends.  An unlinked lock file is an  *)
(* inode that lives on in the processes that have it open.                  *)
(***************************************************************************)
EXTENDS Integers, FiniteSets

CONSTANTS
    Interval,                  \* days between two windows of the schedule
    stale_after,               \* the schedule's stale_after_minutes, in days
    window_retention_days,
    retention_days,            \* of logs
    compress_after_days,
    LastDate, MaxInodes, MaxMisses, MaxWrites    \* bounds

ASSUME RetentionAssumption ==
    /\ {window_retention_days, retention_days, compress_after_days, LastDate, MaxInodes,
        MaxMisses, MaxWrites} \subseteq Nat
    /\ Interval \in Nat \ {0}
    /\ stale_after \in 0 .. window_retention_days    \* what StateConfig asks of the horizon

VARIABLES
    date,      \* today
    json,      \* the windows: when each was last written
    lockfile,  \* the lock at each window's path: its inode and when it was created
    tempfile,  \* the .json.tmp of each window
    flock,     \* who holds each inode
    pen,       \* what each writer does
    plain, gz, \* the rotated log of each day, and its compressed form
    sweep,     \* what the sweep does
    swept,     \* last_retention_date
    misses,    \* days without a whole sweep, files that could not be compressed
    writes, written    \* writes so far, windows that were ever written

retVars == <<date, json, lockfile, tempfile, flock, pen, plain, gz, sweep, swept, misses, writes,
             written>>
windowFiles == <<json, lockfile, tempfile, flock>>
logFiles == <<plain, gz>>

WindowWriters == {"daemon", "cli"}
Days == 0 .. LastDate
Windows == {d \in Days : d % Interval = 0}
Gone == -1
NoLock == [ino |-> 0, made |-> Gone]
NoPen == [pc |-> "idle", w |-> 0, ino |-> 0]
NoSweep == [pc |-> "off", todo |-> {}, file |-> <<"none", 0>>, ino |-> 0]

consulted(w) == w <= date /\ date < w + Interval /\ date - w <= stale_after

\* Mutant: a day early.
is_aged_out_early(mtime, days) == mtime # Gone /\ date - mtime >= days

\* age_in_days; a file that cannot be examined is not aged out.
is_aged_out(mtime, days) == mtime # Gone /\ date - mtime > days

RetInit ==
    /\ date = 0 /\ json = [w \in Windows |-> Gone] /\ tempfile = json
    /\ lockfile = [w \in Windows |-> NoLock] /\ flock = [i \in 1 .. MaxInodes |-> "free"]
    /\ pen = [p \in WindowWriters |-> NoPen]
    /\ plain = [d \in Days |-> Gone] /\ gz = [d \in Days |-> [made |-> Gone, whole |-> FALSE]]
    /\ sweep = NoSweep /\ swept = Gone /\ misses = 0 /\ writes = 0 /\ written = {}

-----------------------------------------------------------------------------
(* write_json, for the window that was current when the run began.          *)

\* dispatch_one picks the window; the run may take days.  The daemon's tick and its sweep are
\* two steps of one loop.
BeginRun(p) ==
    /\ pen[p].pc = "idle" /\ writes < MaxWrites
    /\ p = "daemon" => sweep.pc = "off"
    /\ \E w \in Windows : /\ consulted(w)
                          /\ pen' = [pen EXCEPT ![p] = [pc |-> "open", w |-> w, ino |-> 0]]
    /\ writes' = writes + 1
    /\ UNCHANGED <<date, windowFiles, logFiles, sweep, swept, misses, written>>

\* The lock is opened, and created if it is not there.
OpenLock(p) ==
    LET w == pen[p].w
        used == {lockfile[v].ino : v \in Windows} \union {pen[q].ino : q \in WindowWriters}
                  \union {sweep.ino}
        fresh == {i \in 1 .. MaxInodes : i \notin used}
    IN  /\ pen[p].pc = "open"
        /\ IF lockfile[w] # NoLock THEN UNCHANGED lockfile
           ELSE /\ fresh # {}
                /\ lockfile' = [lockfile EXCEPT ![w] = [ino |-> CHOOSE i \in fresh : TRUE,
                                                        made |-> date]]
        /\ pen' = [pen EXCEPT ![p].pc = "lock", ![p].ino = lockfile'[w].ino]
        /\ UNCHANGED <<date, json, tempfile, flock, logFiles, sweep, swept, misses, writes, written>>

lock_exclusive(p) ==
    /\ pen[p].pc = "lock" /\ flock[pen[p].ino] = "free"
    /\ flock' = [flock EXCEPT ![pen[p].ino] = p]
    /\ pen' = [pen EXCEPT ![p].pc = "fill"]
    /\ UNCHANGED <<date, json, lockfile, tempfile, logFiles, sweep, swept, misses, writes, written>>

FillTemp(p) ==
    /\ pen[p].pc = "fill"
    /\ tempfile' = [tempfile EXCEPT ![pen[p].w] = date]
    /\ pen' = [pen EXCEPT ![p].pc = "rename"]
    /\ UNCHANGED <<date, json, lockfile, flock, logFiles, sweep, swept, misses, writes, written>>

\* The rename, which fails when somebody else renamed the temporary file; then the lock.
RenameTemp(p) ==
    LET w == pen[p].w
    IN  /\ pen[p].pc = "rename"
        /\ json' = [json EXCEPT ![w] = IF tempfile[w] = Gone THEN @ ELSE tempfile[w]]
        /\ written' = IF tempfile[w] = Gone THEN written ELSE written \union {w}
        /\ tempfile' = [tempfile EXCEPT ![w] = Gone]
        /\ flock' = [flock EXCEPT ![pen[p].ino] = "free"]
        /\ pen' = [pen EXCEPT ![p] = NoPen]
        /\ UNCHANGED <<date, lockfile, logFiles, sweep, swept, misses, writes>>

Freed(p) == [i \in DOMAIN flock |-> IF flock[i] = p THEN "free" ELSE flock[i]]

\* A writer is killed: its flock goes with it, its files stay.
WriterDies(p) ==
    /\ pen[p].pc # "idle" /\ misses < MaxMisses
    /\ misses' = misses + 1
    /\ flock' = Freed(p)
    /\ pen' = [pen EXCEPT ![p] = NoPen]
    /\ UNCHANGED <<date, json, lockfile, tempfile, logFiles, sweep, swept, writes, written>>

-----------------------------------------------------------------------------
(* sweep_dir: logs.                                                        *)

SweepBegin ==
    /\ sweep.pc = "off" /\ swept # date /\ pen["daemon"].pc = "idle"
    /\ sweep' = [NoSweep EXCEPT !.pc = "logs",
                   !.todo = {<<"plain", d>> : d \in {e \in Days : plain[e] # Gone}}
                            \union {<<"gz", d>> : d \in {e \in Days : gz[e].made # Gone}}]
    /\ UNCHANGED <<date, windowFiles, pen, logFiles, swept, misses, writes, written>>

\* A log past its horizon is deleted, one past the other compressed: the .gz is created, cutting
\* off what an earlier attempt left, and filled.
SweepLog(f) ==
    LET d == f[2]
        mtime == IF f[1] = "gz" THEN gz[d].made ELSE plain[d]
    IN  /\ sweep.pc = "logs" /\ f \in sweep.todo
        /\ IF is_aged_out(mtime, retention_days)
           THEN /\ plain' = IF f[1] = "plain" THEN [plain EXCEPT ![d] = Gone] ELSE plain
                /\ gz' = IF f[1] = "gz" THEN [gz EXCEPT ![d] = [made |-> Gone, whole |-> FALSE]] ELSE gz
                /\ sweep' = [sweep EXCEPT !.todo = @ \ {f}]
           ELSE IF f[1] = "plain" /\ is_aged_out(mtime, compress_after_days)
           THEN /\ gz' = [gz EXCEPT ![d] = [made |-> date, whole |-> FALSE]]
                /\ sweep' = [sweep EXCEPT !.pc = "gzip", !.file = f]
                /\ UNCHANGED plain
           ELSE /\ sweep' = [sweep EXCEPT !.todo = @ \ {f}]
                /\ UNCHANGED logFiles
        /\ UNCHANGED <<date, windowFiles, pen, swept, misses, writes, written>>

\* gzip_file: once the .gz is whole the log goes.  A failure leaves both.
gzip_file(ok) ==
    LET d == sweep.file[2]
    IN  /\ sweep.pc = "gzip"
        /\ plain' = IF ok THEN [plain EXCEPT ![d] = Gone] ELSE plain
        /\ gz' = IF ok THEN [gz EXCEPT ![d].whole = TRUE] ELSE gz
        /\ misses' = IF ok THEN misses ELSE misses + 1
        /\ ok \/ misses < MaxMisses
        /\ sweep' = [sweep EXCEPT !.pc = "logs", !.todo = @ \ {sweep.file}]
        /\ UNCHANGED <<date, windowFiles, pen, swept, writes, written>>

-----------------------------------------------------------------------------
(* sweep_windows_dir.                                                      *)

Mtime(f) ==
    CASE f[1] = "json" -> json[f[2]]
      [] f[1] = "lock" -> lockfile[f[2]].made
      [] OTHER -> tempfile[f[2]]

\* A snapshot of the directory; a horizon of zero days keeps everything.
SweepWindows ==
    /\ sweep.pc = "logs" /\ sweep.todo = {}
    /\ IF window_retention_days = 0
       THEN sweep' = NoSweep /\ swept' = date
       ELSE /\ sweep' = [NoSweep EXCEPT !.pc = "windows",
                           !.todo = {f \in {"json", "lock", "tmp"} \X Windows : Mtime(f) # Gone}]
            /\ UNCHANGED swept
    /\ UNCHANGED <<date, windowFiles, pen, logFiles, misses, writes, written>>

Skip(f) == sweep' = [sweep EXCEPT !.pc = "windows", !.todo = @ \ {f}, !.ino = 0]
Proceed(f, pc) == sweep' = [sweep EXCEPT !.pc = pc, !.file = f]

\* A lock whose window is there goes with the window; anything else by its own age.
Examine(f) ==
    /\ sweep.pc = "windows" /\ f \in sweep.todo
    /\ CASE f[1] = "lock" /\ json[f[2]] # Gone -> Skip(f) /\ UNCHANGED <<json, tempfile>>
         [] ~is_aged_out(Mtime(f), window_retention_days) -> Skip(f) /\ UNCHANGED <<json, tempfile>>
         [] f[1] = "tmp" /\ is_aged_out(Mtime(f), window_retention_days) ->
               Skip(f) /\ tempfile' = [tempfile EXCEPT ![f[2]] = Gone] /\ UNCHANGED json
         [] f[1] = "json" /\ is_aged_out(Mtime(f), window_retention_days) /\ lockfile[f[2]] = NoLock ->
               Skip(f) /\ json' = [json EXCEPT ![f[2]] = Gone] /\ UNCHANGED tempfile
         [] OTHER -> Proceed(f, "hold") /\ UNCHANGED <<json, tempfile>>
    /\ UNCHANGED <<date, lockfile, flock, pen, logFiles, swept, misses, writes, written>>

\* try_hold: the lock may have gone, or a writer may hold it.
try_hold ==
    LET w == sweep.file[2]
    IN  /\ sweep.pc = "hold"
        /\ IF lockfile[w] = NoLock \/ flock[lockfile[w].ino] # "free"
           THEN Skip(sweep.file) /\ UNCHANGED flock
           ELSE /\ flock' = [flock EXCEPT ![lockfile[w].ino] = "sweep"]
                /\ sweep' = [sweep EXCEPT !.pc = "remove", !.ino = lockfile[w].ino]
        /\ UNCHANGED <<date, json, lockfile, tempfile, pen, logFiles, swept, misses, writes, written>>

\* delete_window removes the window and, if that worked, goes on to the lock; delete_orphan_lock
\* has only the lock.
RemoveWindow(ok) ==
    LET w == sweep.file[2]
        drop == sweep.file[1] = "json" /\ (~ok \/ json[w] = Gone)
    IN  /\ sweep.pc = "remove"
        /\ json' = IF sweep.file[1] = "json" /\ ok THEN [json EXCEPT ![w] = Gone] ELSE json
        /\ IF drop THEN Skip(sweep.file) /\ flock' = Freed("sweep")
           ELSE sweep' = [sweep EXCEPT !.pc = "unlink"] /\ UNCHANGED flock
        /\ UNCHANGED <<date, lockfile, tempfile, pen, logFiles, swept, misses, writes, written>>

UnlinkLock(ok) ==
    LET w == sweep.file[2]
    IN  /\ sweep.pc = "unlink"
        /\ lockfile' = IF ok THEN [lockfile EXCEPT ![w] = NoLock] ELSE lockfile
        /\ flock' = Freed("sweep")
        /\ Skip(sweep.file)
        /\ UNCHANGED <<date, json, tempfile, pen, logFiles, swept, misses, writes, written>>

SweepEnds ==
    /\ sweep.pc = "windows" /\ sweep.todo = {}
    /\ sweep' = NoSweep /\ swept' = date
    /\ UNCHANGED <<date, windowFiles, pen, logFiles, misses, writes, written>>

\* The daemon dies in the middle; it sweeps again if it comes back within the hour.
SweepDies ==
    /\ sweep.pc # "off" /\ misses < MaxMisses
    /\ misses' = misses + 1
    /\ sweep' = NoSweep /\ flock' = Freed("sweep")
    /\ UNCHANGED <<date, json, lockfile, tempfile, pen, logFiles, swept, writes, written>>

\* A day ends and its log is rotated.  A write does not take a day, a run may.
DayEnds ==
    /\ date < LastDate /\ sweep.pc = "off"
    /\ \A p \in WindowWriters : pen[p].pc \in {"idle", "open"}
    /\ swept = date \/ misses < MaxMisses
    /\ misses' = IF swept = date THEN misses ELSE misses + 1
    /\ date' = date + 1
    /\ plain' = [plain EXCEPT ![date] = date]
    /\ UNCHANGED <<windowFiles, pen, gz, sweep, swept, writes, written>>

RetNext ==
    \/ \E p \in WindowWriters :
         \/ BeginRun(p) \/ OpenLock(p) \/ lock_exclusive(p) \/ FillTemp(p) \/ RenameTemp(p)
         \/ WriterDies(p)
    \/ SweepBegin \/ SweepWindows \/ try_hold \/ SweepEnds \/ SweepDies \/ DayEnds
    \/ \E f \in sweep.todo : SweepLog(f) \/ Examine(f)
    \/ \E ok \in BOOLEAN : gzip_file(ok) \/ RemoveWindow(ok) \/ UnlinkLock(ok)

RetSpec == RetInit /\ [][RetNext]_retVars

-----------------------------------------------------------------------------
(* Properties.                                                             *)

\* A window that the daemon still consults keeps its attempts: once written, no sweep takes it
\* away, however long ago it opened, and no two writers of it are past its lock at a time although
\* sweeps unlink locks.  (sweep_windows_dir, delete_window, write_json)
ConsultedStays ==
    \A w \in Windows : consulted(w) =>
        /\ w \in written => json[w] # Gone
        /\ Cardinality({p \in WindowWriters : pen[p].w = w /\ pen[p].pc \in {"fill", "rename"}}) <= 1

\* Whatever a crash leaves, a log can be read until its horizon; and it is gone a compression and a
\* retention after it was rotated, a day for each sweep that was missed.  (sweep_dir, gzip_file)
LogsAgeRightly ==
    /\ \A d \in Days : d < date /\ date - d <= retention_days =>
          plain[d] # Gone \/ (gz[d].made # Gone /\ gz[d].whole)
    /\ swept = date /\ sweep.pc = "off" =>
          \A d \in Days : date - d > compress_after_days + retention_days + 1 + misses =>
             plain[d] = Gone /\ gz[d].made = Gone

\* RetentionInv: no sweep takes a window that is still consulted, and logs go at their age, of
\* sweep_windows_dir and sweep_dir.
RetentionInv == ConsultedStays /\ LogsAgeRightly
=============================================================================
