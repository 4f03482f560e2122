----------------------------- MODULE Assistant -----------------------------
(***************************************************************************)
(* One conversation of the assistant harness: the registry record of        *)
(* crates/dotagent-assistant/src/{registry,store}.rs, the turns that load   *)
(* and save it (harness_env and finalize of commands/assistant_harness.rs,  *)
(* called by a worker of the gateway, one turn at a time), and `/novo',     *)
(* which the Telegram loop runs on a thread of its own.                     *)
(*                                                                          *)
(* A model session is a number; for each the history keeps the toolkit and  *)
(* the reset it was begun after, and the size last put on record.           *)
(***************************************************************************)
EXTENDS Integers, Sequences, FiniteSets

CONSTANTS
    Toolkits,               \* toolkit hashes the manifest may declare
    transcript_bytes_max,
    MaxBytes,               \* bound: reported sizes
    MaxTurns,               \* bound: turns
    MaxNovos,               \* bound: resets
    MaxSaveFails            \* bound: saves that fail

ASSUME AssistantAssumption ==
    /\ Toolkits # {} /\ "none" \notin Toolkits
    /\ transcript_bytes_max \in Nat /\ MaxBytes \in Nat /\ MaxTurns \in Nat
    /\ MaxNovos \in Nat /\ MaxSaveFails \in Nat

VARIABLES
    record,     \* the file of the conversation
    toolkit,    \* the toolkit the manifest declares now
    turn,       \* the turn under way
    novo,       \* the reset under way
    sessions,   \* history: the model sessions begun
    resets,     \* history: resets that were answered with "fresh context"
    retired,    \* history: transcripts retired
    noticed,    \* history: turns told that the context was retired
    turns, saveFails,
    overlap     \* history: a reset and a turn were under way at once

asVars == <<record, toolkit, turn, novo, sessions, resets, retired, noticed, turns, saveFails, overlap>>

NoFileYet == [model_session |-> 0, generation |-> 0, toolkit_hash |-> "none", bytes |-> 0,
              notice |-> FALSE]
NoTurn == [pc |-> "idle", rec |-> NoFileYet, resumes |-> 0, under |-> "none", notice |-> FALSE,
           frame |-> 0, size |-> 0, after |-> 0]
NoNovo == [pc |-> "idle", rec |-> NoFileYet]

-----------------------------------------------------------------------------
(* registry.rs.                                                            *)

\* Mutant: the pointer outlives its toolkit.
note_toolkit_hash_kept(r, hash) == [r EXCEPT !.toolkit_hash = hash]

\* A resumed session would not see the new tools.
note_toolkit_hash(r, hash) ==
    IF r.toolkit_hash = hash THEN r
    ELSE [r EXCEPT !.toolkit_hash = hash, !.model_session = 0]

\* A transcript over the ceiling is retired.
apply_session_frame(r, s, bytes) ==
    IF bytes > transcript_bytes_max
    THEN [r EXCEPT !.generation = @ + 1, !.model_session = 0, !.bytes = 0, !.notice = TRUE]
    ELSE [r EXCEPT !.model_session = s, !.bytes = bytes]

reset(r) == [r EXCEPT !.generation = @ + 1, !.model_session = 0, !.bytes = 0, !.notice = FALSE]

take_retirement_notice(r) == [r EXCEPT !.notice = FALSE]

-----------------------------------------------------------------------------
(* A turn.                                                                 *)

AsInit ==
    /\ record = NoFileYet /\ turn = NoTurn /\ novo = NoNovo
    /\ toolkit \in Toolkits
    /\ sessions = <<>> /\ resets = 0 /\ retired = 0 /\ noticed = 0 /\ turns = 0
    /\ saveFails = 0 /\ overlap = FALSE

\* The manifest is read again for every turn.
Redeclare(h) ==
    /\ turn.pc = "idle" /\ h # toolkit
    /\ toolkit' = h
    /\ UNCHANGED <<record, turn, novo, sessions, resets, retired, noticed, turns, saveFails, overlap>>

\* harness_env up to the save: the record is brought up to date, the pointer and the notice taken.
harness_env ==
    LET r == note_toolkit_hash(record, toolkit)
    IN  /\ turn.pc = "idle" /\ turns < MaxTurns
        /\ turns' = turns + 1
        /\ turn' = [NoTurn EXCEPT !.pc = "save", !.rec = take_retirement_notice(r),
                                  !.resumes = r.model_session, !.under = toolkit,
                                  !.notice = r.notice, !.after = resets]
        /\ overlap' = (overlap \/ novo.pc # "idle")
        /\ UNCHANGED <<record, toolkit, novo, sessions, resets, retired, noticed, saveFails>>

\* harness_env: the save, before the run; the notice goes out only if it is off the record.
SaveEnv(ok) ==
    /\ turn.pc = "save" /\ (ok \/ saveFails < MaxSaveFails)
    /\ record' = IF ok THEN turn.rec ELSE record
    /\ saveFails' = IF ok THEN saveFails ELSE saveFails + 1
    /\ noticed' = IF ok /\ turn.notice THEN noticed + 1 ELSE noticed
    /\ turn' = [turn EXCEPT !.pc = "running"]
    /\ UNCHANGED <<toolkit, novo, sessions, resets, retired, turns, overlap>>

\* The run reports the session it resumed, or a new one, and its size; or nothing.
Reports(bytes) ==
    LET s == IF turn.resumes # 0 THEN turn.resumes ELSE Len(sessions) + 1
    IN  /\ turn.pc = "running"
        /\ sessions' = IF turn.resumes # 0 THEN sessions
                       ELSE Append(sessions, [under |-> turn.under, after |-> turn.after,
                                              size |-> 0])
        /\ turn' = [turn EXCEPT !.pc = "final", !.frame = s, !.size = bytes]
        /\ UNCHANGED <<record, toolkit, novo, resets, retired, noticed, turns, saveFails, overlap>>

Silent ==
    /\ turn.pc = "running"
    /\ turn' = [turn EXCEPT !.pc = "final"]
    /\ UNCHANGED <<record, toolkit, novo, sessions, resets, retired, noticed, turns, saveFails, overlap>>

\* finalize: the record is loaded afresh.
finalize ==
    /\ turn.pc = "final"
    /\ turn' = [turn EXCEPT !.pc = "store",
                            !.rec = IF turn.frame = 0 THEN record
                                    ELSE apply_session_frame(record, turn.frame, turn.size)]
    /\ UNCHANGED <<record, toolkit, novo, sessions, resets, retired, noticed, turns, saveFails, overlap>>

SaveFinal(ok) ==
    /\ turn.pc = "store" /\ (ok \/ saveFails < MaxSaveFails)
    /\ record' = IF ok THEN turn.rec ELSE record
    /\ saveFails' = IF ok THEN saveFails ELSE saveFails + 1
    /\ retired' = IF ok /\ turn.rec.notice /\ ~record.notice THEN retired + 1 ELSE retired
    /\ sessions' = IF ok /\ turn.frame # 0 THEN [sessions EXCEPT ![turn.frame].size = turn.size]
                   ELSE sessions
    /\ turn' = NoTurn
    /\ UNCHANGED <<toolkit, novo, resets, noticed, turns, overlap>>

\* The daemon dies, or the shutdown cuts the turn off.
TurnDies ==
    /\ turn.pc # "idle"
    /\ turn' = NoTurn /\ novo' = NoNovo
    /\ UNCHANGED <<record, toolkit, sessions, resets, retired, noticed, turns, saveFails, overlap>>

-----------------------------------------------------------------------------
(* reset_conversation.                                                     *)

reset_conversation ==
    /\ novo.pc = "idle" /\ resets < MaxNovos
    /\ record # NoFileYet
    /\ novo' = [pc |-> "save", rec |-> reset(record)]
    /\ overlap' = (overlap \/ turn.pc # "idle")
    /\ UNCHANGED <<record, toolkit, turn, sessions, resets, retired, noticed, turns, saveFails>>

SaveReset ==
    /\ novo.pc = "save"
    /\ record' = novo.rec
    /\ novo' = NoNovo
    /\ resets' = resets + 1
    /\ UNCHANGED <<toolkit, turn, sessions, retired, noticed, turns, saveFails, overlap>>

AsNext ==
    \/ \E h \in Toolkits : Redeclare(h)
    \/ harness_env \/ \E ok \in BOOLEAN : SaveEnv(ok) \/ SaveFinal(ok)
    \/ \E bytes \in 1 .. MaxBytes : Reports(bytes)
    \/ Silent \/ finalize \/ TurnDies
    \/ reset_conversation \/ SaveReset

AsSpec == AsInit /\ [][AsNext]_asVars

-----------------------------------------------------------------------------
(* Properties.                                                             *)

AsTypeOK ==
    /\ turn.pc \in {"idle", "save", "running", "final", "store"} /\ novo.pc \in {"idle", "save"}
    /\ record.model_session \in 0 .. Len(sessions) /\ record.generation \in 0 .. MaxTurns + MaxNovos
    /\ record.toolkit_hash \in Toolkits \union {"none"} /\ record.bytes \in 0 .. transcript_bytes_max

Resumed == turn.pc # "idle" /\ turn.resumes # 0

\* No turn resumes a transcript whose size was put on record over the ceiling, whatever saves
\* failed and resets came in between (apply_session_frame, finalize). A turn cut off before
\* finalize leaves its size unrecorded.
ResumesWhatIsSmall == Resumed /\ turn.pc \in {"save", "running"}
                          => sessions[turn.resumes].size <= transcript_bytes_max

\* A resumed session was begun under the toolkit the turn is given, also when the turn in between
\* died or the declaration went back and forth; unless a save failed or a reset came in between
\* (harness_env, note_toolkit_hash).
ResumesSeeTheirTools ==
    (Resumed /\ saveFails = 0 /\ ~overlap) => sessions[turn.resumes].under = turn.under

\* A turn that begins after a reset was answered does not resume what the reset dropped, if no
\* turn was under way with it (RegistryRecord::reset).
FreshAfterQuietReset ==
    (Resumed /\ ~overlap) => sessions[turn.resumes].after = turn.after

\* Every reset has moved the counter that agents derive their ids from, as long as resets and
\* turns do not overlap: no turn's save puts an older one back (registry.rs).
ResetsMoveTheGeneration == ~overlap => record.generation >= resets

\* A retirement is announced to one turn at most: a notice that cannot be taken off the record is
\* not passed on (harness_env).
NoticedOnce == ~overlap => noticed <= retired

\* AsInv: which session a turn resumes and what it is told, of harness_env, finalize and
\* reset_conversation.
AsInv ==
    /\ AsTypeOK /\ ResumesWhatIsSmall /\ ResumesSeeTheirTools /\ FreshAfterQuietReset
    /\ ResetsMoveTheGeneration /\ NoticedOnce
=============================================================================
