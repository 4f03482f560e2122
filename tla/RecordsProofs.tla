---------------------------- MODULE RecordsProofs ----------------------------
(***************************************************************************)
(* Proofs about what is kept between steps: the record of a conversation,  *)
(* the cache of manifests, the rotated logs and the window files.          *)
(***************************************************************************)
EXTENDS Assistant, ManifestCache, Retention, SequenceTheorems, FiniteSetTheorems, TLAPS

-----------------------------------------------------------------------------
(* The record of a conversation.                                           *)

Records == [model_session : Nat, generation : Nat, toolkit_hash : Toolkits \union {"none"},
            bytes : 0 .. transcript_bytes_max, notice : BOOLEAN]
Sessions == [under : Toolkits \union {"none"}, after : Nat, size : Nat]
Turns == [pc : {"idle", "save", "running", "final", "store"}, rec : Records, resumes : Nat,
          under : Toolkits \union {"none"}, notice : BOOLEAN, frame : Nat, size : Nat, after : Nat]

AsTyped ==
    /\ record \in Records /\ toolkit \in Toolkits /\ turn \in Turns
    /\ novo \in [pc : {"idle", "save"}, rec : Records] /\ sessions \in Seq(Sessions)
    /\ resets \in Nat /\ retired \in Nat /\ noticed \in Nat /\ turns \in Nat /\ saveFails \in Nat
    /\ overlap \in BOOLEAN

\* A turn works on what it took; without an overlap nothing else is under way.
TurnBooks ==
    /\ turn.pc \in {"save", "running"} => turn.frame = 0
    /\ turn.pc # "idle" => turns > 0
    /\ novo.pc = "save" => resets < MaxNovos /\ novo.rec.model_session = 0 /\ ~novo.rec.notice
    /\ turns <= MaxTurns /\ resets <= MaxNovos
    /\ ~overlap => turn.pc = "idle" \/ novo.pc = "idle"

\* Turns that are over: each has retired one transcript at most.
TurnsOver == IF turn.pc = "idle" THEN turns ELSE turns - 1

\* A generation is a turn that retired its transcript, or a reset.
GenerationBooks ==
    /\ record.generation <= TurnsOver + resets
    /\ turn.pc = "save" => turn.rec.generation <= TurnsOver + resets
    /\ turn.pc = "store" => turn.rec.generation <= TurnsOver + resets + 1
    /\ novo.pc = "save" => novo.rec.generation <= TurnsOver + resets + 1

Known(s) == s # 0 => s <= Len(sessions)
Small(s) == s # 0 => sessions[s].size <= transcript_bytes_max

\* Every pointer leads to a session, and to one whose size on record is under the ceiling.
SizeBooks ==
    /\ Known(record.model_session) /\ Small(record.model_session)
    /\ turn.pc # "idle" => Known(turn.resumes)
    /\ turn.pc \in {"save", "running"} => Small(turn.resumes)
    /\ turn.pc = "save" => Known(turn.rec.model_session) /\ Small(turn.rec.model_session)
    /\ turn.pc \in {"final", "store"} => Known(turn.frame)
    /\ turn.pc = "store" /\ turn.frame = 0 => Known(turn.rec.model_session) /\ Small(turn.rec.model_session)
    /\ turn.pc = "store" /\ turn.frame # 0 =>
          turn.rec.model_session = 0
          \/ (turn.rec.model_session = turn.frame /\ turn.size <= transcript_bytes_max)

Under(s, hash) == s # 0 => sessions[s].under = hash

\* Without a failed save the record's session is of the record's toolkit, which is the turn's.
ToolBooks ==
    saveFails = 0 /\ ~overlap =>
        /\ Under(record.model_session, record.toolkit_hash)
        /\ turn.pc # "idle" => Under(turn.resumes, turn.under)
        /\ turn.pc \in {"running", "final"} => record.toolkit_hash = turn.under
        /\ turn.pc \in {"final", "store"} => Under(turn.frame, turn.under)
        /\ turn.pc \in {"save", "store"} => Under(turn.rec.model_session, turn.rec.toolkit_hash)
        /\ turn.pc = "save" => turn.rec.toolkit_hash = turn.under

After(s, n) == s # 0 => sessions[s].after = n

\* Without an overlap everything that is pointed to was begun after the last reset.
ResetBooks ==
    ~overlap =>
        /\ After(record.model_session, resets)
        /\ turn.pc # "idle" => turn.after = resets /\ After(turn.resumes, resets)
        /\ turn.pc \in {"final", "store"} => After(turn.frame, resets)
        /\ turn.pc \in {"save", "store"} => After(turn.rec.model_session, resets)
        /\ record.generation >= resets
        /\ turn.pc \in {"save", "store"} => turn.rec.generation >= resets
        /\ novo.pc = "save" => novo.rec.generation > resets

\* A notice on the record is a retirement that nobody was told of.
NoticeBooks ==
    ~overlap =>
        /\ noticed + (IF record.notice THEN 1 ELSE 0) <= retired
        /\ turn.pc = "save" => turn.notice = record.notice /\ ~turn.rec.notice

AsBooks == AsTyped /\ TurnBooks /\ GenerationBooks /\ SizeBooks /\ ToolBooks /\ ResetBooks /\ NoticeBooks

\* The operations of the record, field by field (registry.rs).
LEMMA RecordOps ==
  ASSUME AssistantAssumption, NEW r \in Records, NEW hash \in Toolkits, NEW s \in Nat, NEW bytes \in Nat
  PROVE  /\ LET q == note_toolkit_hash(r, hash)
            IN  /\ q \in Records /\ q.toolkit_hash = hash /\ q.generation = r.generation
                /\ q.notice = r.notice
                /\ q.model_session = IF r.toolkit_hash = hash THEN r.model_session ELSE 0
         /\ LET q == take_retirement_notice(r)
            IN  /\ q \in Records /\ ~q.notice /\ q.model_session = r.model_session
                /\ q.toolkit_hash = r.toolkit_hash /\ q.generation = r.generation
         /\ LET q == reset(r)
            IN  /\ q \in Records /\ ~q.notice /\ q.model_session = 0
                /\ q.generation = r.generation + 1
         /\ LET q == apply_session_frame(r, s, bytes)
            IN  /\ q \in Records /\ q.toolkit_hash = r.toolkit_hash
                /\ \/ q.model_session = 0 /\ q.generation = r.generation + 1 /\ q.notice
                   \/ /\ bytes <= transcript_bytes_max /\ q.model_session = s
                      /\ q.generation = r.generation /\ q.notice = r.notice
<1> USE DEF Records, AssistantAssumption
<1>1. LET q == note_toolkit_hash(r, hash)
      IN  /\ q \in Records /\ q.toolkit_hash = hash /\ q.generation = r.generation
          /\ q.notice = r.notice
          /\ q.model_session = IF r.toolkit_hash = hash THEN r.model_session ELSE 0
  BY DEF note_toolkit_hash
<1>2. LET q == take_retirement_notice(r)
      IN  /\ q \in Records /\ ~q.notice /\ q.model_session = r.model_session
          /\ q.toolkit_hash = r.toolkit_hash /\ q.generation = r.generation
  BY DEF take_retirement_notice
<1>3. LET q == reset(r)
      IN  /\ q \in Records /\ ~q.notice /\ q.model_session = 0
          /\ q.generation = r.generation + 1
  <2> DEFINE q == reset(r)
  <2>1. q = [r EXCEPT !.generation = r.generation + 1, !.model_session = 0, !.bytes = 0, !.notice = FALSE]
    BY DEF reset
  <2>2. r.generation + 1 \in Nat /\ 0 \in 0 .. transcript_bytes_max  OBVIOUS
  <2> HIDE DEF q
  <2>3. q \in Records  BY <2>1, <2>2
  <2>4. q.model_session = 0 /\ q.generation = r.generation + 1  BY <2>1
  <2>5. q.notice = FALSE  BY <2>1
  <2>6. QED  BY <2>3, <2>4, <2>5 DEF q
<1>4. LET q == apply_session_frame(r, s, bytes)
      IN  /\ q \in Records /\ q.toolkit_hash = r.toolkit_hash
          /\ \/ q.model_session = 0 /\ q.generation = r.generation + 1 /\ q.notice
             \/ /\ bytes <= transcript_bytes_max /\ q.model_session = s
                /\ q.generation = r.generation /\ q.notice = r.notice
  <2> DEFINE q == apply_session_frame(r, s, bytes)
  <2>1. CASE bytes > transcript_bytes_max
    <3>1. q = [r EXCEPT !.generation = r.generation + 1, !.model_session = 0, !.bytes = 0, !.notice = TRUE]
      BY <2>1 DEF apply_session_frame
    <3>2. r.generation + 1 \in Nat /\ 0 \in 0 .. transcript_bytes_max  OBVIOUS
    <3> HIDE DEF q
    <3>3. q \in Records  BY <3>1, <3>2
    <3>4. q.toolkit_hash = r.toolkit_hash /\ q.model_session = 0 /\ q.generation = r.generation + 1
      BY <3>1
    <3>5. q.notice = TRUE  BY <3>1
    <3>6. QED  BY <3>3, <3>4, <3>5 DEF q
  <2>2. CASE ~(bytes > transcript_bytes_max)
    <3>1. q = [r EXCEPT !.model_session = s, !.bytes = bytes]  BY <2>2 DEF apply_session_frame
    <3>2. bytes \in 0 .. transcript_bytes_max  BY <2>2
    <3> HIDE DEF q
    <3>3. q \in Records  BY <3>1, <3>2
    <3>4. /\ q.toolkit_hash = r.toolkit_hash /\ bytes <= transcript_bytes_max /\ q.model_session = s
          /\ q.generation = r.generation /\ q.notice = r.notice
      BY <2>2, <3>1
    <3>5. QED  BY <3>3, <3>4 DEF q
  <2>3. QED  BY <2>1, <2>2
<1>5. QED  BY <1>1, <1>2, <1>3, <1>4

\* An idle conversation is well typed, whatever the constants.
LEMMA IdleTyped ==
  ASSUME AssistantAssumption
  PROVE  NoFileYet \in Records /\ NoTurn \in Turns /\ NoNovo \in [pc : {"idle", "save"}, rec : Records]
<1>1. NoFileYet \in Records  BY DEF AssistantAssumption, NoFileYet, Records
<1>2. QED  BY <1>1 DEF NoTurn, NoNovo, Turns

\* The initial state keeps the books.
LEMMA AsBooksInit ==
  ASSUME AssistantAssumption, AsInit
  PROVE  AsBooks
<1> USE IdleTyped DEF AsInit
<1>1. AsTyped
  <2>1. <<>> \in Seq(Sessions)  OBVIOUS
  <2>2. QED  BY <2>1 DEF AsTyped
<1>2. TurnBooks  BY DEF TurnBooks, NoTurn, NoNovo, AssistantAssumption
<1>3. GenerationBooks  BY DEF GenerationBooks, TurnsOver, NoTurn, NoNovo, NoFileYet
<1>4. SizeBooks  BY DEF SizeBooks, Known, Small, NoTurn, NoNovo, NoFileYet
<1>5. ToolBooks  BY DEF ToolBooks, Under, NoTurn, NoNovo, NoFileYet
<1>6. ResetBooks  BY DEF ResetBooks, After, NoTurn, NoNovo, NoFileYet
<1>7. NoticeBooks  BY DEF NoticeBooks, NoTurn, NoNovo, NoFileYet
<1>8. QED  BY <1>1, <1>2, <1>3, <1>4, <1>5, <1>6, <1>7 DEF AsBooks

\* The manifest declares another toolkit.
LEMMA RedeclareKeeps ==
  ASSUME AssistantAssumption, AsBooks, NEW h \in Toolkits, Redeclare(h)
  PROVE  AsBooks'
  BY DEF AsBooks, AsTyped, TurnBooks, GenerationBooks, TurnsOver, SizeBooks, Known, Small, ToolBooks, Under,
         ResetBooks, After, NoticeBooks, Redeclare

\* A turn begins: it resumes the record's session, if that is of the toolkit it is given.
LEMMA HarnessKeeps ==
  ASSUME AssistantAssumption, AsBooks, harness_env
  PROVE  AsBooks'
<1> DEFINE r == note_toolkit_hash(record, toolkit)
           q == take_retirement_notice(r)
<1> USE DEF AsBooks
<1>1. record \in Records /\ toolkit \in Toolkits /\ 0 \in Nat  BY DEF AsTyped
<1>2. /\ r \in Records /\ r.toolkit_hash = toolkit /\ r.generation = record.generation
      /\ r.notice = record.notice
      /\ r.model_session = IF record.toolkit_hash = toolkit THEN record.model_session ELSE 0
  BY <1>1, RecordOps
<1> HIDE DEF r
<1>3. /\ q \in Records /\ ~q.notice /\ q.model_session = r.model_session
      /\ q.toolkit_hash = r.toolkit_hash /\ q.generation = r.generation
  BY <1>1, <1>2, RecordOps
<1> HIDE DEF q
<1>4. /\ turn.pc = "idle" /\ turns < MaxTurns /\ turns' = turns + 1
      /\ turn' = [NoTurn EXCEPT !.pc = "save", !.rec = q, !.resumes = r.model_session, !.under = toolkit,
                                !.notice = r.notice, !.after = resets]
      /\ overlap' = (overlap \/ novo.pc # "idle")
      /\ UNCHANGED <<record, toolkit, novo, sessions, resets, retired, noticed, saveFails>>
  BY DEF harness_env, r, q
<1>5. /\ turn' \in Turns /\ turn'.pc = "save" /\ turn'.rec = q /\ turn'.resumes = r.model_session
      /\ turn'.under = toolkit /\ turn'.notice = record.notice /\ turn'.after = resets /\ turn'.frame = 0
  BY ZenonT(40), <1>1, <1>2, <1>3, <1>4, IdleTyped DEF NoTurn, Turns, AsTyped, Records
<1>0. ~overlap' => ~overlap /\ novo.pc = "idle"  BY <1>4
<1>6. AsTyped'  BY <1>4, <1>5 DEF AsTyped
<1>7. TurnBooks'
  <2>1. turns' > 0 /\ turns' <= MaxTurns /\ turn'.pc # "idle" /\ turn'.frame = 0
    BY <1>4, <1>5 DEF AsTyped, AssistantAssumption
  <2>2. QED  BY <1>0, <1>4, <2>1 DEF TurnBooks
<1>8. GenerationBooks'
  <2>1. TurnsOver' = TurnsOver /\ q.generation = record.generation
    BY <1>2, <1>3, <1>4, <1>5 DEF TurnsOver, AsTyped
  <2>2. QED  BY <1>4, <1>5, <2>1 DEF GenerationBooks
<1>9. SizeBooks'  BY <1>2, <1>3, <1>4, <1>5 DEF SizeBooks, Known, Small
<1>10. ToolBooks'
  <2>1. saveFails = 0 /\ ~overlap' => Under(record.model_session, record.toolkit_hash)
    BY <1>0 DEF ToolBooks
  <2>2. saveFails = 0 /\ ~overlap' => Under(r.model_session, toolkit) /\ Under(q.model_session, q.toolkit_hash)
    BY <1>2, <1>3, <2>1 DEF Under
  <2>3. QED  BY <1>2, <1>3, <1>4, <1>5, <2>1, <2>2 DEF ToolBooks, Under
<1>11. ResetBooks'
  <2>1. ~overlap' => After(record.model_session, resets) /\ record.generation >= resets
    BY <1>0 DEF ResetBooks
  <2>2. ~overlap' => After(r.model_session, resets) /\ After(q.model_session, resets) /\ q.generation >= resets
    BY <1>2, <1>3, <2>1 DEF After
  <2>3. QED  BY <1>0, <1>4, <1>5, <2>1, <2>2 DEF ResetBooks, After
<1>12. NoticeBooks'  BY <1>2, <1>3, <1>4, <1>5 DEF NoticeBooks
<1>13. QED  BY <1>6, <1>7, <1>8, <1>9, <1>10, <1>11, <1>12

\* The turn's record is saved, or stays as it was.
LEMMA SaveEnvKeeps ==
  ASSUME AssistantAssumption, AsBooks, NEW ok \in BOOLEAN, SaveEnv(ok)
  PROVE  AsBooks'
<1> USE DEF AsBooks
<1>1. /\ turn.pc = "save" /\ record' = (IF ok THEN turn.rec ELSE record)
      /\ saveFails' = (IF ok THEN saveFails ELSE saveFails + 1)
      /\ noticed' = (IF ok /\ turn.notice THEN noticed + 1 ELSE noticed)
      /\ turn' = [turn EXCEPT !.pc = "running"]
      /\ UNCHANGED <<toolkit, novo, sessions, resets, retired, turns, overlap>>
  BY DEF SaveEnv
<1>2. /\ turn' \in Turns /\ turn'.pc = "running" /\ turn'.resumes = turn.resumes
      /\ turn'.under = turn.under /\ turn'.after = turn.after /\ turn'.frame = turn.frame
  BY <1>1 DEF AsTyped, Turns
<1>3. AsTyped'
  <2>1. turn.rec \in Records /\ saveFails' \in Nat /\ noticed' \in Nat  BY SMTT(20), <1>1 DEF AsTyped, Turns
  <2>2. record' \in Records  BY <1>1, <2>1 DEF AsTyped
  <2>3. QED  BY <1>1, <1>2, <2>1, <2>2 DEF AsTyped
<1>4. TurnBooks'  BY <1>1, <1>2 DEF TurnBooks
<1>5. GenerationBooks'  BY <1>1, <1>2 DEF GenerationBooks, TurnsOver
<1>6. SizeBooks'  BY <1>1, <1>2 DEF SizeBooks, Known, Small
<1>7. ToolBooks'
  <2>1. CASE ok  BY <1>1, <1>2, <2>1 DEF ToolBooks, Under
  <2>2. CASE ~ok
    <3>1. saveFails' # 0  BY <1>1, <2>2 DEF AsTyped
    <3>2. QED  BY <3>1 DEF ToolBooks
  <2>3. QED  BY <2>1, <2>2
<1>8. ResetBooks'  BY <1>1, <1>2 DEF ResetBooks, After
<1>9. NoticeBooks'  BY <1>1, <1>2 DEF NoticeBooks, AsTyped
<1>10. QED  BY <1>3, <1>4, <1>5, <1>6, <1>7, <1>8, <1>9

\* What a report adds to the history of the sessions.
LEMMA ReportsMoves ==
  ASSUME AsTyped, NEW bytes \in 1 .. MaxBytes, Reports(bytes), turn.resumes # 0 => turn.resumes <= Len(sessions)
  PROVE  /\ turn.pc = "running" /\ sessions' \in Seq(Sessions)
         /\ Len(sessions') \in Nat /\ Len(sessions) \in Nat /\ Len(sessions') >= Len(sessions)
         /\ \A s \in Nat : Known(s) => Known(s)' /\ (s # 0 => sessions'[s] = sessions[s])
         /\ turn' \in Turns /\ turn'.pc = "final" /\ turn'.frame # 0 /\ turn'.frame <= Len(sessions')
         /\ turn'.under = turn.under /\ turn'.after = turn.after /\ turn'.resumes = turn.resumes
         /\ turn.resumes # 0 => turn'.frame = turn.resumes
         /\ turn.resumes = 0 => /\ sessions'[turn'.frame].under = turn.under
                                /\ sessions'[turn'.frame].after = turn.after
<1> DEFINE new == [under |-> turn.under, after |-> turn.after, size |-> 0]
           s0 == IF turn.resumes # 0 THEN turn.resumes ELSE Len(sessions) + 1
<1>1. /\ turn.pc = "running" /\ turn' = [turn EXCEPT !.pc = "final", !.frame = s0, !.size = bytes]
      /\ sessions' = IF turn.resumes # 0 THEN sessions ELSE Append(sessions, new)
  BY DEF Reports
<1>2. new \in Sessions  BY DEF AsTyped, Turns, Sessions
<1>3. Len(sessions) \in Nat /\ s0 \in Nat /\ s0 # 0 /\ bytes \in Nat  BY DEF AsTyped, Turns
<1>4. /\ turn' \in Turns /\ turn'.pc = "final" /\ turn'.frame = s0
      /\ turn'.under = turn.under /\ turn'.after = turn.after /\ turn'.resumes = turn.resumes
  BY <1>1, <1>3 DEF AsTyped, Turns
<1>5. CASE turn.resumes # 0
  <2>1. s0 = turn.resumes /\ sessions' = sessions /\ s0 <= Len(sessions)  BY <1>1, <1>5
  <2>2. QED  BY <1>1, <1>3, <1>4, <1>5, <2>1 DEF AsTyped, Known
<1>6. CASE turn.resumes = 0
  <2> HIDE DEF new
  <2>1. /\ sessions' \in Seq(Sessions) /\ Len(sessions') = Len(sessions) + 1
        /\ \A s \in 1 .. Len(sessions) : sessions'[s] = sessions[s]
        /\ sessions'[Len(sessions) + 1] = new
    BY <1>1, <1>2, <1>6, AppendProperties DEF AsTyped
  <2>2. s0 = Len(sessions) + 1  BY <1>6
  <2>3. new.under = turn.under /\ new.after = turn.after  BY DEF new
  <2>4. \A s \in Nat : Known(s) => Known(s)' /\ (s # 0 => sessions'[s] = sessions[s])
    BY <1>3, <2>1 DEF Known
  <2>5. s0 <= Len(sessions') /\ sessions'[s0].under = turn.under /\ sessions'[s0].after = turn.after
    BY <1>3, <2>1, <2>2, <2>3
  <2>6. Len(sessions') \in Nat /\ Len(sessions') >= Len(sessions)  BY <1>3, <2>1
  <2> HIDE DEF s0
  <2>7. QED  BY <1>1, <1>3, <1>4, <1>6, <2>1, <2>4, <2>5, <2>6
<1>7. QED  BY <1>5, <1>6

\* The run reports the session it resumed, or begins one.
LEMMA ReportsKeeps ==
  ASSUME AssistantAssumption, AsBooks, NEW bytes \in 1 .. MaxBytes, Reports(bytes)
  PROVE  AsBooks'
<1> USE DEF AsBooks
<1>0. turn.pc = "running"  BY DEF Reports
<1>1. turn.resumes # 0 => turn.resumes <= Len(sessions)  BY <1>0 DEF SizeBooks, Known
<1>2. UNCHANGED <<record, toolkit, novo, resets, retired, noticed, turns, saveFails, overlap>>
  BY DEF Reports
<1>3. /\ turn.pc = "running" /\ sessions' \in Seq(Sessions)
      /\ \A s \in Nat : Known(s) => Known(s)' /\ (s # 0 => sessions'[s] = sessions[s])
      /\ turn' \in Turns /\ turn'.pc = "final" /\ turn'.frame # 0 /\ turn'.frame <= Len(sessions')
      /\ turn'.under = turn.under /\ turn'.after = turn.after /\ turn'.resumes = turn.resumes
      /\ turn.resumes # 0 => turn'.frame = turn.resumes
      /\ turn.resumes = 0 => /\ sessions'[turn'.frame].under = turn.under
                             /\ sessions'[turn'.frame].after = turn.after
  BY <1>1, ReportsMoves
<1>4. record.model_session \in Nat /\ turn.resumes \in Nat  BY DEF AsTyped, Records, Turns
<1>5. Known(record.model_session) /\ Known(turn.resumes)  BY <1>0 DEF SizeBooks
<1>6. /\ Known(record.model_session)' /\ Known(turn.resumes)'
      /\ record.model_session # 0 => sessions'[record.model_session] = sessions[record.model_session]
      /\ turn.resumes # 0 => sessions'[turn.resumes] = sessions[turn.resumes]
  BY <1>2, <1>3, <1>4, <1>5 DEF Known
<1>7. AsTyped'  BY <1>2, <1>3 DEF AsTyped
<1>8. TurnBooks'  BY <1>2, <1>3 DEF TurnBooks
<1>9. GenerationBooks'  BY <1>2, <1>3 DEF GenerationBooks, TurnsOver
<1>10. SizeBooks'
  <2>1. Small(record.model_session)'  BY <1>2, <1>6 DEF SizeBooks, Small
  <2>2. turn'.frame # 0 => turn'.frame <= Len(sessions')  BY <1>3
  <2>3. QED  BY <1>3, <1>6, <2>1, <2>2 DEF SizeBooks, Known
<1>11. ToolBooks'  BY <1>2, <1>3, <1>6 DEF ToolBooks, Under
<1>12. ResetBooks'  BY <1>2, <1>3, <1>6 DEF ResetBooks, After
<1>13. NoticeBooks'  BY <1>2, <1>3 DEF NoticeBooks
<1>14. QED  BY <1>7, <1>8, <1>9, <1>10, <1>11, <1>12, <1>13

\* The run says nothing of a session.
LEMMA SilentKeeps ==
  ASSUME AssistantAssumption, AsBooks, Silent
  PROVE  AsBooks'
<1> USE DEF AsBooks
<1>1. /\ turn.pc = "running" /\ turn' = [turn EXCEPT !.pc = "final"]
      /\ UNCHANGED <<record, toolkit, novo, sessions, resets, retired, noticed, turns, saveFails, overlap>>
  BY DEF Silent
<1>2. /\ turn' \in Turns /\ turn'.pc = "final" /\ turn'.resumes = turn.resumes
      /\ turn'.under = turn.under /\ turn'.after = turn.after /\ turn'.frame = 0
  BY <1>1 DEF AsTyped, Turns, TurnBooks
<1>3. AsTyped'  BY <1>1, <1>2 DEF AsTyped
<1>4. TurnBooks'  BY <1>1, <1>2 DEF TurnBooks
<1>5. GenerationBooks'  BY <1>1, <1>2 DEF GenerationBooks, TurnsOver
<1>6. SizeBooks'  BY <1>1, <1>2 DEF SizeBooks, Known, Small
<1>7. ToolBooks'  BY <1>1, <1>2 DEF ToolBooks, Under
<1>8. ResetBooks'  BY <1>1, <1>2 DEF ResetBooks, After
<1>9. NoticeBooks'  BY <1>1, <1>2 DEF NoticeBooks
<1>10. QED  BY <1>3, <1>4, <1>5, <1>6, <1>7, <1>8, <1>9

\* What is reported is entered in the record as it is now.
LEMMA FinalizeKeeps ==
  ASSUME AssistantAssumption, AsBooks, finalize
  PROVE  AsBooks'
<1> USE DEF AsBooks
<1> DEFINE q == IF turn.frame = 0 THEN record ELSE apply_session_frame(record, turn.frame, turn.size)
<1>1. record \in Records /\ turn \in Turns /\ turn.frame \in Nat /\ turn.size \in Nat
  BY DEF AsTyped, Turns
<1>2. /\ q \in Records /\ q.toolkit_hash = record.toolkit_hash
      /\ turn.frame = 0 => q = record
      /\ turn.frame # 0 =>
            \/ q.model_session = 0 /\ q.generation = record.generation + 1 /\ q.notice
            \/ /\ turn.size <= transcript_bytes_max /\ q.model_session = turn.frame
               /\ q.generation = record.generation /\ q.notice = record.notice
  <2>1. CASE turn.frame = 0  BY <1>1, <2>1
  <2>2. CASE turn.frame # 0
    <3>1. PICK h \in Toolkits : TRUE  BY DEF AssistantAssumption
    <3>2. q = apply_session_frame(record, turn.frame, turn.size)  BY <2>2
    <3>3. /\ q \in Records /\ q.toolkit_hash = record.toolkit_hash
          /\ \/ q.model_session = 0 /\ q.generation = record.generation + 1 /\ q.notice
             \/ /\ turn.size <= transcript_bytes_max /\ q.model_session = turn.frame
                /\ q.generation = record.generation /\ q.notice = record.notice
      BY <1>1, <3>1, <3>2, RecordOps
    <3>4. QED  BY <2>2, <3>3
  <2>3. QED  BY <2>1, <2>2
<1>3. /\ turn.pc = "final" /\ turn' = [turn EXCEPT !.pc = "store", !.rec = q]
      /\ UNCHANGED <<record, toolkit, novo, sessions, resets, retired, noticed, turns, saveFails, overlap>>
  BY DEF finalize
<1> HIDE DEF q
<1>4. /\ turn' \in Turns /\ turn'.pc = "store" /\ turn'.rec = q /\ turn'.resumes = turn.resumes
      /\ turn'.under = turn.under /\ turn'.after = turn.after /\ turn'.frame = turn.frame
      /\ turn'.size = turn.size
  BY <1>1, <1>2, <1>3 DEF Turns
<1>5. q.generation \in Nat /\ record.generation \in Nat /\ q.generation \in record.generation .. record.generation + 1
  BY <1>1, <1>2 DEF Records
<1>6. AsTyped'  BY <1>3, <1>4 DEF AsTyped
<1>7. TurnBooks'  BY <1>3, <1>4 DEF TurnBooks
<1>8. GenerationBooks'  BY SMTT(20), <1>3, <1>4, <1>5 DEF GenerationBooks, TurnsOver, AsTyped, TurnBooks
<1>9. SizeBooks'  BY <1>2, <1>3, <1>4 DEF SizeBooks, Known, Small
<1>10. ToolBooks'  BY <1>2, <1>3, <1>4 DEF ToolBooks, Under
<1>11. ResetBooks'  BY SMTT(20), <1>2, <1>3, <1>4, <1>5 DEF ResetBooks, After, AsTyped
<1>12. NoticeBooks'  BY <1>3, <1>4 DEF NoticeBooks
<1>13. QED  BY <1>6, <1>7, <1>8, <1>9, <1>10, <1>11, <1>12

\* The record is saved at the end of the turn, or stays as it was.
LEMMA SaveFinalKeeps ==
  ASSUME AssistantAssumption, AsBooks, NEW ok \in BOOLEAN, SaveFinal(ok)
  PROVE  AsBooks'
<1> USE DEF AsBooks
<1>1. /\ turn.pc = "store" /\ record' = (IF ok THEN turn.rec ELSE record)
      /\ saveFails' = (IF ok THEN saveFails ELSE saveFails + 1)
      /\ retired' = (IF ok /\ turn.rec.notice /\ ~record.notice THEN retired + 1 ELSE retired)
      /\ sessions' = (IF ok /\ turn.frame # 0 THEN [sessions EXCEPT ![turn.frame].size = turn.size]
                      ELSE sessions)
      /\ turn' = NoTurn
      /\ UNCHANGED <<toolkit, novo, resets, noticed, turns, overlap>>
  BY DEF SaveFinal
<1>2. NoTurn \in Turns /\ turn'.pc = "idle"  BY <1>1, IdleTyped DEF NoTurn
<1>3. turn.frame \in Nat /\ turn.size \in Nat /\ Len(sessions) \in Nat /\ turn.rec \in Records
  BY DEF AsTyped, Turns
<1>4. turn.frame # 0 => turn.frame \in 1 .. Len(sessions)  BY <1>1, <1>3 DEF SizeBooks, Known
<1>5. /\ sessions' \in Seq(Sessions) /\ Len(sessions') = Len(sessions)
      /\ \A s \in 1 .. Len(sessions) :
            /\ sessions'[s].under = sessions[s].under /\ sessions'[s].after = sessions[s].after
            /\ sessions'[s].size = IF ok /\ turn.frame = s THEN turn.size ELSE sessions[s].size
  <2>1. CASE ~(ok /\ turn.frame # 0)  BY <1>1, <1>3, <2>1 DEF AsTyped
  <2>2. CASE ok /\ turn.frame # 0
    <3> DEFINE new == [sessions[turn.frame] EXCEPT !.size = turn.size]
    <3>1. sessions[turn.frame] \in Sessions  BY <1>3, <1>4, <2>2 DEF AsTyped
    <3>2. /\ new \in Sessions /\ new.under = sessions[turn.frame].under
          /\ new.after = sessions[turn.frame].after /\ new.size = turn.size
      BY <1>3, <3>1 DEF Sessions
    <3>3. sessions' = [sessions EXCEPT ![turn.frame] = new]  BY <1>1, <2>2
    <3> HIDE DEF new
    <3>4. /\ sessions' \in Seq(Sessions) /\ Len(sessions') = Len(sessions)
          /\ \A s \in 1 .. Len(sessions) : sessions'[s] = IF s = turn.frame THEN new ELSE sessions[s]
      BY <1>3, <1>4, <2>2, <3>2, <3>3, ExceptSeq DEF AsTyped
    <3>5. QED  BY <2>2, <3>2, <3>4
  <2>3. QED  BY <2>1, <2>2
<1>6. record'.model_session \in Nat  BY <1>1, <1>3 DEF AsTyped, Records
<1>7. AsTyped'  BY SMTT(20), <1>1, <1>2, <1>3, <1>5 DEF AsTyped
<1>8. TurnBooks'  BY <1>1, <1>2 DEF TurnBooks
<1>9. GenerationBooks'
  <2>1. TurnsOver' = TurnsOver + 1 /\ TurnsOver \in Int  BY <1>1, <1>2 DEF TurnsOver, AsTyped
  <2>2. resets \in Nat /\ record.generation \in Nat /\ novo.rec.generation \in Nat
    BY DEF AsTyped, Records
  <2>3. record'.generation <= TurnsOver' + resets'
    <3>1. CASE ok  BY <1>1, <2>1, <2>2, <3>1 DEF GenerationBooks
    <3>2. CASE ~ok  BY <1>1, <2>1, <2>2, <3>2 DEF GenerationBooks
    <3>3. QED  BY <3>1, <3>2
  <2>4. novo'.pc = "save" => novo'.rec.generation <= TurnsOver' + resets' + 1
    BY <1>1, <2>1, <2>2 DEF GenerationBooks
  <2>5. QED  BY <1>2, <2>3, <2>4 DEF GenerationBooks
<1>10. SizeBooks'
  <2>1. Known(record.model_session)' /\ Small(record.model_session)'
    <3>1. CASE ~ok
      BY <1>1, <1>3, <1>5, <1>6, <3>1 DEF SizeBooks, Known, Small
    <3>2. CASE ok /\ turn.frame = 0
      BY <1>1, <1>3, <1>5, <1>6, <3>2 DEF SizeBooks, Known, Small
    <3>3. CASE ok /\ turn.frame # 0
      BY <1>1, <1>3, <1>4, <1>5, <1>6, <3>3 DEF SizeBooks, Known, Small
    <3>4. QED  BY <3>1, <3>2, <3>3
  <2>2. QED  BY <1>2, <2>1 DEF SizeBooks
<1>11. ToolBooks'
  <2>1. CASE ok
    <3>1. SUFFICES ASSUME saveFails = 0, ~overlap, turn.rec.model_session # 0
                   PROVE  sessions'[turn.rec.model_session].under = turn.rec.toolkit_hash
      BY <1>1, <1>2, <2>1 DEF ToolBooks, Under
    <3>2. sessions[turn.rec.model_session].under = turn.rec.toolkit_hash
      BY <1>1, <3>1 DEF ToolBooks, Under
    <3>3. turn.rec.model_session \in 1 .. Len(sessions)
      BY <1>1, <1>3, <1>4, <3>1 DEF SizeBooks, Known, Records
    <3>4. QED  BY <1>5, <3>2, <3>3
  <2>2. CASE ~ok
    <3>1. saveFails' # 0  BY <1>1, <2>2 DEF AsTyped
    <3>2. QED  BY <3>1 DEF ToolBooks
  <2>3. QED  BY <2>1, <2>2
<1>12. ResetBooks'
  <2>1. SUFFICES ASSUME ~overlap
                 PROVE  After(record.model_session, resets)' /\ record'.generation >= resets
                        /\ (novo.pc = "save" => novo.rec.generation > resets)
    BY <1>1, <1>2 DEF ResetBooks
  <2>2. After(record'.model_session, resets) /\ Known(record'.model_session)
    BY <1>1, <1>4, <1>3, <2>1 DEF ResetBooks, After, SizeBooks, Known
  <2>3. After(record.model_session, resets)'
    BY <1>1, <1>3, <1>5, <1>6, <2>2 DEF After, Known
  <2>4. QED  BY <1>1, <2>1, <2>3 DEF ResetBooks
<1>13. NoticeBooks'  BY SMTT(30), <1>1, <1>2 DEF NoticeBooks, AsTyped, TurnBooks
<1>14. QED  BY <1>7, <1>8, <1>9, <1>10, <1>11, <1>12, <1>13

\* The turn and a reset under way are gone, the record stays.
LEMMA TurnDiesKeeps ==
  ASSUME AssistantAssumption, AsBooks, TurnDies
  PROVE  AsBooks'
<1> USE DEF AsBooks
<1>1. /\ turn.pc # "idle" /\ turn' = NoTurn /\ novo' = NoNovo
      /\ UNCHANGED <<record, toolkit, sessions, resets, retired, noticed, turns, saveFails, overlap>>
  BY DEF TurnDies
<1>2. turn'.pc = "idle" /\ novo'.pc = "idle"  BY <1>1 DEF NoTurn, NoNovo
<1>3. AsTyped'  BY <1>1, IdleTyped DEF AsTyped
<1>4. TurnBooks'  BY <1>1, <1>2 DEF TurnBooks
<1>5. GenerationBooks'  BY <1>1, <1>2 DEF GenerationBooks, TurnsOver, AsTyped, Records
<1>6. SizeBooks'  BY <1>1, <1>2 DEF SizeBooks, Known, Small
<1>7. ToolBooks'  BY <1>1, <1>2 DEF ToolBooks, Under
<1>8. ResetBooks'  BY <1>1, <1>2 DEF ResetBooks, After
<1>9. NoticeBooks'  BY <1>1, <1>2 DEF NoticeBooks
<1>10. QED  BY <1>3, <1>4, <1>5, <1>6, <1>7, <1>8, <1>9

\* A reset reads the record.
LEMMA ResetKeeps ==
  ASSUME AssistantAssumption, AsBooks, reset_conversation
  PROVE  AsBooks'
<1> USE DEF AsBooks
<1> DEFINE q == reset(record)
<1>1. record \in Records /\ record.generation \in Nat  BY DEF AsTyped, Records
<1>2. q \in Records /\ ~q.notice /\ q.model_session = 0 /\ q.generation = record.generation + 1
  <2>1. PICK h \in Toolkits : TRUE  BY DEF AssistantAssumption
  <2>2. QED  BY <1>1, <2>1, RecordOps
<1>3. /\ novo.pc = "idle" /\ resets < MaxNovos /\ novo' = [pc |-> "save", rec |-> q]
      /\ overlap' = (overlap \/ turn.pc # "idle")
      /\ UNCHANGED <<record, toolkit, turn, sessions, resets, retired, noticed, turns, saveFails>>
  BY DEF reset_conversation
<1> HIDE DEF q
<1>4. novo' \in [pc : {"idle", "save"}, rec : Records] /\ novo'.pc = "save" /\ novo'.rec = q
  BY <1>2, <1>3
<1>5. AsTyped'  BY <1>3, <1>4 DEF AsTyped
<1>6. TurnBooks'  BY <1>2, <1>3, <1>4 DEF TurnBooks
<1>7. GenerationBooks'  BY <1>1, <1>2, <1>3, <1>4 DEF GenerationBooks, TurnsOver, AsTyped
<1>8. SizeBooks'  BY <1>3 DEF SizeBooks, Known, Small
<1>9. ToolBooks'  BY <1>3 DEF ToolBooks, Under
<1>10. ResetBooks'  BY <1>1, <1>2, <1>3, <1>4 DEF ResetBooks, After, AsTyped
<1>11. NoticeBooks'  BY <1>3 DEF NoticeBooks
<1>12. QED  BY <1>5, <1>6, <1>7, <1>8, <1>9, <1>10, <1>11

\* What the reset read is saved, one generation on.
LEMMA SaveResetKeeps ==
  ASSUME AssistantAssumption, AsBooks, SaveReset
  PROVE  AsBooks'
<1> USE DEF AsBooks
<1>1. /\ novo.pc = "save" /\ record' = novo.rec /\ novo' = NoNovo /\ resets' = resets + 1
      /\ UNCHANGED <<toolkit, turn, sessions, retired, noticed, turns, saveFails, overlap>>
  BY DEF SaveReset
<1>2. novo'.pc = "idle" /\ novo.rec.model_session = 0 /\ ~novo.rec.notice /\ novo.rec.generation \in Nat
  BY <1>1 DEF NoNovo, TurnBooks, AsTyped, Records
<1>3. AsTyped'  BY <1>1, IdleTyped DEF AsTyped
<1>4. TurnBooks'  BY <1>1, <1>2 DEF TurnBooks, AsTyped, AssistantAssumption
<1>5. GenerationBooks'
  <2>1. TurnsOver' = TurnsOver /\ TurnsOver \in Int /\ resets \in Nat  BY <1>1 DEF TurnsOver, AsTyped
  <2>2. turn.rec.generation \in Nat /\ record'.generation = novo.rec.generation
    BY <1>1 DEF AsTyped, Turns, Records
  <2>3. record'.generation <= TurnsOver' + resets'  BY <1>1, <1>2, <2>1, <2>2 DEF GenerationBooks
  <2>4. turn'.pc = "save" => turn'.rec.generation <= TurnsOver' + resets'
    BY <1>1, <2>1, <2>2 DEF GenerationBooks
  <2>5. turn'.pc = "store" => turn'.rec.generation <= TurnsOver' + resets' + 1
    BY <1>1, <2>1, <2>2 DEF GenerationBooks
  <2>6. QED  BY <1>2, <2>3, <2>4, <2>5 DEF GenerationBooks
<1>6. SizeBooks'  BY <1>1, <1>2 DEF SizeBooks, Known, Small
<1>7. ToolBooks'  BY <1>1, <1>2 DEF ToolBooks, Under, TurnBooks
<1>8. ResetBooks'  BY <1>1, <1>2 DEF ResetBooks, After, TurnBooks, AsTyped
<1>9. NoticeBooks'  BY <1>1, <1>2 DEF NoticeBooks, TurnBooks, AsTyped
<1>10. QED  BY <1>3, <1>4, <1>5, <1>6, <1>7, <1>8, <1>9

\* Every step keeps the books of the conversation.
LEMMA AsBooksKept ==
  ASSUME AssistantAssumption, AsBooks, [AsNext]_asVars
  PROVE  AsBooks'
<1>1. CASE \E h \in Toolkits : Redeclare(h)  BY <1>1, RedeclareKeeps
<1>2. CASE harness_env  BY <1>2, HarnessKeeps
<1>3. CASE \E ok \in BOOLEAN : SaveEnv(ok)  BY <1>3, SaveEnvKeeps
<1>4. CASE \E ok \in BOOLEAN : SaveFinal(ok)  BY <1>4, SaveFinalKeeps
<1>5. CASE \E bytes \in 1 .. MaxBytes : Reports(bytes)  BY <1>5, ReportsKeeps
<1>6. CASE Silent  BY <1>6, SilentKeeps
<1>7. CASE finalize  BY <1>7, FinalizeKeeps
<1>8. CASE TurnDies  BY <1>8, TurnDiesKeeps
<1>9. CASE reset_conversation  BY <1>9, ResetKeeps
<1>10. CASE SaveReset  BY <1>10, SaveResetKeeps
<1>11. CASE UNCHANGED asVars
  BY <1>11 DEF asVars, AsBooks, AsTyped, TurnBooks, GenerationBooks, TurnsOver, SizeBooks, Known, Small,
               ToolBooks, Under, ResetBooks, After, NoticeBooks
<1>12. QED
  BY <1>1, <1>2, <1>3, <1>4, <1>5, <1>6, <1>7, <1>8, <1>9, <1>10, <1>11 DEF AsNext

\* The books give the invariant.
LEMMA AsBooksGive ==
  ASSUME AssistantAssumption, AsBooks
  PROVE  AsInv
<1> USE DEF AsBooks
<1>1. AsTypeOK
  <2>1. Len(sessions) \in Nat /\ record.model_session \in Nat /\ record.generation \in Nat
    BY DEF AsTyped, Records
  <2>2. record.model_session \in 0 .. Len(sessions)  BY <2>1 DEF SizeBooks, Known
  <2>3. record.generation \in 0 .. MaxTurns + MaxNovos
    BY <2>1 DEF GenerationBooks, TurnBooks, TurnsOver, AsTyped, AssistantAssumption
  <2>4. QED  BY <2>2, <2>3 DEF AsTypeOK, AsTyped, Records, Turns
<1>2. ResumesWhatIsSmall  BY DEF ResumesWhatIsSmall, Resumed, SizeBooks, Small
<1>3. ResumesSeeTheirTools  BY DEF ResumesSeeTheirTools, Resumed, ToolBooks, Under
<1>4. FreshAfterQuietReset  BY DEF FreshAfterQuietReset, Resumed, ResetBooks, After
<1>5. ResetsMoveTheGeneration  BY DEF ResetsMoveTheGeneration, ResetBooks
<1>6. NoticedOnce  BY DEF NoticedOnce, NoticeBooks, AsTyped
<1>7. QED  BY <1>1, <1>2, <1>3, <1>4, <1>5, <1>6 DEF AsInv

\* AssistantSafe: for every number of turns, resets, sizes, toolkits and failed saves, a turn resumes
\* a small session; as far as resets and turns did not overlap, one that was begun after the last
\* reset and, if no save failed, under its toolkit; a reset moves the generation, and a retirement
\* is told once (harness_env, finalize, reset_conversation).
THEOREM AssistantSafe == AsSpec => []AsInv
<1>1. AsInit => AsBooks  BY AsBooksInit, AssistantAssumption
<1>2. AsBooks /\ [AsNext]_asVars => AsBooks'  BY AsBooksKept, AssistantAssumption
<1>3. AsBooks => AsInv  BY AsBooksGive, AssistantAssumption
<1>4. QED  BY <1>1, <1>2, <1>3, PTL DEF AsSpec

-----------------------------------------------------------------------------
(* The cache of manifests.                                                 *)

CacheEntries == [Agents -> Shas \union {"none"}]
Caches == [kind : {"none", "torn", "whole"}, entries : CacheEntries]
Checks == [pc : {"idle", "check", "fill", "rename"}, entries : CacheEntries,
           todo : SUBSET Agents, changed : BOOLEAN, at : {"lost", "beside", "known"}]
AuditLines == {"phantom", "loaded", "drift"} \X Agents \X Shas

CacheTyped ==
    /\ manifest \in CacheEntries /\ known \in Caches /\ beside \in Caches
    /\ checker \in [Checkers -> Checks] /\ said \in Seq(AuditLines)
    /\ mishaps \in Nat /\ mute \in BOOLEAN /\ sideBySide \in BOOLEAN

\* The log names every content of e.
Heard(e, log) ==
    \A a \in Agents : e[a] # "none" => \E i \in DOMAIN log : log[i][2] = a /\ log[i][3] = e[a]

\* What has no entry in the audit log is nowhere, not even on its way to the cache.
HeardBooks ==
    ~mute => /\ Heard(known.entries, said) /\ Heard(beside.entries, said)
             /\ \A p \in Checkers : Heard(checker[p].entries, said)

\* The log tells of agent a up to content v: it was new once, and v is the last word.
Announces(log, i, a) == log[i][2] = a /\ log[i][1] # "loaded"
Story(a, v, log) ==
    /\ \A i, j \in DOMAIN log :
          log[i][2] = a /\ log[i][1] = "phantom" /\ log[j][2] = a /\ log[j][1] = "phantom" => i = j
    /\ v = "none" => \A i \in DOMAIN log : log[i][2] # a
    /\ v # "none" => \E i \in DOMAIN log :
          /\ Announces(log, i, a) /\ log[i][3] = v
          /\ \A j \in DOMAIN log : Announces(log, j, a) => j <= i
Told(e, log) == \A a \in Agents : Story(a, e[a], log)

\* A process at a check that nobody crosses.
SoloCheck(p) ==
    LET c == checker[p]
    IN  /\ c.pc # "idle" => Told(c.entries, said)
        /\ c.pc = "check" /\ ~c.changed => c.entries = known.entries
        /\ c.pc \in {"fill", "rename"} => c.at = "beside"
        /\ c.pc = "fill" => beside = Half
        /\ c.pc = "rename" => beside = WholeCache(c.entries)

\* One check at a time has the file beside to itself, and the story is told up to its entries.
SoloBooks ==
    ~sideBySide /\ mishaps = 0 =>
        /\ known.kind # "torn"
        /\ \A p, q \in Checkers : checker[p].pc # "idle" /\ checker[q].pc # "idle" => p = q
        /\ (\A p \in Checkers : checker[p].pc = "idle") => Told(known.entries, said)
        /\ \A p \in Checkers : SoloCheck(p)

CacheBooks == CacheTyped /\ HeardBooks /\ SoloBooks

\* What a longer log holds.
LEMMA LongerLog ==
  ASSUME NEW log \in Seq(AuditLines), NEW more \in Seq(AuditLines)
  PROVE  /\ log \o more \in Seq(AuditLines)
         /\ Len(log) \in Nat /\ Len(more) \in Nat /\ DOMAIN log = 1 .. Len(log)
         /\ DOMAIN (log \o more) = 1 .. Len(log) + Len(more)
         /\ \A i \in DOMAIN log : (log \o more)[i] = log[i]
         /\ \A i \in 1 .. Len(more) : (log \o more)[Len(log) + i] = more[i]
<1>1. /\ log \o more \in Seq(AuditLines) /\ Len(log \o more) = Len(log) + Len(more)
      /\ \A i \in 1 .. Len(log) + Len(more) :
            (log \o more)[i] = IF i <= Len(log) THEN log[i] ELSE more[i - Len(log)]
  BY ConcatProperties
<1>2. Len(log) \in Nat /\ Len(more) \in Nat /\ DOMAIN log = 1 .. Len(log)
  OBVIOUS
<1>3. DOMAIN (log \o more) = 1 .. Len(log) + Len(more)
  BY <1>1
<1>4. \A i \in DOMAIN log : (log \o more)[i] = log[i]
  BY <1>1, <1>2
<1>5. \A i \in 1 .. Len(more) : (log \o more)[Len(log) + i] = more[i]
  BY <1>1, <1>2
<1>6. QED  BY <1>1, <1>2, <1>3, <1>4, <1>5

\* What the log names it goes on naming.
LEMMA HeardLonger ==
  ASSUME NEW log \in Seq(AuditLines), NEW more \in Seq(AuditLines), NEW e \in CacheEntries, Heard(e, log)
  PROVE  Heard(e, log \o more)
<1> DEFINE longer == log \o more
<1>1. DOMAIN log \subseteq DOMAIN longer /\ \A i \in DOMAIN log : longer[i] = log[i]
  BY LongerLog
<1> HIDE DEF longer
<1>2. Heard(e, longer)  BY <1>1 DEF Heard
<1>3. QED  BY <1>2 DEF longer

\* The events of an agent: none, if its content is known; otherwise lines that name it.
LEMMA EventFacts ==
  ASSUME CacheAssumption, NEW e \in CacheEntries, NEW a \in Agents, NEW sha \in Shas
  PROVE  /\ Events(e, a, sha) \in Seq(AuditLines)
         /\ [e EXCEPT ![a] = sha] \in CacheEntries
         /\ Events(e, a, sha) = <<>> <=> e[a] = sha
         /\ e[a] = "none" => Events(e, a, sha) = <<<<"phantom", a, sha>>, <<"loaded", a, sha>>>>
         /\ e[a] # "none" /\ e[a] # sha => Events(e, a, sha) = <<<<"drift", a, sha>>>>
<1> DEFINE two == <<<<"phantom", a, sha>>, <<"loaded", a, sha>>>>
           one == <<<<"drift", a, sha>>>>
<1>1. sha # "none"  BY DEF CacheAssumption
<1>2. two \in Seq(AuditLines) /\ two # <<>>  BY DEF AuditLines
<1>3. one \in Seq(AuditLines) /\ one # <<>>  BY DEF AuditLines
<1>4. <<>> \in Seq(AuditLines)  OBVIOUS
<1>5. [e EXCEPT ![a] = sha] \in CacheEntries  BY DEF CacheEntries
<1>6. Events(e, a, sha) = IF e[a] = "none" THEN two ELSE IF e[a] # sha THEN one ELSE <<>>
  BY DEF Events
<1> HIDE DEF two, one
<1>7. /\ Events(e, a, sha) \in Seq(AuditLines)
      /\ Events(e, a, sha) = <<>> <=> e[a] = sha
      /\ e[a] = "none" => Events(e, a, sha) = two
      /\ e[a] # "none" /\ e[a] # sha => Events(e, a, sha) = one
  BY <1>1, <1>2, <1>3, <1>4, <1>6
<1>8. QED  BY <1>5, <1>7 DEF two, one

\* An agent's content is remembered once the log names it.
LEMMA HeardEvents ==
  ASSUME CacheAssumption, NEW log \in Seq(AuditLines), NEW e \in CacheEntries, NEW a \in Agents,
         NEW sha \in Shas, Heard(e, log)
  PROVE  Heard([e EXCEPT ![a] = sha], log \o Events(e, a, sha))
<1> DEFINE ev == Events(e, a, sha)
           longer == log \o ev
           f == [e EXCEPT ![a] = sha]
<1>1. ev \in Seq(AuditLines) /\ (ev = <<>> <=> e[a] = sha)  BY EventFacts
<1>2. e[a] # sha => ev[1][2] = a /\ ev[1][3] = sha /\ Len(ev) >= 1
  <2>1. CASE e[a] = "none"
    <3>1. ev = <<<<"phantom", a, sha>>, <<"loaded", a, sha>>>>  BY <2>1, EventFacts
    <3> HIDE DEF ev
    <3>2. QED  BY <3>1
  <2>2. CASE e[a] # "none" /\ e[a] # sha
    <3>1. ev = <<<<"drift", a, sha>>>>  BY <2>2, EventFacts
    <3> HIDE DEF ev
    <3>2. QED  BY <3>1
  <2>3. QED  BY <2>1, <2>2
<1> HIDE DEF ev
<1>3. /\ Len(log) \in Nat /\ Len(ev) \in Nat /\ DOMAIN log = 1 .. Len(log)
      /\ DOMAIN longer = 1 .. Len(log) + Len(ev) /\ \A i \in DOMAIN log : longer[i] = log[i]
      /\ \A i \in 1 .. Len(ev) : longer[Len(log) + i] = ev[i]
  BY <1>1, LongerLog
<1> HIDE DEF longer
<1>4. \A b \in Agents : f[b] = IF b = a THEN sha ELSE e[b]  BY DEF CacheEntries
<1> HIDE DEF f
<1>5. SUFFICES ASSUME NEW b \in Agents, f[b] # "none"
               PROVE  \E i \in DOMAIN longer : longer[i][2] = b /\ longer[i][3] = f[b]
  BY DEF Heard, longer, f, ev
<1>6. CASE b = a /\ e[a] # sha
  <2>1. Len(log) + 1 \in DOMAIN longer /\ longer[Len(log) + 1] = ev[1]  BY <1>2, <1>3, <1>6
  <2>2. QED  BY <1>2, <1>4, <1>6, <2>1
<1>7. CASE ~(b = a /\ e[a] # sha)
  <2>1. f[b] = e[b]  BY <1>4, <1>7
  <2>2. PICK i \in DOMAIN log : log[i][2] = b /\ log[i][3] = e[b]  BY <1>5, <2>1 DEF Heard
  <2>3. i \in DOMAIN longer /\ longer[i] = log[i]  BY <1>3, <2>2
  <2>4. QED  BY <2>1, <2>2, <2>3
<1>8. QED  BY <1>6, <1>7

\* The story of an agent goes on with its events.
LEMMA ToldEvents ==
  ASSUME CacheAssumption, NEW log \in Seq(AuditLines), NEW e \in CacheEntries, NEW a \in Agents,
         NEW sha \in Shas, Told(e, log)
  PROVE  Told([e EXCEPT ![a] = sha], log \o Events(e, a, sha))
<1> DEFINE ev == Events(e, a, sha)
           longer == log \o ev
           f == [e EXCEPT ![a] = sha]
           n == Len(log)
<1>1. ev \in Seq(AuditLines)  BY EventFacts
<1>2. \A i \in 1 .. Len(ev) : ev[i][2] = a
  <2>1. CASE e[a] = "none"
    <3>1. ev = <<<<"phantom", a, sha>>, <<"loaded", a, sha>>>>  BY <2>1, EventFacts
    <3> HIDE DEF ev
    <3>2. QED  BY <3>1
  <2>2. CASE e[a] # "none" /\ e[a] # sha
    <3>1. ev = <<<<"drift", a, sha>>>>  BY <2>2, EventFacts
    <3> HIDE DEF ev
    <3>2. QED  BY <3>1
  <2>3. CASE e[a] = sha
    <3>1. ev = <<>>  BY <2>3, EventFacts
    <3> HIDE DEF ev
    <3>2. QED  BY <3>1
  <2>4. QED  BY <2>1, <2>2, <2>3
<1>3. e[a] = "none" => /\ Len(ev) = 2 /\ ev[1][1] = "phantom" /\ ev[1][3] = sha
                       /\ ev[2][1] = "loaded"
  <2>1. SUFFICES ASSUME e[a] = "none" PROVE Len(ev) = 2 /\ ev[1][1] = "phantom" /\ ev[1][3] = sha /\ ev[2][1] = "loaded"
    OBVIOUS
  <2>2. ev = <<<<"phantom", a, sha>>, <<"loaded", a, sha>>>>  BY <2>1, EventFacts
  <2> HIDE DEF ev
  <2>3. QED  BY <2>2
<1>4. e[a] # "none" /\ e[a] # sha => Len(ev) = 1 /\ ev[1][1] = "drift" /\ ev[1][3] = sha
  <2>1. SUFFICES ASSUME e[a] # "none" /\ e[a] # sha PROVE Len(ev) = 1 /\ ev[1][1] = "drift" /\ ev[1][3] = sha
    OBVIOUS
  <2>2. ev = <<<<"drift", a, sha>>>>  BY <2>1, EventFacts
  <2> HIDE DEF ev
  <2>3. QED  BY <2>2
<1>5. e[a] = sha => Len(ev) = 0
  <2>1. SUFFICES ASSUME e[a] = sha PROVE Len(ev) = 0  OBVIOUS
  <2>2. ev = <<>>  BY <2>1, EventFacts
  <2> HIDE DEF ev
  <2>3. QED  BY <2>2
<1> HIDE DEF ev
<1>6. /\ n \in Nat /\ Len(ev) \in Nat /\ DOMAIN log = 1 .. n
      /\ DOMAIN longer = 1 .. n + Len(ev) /\ \A i \in DOMAIN log : longer[i] = log[i]
      /\ \A i \in 1 .. Len(ev) : longer[n + i] = ev[i]
  BY <1>1, LongerLog
<1> HIDE DEF longer, n
<1>7. \A b \in Agents : f[b] = IF b = a THEN sha ELSE e[b]  BY DEF CacheEntries
<1> HIDE DEF f
<1>8. sha # "none"  BY DEF CacheAssumption
<1>9. \A i \in DOMAIN longer : i \in DOMAIN log \/ (i - n \in 1 .. Len(ev) /\ longer[i] = ev[i - n])
  <2>1. SUFFICES ASSUME NEW i \in DOMAIN longer, i \notin DOMAIN log
                 PROVE  i - n \in 1 .. Len(ev) /\ longer[i] = ev[i - n]
    OBVIOUS
  <2>2. i \in Int /\ i - n \in 1 .. Len(ev) /\ n + (i - n) = i  BY <1>6, <2>1
  <2>3. QED  BY <1>6, <2>2
<1>10. SUFFICES ASSUME NEW b \in Agents PROVE Story(b, f[b], longer)
  BY DEF Told, longer, f, ev
<1>11. Story(b, e[b], log)  BY DEF Told
<1>12. CASE b # a
  <2>1. f[b] = e[b]  BY <1>7, <1>12
  <2>2. \A i \in DOMAIN longer : longer[i][2] = b => i \in DOMAIN log /\ longer[i] = log[i]
    <3>1. SUFFICES ASSUME NEW i \in DOMAIN longer, longer[i][2] = b PROVE i \in DOMAIN log
      BY <1>6
    <3>2. CASE i - n \in 1 .. Len(ev) /\ longer[i] = ev[i - n]  BY <1>2, <1>12, <3>1, <3>2
    <3>3. QED  BY <1>9, <3>2
  <2>3. \A i \in DOMAIN log : i \in DOMAIN longer /\ longer[i] = log[i]  BY <1>6
  <2>4. QED  BY <1>11, <2>1, <2>2, <2>3 DEF Story, Announces
<1>13. CASE b = a /\ e[a] = sha
  <2>1. f[b] = e[b] /\ DOMAIN longer = DOMAIN log  BY <1>5, <1>6, <1>7, <1>13
  <2>2. QED  BY <1>6, <1>11, <2>1 DEF Story, Announces
<1>14. CASE b = a /\ e[a] = "none"
  <2>0. 1 \in 1 .. Len(ev) /\ 2 \in 1 .. Len(ev) /\ Len(ev) = 2
    <3>1. Len(ev) = 2  BY <1>3, <1>14
    <3>2. QED  BY <3>1
  <2>1. \A i \in DOMAIN log : longer[i][2] # a  BY <1>6, <1>11, <1>14 DEF Story
  <2>2. /\ n + 1 \in DOMAIN longer /\ longer[n + 1] = ev[1] /\ longer[n + 2] = ev[2]
        /\ \A i \in DOMAIN longer : i \in DOMAIN log \/ i = n + 1 \/ i = n + 2
    <3>1. DOMAIN longer = 1 .. n + 2 /\ n \in Nat  BY <1>3, <1>6, <1>14
    <3>2. longer[n + 1] = ev[1] /\ longer[n + 2] = ev[2]  BY <1>6, <2>0
    <3>3. QED  BY <1>6, <3>1, <3>2
  <2>3. ev[1][1] = "phantom" /\ ev[1][2] = a /\ ev[1][3] = sha /\ ev[2][1] = "loaded"
    <3>1. ev[1][2] = a  BY <1>2, <2>0
    <3>2. QED  BY <1>3, <1>14, <3>1
  <2>4. \A i \in DOMAIN longer : Announces(longer, i, a) => i = n + 1
    BY <2>1, <2>2, <2>3 DEF Announces
  <2>5. Announces(longer, n + 1, a) /\ longer[n + 1][3] = sha  BY <2>2, <2>3 DEF Announces
  <2>6. \A i \in DOMAIN longer : longer[i][2] = a /\ longer[i][1] = "phantom" => i = n + 1
    BY <2>4 DEF Announces
  <2>7. f[b] = sha /\ n + 1 \in Nat  BY <1>6, <1>7, <1>14
  <2>8. QED  BY <1>8, <1>14, <2>2, <2>4, <2>5, <2>6, <2>7 DEF Story
<1>15. CASE b = a /\ e[a] # "none" /\ e[a] # sha
  <2>1. /\ n + 1 \in DOMAIN longer /\ longer[n + 1] = ev[1]
        /\ \A i \in DOMAIN longer : (i \in DOMAIN log \/ i = n + 1) /\ i <= n + 1
    BY <1>4, <1>6, <1>15
  <2>2. ev[1][1] = "drift" /\ ev[1][2] = a /\ ev[1][3] = sha  BY <1>2, <1>4, <1>15
  <2>3. Announces(longer, n + 1, a) /\ longer[n + 1][3] = sha /\ longer[n + 1][1] # "phantom"
    BY <2>1, <2>2 DEF Announces
  <2>4. \A i \in DOMAIN longer : longer[i][1] = "phantom" => i \in DOMAIN log /\ longer[i] = log[i]
    BY <1>6, <2>1, <2>3
  <2>5. \A i, j \in DOMAIN longer :
           longer[i][2] = a /\ longer[i][1] = "phantom" /\ longer[j][2] = a /\ longer[j][1] = "phantom" => i = j
    BY <1>11, <1>15, <2>4 DEF Story
  <2>6. f[b] = sha  BY <1>7, <1>15
  <2>7. QED  BY <1>8, <1>15, <2>1, <2>3, <2>5, <2>6 DEF Story
<1>16. QED  BY <1>12, <1>13, <1>14, <1>15

\* The cache and what is beside it are well typed.
LEMMA CacheForms ==
  ASSUME NEW e \in CacheEntries
  PROVE  /\ NoEntries \in CacheEntries /\ NoCache \in Caches /\ Half \in Caches
         /\ WholeCache(e) \in Caches /\ WholeCache(e).entries = e /\ WholeCache(e).kind = "whole"
         /\ NoCheck \in Checks /\ NoCheck.pc = "idle" /\ NoCheck.entries = NoEntries
         /\ NoCache.entries = NoEntries /\ NoCache.kind = "none"
         /\ Half.entries = NoEntries /\ Half.kind = "torn"
         /\ \A log : Heard(NoEntries, log)
<1>1. NoEntries \in CacheEntries /\ \A a \in Agents : NoEntries[a] = "none"
  BY DEF NoEntries, CacheEntries
<1> HIDE DEF NoEntries
<1>2. \A log : Heard(NoEntries, log)  BY <1>1 DEF Heard
<1>3. NoCache \in Caches /\ NoCache.entries = NoEntries /\ NoCache.kind = "none"
  BY <1>1 DEF NoCache, Caches
<1>4. Half \in Caches /\ Half.entries = NoEntries /\ Half.kind = "torn"
  BY <1>1 DEF Half, Caches
<1>5. WholeCache(e) \in Caches /\ WholeCache(e).entries = e /\ WholeCache(e).kind = "whole"
  BY DEF WholeCache, Caches
<1>6. NoCheck \in Checks /\ NoCheck.pc = "idle" /\ NoCheck.entries = NoEntries
  BY <1>1 DEF NoCheck, Checks
<1>7. QED  BY <1>1, <1>2, <1>3, <1>4, <1>5, <1>6

\* The initial state keeps the books of the cache.
LEMMA CacheBooksInit ==
  ASSUME CacheAssumption, CacheInit
  PROVE  CacheBooks
<1>1. /\ NoEntries \in CacheEntries /\ NoCache \in Caches /\ NoCheck \in Checks
      /\ NoCheck.pc = "idle" /\ NoCheck.entries = NoEntries
      /\ NoCache.entries = NoEntries /\ NoCache.kind = "none"
      /\ Heard(NoEntries, said)
  <2>1. NoEntries \in CacheEntries  BY DEF NoEntries, CacheEntries
  <2>2. QED  BY <2>1, CacheForms
<1>2. CacheTyped
  <2>1. <<>> \in Seq(AuditLines)  OBVIOUS
  <2>2. QED  BY <1>1, <2>1 DEF CacheInit, CacheTyped, CacheEntries
<1>3. \A p \in Checkers : checker[p] = NoCheck  BY DEF CacheInit
<1>4. HeardBooks  BY <1>1, <1>3 DEF CacheInit, HeardBooks
<1>5. Told(NoEntries, said)
  <2>1. DOMAIN said = {} /\ \A a \in Agents : NoEntries[a] = "none"  BY DEF CacheInit, NoEntries
  <2> HIDE DEF NoEntries
  <2>2. QED  BY <2>1 DEF Told, Story
<1>6. SoloBooks  BY <1>1, <1>3, <1>5 DEF CacheInit, SoloBooks, SoloCheck
<1>7. QED  BY <1>2, <1>4, <1>6 DEF CacheBooks

\* A manifest is edited.
LEMMA EditKeeps ==
  ASSUME CacheAssumption, CacheBooks, NEW a \in Agents, NEW sha \in Shas \union {"none"}, EditManifest(a, sha)
  PROVE  CacheBooks'
<1>1. /\ manifest' = [manifest EXCEPT ![a] = sha]
      /\ UNCHANGED <<known, beside, checker, said, mishaps, mute, sideBySide>>
  BY DEF EditManifest
<1>2. manifest' \in CacheEntries  BY <1>1 DEF CacheBooks, CacheTyped, CacheEntries
<1>3. QED  BY <1>1, <1>2 DEF CacheBooks, CacheTyped, HeardBooks, SoloBooks, SoloCheck

\* One process moves, and finds what the others found.
OnlyMoves(p, c) == checker' \in [Checkers -> Checks] /\ checker'[p] = c /\ \A q \in Checkers \ {p} : checker'[q] = checker[q]

\* A record of the processes is replaced.
LEMMA CheckerSet ==
  ASSUME CacheTyped, NEW p \in Checkers, NEW c \in Checks, checker' = [checker EXCEPT ![p] = c]
  PROVE  OnlyMoves(p, c)
BY DEF CacheTyped, OnlyMoves

\* A check begins with what the cache holds.
LEMMA BeginKeeps ==
  ASSUME CacheAssumption, CacheBooks, NEW p \in Checkers, BeginCheck(p)
  PROVE  CacheBooks'
<1> DEFINE c == [NoCheck EXCEPT !.pc = "check", !.entries = load_cache,
                                !.todo = {a \in Agents : manifest[a] # "none"}]
<1> USE DEF CacheBooks
<1>1. /\ checker[p].pc = "idle" /\ checker' = [checker EXCEPT ![p] = c]
      /\ sideBySide' = (sideBySide \/ \E q \in Checkers \ {p} : checker[q].pc # "idle")
      /\ UNCHANGED <<manifest, known, beside, said, changes, mishaps, mute>>
  BY DEF BeginCheck
<1>2. known.entries \in CacheEntries  BY DEF CacheTyped, Caches
<1>3. c \in Checks /\ c.pc = "check" /\ c.entries = known.entries
  <2>1. NoCheck \in Checks  BY <1>2, CacheForms
  <2>2. {a \in Agents : manifest[a] # "none"} \in SUBSET Agents  OBVIOUS
  <2>3. QED  BY <1>2, <2>1, <2>2 DEF Checks, load_cache
<1> HIDE DEF c
<1>4. OnlyMoves(p, c)  BY <1>1, <1>3, CheckerSet
<1>5. sideBySide' \in BOOLEAN /\ (~sideBySide' => ~sideBySide /\ \A q \in Checkers \ {p} : checker[q].pc = "idle")
  <2>1. sideBySide \in BOOLEAN  BY DEF CacheTyped
  <2>2. CASE \E q \in Checkers \ {p} : checker[q].pc # "idle"
    <3>1. sideBySide' = TRUE  BY <1>1, <2>2
    <3>2. QED  BY <3>1
  <2>3. CASE ~\E q \in Checkers \ {p} : checker[q].pc # "idle"
    <3>1. sideBySide' = sideBySide  BY <1>1, <2>1, <2>3
    <3>2. QED  BY <2>1, <2>3, <3>1
  <2>4. QED  BY <2>2, <2>3
<1>6. CacheTyped'  BY <1>1, <1>4, <1>5 DEF CacheTyped, OnlyMoves
<1>7. HeardBooks'  BY <1>1, <1>3, <1>4 DEF HeardBooks, OnlyMoves
<1>8. SoloBooks'
  <2>1. SUFFICES ASSUME ~sideBySide', mishaps' = 0
                 PROVE  /\ known'.kind # "torn"
                        /\ \A q, r \in Checkers : checker'[q].pc # "idle" /\ checker'[r].pc # "idle" => q = r
                        /\ (\A q \in Checkers : checker'[q].pc = "idle") => Told(known'.entries, said')
                        /\ \A q \in Checkers : SoloCheck(q)'
    BY DEF SoloBooks
  <2>2. ~sideBySide /\ mishaps = 0 /\ \A q \in Checkers : checker[q].pc = "idle"
    BY <1>1, <1>5, <2>1
  <2>3. known.kind # "torn" /\ Told(known.entries, said)  BY <2>2 DEF SoloBooks
  <2>4. \A q \in Checkers \ {p} : checker'[q].pc = "idle"  BY <1>4, <2>2 DEF OnlyMoves
  <2>5. checker'[p] = c  BY <1>4 DEF OnlyMoves
  <2>6. \A q \in Checkers : SoloCheck(q)'  BY <1>1, <1>3, <2>3, <2>4, <2>5 DEF SoloCheck
  <2>7. QED  BY <1>1, <1>3, <2>3, <2>4, <2>5, <2>6
<1>9. QED  BY <1>6, <1>7, <1>8

\* What a process leaves behind that only steps on, or drops its check, in the books of a solo check.
LEMMA SoloStep ==
  ASSUME SoloBooks, NEW p \in Checkers, NEW c \in Checks, OnlyMoves(p, c), checker[p].pc # "idle",
         sideBySide' = sideBySide, mishaps' = 0 => mishaps = 0,
         ~sideBySide /\ mishaps' = 0 =>
            /\ known'.kind # "torn"
            /\ c.pc = "idle" => Told(known'.entries, said')
            /\ SoloCheck(p)'
  PROVE  SoloBooks'
<1>1. SUFFICES ASSUME ~sideBySide, mishaps' = 0
               PROVE  /\ known'.kind # "torn"
                      /\ \A q, r \in Checkers : checker'[q].pc # "idle" /\ checker'[r].pc # "idle" => q = r
                      /\ (\A q \in Checkers : checker'[q].pc = "idle") => Told(known'.entries, said')
                      /\ \A q \in Checkers : SoloCheck(q)'
  BY DEF SoloBooks
<1>2. \A q \in Checkers \ {p} : checker'[q].pc = "idle"
  BY <1>1 DEF SoloBooks, OnlyMoves
<1>3. checker'[p] = c  BY DEF OnlyMoves
<1>4. \A q \in Checkers \ {p} : SoloCheck(q)'  BY <1>2 DEF SoloCheck
<1>5. QED  BY <1>1, <1>2, <1>3, <1>4

\* An agent is looked at: what is new or changed is told before it is remembered.
LEMMA CheckKeeps ==
  ASSUME CacheAssumption, CacheBooks, NEW p \in Checkers, NEW a \in Agents, NEW ok \in BOOLEAN, check_cache(p, a, ok)
  PROVE  CacheBooks'
<1> USE DEF CacheBooks
<1> DEFINE sha == manifest[a]
           e == checker[p].entries
           ev == Events(e, a, sha)
<1>1. /\ checker[p] \in Checks /\ e \in CacheEntries /\ sha \in Shas \union {"none"}
      /\ checker[p].pc = "check" /\ said \in Seq(AuditLines)
  BY DEF CacheTyped, Checks, CacheEntries, check_cache
<1>2. CASE sha = "none"
  <2> DEFINE c == [checker[p] EXCEPT !.todo = @ \ {a}]
  <2>1. /\ checker' = [checker EXCEPT ![p] = c]
        /\ UNCHANGED <<manifest, known, beside, said, mishaps, mute, sideBySide>>
    BY <1>2 DEF check_cache
  <2>2. c \in Checks /\ c.pc = "check" /\ c.entries = e /\ c.changed = checker[p].changed
    BY <1>1 DEF Checks
  <2> HIDE DEF c
  <2>3. OnlyMoves(p, c)  BY <2>1, <2>2, CheckerSet
  <2>4. CacheTyped'  BY <2>1, <2>3 DEF CacheTyped, OnlyMoves
  <2>5. HeardBooks'  BY <2>1, <2>2, <2>3 DEF HeardBooks, OnlyMoves
  <2>6. SoloBooks'
    <3>1. checker'[p] = c  BY <2>3 DEF OnlyMoves
    <3>2. ~sideBySide /\ mishaps' = 0 => known'.kind # "torn" /\ SoloCheck(p)'
      BY <1>1, <2>1, <2>2, <3>1 DEF SoloBooks, SoloCheck
    <3>3. QED  BY <1>1, <2>1, <2>2, <2>3, <3>2, SoloStep
  <2>7. QED  BY <2>4, <2>5, <2>6
<1>3. CASE sha # "none"
  <2> DEFINE c == [checker[p] EXCEPT !.todo = @ \ {a}, !.entries = [e EXCEPT ![a] = sha],
                                     !.changed = @ \/ ev # <<>>]
  <2>1. /\ ~ok => ev # <<>> /\ mishaps < MaxMishaps
        /\ said' = (IF ok THEN said \o ev ELSE said)
        /\ mishaps' = (IF ok THEN mishaps ELSE mishaps + 1) /\ mute' = (mute \/ ~ok)
        /\ UNCHANGED <<manifest, known, beside, sideBySide>>
    BY <1>3 DEF check_cache
  <2>2. checker' = [checker EXCEPT ![p] = c]
    <3>1. checker' = [checker EXCEPT ![p].todo = @ \ {a}, ![p].entries[a] = sha,
                                    ![p].changed = @ \/ ev # <<>>]
      BY <1>3 DEF check_cache
    <3> HIDE DEF ev
    <3>2. QED  BY <3>1
  <2>3. /\ ev \in Seq(AuditLines) /\ [e EXCEPT ![a] = sha] \in CacheEntries /\ (ev = <<>> <=> e[a] = sha)
        /\ sha \in Shas
    BY <1>1, <1>3, EventFacts
  <2>4. /\ c \in Checks /\ c.pc = "check" /\ c.entries = [e EXCEPT ![a] = sha]
        /\ ~c.changed => ~checker[p].changed /\ ev = <<>>
    <3> HIDE DEF ev
    <3>1. checker[p].changed \in BOOLEAN /\ (checker[p].changed \/ ev # <<>>) \in BOOLEAN
      BY <1>1 DEF Checks
    <3>2. c \in Checks /\ c.pc = "check" /\ c.entries = [e EXCEPT ![a] = sha]
      BY <1>1, <2>3, <3>1 DEF Checks
    <3>3. c.changed = (checker[p].changed \/ ev # <<>>)  BY <1>1 DEF Checks
    <3>4. ~c.changed => ~checker[p].changed /\ ev = <<>>  BY <3>3
    <3>5. QED  BY <3>2, <3>4
  <2> HIDE DEF c
  <2>5. OnlyMoves(p, c)  BY <2>2, <2>4, CheckerSet
  <2>6. said' \in Seq(AuditLines)  BY <1>1, <2>1, <2>3, LongerLog
  <2>7. mute' \in BOOLEAN /\ mishaps' \in Nat /\ (~mute' => ~mute /\ ok)
    <3>1. mute \in BOOLEAN /\ mishaps \in Nat  BY DEF CacheTyped
    <3>2. mishaps' \in Nat  BY <2>1, <3>1
    <3>3. CASE ok  BY <2>1, <3>1, <3>2, <3>3
    <3>4. CASE ~ok
      <4>1. mute' = TRUE  BY <2>1, <3>4
      <4>2. QED  BY <3>2, <4>1
    <3>5. QED  BY <3>3, <3>4
  <2>8. CacheTyped'  BY <2>1, <2>5, <2>6, <2>7 DEF CacheTyped, OnlyMoves
  <2>9. HeardBooks'
    <3>1. SUFFICES ASSUME ~mute'
                   PROVE  /\ Heard(known'.entries, said') /\ Heard(beside'.entries, said')
                          /\ \A q \in Checkers : Heard(checker'[q].entries, said')
      BY DEF HeardBooks
    <3>2. ~mute /\ said' = said \o ev  BY <2>1, <2>7, <3>1
    <3>3. Heard(known.entries, said) /\ Heard(beside.entries, said) /\ \A q \in Checkers : Heard(checker[q].entries, said)
      BY <3>2 DEF HeardBooks
    <3>4. known.entries \in CacheEntries /\ beside.entries \in CacheEntries
          /\ \A q \in Checkers : checker[q].entries \in CacheEntries
      BY DEF CacheTyped, Caches, Checks
    <3> HIDE DEF ev
    <3>5. Heard(known'.entries, said') /\ Heard(beside'.entries, said')
      BY <1>1, <2>1, <2>3, <3>2, <3>3, <3>4, HeardLonger
    <3>6. \A q \in Checkers : Heard(checker[q].entries, said')
      BY <1>1, <2>3, <3>2, <3>3, <3>4, HeardLonger
    <3>7. Heard([e EXCEPT ![a] = sha], said')
      BY <1>1, <2>3, <3>2, <3>3, HeardEvents DEF ev
    <3>8. QED  BY <2>4, <2>5, <3>5, <3>6, <3>7 DEF OnlyMoves
  <2>10. SoloBooks'
    <3>1. checker'[p] = c  BY <2>5 DEF OnlyMoves
    <3>2. SUFFICES ASSUME ~sideBySide, mishaps' = 0
                   PROVE  known'.kind # "torn" /\ SoloCheck(p)'
      <4>1. mishaps' = 0 => mishaps = 0  BY <2>1 DEF CacheTyped
      <4>2. c.pc # "idle" /\ sideBySide' = sideBySide  BY <2>1, <2>4
      <4>3. QED  BY <1>1, <2>4, <2>5, <4>1, <4>2, SoloStep
    <3>3. ok /\ mishaps = 0 /\ said' = said \o ev  BY <2>1, <3>2 DEF CacheTyped
    <3>4. Told(e, said) /\ (~checker[p].changed => e = known.entries) /\ known.kind # "torn"
      BY <1>1, <3>2, <3>3 DEF SoloBooks, SoloCheck
    <3>5. Told([e EXCEPT ![a] = sha], said')
      BY <1>1, <2>3, <3>3, <3>4, ToldEvents
    <3>6. ev = <<>> => [e EXCEPT ![a] = sha] = e  BY <1>1, <2>3 DEF CacheEntries
    <3>7. SoloCheck(p)'  BY <2>1, <2>4, <3>1, <3>4, <3>5, <3>6 DEF SoloCheck
    <3>8. QED  BY <2>1, <3>4, <3>7
  <2>11. QED  BY <2>8, <2>9, <2>10
<1>4. QED  BY <1>2, <1>3

\* A check that found nothing new leaves the cache as it is.
LEMMA UnchangedKeeps ==
  ASSUME CacheAssumption, CacheBooks, NEW p \in Checkers, Unchanged(p)
  PROVE  CacheBooks'
<1> USE DEF CacheBooks
<1>1. /\ checker[p].pc = "check" /\ ~checker[p].changed /\ checker' = [checker EXCEPT ![p] = NoCheck]
      /\ UNCHANGED <<manifest, known, beside, said, changes, checks, mishaps, mute, sideBySide>>
  BY DEF Unchanged
<1>2. NoCheck \in Checks /\ NoCheck.pc = "idle" /\ NoCheck.entries = NoEntries /\ Heard(NoEntries, said)
  <2>1. checker[p].entries \in CacheEntries  BY DEF CacheTyped, Checks
  <2>2. QED  BY <2>1, CacheForms
<1>3. OnlyMoves(p, NoCheck)  BY <1>1, <1>2, CheckerSet
<1>4. CacheTyped'  BY <1>1, <1>3 DEF CacheTyped, OnlyMoves
<1>5. HeardBooks'  BY <1>1, <1>2, <1>3 DEF HeardBooks, OnlyMoves
<1>6. SoloBooks'
  <2>1. ~sideBySide /\ mishaps' = 0 => known'.kind # "torn" /\ Told(known'.entries, said') /\ SoloCheck(p)'
    BY <1>1, <1>2, <1>3 DEF SoloBooks, SoloCheck, OnlyMoves
  <2>2. QED  BY <1>1, <1>2, <1>3, <2>1, SoloStep
<1>7. QED  BY <1>4, <1>5, <1>6

\* The file beside is begun.
LEMMA CreatesKeeps ==
  ASSUME CacheAssumption, CacheBooks, NEW p \in Checkers, SaveCreates(p)
  PROVE  CacheBooks'
<1> USE DEF CacheBooks
<1> DEFINE c == [checker[p] EXCEPT !.pc = "fill", !.at = "beside"]
<1>1. /\ checker[p].pc = "check" /\ beside' = Half /\ checker' = [checker EXCEPT ![p] = c]
      /\ UNCHANGED <<manifest, known, said, changes, checks, mishaps, mute, sideBySide>>
  BY DEF SaveCreates
<1>2. c \in Checks /\ c.pc = "fill" /\ c.at = "beside" /\ c.entries = checker[p].entries
      /\ c.entries \in CacheEntries
  BY DEF CacheTyped, Checks
<1> HIDE DEF c
<1>3. Half \in Caches /\ Half.entries = NoEntries /\ Heard(NoEntries, said)  BY <1>2, CacheForms
<1>4. OnlyMoves(p, c)  BY <1>1, <1>2, CheckerSet
<1>5. CacheTyped'  BY <1>1, <1>3, <1>4 DEF CacheTyped, OnlyMoves
<1>6. HeardBooks'  BY <1>1, <1>2, <1>3, <1>4 DEF HeardBooks, OnlyMoves
<1>7. SoloBooks'
  <2>1. checker'[p] = c  BY <1>4 DEF OnlyMoves
  <2>2. ~sideBySide /\ mishaps' = 0 => known'.kind # "torn" /\ SoloCheck(p)'
    BY <1>1, <1>2, <2>1 DEF SoloBooks, SoloCheck
  <2>3. QED  BY <1>1, <1>2, <1>4, <2>2, SoloStep
<1>8. QED  BY <1>5, <1>6, <1>7

\* What bytes over the bytes of another leave: the whole of what is written, or nothing that can be read.
LEMMA OverFacts ==
  ASSUME NEW file, NEW e \in CacheEntries, NEW result \in Over(file, e)
  PROVE  /\ result \in Caches /\ (result.entries = e \/ result.entries = NoEntries)
         /\ file = Half => result = WholeCache(e)
<1>1. result = WholeCache(e) \/ result = Half  BY DEF Over
<1>2. file = Half => result = WholeCache(e)
  <2>1. file = Half => file.kind # "whole"  BY CacheForms
  <2>2. QED  BY <2>1 DEF Over
<1>3. QED  BY <1>1, <1>2, CacheForms

\* The entries are written, wherever the open file is by now.
LEMMA FillsKeeps ==
  ASSUME CacheAssumption, CacheBooks, NEW p \in Checkers, SaveFills(p)
  PROVE  CacheBooks'
<1> USE DEF CacheBooks
<1> DEFINE e == checker[p].entries
           c == [checker[p] EXCEPT !.pc = "rename"]
<1>1. /\ checker[p].pc = "fill" /\ checker' = [checker EXCEPT ![p] = c]
      /\ beside' \in (IF checker[p].at = "beside" THEN Over(beside, e) ELSE {beside})
      /\ known' \in (IF checker[p].at = "known" THEN Over(known, e) ELSE {known})
      /\ UNCHANGED <<manifest, said, changes, checks, mishaps, mute, sideBySide>>
  BY DEF SaveFills
<1>2. c \in Checks /\ c.pc = "rename" /\ c.at = checker[p].at /\ c.entries = e /\ e \in CacheEntries
  BY DEF CacheTyped, Checks
<1> HIDE DEF c
<1>3. OnlyMoves(p, c)  BY <1>1, <1>2, CheckerSet
<1>4. Heard(NoEntries, said)  BY <1>2, CacheForms
<1>5. beside' = beside \/ beside' \in Over(beside, e)  BY <1>1
<1>6. known' = known \/ (checker[p].at = "known" /\ known' \in Over(known, e))  BY <1>1
<1>7. beside' \in Caches /\ (beside' = beside \/ beside'.entries = e \/ beside'.entries = NoEntries)
  BY <1>2, <1>5, OverFacts DEF CacheTyped
<1>8. known' \in Caches /\ (known' = known \/ known'.entries = e \/ known'.entries = NoEntries)
  BY <1>2, <1>6, OverFacts DEF CacheTyped
<1>9. CacheTyped'  BY <1>1, <1>3, <1>7, <1>8 DEF CacheTyped, OnlyMoves
<1>10. HeardBooks'
  <2>1. ~mute' => Heard(e, said') /\ Heard(known.entries, said') /\ Heard(beside.entries, said')
    BY <1>1 DEF HeardBooks
  <2>2. ~mute' => Heard(known'.entries, said') /\ Heard(beside'.entries, said')
    BY <1>1, <1>4, <1>7, <1>8, <2>1
  <2>3. QED  BY <1>1, <1>2, <1>3, <2>1, <2>2 DEF HeardBooks, OnlyMoves
<1>11. SoloBooks'
  <2>1. checker'[p] = c  BY <1>3 DEF OnlyMoves
  <2>2. SUFFICES ASSUME ~sideBySide, mishaps' = 0
                 PROVE  known'.kind # "torn" /\ SoloCheck(p)'
    BY <1>1, <1>2, <1>3, SoloStep
  <2>3. SoloCheck(p) /\ known.kind # "torn"  BY <1>1, <2>2 DEF SoloBooks
  <2>4. checker[p].at = "beside" /\ beside = Half /\ Told(e, said)  BY <1>1, <2>3 DEF SoloCheck
  <2>5. known' = known /\ beside' \in Over(beside, e)  BY <1>1, <2>4
  <2>6. beside' = WholeCache(e)  BY <1>2, <2>4, <2>5, OverFacts
  <2>7. QED  BY <1>1, <1>2, <2>1, <2>3, <2>4, <2>5, <2>6 DEF SoloCheck
<1>12. QED  BY <1>9, <1>10, <1>11

\* Whatever is beside becomes the cache, under the feet of those who have it open.
LEMMA RenamesKeeps ==
  ASSUME CacheAssumption, CacheBooks, NEW p \in Checkers, SaveRenames(p)
  PROVE  CacheBooks'
<1> USE DEF CacheBooks
<1>1. /\ checker[p].pc = "rename" /\ beside' = NoCache
      /\ UNCHANGED <<manifest, said, changes, checks, mishaps, mute, sideBySide>>
  BY DEF SaveRenames
<1>2. checker[p].entries \in CacheEntries  BY DEF CacheTyped, Checks
<1>3. /\ NoCache \in Caches /\ NoCache.entries = NoEntries /\ NoCache.kind = "none" /\ Heard(NoEntries, said)
      /\ NoCheck \in Checks /\ NoCheck.pc = "idle" /\ NoCheck.entries = NoEntries
  BY <1>2, CacheForms
<1>4. /\ checker' \in [Checkers -> Checks] /\ checker'[p] = NoCheck
      /\ \A q \in Checkers \ {p} : checker'[q].pc = checker[q].pc /\ checker'[q].entries = checker[q].entries
  <2>1. CASE beside.kind = "none"
    <3>1. checker' = [checker EXCEPT ![p] = NoCheck]  BY <2>1 DEF SaveRenames
    <3>2. QED  BY <1>3, <3>1 DEF CacheTyped
  <2>2. CASE beside.kind # "none"
    <3> DEFINE moved(q) == [checker[q] EXCEPT !.at = IF @ = "beside" THEN "known" ELSE "lost"]
    <3>1. checker' = [q \in Checkers |-> IF q = p THEN NoCheck ELSE moved(q)]
      BY <2>2 DEF SaveRenames
    <3>2. \A q \in Checkers : moved(q) \in Checks /\ moved(q).pc = checker[q].pc /\ moved(q).entries = checker[q].entries
      BY DEF CacheTyped, Checks
    <3> HIDE DEF moved
    <3>3. QED  BY <1>3, <3>1, <3>2
  <2>3. QED  BY <2>1, <2>2
<1>5. known' = known \/ known' = beside  BY DEF SaveRenames
<1>6. CacheTyped'  BY <1>1, <1>3, <1>4, <1>5 DEF CacheTyped
<1>7. HeardBooks'
  <2>1. ~mute' => Heard(known'.entries, said') /\ Heard(beside'.entries, said')
    BY <1>1, <1>3, <1>5 DEF HeardBooks
  <2>2. ~mute' => \A q \in Checkers : Heard(checker'[q].entries, said')
    BY <1>1, <1>3, <1>4 DEF HeardBooks
  <2>3. QED  BY <2>1, <2>2 DEF HeardBooks
<1>8. SoloBooks'
  <2>1. SUFFICES ASSUME ~sideBySide, mishaps = 0
                 PROVE  /\ known'.kind # "torn" /\ \A q \in Checkers : checker'[q].pc = "idle"
                        /\ Told(known'.entries, said')
    BY <1>1 DEF SoloBooks, SoloCheck
  <2>2. \A q \in Checkers \ {p} : checker[q].pc = "idle"  BY <1>1, <2>1 DEF SoloBooks
  <2>3. beside = WholeCache(checker[p].entries) /\ Told(checker[p].entries, said)
    BY <1>1, <2>1 DEF SoloBooks, SoloCheck
  <2>4. beside.kind = "whole" /\ beside.entries = checker[p].entries  BY <1>2, <2>3, CacheForms
  <2>5. known' = beside  BY <2>4 DEF SaveRenames
  <2>6. QED  BY <1>1, <1>3, <1>4, <2>2, <2>3, <2>4, <2>5
<1>9. QED  BY <1>6, <1>7, <1>8

\* A process dies in the middle of its check.
LEMMA CheckerDiesKeeps ==
  ASSUME CacheAssumption, CacheBooks, NEW p \in Checkers, CheckerDies(p)
  PROVE  CacheBooks'
<1> USE DEF CacheBooks
<1>1. /\ mishaps' = mishaps + 1 /\ checker' = [checker EXCEPT ![p] = NoCheck]
      /\ UNCHANGED <<manifest, known, beside, said, changes, checks, mute, sideBySide>>
  BY DEF CheckerDies
<1>2. NoCheck \in Checks /\ NoCheck.entries = NoEntries /\ Heard(NoEntries, said)
  <2>1. checker[p].entries \in CacheEntries  BY DEF CacheTyped, Checks
  <2>2. QED  BY <2>1, CacheForms
<1>3. OnlyMoves(p, NoCheck)  BY <1>1, <1>2, CheckerSet
<1>4. mishaps' \in Nat /\ mishaps' # 0  BY <1>1 DEF CacheTyped
<1>5. CacheTyped'  BY <1>1, <1>3, <1>4 DEF CacheTyped, OnlyMoves
<1>6. HeardBooks'  BY <1>1, <1>2, <1>3 DEF HeardBooks, OnlyMoves
<1>7. SoloBooks'  BY <1>4 DEF SoloBooks
<1>8. QED  BY <1>5, <1>6, <1>7

\* Every step keeps the books of the cache.
LEMMA CacheBooksKept ==
  ASSUME CacheAssumption, CacheBooks, [CacheNext]_cacheVars
  PROVE  CacheBooks'
<1>1. CASE \E a \in Agents, sha \in Shas \union {"none"} : EditManifest(a, sha)  BY <1>1, EditKeeps
<1>2. CASE \E p \in Checkers : BeginCheck(p)  BY <1>2, BeginKeeps
<1>3. CASE \E p \in Checkers, a \in Agents, ok \in BOOLEAN : check_cache(p, a, ok)  BY <1>3, CheckKeeps
<1>4. CASE \E p \in Checkers : Unchanged(p)  BY <1>4, UnchangedKeeps
<1>5. CASE \E p \in Checkers : SaveCreates(p)  BY <1>5, CreatesKeeps
<1>6. CASE \E p \in Checkers : SaveFills(p)  BY <1>6, FillsKeeps
<1>7. CASE \E p \in Checkers : SaveRenames(p)  BY <1>7, RenamesKeeps
<1>8. CASE \E p \in Checkers : CheckerDies(p)  BY <1>8, CheckerDiesKeeps
<1>9. CASE UNCHANGED cacheVars
  BY <1>9 DEF cacheVars, CacheBooks, CacheTyped, HeardBooks, SoloBooks, SoloCheck
<1>10. QED  BY <1>1, <1>2, <1>3, <1>4, <1>5, <1>6, <1>7, <1>8, <1>9 DEF CacheNext

\* The story's last word is the one that LastSaid finds.
LEMMA LastWord ==
  ASSUME CacheTyped, NEW a \in Agents, NEW v \in Shas, v # "none", Story(a, v, said)
  PROVE  LastSaid(a) = v
<1>1. DOMAIN said \subseteq Nat  BY DEF CacheTyped
<1>2. PICK i \in DOMAIN said : /\ Announces(said, i, a) /\ said[i][3] = v
                               /\ \A j \in DOMAIN said : Announces(said, j, a) => j <= i
  BY DEF Story
<1>3. i \in Announced(a) /\ \A j \in Announced(a) : j <= i  BY <1>2 DEF Announced, Announces
<1>4. \A k \in Announced(a) : (\A j \in Announced(a) : j <= k) => k = i
  BY <1>1, <1>3 DEF Announced
<1>5. (CHOOSE k \in Announced(a) : \A j \in Announced(a) : j <= k) = i  BY <1>3, <1>4
<1>6. QED  BY <1>2, <1>5 DEF LastSaid

\* A set without two different members has one at most.
LEMMA OneAtMost ==
  ASSUME NEW S, \A x, y \in S : x = y
  PROVE  Cardinality(S) <= 1
<1>1. CASE S = {}  BY <1>1, FS_EmptySet
<1>2. CASE S # {}
  <2>1. PICK x \in S : TRUE  BY <1>2
  <2>2. S = {x}  BY <2>1
  <2>3. QED  BY <2>2, FS_Singleton
<1>3. QED  BY <1>1, <1>2

\* The books give the invariant.
LEMMA CacheBooksGive ==
  ASSUME CacheAssumption, CacheBooks
  PROVE  CacheInv
<1> USE DEF CacheBooks
<1>1. known.kind \in {"none", "torn", "whole"} /\ known.entries \in [Agents -> Shas \union {"none"}]
  BY DEF CacheTyped, Caches, CacheEntries
<1>2. NothingIsLearntInSilence  BY DEF NothingIsLearntInSilence, HeardBooks, Heard
<1>3. StoryIsTold
  <2>1. SUFFICES ASSUME ~sideBySide, mishaps = 0
                 PROVE  /\ known.kind # "torn"
                        /\ \A a \in Agents :
                              /\ Cardinality({i \in DOMAIN said : said[i][1] = "phantom" /\ said[i][2] = a}) <= 1
                              /\ known.entries[a] # "none" /\ (\A p \in Checkers : checker[p].pc = "idle")
                                    => LastSaid(a) = known.entries[a]
    BY DEF StoryIsTold
  <2>2. known.kind # "torn"  BY <2>1 DEF SoloBooks
  <2>3. PICK e : Told(e, said)  BY <2>1 DEF SoloBooks, SoloCheck
  <2>4. ASSUME NEW a \in Agents
        PROVE  Cardinality({i \in DOMAIN said : said[i][1] = "phantom" /\ said[i][2] = a}) <= 1
    <3> DEFINE S == {i \in DOMAIN said : said[i][1] = "phantom" /\ said[i][2] = a}
    <3>1. \A i, j \in S : i = j  BY <2>3 DEF Told, Story
    <3> HIDE DEF S
    <3>2. Cardinality(S) <= 1  BY <3>1, OneAtMost
    <3>3. QED  BY <3>2 DEF S
  <2>5. ASSUME NEW a \in Agents, known.entries[a] # "none", \A p \in Checkers : checker[p].pc = "idle"
        PROVE  LastSaid(a) = known.entries[a]
    <3>1. Story(a, known.entries[a], said)  BY <2>1, <2>5 DEF SoloBooks, Told
    <3>2. known.entries[a] \in Shas  BY <1>1, <2>5
    <3>3. QED  BY <2>5, <3>1, <3>2, LastWord
  <2>6. QED  BY <2>2, <2>4, <2>5
<1>4. QED  BY <1>1, <1>2, <1>3 DEF CacheInv

\* For every number of processes, agents, edits and mishaps: no content enters the cache unless the
\* audit log names it, and checks one after the other tell each agent's story (check_cache,
\* ManifestCache::save).
THEOREM CacheSafe == CacheSpec => []CacheInv
<1>1. CacheInit => CacheBooks  BY CacheBooksInit, CacheAssumption
<1>2. CacheBooks /\ [CacheNext]_cacheVars => CacheBooks'  BY CacheBooksKept, CacheAssumption
<1>3. CacheBooks => CacheInv  BY CacheBooksGive, CacheAssumption
<1>4. QED  BY <1>1, <1>2, <1>3, PTL DEF CacheSpec

-----------------------------------------------------------------------------
(* The sweep.                                                              *)

Ages == {Gone} \union Nat
LockFiles == {NoLock} \union [ino : 1 .. MaxInodes, made : Nat]
WindowEntries == {"json", "lock", "tmp"} \X Windows
LogEntries == {"plain", "gz"} \X Days
Pens == [pc : {"idle", "open", "lock", "fill", "rename"}, w : Int, ino : Nat]
Sweeps == [pc : {"off", "logs", "gzip", "windows", "hold", "remove", "unlink"},
           todo : SUBSET ({"plain", "gz", "json", "lock", "tmp"} \X Nat),
           file : {"none", "plain", "gz", "json", "lock", "tmp"} \X Nat, ino : Nat]

RetTyped ==
    /\ date \in Nat /\ json \in [Windows -> Ages] /\ tempfile \in [Windows -> Ages]
    /\ lockfile \in [Windows -> LockFiles]
    /\ flock \in [1 .. MaxInodes -> WindowWriters \union {"free", "sweep"}]
    /\ pen \in [WindowWriters -> Pens]
    /\ plain \in [Days -> Ages] /\ gz \in [Days -> [made : Ages, whole : BOOLEAN]]
    /\ sweep \in Sweeps /\ swept \in Ages /\ misses \in Nat /\ written \subseteq Windows

\* What was written to a window was written once it was open.
WindowBooks(w) ==
    /\ json[w] # Gone => w <= json[w] /\ json[w] <= date
    /\ tempfile[w] # Gone => w <= tempfile[w] /\ tempfile[w] <= date
    /\ lockfile[w] # NoLock => w <= lockfile[w].made /\ lockfile[w].made <= date
    /\ w \in written => w <= date /\ (consulted(w) => json[w] # Gone)

\* A writer past the opening has the lock file at hand of the window it writes, as long as the
\* window is consulted; past the lock it holds it.
PenBooks(p) ==
    /\ pen[p].pc # "idle" => pen[p].w \in Windows /\ pen[p].w <= date
    /\ pen[p].pc \in {"lock", "fill", "rename"} =>
          /\ pen[p].ino \in 1 .. MaxInodes
          /\ consulted(pen[p].w) => pen[p].ino = lockfile[pen[p].w].ino
    /\ pen[p].pc \in {"fill", "rename"} => flock[pen[p].ino] = p

\* The sweep has its hands only on windows that nobody consults.
SweepBooks ==
    /\ sweep.pc # "off" => swept # date
    /\ swept <= date
    /\ sweep.pc \in {"logs", "gzip"} => sweep.todo \subseteq LogEntries
    /\ sweep.pc \in {"windows", "hold", "remove", "unlink"} => sweep.todo \subseteq WindowEntries
    /\ sweep.pc \in {"hold", "remove", "unlink"} =>
          sweep.file \in WindowEntries /\ ~consulted(sweep.file[2])
    /\ sweep.pc = "gzip" =>
          /\ sweep.file \in sweep.todo /\ sweep.file[1] = "plain" /\ plain[sweep.file[2]] # Gone
          /\ gz[sweep.file[2]].made = date

\* A log that is to be read is there in one form or the other.
LogKept(d) ==
    /\ plain[d] # Gone => plain[d] = d /\ d < date
    /\ gz[d].made # Gone => d <= gz[d].made /\ gz[d].made <= date
    /\ d < date /\ date - d <= retention_days => plain[d] # Gone \/ (gz[d].made # Gone /\ gz[d].whole)

\* Today's sweep has been by, or has nothing left to do with it.
Passed(f) == \/ swept = date
             \/ sweep.pc \in {"logs", "gzip"} /\ f \notin sweep.todo
             \/ sweep.pc \in {"windows", "hold", "remove", "unlink"}
Late(f) == IF Passed(f) THEN misses ELSE misses + 1

\* A log is compressed and goes in time, a day later for each sweep that was missed.
LogGoes(d) ==
    /\ plain[d] # Gone => date - d <= compress_after_days + Late(<<"plain", d>>)
    /\ gz[d].made # Gone =>
          /\ gz[d].made - d <= compress_after_days + 1 + misses
          /\ date - d <= compress_after_days + retention_days + 1 + Late(<<"gz", d>>)

RetBooks ==
    /\ RetTyped /\ SweepBooks
    /\ \A w \in Windows : WindowBooks(w)
    /\ \A p \in WindowWriters : PenBooks(p)
    /\ \A d \in Days : LogKept(d) /\ LogGoes(d)

\* The bounds of the model, and the days.
LEMMA RetBounds ==
  ASSUME RetentionAssumption
  PROVE  /\ window_retention_days \in Nat /\ retention_days \in Nat /\ compress_after_days \in Nat
         /\ LastDate \in Nat /\ MaxInodes \in Nat /\ Interval \in Nat
         /\ stale_after \in Nat /\ stale_after <= window_retention_days
         /\ Windows \subseteq Days /\ Days \subseteq Nat
  BY DEF RetentionAssumption, Windows, Days

\* A window that is not consulted will not be again.
LEMMA OnceConsulted ==
  ASSUME RetentionAssumption, date \in Nat, NEW w \in Windows, w <= date, date' = date + 1, consulted(w)'
  PROVE  consulted(w)
  BY RetBounds DEF consulted

\* Counting one more on both sides.
LEMMA OneMore ==
  ASSUME NEW m \in Nat, NEW n \in Nat, n >= m
  PROVE  m + 1 \in Int /\ n + 1 \in Int /\ n + 1 >= m + 1
  OBVIOUS

\* A sweep that has been by has been by still, whatever else is missed.
LEMMA LateGrows ==
  ASSUME NEW f, misses \in Nat, misses' \in Nat, misses' >= misses, Passed(f)' <=> Passed(f)
  PROVE  Late(f)' >= Late(f) /\ Late(f) \in Int /\ Late(f)' \in Int
<1> HIDE DEF Passed
<1>1. CASE Passed(f)
  <2>1. Late(f) = misses /\ Late(f)' = misses'  BY <1>1 DEF Late
  <2>2. QED  BY <2>1
<1>2. CASE ~Passed(f)
  <2>1. Late(f) = misses + 1 /\ Late(f)' = misses' + 1  BY <1>2 DEF Late
  <2>2. misses + 1 \in Int /\ misses' + 1 \in Int /\ misses' + 1 >= misses + 1  BY OneMore
  <2>3. QED  BY <2>1, <2>2
<1>3. QED  BY <1>1, <1>2

\* Nothing that is kept changes in the logs.
LEMMA LogsRest ==
  ASSUME RetentionAssumption, RetBooks, UNCHANGED <<date, plain, gz, sweep, swept>>, misses' \in Nat, misses' >= misses
  PROVE  SweepBooks' /\ \A d \in Days : LogKept(d)' /\ LogGoes(d)'
<1>1. SweepBooks'  BY DEF RetBooks, SweepBooks, consulted
<1>2. ASSUME NEW d \in Days
      PROVE  LogKept(d)' /\ LogGoes(d)'
  <2>1. LogKept(d)'  BY <1>2 DEF RetBooks, LogKept
  <2>2. /\ plain[d] \in Ages /\ gz[d].made \in Ages /\ date \in Nat /\ misses \in Nat /\ d \in Int
        /\ compress_after_days + 1 \in Int /\ compress_after_days + retention_days + 1 \in Int
        /\ compress_after_days \in Int
    BY RetBounds DEF RetBooks, RetTyped
  <2>3. \A f : Late(f)' >= Late(f) /\ Late(f) \in Int /\ Late(f)' \in Int
    BY <2>2, LateGrows DEF Passed
  <2>4. LogGoes(d)  BY DEF RetBooks
  <2> HIDE DEF Late
  <2>5. LogGoes(d)'  BY <2>2, <2>3, <2>4 DEF LogGoes, Ages, Gone
  <2>6. QED  BY <2>1, <2>5
<1>3. QED  BY <1>1, <1>2

\* Nothing changes in the windows.
LEMMA WindowsRest ==
  ASSUME RetBooks, UNCHANGED <<date, json, lockfile, tempfile, flock, pen, written>>
  PROVE  (\A w \in Windows : WindowBooks(w)') /\ (\A p \in WindowWriters : PenBooks(p)')
  BY DEF RetBooks, WindowBooks, PenBooks, consulted

\* The initial state keeps the books.
LEMMA RetBooksInit ==
  ASSUME RetentionAssumption, RetInit
  PROVE  RetBooks
<1> USE RetBounds DEF RetInit
<1>1. RetTyped
  <2>1. NoSweep \in Sweeps /\ NoPen \in Pens  BY DEF NoSweep, NoPen, Sweeps, Pens
  <2>2. [made |-> Gone, whole |-> FALSE] \in [made : Ages, whole : BOOLEAN]  BY DEF Ages
  <2>3. Gone \in Ages /\ NoLock \in LockFiles  BY DEF Ages, LockFiles
  <2>4. QED  BY <2>1, <2>2, <2>3 DEF RetTyped
<1>2. SweepBooks  BY DEF SweepBooks, NoSweep, Gone
<1>3. \A w \in Windows : WindowBooks(w)  BY DEF WindowBooks
<1>4. \A p \in WindowWriters : PenBooks(p)  BY DEF PenBooks, NoPen
<1>5. \A d \in Days : LogKept(d) /\ LogGoes(d)  BY DEF LogKept, LogGoes
<1>6. QED  BY <1>1, <1>2, <1>3, <1>4, <1>5 DEF RetBooks

\* One writer moves.
PenMoves(p, c) == pen' \in [WindowWriters -> Pens] /\ pen'[p] = c /\ \A q \in WindowWriters \ {p} : pen'[q] = pen[q]

\* A writer's record is replaced.
LEMMA PenSet ==
  ASSUME RetTyped, NEW p \in WindowWriters, NEW c \in Pens, pen' = [pen EXCEPT ![p] = c]
  PROVE  PenMoves(p, c)
  BY DEF RetTyped, PenMoves

\* A run picks the window that is current.
LEMMA BeginRunKeeps ==
  ASSUME RetentionAssumption, RetBooks, NEW p \in WindowWriters, BeginRun(p)
  PROVE  RetBooks'
<1> USE DEF RetBooks
<1>1. PICK w \in Windows : consulted(w) /\ pen' = [pen EXCEPT ![p] = [pc |-> "open", w |-> w, ino |-> 0]]
  BY DEF BeginRun
<1>2. UNCHANGED <<date, json, lockfile, tempfile, flock, plain, gz, sweep, swept, misses, written>>
  BY DEF BeginRun, windowFiles, logFiles
<1> DEFINE c == [pc |-> "open", w |-> w, ino |-> 0]
<1>3. w \in Int /\ w <= date /\ c \in Pens /\ c.pc = "open" /\ c.w = w  BY <1>1, RetBounds DEF Pens, consulted
<1> HIDE DEF c
<1>4. PenMoves(p, c)  BY <1>1, <1>3, PenSet DEF c
<1>5. SweepBooks' /\ \A d \in Days : LogKept(d)' /\ LogGoes(d)'  BY <1>2, LogsRest DEF RetTyped
<1>6. \A v \in Windows : WindowBooks(v)'  BY <1>2 DEF WindowBooks, consulted
<1>7. \A q \in WindowWriters : PenBooks(q)'  BY <1>2, <1>3, <1>4 DEF PenBooks, PenMoves, consulted
<1>8. RetTyped'  BY <1>2, <1>4 DEF RetTyped, PenMoves
<1>9. QED  BY <1>5, <1>6, <1>7, <1>8

\* The lock file is opened, a new one while there is none.
LEMMA OpenLockKeeps ==
  ASSUME RetentionAssumption, RetBooks, NEW p \in WindowWriters, OpenLock(p)
  PROVE  RetBooks'
<1> USE DEF RetBooks
<1> DEFINE w == pen[p].w
           c == [pen[p] EXCEPT !.pc = "lock", !.ino = lockfile'[w].ino]
<1>1. /\ pen[p].pc = "open" /\ UNCHANGED <<date, json, tempfile, flock, plain, gz, sweep, swept, misses, written>>
  BY DEF OpenLock, logFiles
<1>2. w \in Windows /\ w <= date /\ date \in Nat /\ w \in Int  BY <1>1, RetBounds DEF PenBooks, RetTyped
<1>3. /\ lockfile' \in [Windows -> LockFiles] /\ lockfile'[w] # NoLock
      /\ \A v \in Windows : lockfile'[v] = lockfile[v] \/ (v = w /\ lockfile[w] = NoLock)
      /\ w <= lockfile'[w].made /\ lockfile'[w].made <= date
  <2>1. CASE lockfile[w] # NoLock
    <3>1. lockfile' = lockfile  BY <2>1 DEF OpenLock
    <3>2. QED  BY <1>2, <2>1, <3>1 DEF WindowBooks, RetTyped
  <2>2. CASE lockfile[w] = NoLock
    <3>1. PICK i \in 1 .. MaxInodes : lockfile' = [lockfile EXCEPT ![w] = [ino |-> i, made |-> date]]
      <4> DEFINE used == {lockfile[v].ino : v \in Windows} \union {pen[q].ino : q \in WindowWriters}
                           \union {sweep.ino}
                 fresh == {i \in 1 .. MaxInodes : i \notin used}
      <4>1. fresh # {} /\ lockfile' = [lockfile EXCEPT ![w] = [ino |-> CHOOSE i \in fresh : TRUE, made |-> date]]
        BY <2>2 DEF OpenLock
      <4> HIDE DEF used
      <4>2. (CHOOSE i \in fresh : TRUE) \in 1 .. MaxInodes  BY <4>1
      <4>3. QED  BY <4>1, <4>2
    <3> DEFINE l == [ino |-> i, made |-> date]
    <3>2. l \in LockFiles /\ l # NoLock /\ l.made = date
      BY <1>2, RetBounds DEF LockFiles, NoLock, Gone
    <3> HIDE DEF l
    <3>3. lockfile' = [lockfile EXCEPT ![w] = l]  BY <3>1 DEF l
    <3>4. QED  BY <1>2, <2>2, <3>2, <3>3 DEF RetTyped
  <2>3. QED  BY <2>1, <2>2
<1>4. lockfile'[w].ino \in 1 .. MaxInodes /\ lockfile'[w].ino \in Nat
  BY <1>2, <1>3, RetBounds DEF LockFiles
<1>5. c \in Pens /\ c.pc = "lock" /\ c.w = w /\ c.ino = lockfile'[w].ino
  BY <1>1, <1>4 DEF RetTyped, Pens
<1>6. pen' = [pen EXCEPT ![p] = c]  BY DEF OpenLock, RetTyped, Pens
<1> HIDE DEF c
<1>7. PenMoves(p, c)  BY <1>5, <1>6, PenSet
<1>8. SweepBooks' /\ \A d \in Days : LogKept(d)' /\ LogGoes(d)'  BY <1>1, LogsRest DEF RetTyped
<1>9. \A v \in Windows : WindowBooks(v)'  BY <1>1, <1>2, <1>3 DEF WindowBooks, consulted
<1>10. \A q \in WindowWriters : PenBooks(q)'
  <2>1. PenBooks(p)'  BY <1>1, <1>2, <1>4, <1>5, <1>7 DEF PenBooks, PenMoves
  <2>2. ASSUME NEW q \in WindowWriters \ {p} PROVE PenBooks(q)'
    <3>1. pen'[q] = pen[q] /\ PenBooks(q)  BY <1>7 DEF PenMoves
    <3>2. pen[q].pc \in {"lock", "fill", "rename"} /\ consulted(pen[q].w) => pen[q].ino = lockfile'[pen[q].w].ino
      <4>1. SUFFICES ASSUME pen[q].pc \in {"lock", "fill", "rename"}, consulted(pen[q].w)
                     PROVE  lockfile'[pen[q].w] = lockfile[pen[q].w]
        BY <3>1 DEF PenBooks
      <4>2. pen[q].w \in Windows /\ lockfile[pen[q].w].ino \in 1 .. MaxInodes
        BY <3>1, <4>1 DEF PenBooks
      <4>3. lockfile[pen[q].w] # NoLock  BY <4>2, RetBounds DEF NoLock
      <4>4. QED  BY <1>3, <4>2, <4>3
    <3>3. QED  BY <1>1, <3>1, <3>2 DEF PenBooks, consulted
  <2>3. QED  BY <2>1, <2>2
<1>11. RetTyped'  BY <1>1, <1>3, <1>7 DEF RetTyped, PenMoves
<1>12. QED  BY <1>8, <1>9, <1>10, <1>11

\* A writer gets the lock of its inode.
LEMMA lock_exclusiveKeeps ==
  ASSUME RetentionAssumption, RetBooks, NEW p \in WindowWriters, lock_exclusive(p)
  PROVE  RetBooks'
<1> USE DEF RetBooks
<1> DEFINE c == [pen[p] EXCEPT !.pc = "fill"]
           i == pen[p].ino
<1>1. /\ pen[p].pc = "lock" /\ flock[i] = "free" /\ flock' = [flock EXCEPT ![i] = p]
      /\ pen' = [pen EXCEPT ![p] = c]
      /\ UNCHANGED <<date, json, lockfile, tempfile, plain, gz, sweep, swept, misses, written>>
  BY DEF lock_exclusive, logFiles
<1>2. c \in Pens /\ c.pc = "fill" /\ c.w = pen[p].w /\ c.ino = i  BY ZenonT(40) DEF RetTyped, Pens
<1> HIDE DEF c
<1>3. PenMoves(p, c)  BY <1>1, <1>2, PenSet
<1>4. PenBooks(p) /\ i \in 1 .. MaxInodes  BY <1>1 DEF PenBooks
<1>5. /\ flock' \in [1 .. MaxInodes -> WindowWriters \union {"free", "sweep"}] /\ flock'[i] = p
      /\ \A j \in 1 .. MaxInodes : j # i => flock'[j] = flock[j]
  BY <1>1, <1>4 DEF RetTyped
<1>6. SweepBooks' /\ \A d \in Days : LogKept(d)' /\ LogGoes(d)'  BY <1>1, LogsRest DEF RetTyped
<1>7. \A v \in Windows : WindowBooks(v)'  BY <1>1 DEF WindowBooks, consulted
<1>8. \A q \in WindowWriters : PenBooks(q)'
  <2>1. PenBooks(p)'  BY <1>1, <1>2, <1>3, <1>4, <1>5 DEF PenBooks, PenMoves, consulted
  <2>2. ASSUME NEW q \in WindowWriters \ {p} PROVE PenBooks(q)'
    <3>1. pen'[q] = pen[q] /\ PenBooks(q)  BY <1>3 DEF PenMoves
    <3>2. pen[q].pc \in {"fill", "rename"} => pen[q].ino # i
      BY <1>1, <3>1 DEF PenBooks, WindowWriters
    <3>3. QED  BY <1>1, <1>5, <3>1, <3>2 DEF PenBooks, consulted
  <2>3. QED  BY <2>1, <2>2
<1>9. RetTyped'  BY <1>1, <1>3, <1>5 DEF RetTyped, PenMoves
<1>10. QED  BY <1>6, <1>7, <1>8, <1>9

\* The temporary file is written today.
LEMMA FillTempKeeps ==
  ASSUME RetentionAssumption, RetBooks, NEW p \in WindowWriters, FillTemp(p)
  PROVE  RetBooks'
<1> USE DEF RetBooks
<1> DEFINE c == [pen[p] EXCEPT !.pc = "rename"]
           w == pen[p].w
<1>1. /\ pen[p].pc = "fill" /\ tempfile' = [tempfile EXCEPT ![w] = date]
      /\ pen' = [pen EXCEPT ![p] = c]
      /\ UNCHANGED <<date, json, lockfile, flock, plain, gz, sweep, swept, misses, written>>
  BY DEF FillTemp, logFiles
<1>2. c \in Pens /\ c.pc = "rename" /\ c.w = w /\ c.ino = pen[p].ino  BY ZenonT(40) DEF RetTyped, Pens
<1> HIDE DEF c
<1>3. PenMoves(p, c)  BY <1>1, <1>2, PenSet
<1>4. w \in Windows /\ w <= date /\ date \in Nat  BY <1>1 DEF PenBooks, RetTyped
<1>5. /\ tempfile' \in [Windows -> Ages] /\ tempfile'[w] = date
      /\ \A v \in Windows : v # w => tempfile'[v] = tempfile[v]
  BY <1>1, <1>4 DEF RetTyped, Ages
<1>6. SweepBooks' /\ \A d \in Days : LogKept(d)' /\ LogGoes(d)'  BY <1>1, LogsRest DEF RetTyped
<1>7. \A v \in Windows : WindowBooks(v)'  BY <1>1, <1>4, <1>5 DEF WindowBooks, consulted
<1>8. \A q \in WindowWriters : PenBooks(q)'  BY <1>1, <1>2, <1>3 DEF PenBooks, PenMoves, consulted
<1>9. RetTyped'  BY <1>1, <1>3, <1>5 DEF RetTyped, PenMoves
<1>10. QED  BY <1>6, <1>7, <1>8, <1>9

\* The temporary file becomes the window, and the lock is free.
LEMMA RenameTempKeeps ==
  ASSUME RetentionAssumption, RetBooks, NEW p \in WindowWriters, RenameTemp(p)
  PROVE  RetBooks'
<1> USE DEF RetBooks
<1> DEFINE w == pen[p].w
           i == pen[p].ino
<1>1. /\ pen[p].pc = "rename"
      /\ json' = [json EXCEPT ![w] = IF tempfile[w] = Gone THEN json[w] ELSE tempfile[w]]
      /\ written' = (IF tempfile[w] = Gone THEN written ELSE written \union {w})
      /\ tempfile' = [tempfile EXCEPT ![w] = Gone] /\ flock' = [flock EXCEPT ![i] = "free"]
      /\ pen' = [pen EXCEPT ![p] = NoPen]
      /\ UNCHANGED <<date, lockfile, plain, gz, sweep, swept, misses>>
  BY DEF RenameTemp, logFiles
<1>2. NoPen \in Pens /\ NoPen.pc = "idle"  BY DEF NoPen, Pens
<1>3. PenMoves(p, NoPen)  BY <1>1, <1>2, PenSet
<1>4. w \in Windows /\ w <= date /\ i \in 1 .. MaxInodes /\ flock[i] = p  BY <1>1 DEF PenBooks
<1>5. /\ json' \in [Windows -> Ages] /\ tempfile' \in [Windows -> Ages] /\ written' \subseteq Windows
      /\ flock' \in [1 .. MaxInodes -> WindowWriters \union {"free", "sweep"}]
  BY <1>1, <1>4 DEF RetTyped, Ages
<1>6. /\ json'[w] = IF tempfile[w] = Gone THEN json[w] ELSE tempfile[w]
      /\ tempfile'[w] = Gone /\ \A v \in Windows : v # w => json'[v] = json[v] /\ tempfile'[v] = tempfile[v]
      /\ \A j \in 1 .. MaxInodes : j # i => flock'[j] = flock[j]
  BY <1>1, <1>4 DEF RetTyped
<1>7. SweepBooks' /\ \A d \in Days : LogKept(d)' /\ LogGoes(d)'  BY <1>1, LogsRest DEF RetTyped
<1>8. \A v \in Windows : WindowBooks(v)'
  <2>1. ASSUME NEW v \in Windows, v # w PROVE WindowBooks(v)'
    <3>1. v \in written' => v \in written  BY <1>1, <2>1
    <3>2. QED  BY <1>1, <1>6, <2>1, <3>1 DEF WindowBooks, consulted
  <2>2. ASSUME NEW v \in Windows, v = w PROVE WindowBooks(v)'
    BY <1>1, <1>4, <1>6, <2>2 DEF WindowBooks, consulted
  <2>3. QED  BY <2>1, <2>2
<1>9. \A q \in WindowWriters : PenBooks(q)'
  <2>1. PenBooks(p)'  BY <1>2, <1>3 DEF PenBooks, PenMoves
  <2>2. ASSUME NEW q \in WindowWriters \ {p} PROVE PenBooks(q)'
    <3>1. pen'[q] = pen[q] /\ PenBooks(q)  BY <1>3 DEF PenMoves
    <3>2. pen[q].pc \in {"fill", "rename"} => pen[q].ino # i  BY <1>4, <3>1 DEF PenBooks
    <3>3. QED  BY <1>1, <1>6, <3>1, <3>2 DEF PenBooks, consulted
  <2>3. QED  BY <2>1, <2>2
<1>10. RetTyped'  BY <1>1, <1>3, <1>5 DEF RetTyped, PenMoves
<1>11. QED  BY <1>7, <1>8, <1>9, <1>10

\* What a process held is free, the rest is held as before.
LEMMA FreedFacts ==
  ASSUME RetTyped, NEW p \in WindowWriters \union {"sweep"}, flock' = Freed(p)
  PROVE  /\ flock' \in [1 .. MaxInodes -> WindowWriters \union {"free", "sweep"}]
         /\ \A i \in 1 .. MaxInodes : flock[i] # p => flock'[i] = flock[i]
  BY DEF RetTyped, Freed

\* A writer is gone, and its lock with it.
LEMMA WriterDiesKeeps ==
  ASSUME RetentionAssumption, RetBooks, NEW p \in WindowWriters, WriterDies(p)
  PROVE  RetBooks'
<1> USE DEF RetBooks
<1>1. /\ misses' = misses + 1 /\ flock' = Freed(p) /\ pen' = [pen EXCEPT ![p] = NoPen]
      /\ UNCHANGED <<date, json, lockfile, tempfile, plain, gz, sweep, swept, written>>
  BY DEF WriterDies, logFiles
<1>2. NoPen \in Pens /\ NoPen.pc = "idle"  BY DEF NoPen, Pens
<1>3. PenMoves(p, NoPen)  BY <1>1, <1>2, PenSet
<1>4. /\ flock' \in [1 .. MaxInodes -> WindowWriters \union {"free", "sweep"}]
      /\ \A i \in 1 .. MaxInodes : flock[i] # p => flock'[i] = flock[i]
  BY <1>1, FreedFacts
<1>5. misses' \in Nat /\ misses' >= misses  BY <1>1 DEF RetTyped
<1>6. SweepBooks' /\ \A d \in Days : LogKept(d)' /\ LogGoes(d)'  BY <1>1, <1>5, LogsRest
<1>7. \A v \in Windows : WindowBooks(v)'  BY <1>1 DEF WindowBooks, consulted
<1>8. \A q \in WindowWriters : PenBooks(q)'
  <2>1. PenBooks(p)'  BY <1>2, <1>3 DEF PenBooks, PenMoves
  <2>2. ASSUME NEW q \in WindowWriters \ {p} PROVE PenBooks(q)'
    <3>1. pen'[q] = pen[q] /\ PenBooks(q)  BY <1>3 DEF PenMoves
    <3>2. QED  BY <1>1, <1>4, <3>1 DEF PenBooks, consulted
  <2>3. QED  BY <2>1, <2>2
<1>9. RetTyped'  BY <1>1, <1>3, <1>4, <1>5 DEF RetTyped, PenMoves
<1>10. QED  BY <1>6, <1>7, <1>8, <1>9

\* The logs of the directory are listed.
LEMMA SweepBeginKeeps ==
  ASSUME RetentionAssumption, RetBooks, SweepBegin
  PROVE  RetBooks'
<1> USE DEF RetBooks
<1> DEFINE list == {<<"plain", d>> : d \in {e \in Days : plain[e] # Gone}}
                     \union {<<"gz", d>> : d \in {e \in Days : gz[e].made # Gone}}
           s == [NoSweep EXCEPT !.pc = "logs", !.todo = list]
<1>1. /\ sweep.pc = "off" /\ swept # date /\ sweep' = s
      /\ UNCHANGED <<date, json, lockfile, tempfile, flock, pen, plain, gz, swept, misses, writes, written>>
  BY DEF SweepBegin, windowFiles, logFiles
<1>2. /\ list \subseteq LogEntries /\ list \subseteq {"plain", "gz", "json", "lock", "tmp"} \X Nat
      /\ \A d \in Days : /\ plain[d] # Gone => <<"plain", d>> \in list
                         /\ gz[d].made # Gone => <<"gz", d>> \in list
  BY RetBounds DEF LogEntries
<1> HIDE DEF list
<1>3. s \in Sweeps /\ s.pc = "logs" /\ s.todo = list  BY <1>2 DEF Sweeps, NoSweep
<1> HIDE DEF s
<1>4. SweepBooks'  BY <1>1, <1>2, <1>3 DEF SweepBooks
<1>5. ASSUME NEW d \in Days PROVE LogKept(d)' /\ LogGoes(d)'
  <2>1. LogKept(d) /\ LogGoes(d)  OBVIOUS
  <2>2. LogKept(d)'  BY <1>1, <2>1 DEF LogKept
  <2>3. /\ plain[d] # Gone => Late(<<"plain", d>>)' = misses + 1 /\ Late(<<"plain", d>>) = misses + 1
        /\ gz[d].made # Gone => Late(<<"gz", d>>)' = misses + 1 /\ Late(<<"gz", d>>) = misses + 1
    BY <1>1, <1>2, <1>3 DEF Late, Passed
  <2>4. LogGoes(d)'  BY <1>1, <2>1, <2>3 DEF LogGoes
  <2>5. QED  BY <2>2, <2>4
<1>6. (\A w \in Windows : WindowBooks(w)') /\ (\A p \in WindowWriters : PenBooks(p)')
  BY <1>1, WindowsRest
<1>7. RetTyped'  BY <1>1, <1>3 DEF RetTyped
<1>8. QED  BY <1>4, <1>5, <1>6, <1>7

\* The sizes that the clauses on a log compare.
LEMMA LogSizes ==
  ASSUME RetentionAssumption, RetTyped, NEW d \in Days
  PROVE  /\ date \in Int /\ misses \in Nat /\ d \in Int /\ plain[d] \in Int /\ gz[d].made \in Int
         /\ compress_after_days \in Int /\ retention_days \in Int
         /\ gz[d] \in [made : Ages, whole : BOOLEAN] /\ Gone \in Int /\ Gone < 0
  BY RetBounds DEF RetTyped, Ages, Gone

\* A log of the list is left, deleted, or begun to be compressed.
LEMMA SweepLogKeeps ==
  ASSUME RetentionAssumption, RetBooks, NEW f \in sweep.todo, SweepLog(f)
  PROVE  RetBooks'
<1> USE DEF RetBooks
<1>1. /\ sweep.pc = "logs" /\ swept # date /\ sweep \in Sweeps /\ sweep.todo \subseteq LogEntries
      /\ UNCHANGED <<date, json, lockfile, tempfile, flock, pen, swept, misses, writes, written>>
  BY DEF SweepLog, SweepBooks, RetTyped, windowFiles
<1>2. PICK k \in {"plain", "gz"}, d \in Days : f = <<k, d>>  BY <1>1 DEF LogEntries
<1> DEFINE mtime == IF k = "gz" THEN gz[d].made ELSE plain[d]
<1>3. f[1] = k /\ f[2] = d  BY <1>2
<1>4. \A e \in Days : LogKept(e) /\ LogGoes(e)  OBVIOUS
<1>5. (\A w \in Windows : WindowBooks(w)') /\ (\A p \in WindowWriters : PenBooks(p)')
  BY <1>1, WindowsRest
<1> DEFINE t == [sweep EXCEPT !.todo = sweep.todo \ {f}]
<1>6. t \in Sweeps /\ t.pc = "logs" /\ t.todo = sweep.todo \ {f}  BY <1>1 DEF Sweeps
<1> HIDE DEF t
<1>7. CASE is_aged_out(mtime, retention_days)
  <2>1. /\ plain' = (IF k = "plain" THEN [plain EXCEPT ![d] = Gone] ELSE plain)
        /\ gz' = (IF k = "gz" THEN [gz EXCEPT ![d] = [made |-> Gone, whole |-> FALSE]] ELSE gz)
        /\ sweep' = t
    BY <1>3, <1>7 DEF SweepLog, t
  <2>2. /\ plain' \in [Days -> Ages] /\ gz' \in [Days -> [made : Ages, whole : BOOLEAN]]
        /\ \A e \in Days : e # d => plain'[e] = plain[e] /\ gz'[e] = gz[e]
        /\ k = "plain" => plain'[d] = Gone /\ gz'[d] = gz[d]
        /\ k = "gz" => plain'[d] = plain[d] /\ gz'[d].made = Gone
    BY <2>1 DEF RetTyped, Ages
  <2>3. SweepBooks'  BY <1>1, <1>6, <2>1 DEF SweepBooks
  <2>4. ASSUME NEW e \in Days PROVE LogKept(e)' /\ LogGoes(e)'
    <3>1. LogKept(e)'
      <4>1. CASE e # d  BY <1>1, <1>4, <2>2, <4>1 DEF LogKept
      <4>2. CASE e = d /\ k = "plain"
        BY <1>1, <1>4, <1>7, <2>2, <4>2, LogSizes DEF LogKept, is_aged_out
      <4>3. CASE e = d /\ k = "gz"
        BY <1>1, <1>4, <1>7, <2>2, <4>3, LogSizes DEF LogKept, is_aged_out
      <4>4. QED  BY <4>1, <4>2, <4>3
    <3>2. \A g : g # f => Late(g)' = Late(g)
      BY <1>1, <1>6, <2>1 DEF Late, Passed
    <3>3. LogGoes(e)'
      <4>1. CASE e # d
        <5>1. <<"plain", e>> # f /\ <<"gz", e>> # f  BY <1>2, <4>1
        <5>2. QED  BY <1>1, <1>4, <2>2, <3>2, <4>1, <5>1 DEF LogGoes
      <4>2. CASE e = d /\ k = "plain"
        <5>1. <<"gz", e>> # f  BY <1>2, <4>2
        <5>2. QED  BY <1>1, <1>4, <2>2, <3>2, <4>2, <5>1 DEF LogGoes
      <4>3. CASE e = d /\ k = "gz"
        <5>1. <<"plain", e>> # f  BY <1>2, <4>3
        <5>2. QED  BY <1>1, <1>4, <2>2, <3>2, <4>3, <5>1 DEF LogGoes
      <4>4. QED  BY <4>1, <4>2, <4>3
    <3>4. QED  BY <3>1, <3>3
  <2>5. RetTyped'  BY <1>1, <1>6, <2>1, <2>2 DEF RetTyped
  <2>6. QED  BY <1>5, <2>3, <2>4, <2>5
<1>8. CASE ~is_aged_out(mtime, retention_days) /\ k = "plain" /\ is_aged_out(mtime, compress_after_days)
  <2> DEFINE s == [sweep EXCEPT !.pc = "gzip", !.file = f]
  <2>1. gz' = [gz EXCEPT ![d] = [made |-> date, whole |-> FALSE]] /\ sweep' = s /\ plain' = plain
    BY <1>3, <1>8 DEF SweepLog
  <2>2. s \in Sweeps /\ s.pc = "gzip" /\ s.todo = sweep.todo /\ s.file = f  BY <1>1 DEF Sweeps
  <2> HIDE DEF s
  <2>3. /\ gz' \in [Days -> [made : Ages, whole : BOOLEAN]] /\ gz'[d].made = date
        /\ \A e \in Days : e # d => gz'[e] = gz[e]
    BY <2>1 DEF RetTyped, Ages
  <2>4. plain[d] # Gone  BY <1>8 DEF is_aged_out
  <2>5. SweepBooks'
    <3>1. f \in sweep.todo /\ f[1] = "plain" /\ plain'[f[2]] # Gone /\ gz'[f[2]].made = date'
      BY <1>1, <1>3, <1>8, <2>1, <2>3, <2>4
    <3>2. QED  BY <1>1, <2>1, <2>2, <3>1 DEF SweepBooks
  <2>6. ASSUME NEW e \in Days PROVE LogKept(e)' /\ LogGoes(e)'
    <3>1. \A g : Late(g)' = Late(g)  BY <1>1, <2>1, <2>2 DEF Late, Passed
    <3>2. CASE e # d
      BY <1>1, <1>4, <2>1, <2>3, <3>1, <3>2 DEF LogKept, LogGoes
    <3>3. CASE e = d
      <4>1. LogKept(d)'  BY <1>1, <1>4, <2>1, <2>3, <2>4, LogSizes DEF LogKept
      <4>2. Late(<<"gz", d>>) \in {misses, misses + 1} /\ Late(<<"plain", d>>) \in {misses, misses + 1}
        BY LogSizes DEF Late
      <4>3. date - d <= compress_after_days + misses + 1
        BY <1>4, <2>4, <4>2, LogSizes DEF LogGoes
      <4>4. date - d <= compress_after_days + retention_days + 1 + Late(<<"gz", d>>)
        BY <4>2, <4>3, LogSizes, RetBounds
      <4>5. gz'[d].made - d <= compress_after_days + 1 + misses'
        BY <1>1, <2>3, <4>3, LogSizes
      <4>6. LogGoes(d)'  BY <1>1, <1>4, <2>1, <3>1, <4>4, <4>5 DEF LogGoes
      <4>7. QED  BY <3>3, <4>1, <4>6
    <3>4. QED  BY <3>2, <3>3
  <2>7. RetTyped'  BY <1>1, <2>1, <2>2, <2>3 DEF RetTyped
  <2>8. QED  BY <1>5, <2>5, <2>6, <2>7
<1>9. CASE ~is_aged_out(mtime, retention_days) /\ ~(k = "plain" /\ is_aged_out(mtime, compress_after_days))
  <2>1. sweep' = t /\ plain' = plain /\ gz' = gz  BY <1>3, <1>9 DEF SweepLog, t, logFiles
  <2>2. SweepBooks'  BY <1>1, <1>6, <2>1 DEF SweepBooks
  <2>3. ASSUME NEW e \in Days PROVE LogKept(e)' /\ LogGoes(e)'
    <3>1. LogKept(e)'  BY <1>1, <1>4, <2>1 DEF LogKept
    <3>2. \A g : g # f => Late(g)' = Late(g)  BY <1>1, <1>6, <2>1 DEF Late, Passed
    <3>3. Late(f)' = misses
      <4>1. Passed(f)' /\ misses' = misses  BY <1>1, <1>6, <2>1 DEF Passed
      <4>2. QED  BY <4>1, LogSizes DEF Late
    <3>4. CASE e # d
      <4>1. <<"plain", e>> # f /\ <<"gz", e>> # f  BY <1>2, <3>4
      <4>2. QED  BY <1>1, <1>4, <2>1, <3>1, <3>2, <4>1 DEF LogGoes
    <3>5. CASE e = d /\ k = "plain"
      <4>1. <<"gz", d>> # f /\ <<"plain", d>> = f  BY <1>2, <3>5
      <4>2. plain[d] # Gone => date - d <= compress_after_days + misses
        BY <1>4, <1>9, <3>5, LogSizes DEF is_aged_out, LogKept
      <4>3. QED  BY <1>1, <1>4, <2>1, <3>1, <3>2, <3>3, <3>5, <4>1, <4>2 DEF LogGoes
    <3>6. CASE e = d /\ k = "gz"
      <4>1. <<"plain", d>> # f /\ <<"gz", d>> = f  BY <1>2, <3>6
      <4>2. gz[d].made # Gone => date - d <= compress_after_days + retention_days + 1 + misses
        <5>1. SUFFICES ASSUME gz[d].made # Gone
                       PROVE  date - d <= compress_after_days + retention_days + 1 + misses
          OBVIOUS
        <5>2. date - gz[d].made <= retention_days  BY <1>9, <3>6, <5>1, LogSizes DEF is_aged_out
        <5>3. gz[d].made - d <= compress_after_days + 1 + misses  BY <1>4, <5>1 DEF LogGoes
        <5>4. QED  BY <5>2, <5>3, LogSizes
      <4>3. QED  BY <1>1, <1>4, <2>1, <3>1, <3>2, <3>3, <3>6, <4>1, <4>2 DEF LogGoes
    <3>7. QED  BY <3>4, <3>5, <3>6
  <2>4. RetTyped'  BY <1>1, <1>6, <2>1 DEF RetTyped
  <2>5. QED  BY <1>5, <2>2, <2>3, <2>4
<1>10. QED  BY <1>7, <1>8, <1>9

\* The log has been compressed and goes, or both stay.
LEMMA gzip_fileKeeps ==
  ASSUME RetentionAssumption, RetBooks, NEW ok \in BOOLEAN, gzip_file(ok)
  PROVE  RetBooks'
<1> USE DEF RetBooks
<1> DEFINE d == sweep.file[2]
           f == sweep.file
           s == [sweep EXCEPT !.pc = "logs", !.todo = sweep.todo \ {f}]
<1>1. /\ sweep.pc = "gzip" /\ swept # date /\ sweep \in Sweeps /\ sweep.todo \subseteq LogEntries
      /\ f \in sweep.todo /\ f[1] = "plain" /\ plain[d] # Gone /\ gz[d].made = date
      /\ plain' = (IF ok THEN [plain EXCEPT ![d] = Gone] ELSE plain)
      /\ gz' = (IF ok THEN [gz EXCEPT ![d].whole = TRUE] ELSE gz)
      /\ misses' = (IF ok THEN misses ELSE misses + 1)
      /\ sweep' = s
      /\ UNCHANGED <<date, json, lockfile, tempfile, flock, pen, swept, writes, written>>
  BY DEF gzip_file, SweepBooks, RetTyped, windowFiles
<1>2. d \in Days /\ f = <<"plain", d>>  BY <1>1 DEF LogEntries
<1>3. s \in Sweeps /\ s.pc = "logs" /\ s.todo = sweep.todo \ {f}  BY <1>1 DEF Sweeps
<1> HIDE DEF s
<1>4. PICK c \in Days : c = d  BY <1>2
<1>5. /\ plain' \in [Days -> Ages] /\ gz' \in [Days -> [made : Ages, whole : BOOLEAN]]
      /\ \A e \in Days : e # c => plain'[e] = plain[e] /\ gz'[e] = gz[e]
      /\ ok => plain'[c] = Gone /\ gz'[c].made = gz[c].made /\ gz'[c].whole = TRUE
      /\ ~ok => plain'[c] = plain[c] /\ gz'[c] = gz[c]
  <2>1. CASE ~ok  BY <1>1, <2>1 DEF RetTyped
  <2>2. CASE ok
    <3> DEFINE z == [gz[c] EXCEPT !.whole = TRUE]
    <3>1. z \in [made : Ages, whole : BOOLEAN] /\ z.made = gz[c].made /\ z.whole = TRUE
      BY LogSizes
    <3>2. gz' = [gz EXCEPT ![c] = z] /\ plain' = [plain EXCEPT ![c] = Gone]  BY <1>1, <1>4, <2>2
    <3> HIDE DEF z
    <3>3. gz' \in [Days -> [made : Ages, whole : BOOLEAN]] /\ gz'[c] = z
          /\ \A e \in Days : e # c => gz'[e] = gz[e]
      BY <3>1, <3>2 DEF RetTyped
    <3>4. plain' \in [Days -> Ages] /\ plain'[c] = Gone /\ \A e \in Days : e # c => plain'[e] = plain[e]
      BY <3>2 DEF RetTyped, Ages
    <3>5. QED  BY <2>2, <3>1, <3>3, <3>4
  <2>3. QED  BY <2>1, <2>2
<1>4a. plain[c] # Gone /\ gz[c].made = date  BY <1>1, <1>4
<1>6. misses' \in Nat /\ misses' \in {misses, misses + 1}  BY <1>1 DEF RetTyped
<1>7. (\A w \in Windows : WindowBooks(w)') /\ (\A p \in WindowWriters : PenBooks(p)')
  BY <1>1, WindowsRest
<1>8. SweepBooks'  BY <1>1, <1>3 DEF SweepBooks
<1>9. ASSUME NEW e \in Days PROVE LogKept(e)' /\ LogGoes(e)'
  <2>1. LogKept(e) /\ LogGoes(e) /\ LogKept(c) /\ LogGoes(c)  OBVIOUS
  <2>2. LogKept(e)'
    <3>1. CASE e # c  BY <1>1, <1>5, <2>1, <3>1 DEF LogKept
    <3>2. CASE e = c /\ ok
      <4>1. plain'[c] = Gone /\ gz'[c].made = date /\ gz'[c].whole = TRUE /\ date' = date
        BY <1>1, <1>5, <1>4a, <3>2
      <4>2. c <= date /\ date # Gone  BY <1>4a, <2>1, LogSizes DEF LogKept, RetTyped
      <4>3. QED  BY <3>2, <4>1, <4>2, LogSizes DEF LogKept
    <3>3. CASE e = c /\ ~ok  BY <1>1, <1>5, <2>1, <3>3 DEF LogKept
    <3>4. QED  BY <3>1, <3>2, <3>3
  <2>3. /\ \A g : g # <<"plain", c>> => Late(g)' = Late(g) + (misses' - misses)
        /\ Late(<<"plain", c>>) = misses + 1 /\ Late(<<"plain", c>>)' = misses'
        /\ \A g : Late(g) \in {misses, misses + 1}
    <3>1. \A g : g # <<"plain", c>> => (Passed(g)' <=> Passed(g))  BY <1>1, <1>2, <1>3, <1>4 DEF Passed
    <3>2. Passed(<<"plain", c>>)' /\ ~Passed(<<"plain", c>>)  BY <1>1, <1>2, <1>3, <1>4 DEF Passed
    <3>3. misses \in Nat /\ misses' \in Nat  BY <1>6, LogSizes
    <3> HIDE DEF Passed
    <3>4. \A g : g # <<"plain", c>> => Late(g)' = Late(g) + (misses' - misses)
      <4> SUFFICES ASSUME NEW g, g # <<"plain", c>> PROVE Late(g)' = Late(g) + (misses' - misses)
        OBVIOUS
      <4>0. misses + (misses' - misses) = misses'
        <5>1. \A a, b \in Nat : a + (b - a) = b  OBVIOUS
        <5>2. QED  BY <3>3, <5>1
      <4>1. CASE Passed(g)
        <5>1. Late(g) = misses  BY <4>1 DEF Late
        <5>2. Late(g)' = misses'  BY <3>1, <4>1 DEF Late
        <5>3. QED  BY <4>0, <5>1, <5>2
      <4>2. CASE ~Passed(g)
        <5>1. Late(g) = misses + 1  BY <4>2 DEF Late
        <5>2. Late(g)' = misses' + 1  BY <3>1, <4>2 DEF Late
        <5>3. QED  BY <3>3, <5>1, <5>2
      <4>3. QED  BY <4>1, <4>2
    <3>5. Late(<<"plain", c>>) = misses + 1 /\ Late(<<"plain", c>>)' = misses'
      BY <3>2, <3>3 DEF Late
    <3>6. \A g : Late(g) \in {misses, misses + 1}  BY <3>3 DEF Late
    <3>7. QED  BY <3>4, <3>5, <3>6
  <2> HIDE DEF Late
  <2>4. LogGoes(e)'
    <3>1. CASE e # c
      <4>1. <<"plain", e>> # <<"plain", c>> /\ <<"gz", e>> # <<"plain", c>>  BY <3>1
      <4>2. /\ Late(<<"plain", e>>)' >= Late(<<"plain", e>>) /\ Late(<<"plain", e>>)' \in Int
            /\ Late(<<"gz", e>>)' >= Late(<<"gz", e>>) /\ Late(<<"gz", e>>)' \in Int
            /\ Late(<<"plain", e>>) \in Int /\ Late(<<"gz", e>>) \in Int
            /\ misses' >= misses /\ misses' \in Int
        BY <1>6, <2>3, <4>1, LogSizes
      <4>3. plain'[e] = plain[e] /\ gz'[e] = gz[e] /\ date' = date  BY <1>1, <1>5, <3>1
      <4>4. QED  BY <2>1, <4>2, <4>3, LogSizes DEF LogGoes
    <3>2. CASE e = c
      <4>1. <<"gz", c>> # <<"plain", c>>  OBVIOUS
      <4>2. gz'[c].made = gz[c].made  BY <1>5
      <4>3. plain'[c] # Gone => misses' = misses + 1 /\ plain[c] # Gone  BY <1>1, <1>5
      <4>4. plain'[c] # Gone => date' - c <= compress_after_days + Late(<<"plain", c>>)'
        <5>1. plain[c] # Gone => date - c <= compress_after_days + (misses + 1)
          BY <2>1, <2>3, <4>1 DEF LogGoes
        <5>2. plain'[c] # Gone => Late(<<"plain", c>>)' = misses + 1  BY <2>3, <4>1, <4>3
        <5>3. QED  BY <1>1, <4>3, <5>1, <5>2
      <4>5. gz'[c].made # Gone =>
              /\ gz'[c].made - c <= compress_after_days + 1 + misses'
              /\ date' - c <= compress_after_days + retention_days + 1 + Late(<<"gz", c>>)'
        BY <1>1, <1>6, <2>1, <2>3, <4>1, <4>2, LogSizes DEF LogGoes
      <4>6. LogGoes(c)'  BY <4>4, <4>5 DEF LogGoes
      <4>7. QED  BY <3>2, <4>6
    <3>3. QED  BY <3>1, <3>2
  <2>5. QED  BY <2>2, <2>4
<1>10. RetTyped'  BY <1>1, <1>3, <1>5, <1>6 DEF RetTyped
<1>11. QED  BY <1>7, <1>8, <1>9, <1>10

WindowPhases == {"windows", "hold", "remove", "unlink"}

\* When today's sweep is done with the logs, the clauses on them hold without the day in hand.
LEMMA PassedRest ==
  ASSUME RetentionAssumption, RetBooks, UNCHANGED <<date, plain, gz, misses>>,
         NEW d \in Days, \A f : Passed(f) /\ Passed(f)'
  PROVE  LogKept(d)' /\ LogGoes(d)'
<1>1. LogKept(d) /\ LogGoes(d) /\ misses \in Nat  BY DEF RetBooks, RetTyped
<1>2. LogKept(d)'  BY <1>1 DEF LogKept
<1>3. \A f : Late(f) = misses /\ Late(f)' = misses
  <2> HIDE DEF Passed
  <2>1. QED  BY <1>1 DEF Late
<1>4. LogGoes(d)'  BY <1>1, <1>3 DEF LogGoes
<1>5. QED  BY <1>2, <1>4

\* The windows are listed, unless they are kept for ever.
LEMMA SweepWindowsKeeps ==
  ASSUME RetentionAssumption, RetBooks, SweepWindows
  PROVE  RetBooks'
<1> USE DEF RetBooks
<1> DEFINE list == {f \in {"json", "lock", "tmp"} \X Windows : Mtime(f) # Gone}
           s == [NoSweep EXCEPT !.pc = "windows", !.todo = list]
<1>1. /\ sweep.pc = "logs" /\ sweep.todo = {} /\ swept # date
      /\ (sweep' = NoSweep /\ swept' = date) \/ (sweep' = s /\ swept' = swept)
      /\ UNCHANGED <<date, json, lockfile, tempfile, flock, pen, plain, gz, misses, writes, written>>
  BY DEF SweepWindows, SweepBooks, windowFiles, logFiles
<1>2. list \subseteq WindowEntries /\ list \subseteq {"plain", "gz", "json", "lock", "tmp"} \X Nat
  BY RetBounds DEF WindowEntries
<1> HIDE DEF list
<1>3. /\ s \in Sweeps /\ s.pc = "windows" /\ s.todo = list
      /\ NoSweep \in Sweeps /\ NoSweep.pc = "off"
  BY <1>2 DEF Sweeps, NoSweep
<1> HIDE DEF s
<1>4. SweepBooks'
  <2>1. date \in Nat /\ swept <= date /\ date' = date  BY <1>1 DEF SweepBooks, RetTyped
  <2>2. QED  BY <1>1, <1>2, <1>3, <2>1 DEF SweepBooks
<1>5. \A f : Passed(f) /\ Passed(f)'  BY <1>1, <1>3 DEF Passed
<1>6. \A d \in Days : LogKept(d)' /\ LogGoes(d)'  BY <1>1, <1>5, PassedRest
<1>7. (\A w \in Windows : WindowBooks(w)') /\ (\A p \in WindowWriters : PenBooks(p)')
  BY <1>1, WindowsRest
<1>8. RetTyped'  BY <1>1, <1>3 DEF RetTyped, Ages
<1>9. QED  BY <1>4, <1>6, <1>7, <1>8

\* What is aged out is a window that is not consulted, or its lock or its temporary file.
LEMMA AgedOutIsStale ==
  ASSUME RetentionAssumption, RetBooks, NEW w \in Windows, NEW k \in {"json", "lock", "tmp"},
         is_aged_out(Mtime(<<k, w>>), window_retention_days)
  PROVE  ~consulted(w)
<1> USE DEF RetBooks
<1>1. /\ date \in Nat /\ w \in Nat /\ window_retention_days \in Nat /\ stale_after \in Nat
      /\ stale_after <= window_retention_days
  BY RetBounds DEF RetTyped
<1>2. WindowBooks(w)  OBVIOUS
<1>3. CASE k = "json"
  <2>1. Mtime(<<k, w>>) = json[w] /\ json[w] \in Ages  BY <1>3 DEF Mtime, RetTyped
  <2>2. QED  BY <1>1, <1>2, <2>1 DEF is_aged_out, WindowBooks, consulted, Ages, Gone
<1>4. CASE k = "lock"
  <2>1. Mtime(<<k, w>>) = lockfile[w].made /\ lockfile[w] \in LockFiles  BY <1>4 DEF Mtime, RetTyped
  <2>2. lockfile[w] # NoLock /\ lockfile[w].made \in Nat
    BY <2>1 DEF is_aged_out, NoLock, LockFiles
  <2>3. QED  BY <1>1, <1>2, <2>1, <2>2 DEF is_aged_out, WindowBooks, consulted
<1>5. CASE k = "tmp"
  <2>1. Mtime(<<k, w>>) = tempfile[w] /\ tempfile[w] \in Ages  BY <1>5 DEF Mtime, RetTyped
  <2>2. QED  BY <1>1, <1>2, <2>1 DEF is_aged_out, WindowBooks, consulted, Ages, Gone
<1>6. QED  BY <1>3, <1>4, <1>5

\* The sweep of windows goes on, and takes no more than what belongs to a window nobody consults.
LEMMA SweepStep ==
  ASSUME RetentionAssumption, RetBooks, sweep.pc \in WindowPhases,
         sweep' \in Sweeps, sweep'.pc \in WindowPhases, sweep'.todo \subseteq WindowEntries,
         sweep'.pc \in {"hold", "remove", "unlink"} => sweep'.file \in WindowEntries /\ ~consulted(sweep'.file[2]),
         UNCHANGED <<date, pen, plain, gz, swept, misses, written>>,
         NEW w \in Windows,
         json' = json \/ (~consulted(w) /\ json' = [json EXCEPT ![w] = Gone]),
         tempfile' = tempfile \/ (~consulted(w) /\ tempfile' = [tempfile EXCEPT ![w] = Gone]),
         lockfile' = lockfile \/ (~consulted(w) /\ lockfile' = [lockfile EXCEPT ![w] = NoLock]),
         flock' \in [1 .. MaxInodes -> WindowWriters \union {"free", "sweep"}],
         \A i \in 1 .. MaxInodes : flock[i] \in WindowWriters => flock'[i] = flock[i]
  PROVE  RetBooks'
<1> USE DEF RetBooks
<1>1. json' \in [Windows -> Ages] /\ tempfile' \in [Windows -> Ages] /\ lockfile' \in [Windows -> LockFiles]
  BY DEF RetTyped, Ages, LockFiles
<1>2. \A v \in Windows : /\ json'[v] = json[v] \/ (~consulted(v) /\ json'[v] = Gone)
                         /\ tempfile'[v] = tempfile[v] \/ tempfile'[v] = Gone
                         /\ lockfile'[v] = lockfile[v] \/ (~consulted(v) /\ lockfile'[v] = NoLock)
  BY DEF RetTyped
<1>3. \A v \in Windows : WindowBooks(v)'  BY <1>2 DEF WindowBooks, consulted
<1>4. \A p \in WindowWriters : PenBooks(p)'
  <2>1. SUFFICES ASSUME NEW p \in WindowWriters PROVE PenBooks(p)'  OBVIOUS
  <2>2. PenBooks(p)  OBVIOUS
  <2>3. pen[p].pc \in {"fill", "rename"} => flock'[pen[p].ino] = p  BY <2>2 DEF PenBooks
  <2>4. pen[p].pc \in {"lock", "fill", "rename"} /\ consulted(pen[p].w) => lockfile'[pen[p].w] = lockfile[pen[p].w]
    BY <1>2, <2>2 DEF PenBooks
  <2>5. QED  BY <2>2, <2>3, <2>4 DEF PenBooks, consulted
<1>5. SweepBooks'  BY DEF SweepBooks, WindowPhases, consulted
<1>6. \A f : Passed(f) /\ Passed(f)'  BY DEF Passed, WindowPhases
<1>7. \A d \in Days : LogKept(d)' /\ LogGoes(d)'  BY <1>6, PassedRest
<1>8. RetTyped'  BY <1>1 DEF RetTyped
<1>9. QED  BY <1>3, <1>4, <1>5, <1>7, <1>8

\* An entry is skipped, or taken up.
LEMMA Skips ==
  ASSUME RetTyped, SweepBooks, sweep.pc \in WindowPhases, NEW f \in WindowEntries, Windows \subseteq Nat
  PROVE  /\ Skip(f) => /\ sweep' \in Sweeps /\ sweep'.pc = "windows" /\ sweep'.todo \subseteq WindowEntries
         /\ \A pc \in WindowPhases : Proceed(f, pc) =>
               /\ sweep' \in Sweeps /\ sweep'.pc = pc /\ sweep'.file = f /\ sweep'.todo \subseteq WindowEntries
<1>1. sweep \in Sweeps /\ sweep.todo \subseteq WindowEntries  BY DEF RetTyped, SweepBooks, WindowPhases
<1>2. f \in {"none", "plain", "gz", "json", "lock", "tmp"} \X Nat  BY DEF WindowEntries
<1>3. ASSUME Skip(f)
      PROVE  sweep' \in Sweeps /\ sweep'.pc = "windows" /\ sweep'.todo \subseteq WindowEntries
  <2> DEFINE rest == sweep.todo \ {f}
  <2>1. sweep' = [sweep EXCEPT !.pc = "windows", !.todo = rest, !.ino = 0]  BY <1>3 DEF Skip
  <2>2. rest \subseteq WindowEntries /\ rest \in SUBSET ({"plain", "gz", "json", "lock", "tmp"} \X Nat)
    BY <1>1 DEF Sweeps
  <2> HIDE DEF rest
  <2>3. QED  BY <1>1, <2>1, <2>2 DEF Sweeps
<1>4. \A pc \in WindowPhases : Proceed(f, pc) =>
               /\ sweep' \in Sweeps /\ sweep'.pc = pc /\ sweep'.file = f /\ sweep'.todo \subseteq WindowEntries
  BY <1>1, <1>2 DEF Proceed, Sweeps, WindowPhases
<1>5. QED  BY <1>3, <1>4

\* An entry is looked at.
LEMMA ExamineKeeps ==
  ASSUME RetentionAssumption, RetBooks, NEW f \in sweep.todo, Examine(f)
  PROVE  RetBooks'
<1> USE DEF RetBooks
<1>1. /\ sweep.pc = "windows" /\ sweep.pc \in WindowPhases
      /\ UNCHANGED <<date, lockfile, flock, pen, plain, gz, swept, misses, writes, written>>
  BY DEF Examine, logFiles, WindowPhases
<1>2. f \in WindowEntries  BY <1>1 DEF SweepBooks
<1>3. PICK k \in {"json", "lock", "tmp"}, w \in Windows : f = <<k, w>>  BY <1>2 DEF WindowEntries
<1>4. f[1] = k /\ f[2] = w /\ Windows \subseteq Nat  BY <1>3, RetBounds
<1>5. is_aged_out(Mtime(f), window_retention_days) => ~consulted(w)  BY <1>3, AgedOutIsStale
<1>6. flock' \in [1 .. MaxInodes -> WindowWriters \union {"free", "sweep"}]
      /\ \A i \in 1 .. MaxInodes : flock'[i] = flock[i]
  BY <1>1 DEF RetTyped
<1>7. \/ Skip(f) /\ json' = json /\ tempfile' = tempfile
      \/ Skip(f) /\ json' = json /\ ~consulted(w) /\ tempfile' = [tempfile EXCEPT ![w] = Gone]
      \/ Skip(f) /\ tempfile' = tempfile /\ ~consulted(w) /\ json' = [json EXCEPT ![w] = Gone]
      \/ Proceed(f, "hold") /\ ~consulted(w) /\ json' = json /\ tempfile' = tempfile
  <2> HIDE DEF RetBooks
  <2>1. CASE ~is_aged_out(Mtime(f), window_retention_days)
    BY <2>1 DEF Examine
  <2>2. CASE is_aged_out(Mtime(f), window_retention_days)
    BY <1>4, <1>5, <2>2 DEF Examine
  <2>3. QED  BY <2>1, <2>2
<1>8. CASE Skip(f)
  <2>1. sweep' \in Sweeps /\ sweep'.pc = "windows" /\ sweep'.todo \subseteq WindowEntries
    BY <1>1, <1>2, <1>4, <1>8, Skips
  <2>2. /\ json' = json \/ (~consulted(w) /\ json' = [json EXCEPT ![w] = Gone])
        /\ tempfile' = tempfile \/ (~consulted(w) /\ tempfile' = [tempfile EXCEPT ![w] = Gone])
    BY <1>7, <1>8
  <2>3. sweep'.pc \in WindowPhases /\ sweep'.pc \notin {"hold", "remove", "unlink"}  BY <2>1 DEF WindowPhases
  <2>4. QED  BY <1>1, <1>6, <2>1, <2>2, <2>3, SweepStep
<1>9. CASE Proceed(f, "hold") /\ ~consulted(w) /\ json' = json /\ tempfile' = tempfile
  <2>1. "hold" \in WindowPhases  BY DEF WindowPhases
  <2>2. sweep' \in Sweeps /\ sweep'.pc = "hold" /\ sweep'.file = f /\ sweep'.todo \subseteq WindowEntries
    BY <1>1, <1>2, <1>4, <1>9, <2>1, Skips
  <2>3. sweep'.file \in WindowEntries /\ ~consulted(sweep'.file[2])  BY <1>2, <1>4, <1>9, <2>2
  <2>4. QED  BY <1>1, <1>6, <1>9, <2>1, <2>2, <2>3, SweepStep
<1>10. QED  BY <1>7, <1>8, <1>9

\* The sweep tries the lock that it found at the window's path.
LEMMA try_holdKeeps ==
  ASSUME RetentionAssumption, RetBooks, try_hold
  PROVE  RetBooks'
<1> USE DEF RetBooks
<1>1. /\ sweep.pc = "hold" /\ sweep.pc \in WindowPhases /\ sweep \in Sweeps
      /\ sweep.todo \subseteq WindowEntries /\ sweep.file \in WindowEntries
      /\ UNCHANGED <<date, json, lockfile, tempfile, pen, plain, gz, swept, misses, writes, written>>
  BY DEF try_hold, SweepBooks, RetTyped, logFiles, WindowPhases
<1>2. PICK k \in {"json", "lock", "tmp"}, w \in Windows : sweep.file = <<k, w>>  BY <1>1 DEF WindowEntries
<1>3. sweep.file[2] = w /\ ~consulted(w) /\ Windows \subseteq Nat  BY <1>1, <1>2, RetBounds DEF SweepBooks
<1>4. CASE lockfile[w] = NoLock \/ flock[lockfile[w].ino] # "free"
  <2>1. Skip(sweep.file) /\ flock' = flock  BY <1>3, <1>4 DEF try_hold
  <2>2. sweep' \in Sweeps /\ sweep'.pc = "windows" /\ sweep'.todo \subseteq WindowEntries
    BY <1>1, <1>3, <2>1, Skips
  <2>3. sweep'.pc \in WindowPhases /\ sweep'.pc \notin {"hold", "remove", "unlink"}  BY <2>2 DEF WindowPhases
  <2>4. flock' \in [1 .. MaxInodes -> WindowWriters \union {"free", "sweep"}]  BY <2>1 DEF RetTyped
  <2>5. QED  BY <1>1, <2>1, <2>2, <2>3, <2>4, SweepStep
<1>5. CASE lockfile[w] # NoLock /\ flock[lockfile[w].ino] = "free"
  <2> DEFINE i == lockfile[w].ino
             s == [sweep EXCEPT !.pc = "remove", !.ino = i]
  <2>1. flock' = [flock EXCEPT ![i] = "sweep"] /\ sweep' = s  BY <1>3, <1>5 DEF try_hold
  <2>2. i \in 1 .. MaxInodes /\ i \in Nat
    <3>1. lockfile[w] \in LockFiles  BY DEF RetTyped
    <3>2. QED  BY <1>5, <3>1, RetBounds DEF LockFiles
  <2>3. /\ flock' \in [1 .. MaxInodes -> WindowWriters \union {"free", "sweep"}]
        /\ \A j \in 1 .. MaxInodes : j # i => flock'[j] = flock[j]
    BY <2>1, <2>2 DEF RetTyped
  <2>4. flock[i] \notin WindowWriters  BY <1>5 DEF WindowWriters
  <2>5. s \in Sweeps /\ s.pc = "remove" /\ s.todo = sweep.todo /\ s.file = sweep.file
    BY <1>1, <2>2 DEF Sweeps
  <2> HIDE DEF i, s
  <2>6. sweep'.file \in WindowEntries /\ ~consulted(sweep'.file[2])  BY <1>1, <1>3, <2>1, <2>5
  <2>7. \A j \in 1 .. MaxInodes : flock[j] \in WindowWriters => flock'[j] = flock[j]  BY <2>3, <2>4
  <2>8. sweep' \in Sweeps /\ sweep'.pc \in WindowPhases /\ sweep'.todo \subseteq WindowEntries
    BY <1>1, <2>1, <2>5 DEF WindowPhases
  <2>9. QED  BY <1>1, <2>3, <2>6, <2>7, <2>8, SweepStep
<1>6. QED  BY <1>4, <1>5

\* The window is removed, or is not, before its lock.
LEMMA RemoveWindowKeeps ==
  ASSUME RetentionAssumption, RetBooks, NEW ok \in BOOLEAN, RemoveWindow(ok)
  PROVE  RetBooks'
<1> USE DEF RetBooks
<1>1. /\ sweep.pc = "remove" /\ sweep.pc \in WindowPhases /\ sweep \in Sweeps
      /\ sweep.todo \subseteq WindowEntries /\ sweep.file \in WindowEntries
      /\ UNCHANGED <<date, lockfile, tempfile, pen, plain, gz, swept, misses, writes, written>>
  BY DEF RemoveWindow, SweepBooks, RetTyped, logFiles, WindowPhases
<1>2. PICK k \in {"json", "lock", "tmp"}, w \in Windows : sweep.file = <<k, w>>  BY <1>1 DEF WindowEntries
<1>3. sweep.file[2] = w /\ ~consulted(w) /\ Windows \subseteq Nat  BY <1>1, <1>2, RetBounds DEF SweepBooks
<1>4. json' = json \/ (~consulted(w) /\ json' = [json EXCEPT ![w] = Gone])  BY <1>3 DEF RemoveWindow
<1>5. (Skip(sweep.file) /\ flock' = Freed("sweep")) \/ (sweep' = [sweep EXCEPT !.pc = "unlink"] /\ flock' = flock)
  BY DEF RemoveWindow
<1>6. CASE Skip(sweep.file) /\ flock' = Freed("sweep")
  <2>1. sweep' \in Sweeps /\ sweep'.pc = "windows" /\ sweep'.todo \subseteq WindowEntries
    BY <1>1, <1>3, <1>6, Skips
  <2>2. sweep'.pc \in WindowPhases /\ sweep'.pc \notin {"hold", "remove", "unlink"}  BY <2>1 DEF WindowPhases
  <2>3. /\ flock' \in [1 .. MaxInodes -> WindowWriters \union {"free", "sweep"}]
        /\ \A i \in 1 .. MaxInodes : flock[i] \in WindowWriters => flock'[i] = flock[i]
    BY <1>6, FreedFacts DEF WindowWriters
  <2>4. QED  BY <1>1, <1>4, <2>1, <2>2, <2>3, SweepStep
<1>7. CASE sweep' = [sweep EXCEPT !.pc = "unlink"] /\ flock' = flock
  <2>1. sweep' \in Sweeps /\ sweep'.pc = "unlink" /\ sweep'.todo = sweep.todo /\ sweep'.file = sweep.file
    BY <1>1, <1>7 DEF Sweeps
  <2>2. sweep'.file \in WindowEntries /\ ~consulted(sweep'.file[2]) /\ sweep'.pc \in WindowPhases
    BY <1>1, <1>3, <2>1 DEF WindowPhases
  <2>3. flock' \in [1 .. MaxInodes -> WindowWriters \union {"free", "sweep"}]  BY <1>7 DEF RetTyped
  <2>4. QED  BY <1>1, <1>4, <1>7, <2>1, <2>2, <2>3, SweepStep
<1>8. QED  BY <1>5, <1>6, <1>7

\* The lock is unlinked, or is not; whoever has the inode open keeps it.
LEMMA UnlinkLockKeeps ==
  ASSUME RetentionAssumption, RetBooks, NEW ok \in BOOLEAN, UnlinkLock(ok)
  PROVE  RetBooks'
<1> USE DEF RetBooks
<1>1. /\ sweep.pc = "unlink" /\ sweep.pc \in WindowPhases /\ sweep.file \in WindowEntries
      /\ flock' = Freed("sweep") /\ Skip(sweep.file)
      /\ UNCHANGED <<date, json, tempfile, pen, plain, gz, swept, misses, writes, written>>
  BY DEF UnlinkLock, SweepBooks, RetTyped, logFiles, WindowPhases
<1>2. PICK k \in {"json", "lock", "tmp"}, w \in Windows : sweep.file = <<k, w>>  BY <1>1 DEF WindowEntries
<1>3. sweep.file[2] = w /\ ~consulted(w) /\ Windows \subseteq Nat  BY <1>1, <1>2, RetBounds DEF SweepBooks
<1>4. lockfile' = lockfile \/ (~consulted(w) /\ lockfile' = [lockfile EXCEPT ![w] = NoLock])
  BY <1>3 DEF UnlinkLock
<1>5. sweep' \in Sweeps /\ sweep'.pc = "windows" /\ sweep'.todo \subseteq WindowEntries
  BY <1>1, <1>3, Skips
<1>6. sweep'.pc \in WindowPhases /\ sweep'.pc \notin {"hold", "remove", "unlink"}  BY <1>5 DEF WindowPhases
<1>7. /\ flock' \in [1 .. MaxInodes -> WindowWriters \union {"free", "sweep"}]
      /\ \A i \in 1 .. MaxInodes : flock[i] \in WindowWriters => flock'[i] = flock[i]
  BY <1>1, FreedFacts DEF WindowWriters
<1>8. QED  BY <1>1, <1>4, <1>5, <1>6, <1>7, SweepStep

\* The sweep of the day is over.
LEMMA SweepEndsKeeps ==
  ASSUME RetentionAssumption, RetBooks, SweepEnds
  PROVE  RetBooks'
<1> USE DEF RetBooks
<1>1. /\ sweep.pc = "windows" /\ sweep' = NoSweep /\ swept' = date
      /\ UNCHANGED <<date, json, lockfile, tempfile, flock, pen, plain, gz, misses, writes, written>>
  BY DEF SweepEnds, windowFiles, logFiles
<1>2. NoSweep \in Sweeps /\ NoSweep.pc = "off"  BY DEF Sweeps, NoSweep
<1>3. date \in Nat /\ date' = date /\ swept' \in Ages  BY <1>1 DEF RetTyped, Ages
<1>4. SweepBooks'  BY <1>1, <1>2, <1>3 DEF SweepBooks
<1>5. \A f : Passed(f) /\ Passed(f)'  BY <1>1 DEF Passed
<1>6. \A d \in Days : LogKept(d)' /\ LogGoes(d)'  BY <1>1, <1>5, PassedRest
<1>7. (\A w \in Windows : WindowBooks(w)') /\ (\A p \in WindowWriters : PenBooks(p)')
  BY <1>1, WindowsRest
<1>8. RetTyped'  BY <1>1, <1>2, <1>3 DEF RetTyped
<1>9. QED  BY <1>4, <1>6, <1>7, <1>8

\* The daemon dies in the sweep, which is then one that was missed.
LEMMA SweepDiesKeeps ==
  ASSUME RetentionAssumption, RetBooks, SweepDies
  PROVE  RetBooks'
<1> USE DEF RetBooks
<1>1. /\ misses' = misses + 1 /\ sweep' = NoSweep /\ flock' = Freed("sweep")
      /\ UNCHANGED <<date, json, lockfile, tempfile, pen, plain, gz, swept, writes, written>>
  BY DEF SweepDies, logFiles
<1>2. NoSweep \in Sweeps /\ NoSweep.pc = "off"  BY DEF Sweeps, NoSweep
<1>3. /\ flock' \in [1 .. MaxInodes -> WindowWriters \union {"free", "sweep"}]
      /\ \A i \in 1 .. MaxInodes : flock[i] \in WindowWriters => flock'[i] = flock[i]
  BY <1>1, FreedFacts DEF WindowWriters
<1>4. misses \in Nat /\ misses' \in Nat  BY <1>1 DEF RetTyped
<1>5. SweepBooks'  BY <1>1, <1>2 DEF SweepBooks
<1>6. \A w \in Windows : WindowBooks(w)'  BY <1>1 DEF WindowBooks, consulted
<1>7. \A p \in WindowWriters : PenBooks(p)'  BY <1>1, <1>3 DEF PenBooks, consulted
<1>8. \A f : Late(f)' >= Late(f) /\ Late(f) \in Int /\ Late(f)' \in Int
  <2>1. \A f : Late(f) \in {misses, misses + 1} /\ Late(f)' \in {misses', misses' + 1}
    <3> HIDE DEF Passed
    <3>1. \A f : Late(f) \in {misses, misses + 1}  BY <1>4 DEF Late
    <3>2. \A f : Late(f)' \in {misses', misses' + 1}
      <4>1. SUFFICES ASSUME NEW f PROVE Late(f)' \in {misses', misses' + 1}  OBVIOUS
      <4>2. QED  BY <1>4 DEF Late
    <3>3. QED  BY <3>1, <3>2
  <2>2. QED  BY <1>1, <1>4, <2>1
<1>9. ASSUME NEW d \in Days PROVE LogKept(d)' /\ LogGoes(d)'
  <2>1. LogKept(d) /\ LogGoes(d)  OBVIOUS
  <2>2. LogKept(d)'  BY <1>1, <2>1 DEF LogKept
  <2>3. /\ Late(<<"plain", d>>)' >= Late(<<"plain", d>>)
        /\ Late(<<"gz", d>>)' >= Late(<<"gz", d>>)
        /\ Late(<<"plain", d>>)' \in Int /\ Late(<<"gz", d>>)' \in Int
        /\ Late(<<"plain", d>>) \in Int /\ Late(<<"gz", d>>) \in Int
    BY <1>8
  <2> HIDE DEF Late
  <2>4. LogGoes(d)'  BY <1>1, <1>4, <2>1, <2>3, LogSizes DEF LogGoes
  <2>5. QED  BY <2>2, <2>4
<1>10. RetTyped'  BY <1>1, <1>2, <1>3, <1>4 DEF RetTyped
<1>11. QED  BY <1>5, <1>6, <1>7, <1>9, <1>10

\* The day ends: its log is rotated, and each log is a day older.
LEMMA DayEndsKeeps ==
  ASSUME RetentionAssumption, RetBooks, DayEnds
  PROVE  RetBooks'
<1> USE DEF RetBooks
<1>1. /\ date < LastDate /\ sweep.pc = "off" /\ date' = date + 1
      /\ \A p \in WindowWriters : pen[p].pc \in {"idle", "open"}
      /\ misses' = (IF swept = date THEN misses ELSE misses + 1)
      /\ plain' = [plain EXCEPT ![date] = date]
      /\ UNCHANGED <<json, lockfile, tempfile, flock, pen, gz, sweep, swept, writes, written>>
  BY DEF DayEnds, windowFiles
<1>2. date \in Nat /\ misses \in Nat /\ misses' \in Nat /\ swept \in Int /\ swept <= date
  BY <1>1 DEF RetTyped, Ages, Gone, SweepBooks
<1>3. date \in Days  BY <1>1, <1>2, RetBounds DEF Days
<1>4. /\ plain' \in [Days -> Ages] /\ plain'[date] = date
      /\ \A d \in Days : d # date => plain'[d] = plain[d]
  BY <1>1, <1>2, <1>3 DEF RetTyped, Ages
<1>5. SweepBooks'  BY <1>1, <1>2 DEF SweepBooks
<1>6. ASSUME NEW w \in Windows PROVE WindowBooks(w)'
  <2>1. WindowBooks(w) /\ w \in Nat  BY RetBounds
  <2>2. json[w] \in Ages /\ tempfile[w] \in Ages /\ lockfile[w] \in LockFiles  BY DEF RetTyped
  <2>3. json[w] # Gone => w <= json[w] /\ json[w] <= date'
    BY <1>1, <1>2, <2>1, <2>2 DEF WindowBooks, Ages
  <2>4. tempfile[w] # Gone => w <= tempfile[w] /\ tempfile[w] <= date'
    BY <1>1, <1>2, <2>1, <2>2 DEF WindowBooks, Ages
  <2>5. lockfile[w] # NoLock => w <= lockfile[w].made /\ lockfile[w].made <= date'
    BY <1>1, <1>2, <2>1, <2>2 DEF WindowBooks, LockFiles
  <2>6. w \in written => w <= date' /\ (consulted(w)' => json[w] # Gone)
    <3>1. SUFFICES ASSUME w \in written PROVE w <= date' /\ (consulted(w)' => json[w] # Gone)  OBVIOUS
    <3>2. w <= date /\ (consulted(w) => json[w] # Gone)  BY <2>1, <3>1 DEF WindowBooks
    <3>3. consulted(w)' => consulted(w)  BY <1>1, <1>2, <3>2, OnceConsulted
    <3>4. QED  BY <1>1, <1>2, <2>1, <3>2, <3>3
  <2>7. QED  BY <1>1, <2>3, <2>4, <2>5, <2>6 DEF WindowBooks
<1>7. ASSUME NEW p \in WindowWriters PROVE PenBooks(p)'
  <2>1. PenBooks(p) /\ pen'[p] = pen[p] /\ pen[p].pc \in {"idle", "open"}  BY <1>1
  <2>2. pen[p] \in Pens  BY DEF RetTyped
  <2>3. pen[p].pc # "idle" => pen[p].w \in Windows /\ pen[p].w <= date'
    BY <1>1, <1>2, <2>1, <2>2 DEF PenBooks, Pens
  <2>4. QED  BY <2>1, <2>3 DEF PenBooks
<1>8. \A f : Late(f)' = Late(f) + 1 /\ Late(f) = misses'
  <2>1. \A f : ~Passed(f)'  BY <1>1, <1>2 DEF Passed
  <2>2. \A f : Passed(f) <=> swept = date  BY <1>1 DEF Passed
  <2> HIDE DEF Passed
  <2>3. \A f : Late(f)' = misses' + 1  BY <2>1 DEF Late
  <2>4. \A f : Late(f) = misses'  BY <1>1, <1>2, <2>2 DEF Late
  <2>5. QED  BY <2>3, <2>4
<1>9. ASSUME NEW d \in Days PROVE LogKept(d)' /\ LogGoes(d)'
  <2>1. LogKept(d) /\ LogGoes(d) /\ gz'[d] = gz[d] /\ misses' >= misses  BY <1>1, <1>2
  <2>2. plain'[d] # Gone => plain'[d] = d /\ d < date'
    <3>1. CASE d = date  BY <1>1, <1>2, <1>4, <3>1
    <3>2. CASE d # date  BY <1>1, <1>2, <1>4, <2>1, <3>2, LogSizes DEF LogKept
    <3>3. QED  BY <3>1, <3>2
  <2>3. gz[d].made # Gone => d <= gz[d].made /\ gz[d].made <= date'
    BY <1>1, <2>1, LogSizes DEF LogKept
  <2>4. d < date' /\ date' - d <= retention_days => plain'[d] # Gone \/ (gz[d].made # Gone /\ gz[d].whole)
    <3>1. CASE d = date  BY <1>2, <1>4, <3>1 DEF Gone
    <3>2. CASE d # date  BY <1>1, <1>2, <1>4, <2>1, <3>2, LogSizes DEF LogKept
    <3>3. QED  BY <3>1, <3>2
  <2>5. LogKept(d)'  BY <2>1, <2>2, <2>3, <2>4 DEF LogKept
  <2>6. /\ Late(<<"plain", d>>)' = Late(<<"plain", d>>) + 1 /\ Late(<<"gz", d>>)' = Late(<<"gz", d>>) + 1
        /\ Late(<<"plain", d>>) = misses' /\ Late(<<"gz", d>>) = misses'
    BY <1>8
  <2> HIDE DEF Late
  <2>7. plain'[d] # Gone => date' - d <= compress_after_days + Late(<<"plain", d>>)'
    <3>1. CASE d = date  BY <1>1, <1>2, <2>6, <3>1, RetBounds
    <3>2. CASE d # date  BY <1>1, <1>2, <1>4, <2>1, <2>6, <3>2, LogSizes DEF LogGoes
    <3>3. QED  BY <3>1, <3>2
  <2>8. gz[d].made # Gone =>
          /\ gz[d].made - d <= compress_after_days + 1 + misses'
          /\ date' - d <= compress_after_days + retention_days + 1 + Late(<<"gz", d>>)'
    BY <1>1, <1>2, <2>1, <2>6, LogSizes DEF LogGoes
  <2>9. LogGoes(d)'  BY <2>1, <2>7, <2>8 DEF LogGoes
  <2>10. QED  BY <2>5, <2>9
<1>10. RetTyped'  BY <1>1, <1>2, <1>4 DEF RetTyped
<1>11. QED  BY <1>5, <1>6, <1>7, <1>9, <1>10

\* No step of a writer, of the sweep or of the calendar breaks the books.
LEMMA RetBooksKept ==
  ASSUME RetentionAssumption, RetBooks, [RetNext]_retVars
  PROVE  RetBooks'
<1>1. ASSUME NEW p \in WindowWriters,
             \/ BeginRun(p) \/ OpenLock(p) \/ lock_exclusive(p) \/ FillTemp(p) \/ RenameTemp(p)
             \/ WriterDies(p)
      PROVE  RetBooks'
  BY <1>1, BeginRunKeeps, OpenLockKeeps, lock_exclusiveKeeps, FillTempKeeps, RenameTempKeeps, WriterDiesKeeps
<1>2. CASE SweepBegin \/ SweepWindows \/ try_hold \/ SweepEnds \/ SweepDies \/ DayEnds
  BY <1>2, SweepBeginKeeps, SweepWindowsKeeps, try_holdKeeps, SweepEndsKeeps, SweepDiesKeeps, DayEndsKeeps
<1>3. ASSUME NEW f \in sweep.todo, SweepLog(f) \/ Examine(f) PROVE RetBooks'
  BY <1>3, SweepLogKeeps, ExamineKeeps
<1>4. ASSUME NEW ok \in BOOLEAN, gzip_file(ok) \/ RemoveWindow(ok) \/ UnlinkLock(ok) PROVE RetBooks'
  BY <1>4, gzip_fileKeeps, RemoveWindowKeeps, UnlinkLockKeeps
<1>5. CASE UNCHANGED retVars
  <2>1. UNCHANGED <<date, json, lockfile, tempfile, flock, pen, plain, gz, sweep, swept, misses, written>>
    BY <1>5 DEF retVars
  <2>2. misses' \in Nat /\ misses' >= misses  BY <2>1 DEF RetBooks, RetTyped
  <2>3. SweepBooks' /\ \A d \in Days : LogKept(d)' /\ LogGoes(d)'  BY <2>1, <2>2, LogsRest
  <2>4. (\A w \in Windows : WindowBooks(w)') /\ (\A p \in WindowWriters : PenBooks(p)')
    BY <2>1, WindowsRest
  <2>5. RetTyped'  BY <2>1 DEF RetBooks, RetTyped
  <2>6. QED  BY <2>3, <2>4, <2>5 DEF RetBooks
<1>6. QED  BY <1>1, <1>2, <1>3, <1>4, <1>5 DEF RetNext

\* What the books say of a window that is consulted, and of a log.
LEMMA RetBooksGive ==
  ASSUME RetentionAssumption, RetBooks
  PROVE  RetentionInv
<1> USE DEF RetBooks
<1>1. ASSUME NEW w \in Windows, consulted(w)
      PROVE  /\ w \in written => json[w] # Gone
             /\ Cardinality({p \in WindowWriters : pen[p].w = w /\ pen[p].pc \in {"fill", "rename"}}) <= 1
  <2> DEFINE past == {p \in WindowWriters : pen[p].w = w /\ pen[p].pc \in {"fill", "rename"}}
  <2>1. w \in written => json[w] # Gone  BY <1>1 DEF WindowBooks
  <2>2. \A p \in past : flock[lockfile[w].ino] = p  BY <1>1 DEF PenBooks
  <2>3. \A p, q \in past : p = q  BY <2>2
  <2> HIDE DEF past
  <2>4. Cardinality(past) <= 1  BY <2>3, OneAtMost
  <2>5. QED  BY <2>1, <2>4 DEF past
<1>2. ConsultedStays  BY <1>1 DEF ConsultedStays
<1>3. ASSUME NEW d \in Days, swept = date, date - d > compress_after_days + retention_days + 1 + misses
      PROVE  plain[d] = Gone /\ gz[d].made = Gone
  <2>0. LogGoes(d)  OBVIOUS
  <2>1. \A f : Late(f) = misses
    <3>1. \A f : Passed(f)  BY <1>3 DEF Passed
    <3> HIDE DEF Passed
    <3>2. QED  BY <3>1, LogSizes DEF Late
  <2>2. /\ plain[d] # Gone => date - d <= compress_after_days + misses
        /\ gz[d].made # Gone => date - d <= compress_after_days + retention_days + 1 + misses
    BY <2>1, <2>0 DEF LogGoes
  <2>3. QED  BY <1>3, <2>2, LogSizes, RetBounds
<1>4. LogsAgeRightly  BY <1>3 DEF LogsAgeRightly, LogKept
<1>5. QED  BY <1>2, <1>4 DEF RetentionInv

\* RetentionSafe: for every calendar, horizon and bound, no sweep takes a window that is still
\* consulted or lets two writers past its lock, a log is there until its horizon and goes at its
\* age (sweep_windows_dir, delete_window, sweep_dir and gzip_file).
THEOREM RetentionSafe == RetSpec => []RetentionInv
<1>1. RetInit => RetBooks  BY RetBooksInit, RetentionAssumption
<1>2. RetBooks /\ [RetNext]_retVars => RetBooks'  BY RetBooksKept, RetentionAssumption
<1>3. RetBooks => RetentionInv  BY RetBooksGive, RetentionAssumption
<1>4. QED  BY <1>1, <1>2, <1>3, PTL DEF RetSpec
=============================================================================
