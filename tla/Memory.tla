------------------------------- MODULE Memory -------------------------------
(***************************************************************************)
(* The memory store: crates/dotagent-memory (lib.rs, record.rs, score.rs),  *)
(* the capture and recall around a turn (dotagent-assistant/src/memo.rs and *)
(* memory_hooks.rs, commands/memory_extract.rs and memory_capture.rs) and   *)
(* the verbs of `dotagent memory'.                                          *)
(*                                                                          *)
(* Names are numbers, those up to LastDay are dates, which sort first.  A   *)
(* text is a sequence of names, each bare or in [[ ]].  Every call opens    *)
(* the outl workspace and writes it as one step; a call that opens it twice *)
(* (supersede, recall_context) is as many steps, and a flush is one per     *)
(* fact.  Scores are in thousandths.                                        *)
(***************************************************************************)
EXTENDS Integers, Sequences, FiniteSets, FiniteSetsExt, SequencesExt

CONSTANTS
    Keepers,                  \* processes and workers that use the store
    Texts,                    \* what may be stated
    TopicSets,                \* the topics that may come with it
    Queries,                  \* sets of terms
    LastDay,
    Recency, Reinforcement,   \* the curves of score.rs, by age in days and by count
    PASS_LIMIT,
    MaxBlock,                 \* max_bytes of the recall block, in names
    MaxStated,                \* bound: facts stated
    MaxCalls,                 \* bound: supersedes, forgets and recalls
    MaxDay                    \* bound: the date

ASSUME MemoryAssumption ==
    /\ \A t \in Texts : t # <<>> /\ t \in Seq([link : BOOLEAN, name : Nat])
    /\ LastDay \in Nat /\ PASS_LIMIT \in Nat /\ MaxBlock \in Nat /\ MaxStated \in Nat
    /\ MaxCalls \in Nat /\ MaxDay \in Nat
    /\ \A a \in 0 .. MaxDay : \A b \in 0 .. a : Recency[a] <= Recency[b] /\ Recency[b] <= 1000
    /\ Reinforcement[1] = 0
    /\ \A a \in 1 .. MaxStated : \A b \in 1 .. a : Reinforcement[b] <= Reinforcement[a]

VARIABLES
    facts,       \* every block ever appended
    pages,       \* topic pages
    keeper,      \* what each process is doing
    today,
    stated,      \* facts stated so far
    calls,
    counted,     \* history: statements of each key that were filed
    crossed      \* history: something was written between the halves of a supersede

memVars == <<facts, pages, keeper, today, stated, calls, counted, crossed>>

-----------------------------------------------------------------------------
(* record.rs.                                                              *)

is_journal_slug(n) == n <= LastDay
Sorted(S) == SetToSortSeq(S, LAMBDA a, b : a < b)

link_dates(t) == [i \in DOMAIN t |-> [t[i] EXCEPT !.link = @ \/ is_journal_slug(t[i].name)]]

\* The statement first, then the topics.
block_text(t, topics) ==
    link_dates(t) \o [i \in 1 .. Cardinality(topics) |-> [link |-> TRUE, name |-> Sorted(topics)[i]]]

\* The links at the end, days excepted, are topics only; any other stays in the sentence too.
split_links(b) ==
    LET Peeled(i) == b[i].link /\ ~is_journal_slug(b[i].name)
        head == CHOOSE k \in 0 .. Len(b) :
                   /\ \A i \in k + 1 .. Len(b) : Peeled(i)
                   /\ k > 0 => ~Peeled(k)
    IN  [text |-> [i \in 1 .. head |-> [link |-> FALSE, name |-> b[i].name]],
         topics |-> {b[i].name : i \in {j \in DOMAIN b : b[j].link}}]

dedup_key(t) == [i \in DOMAIN split_links(t).text |-> split_links(t).text[i].name]

-----------------------------------------------------------------------------
(* lib.rs.                                                                 *)

is_superseded(f) == f.by # 0
Live(fs) == {i \in DOMAIN fs : ~fs[i].gone /\ ~is_superseded(fs[i])}

\* The live facts that say the same; an empty key finds none.
find_by_key(fs, key) ==
    IF key = <<>> THEN {}
    ELSE {i \in Live(fs) : dedup_key(split_links(fs[i].block).text) = key}

reinforce(f, topics) ==
    LET m == split_links(f.block)
    IN  [f EXCEPT !.seen = @ + 1,
                  !.block = IF topics \subseteq m.topics THEN @
                            ELSE block_text(m.text, m.topics \union topics)]

\* remember_with: the facts afterwards, which of them it is, and the topics that need pages.
remember_with(fs, t, topics) ==
    LET same == find_by_key(fs, dedup_key(t))
        i == Min(same)
        new == [block |-> block_text(t, topics), seen |-> 1, by |-> 0, gone |-> FALSE,
                date |-> today, said |-> dedup_key(t)]
        had == split_links(fs[i].block).topics
    IN  IF same # {} THEN [facts |-> [fs EXCEPT ![i] = reinforce(@, topics)], id |-> i,
                           topics |-> IF topics \subseteq had THEN {} ELSE had \union topics]
        ELSE [facts |-> Append(fs, new), id |-> Len(fs) + 1, topics |-> topics]

\* ensure_topic_pages: days have journals.
ensure_topic_pages(topics) == pages' = pages \union {n \in topics : ~is_journal_slug(n)}

NoCall == [pc |-> "idle", todo |-> <<>>, old |-> 0, fresh |-> 0, query |-> {}, entries |-> <<>>]
Busy(p) == keeper[p].pc = "mark"
Memo(t, topics) == [text |-> t, topics |-> topics]

\* What is filed counts for its key.
Counts(t) == [k \in DOMAIN counted \union {dedup_key(t)} |->
                (IF k \in DOMAIN counted THEN counted[k] ELSE 0)
                    + (IF k = dedup_key(t) THEN 1 ELSE 0)]

Crossing(p) == crossed' = (crossed \/ \E q \in Keepers \ {p} : Busy(q))

MemInit ==
    /\ facts = <<>> /\ pages = {} /\ today = 0 /\ stated = 0 /\ calls = 0
    /\ counted = <<>> /\ crossed = FALSE
    /\ keeper = [p \in Keepers |-> NoCall]

\* extract (memory_extract.rs): an extractor that does not start, finish or succeed kept nothing.
extract(kept) == {<<>>, kept}

\* merge: what the model volunteered, and what the extractor adds to it.
merge(volunteered, extracted) ==
    FoldLeft(LAMBDA out, m : IF \E i \in DOMAIN out : dedup_key(out[i].text) = dedup_key(m.text)
                             THEN out ELSE Append(out, m),
             volunteered, extracted)

\* Memos to file, by one process.
Files(p, memos) ==
    /\ keeper[p].pc = "idle" /\ stated < MaxStated /\ memos # <<>>
    /\ stated + Len(memos) <= MaxStated
    /\ stated' = stated + Len(memos)
    /\ keeper' = [keeper EXCEPT ![p] = [NoCall EXCEPT !.pc = "flush", !.todo = memos]]
    /\ UNCHANGED <<facts, pages, today, calls, counted, crossed>>

\* A turn of the assistant: the reply is on its way when the extractor is asked.
assistant_finalize(p, volunteered, extracted) == Files(p, merge(volunteered, extracted))

add_topics(memos, own) == [i \in DOMAIN memos |-> [memos[i] EXCEPT !.topics = @ \union own]]

\* A scheduled run that succeeded, `dotagent run', or `dotagent memory remember': the topics of the
\* manifest go on everything.
capture(p, volunteered, extracted, own) ==
    Files(p, merge(add_topics(volunteered, own), add_topics(extracted, own)))

\* flush_memos: one that cannot be written is skipped.
flush_memos(p, ok) ==
    LET m == Head(keeper[p].todo)
        r == remember_with(facts, m.text, m.topics)
    IN  /\ keeper[p].pc = "flush"
        /\ IF ok THEN /\ facts' = r.facts /\ ensure_topic_pages(r.topics)
                      /\ counted' = Counts(m.text) /\ Crossing(p)
           ELSE UNCHANGED <<facts, pages, counted, crossed>>
        /\ keeper' = [keeper EXCEPT ![p] = IF Len(@.todo) = 1 THEN NoCall
                                           ELSE [@ EXCEPT !.todo = Tail(@)]]
        /\ UNCHANGED <<today, stated, calls>>

\* Mutant: the old fact is retired although the new one is the same.
supersede_itself(p, old, m) ==
    LET r == remember_with(facts, m.text, m.topics)
    IN  /\ keeper[p].pc = "idle" /\ stated < MaxStated /\ calls < MaxCalls
        /\ stated' = stated + 1 /\ calls' = calls + 1
        /\ facts' = r.facts /\ ensure_topic_pages(r.topics) /\ counted' = Counts(m.text)
        /\ Crossing(p)
        /\ keeper' = [keeper EXCEPT ![p] = [NoCall EXCEPT !.pc = "mark", !.old = old, !.fresh = r.id]]
        /\ UNCHANGED today

\* supersede: the replacement first, so that a failure leaves the old fact current.
supersede(p, old, m) ==
    LET r == remember_with(facts, m.text, m.topics)
    IN  /\ keeper[p].pc = "idle" /\ stated < MaxStated /\ calls < MaxCalls
        /\ stated' = stated + 1 /\ calls' = calls + 1
        /\ facts' = r.facts /\ ensure_topic_pages(r.topics) /\ counted' = Counts(m.text)
        /\ Crossing(p)
        /\ keeper' = [keeper EXCEPT ![p] = IF r.id = old THEN NoCall
                                           ELSE [NoCall EXCEPT !.pc = "mark", !.old = old,
                                                               !.fresh = r.id]]
        /\ UNCHANGED today

\* The second half, in a workspace opened again; it may fail, or find the old fact gone.
MarkSuperseded(p, ok) ==
    /\ keeper[p].pc = "mark"
    /\ keeper' = [keeper EXCEPT ![p] = NoCall]
    /\ facts' = IF ok /\ ~facts[keeper[p].old].gone
                THEN [facts EXCEPT ![keeper[p].old].by = keeper[p].fresh] ELSE facts
    /\ Crossing(p)
    /\ UNCHANGED <<pages, today, stated, calls, counted>>

forget(p, id) ==
    /\ keeper[p].pc = "idle" /\ calls < MaxCalls /\ ~facts[id].gone
    /\ calls' = calls + 1
    /\ facts' = [facts EXCEPT ![id].gone = TRUE]
    /\ Crossing(p)
    /\ UNCHANGED <<pages, keeper, today, stated, counted>>

NextDay ==
    /\ today < MaxDay
    /\ today' = today + 1
    /\ UNCHANGED <<facts, pages, keeper, stated, calls, counted, crossed>>

-----------------------------------------------------------------------------
(* Recall.                                                                 *)

age_days(f) == today - f.date
baseline(f) == Recency[age_days(f)] + Reinforcement[f.seen]

\* score: per term one point, and half a point more where it is a topic; at most one and a half.
score(query, f) ==
    LET m == split_links(f.block)
        body == {m.text[i].name : i \in DOMAIN m.text}
        halves == 2 * Cardinality(query \intersect (body \union m.topics))
                    + Cardinality(query \intersect m.topics)
        ratio == Min({(3000 * halves) \div (2 * Cardinality(query)), 4500})
    IN  IF halves = 0 THEN 0 ELSE ratio + baseline(f)

\* sort_by_score, and the first PASS_LIMIT; what ties on all is left in its order.
Ranked(ids, S(_)) ==
    LET before(a, b) == \/ S(a) > S(b)
                        \/ S(a) = S(b) /\ facts[a].date > facts[b].date
                        \/ S(a) = S(b) /\ facts[a].date = facts[b].date /\ a < b
        all == SetToSortSeq(ids, before)
    IN  SubSeq(all, 1, Min({Len(all), PASS_LIMIT}))

recall(query) ==
    LET S(i) == score(query, facts[i])
    IN  Ranked({i \in Live(facts) : S(i) > 0}, S)

recent == LET S(i) == baseline(facts[i]) IN Ranked(Live(facts), S)

\* With it, for the record, whether it was current then.
Entry(i) == [text |-> split_links(facts[i].block).text, pass |-> "recent",
             current |-> i \in Live(facts)]

\* recall_context: the relevance pass ...
recall_context(p, query) ==
    LET hits == recall(query)
    IN  /\ keeper[p].pc = "idle" /\ calls < MaxCalls
        /\ calls' = calls + 1
        /\ keeper' = [keeper EXCEPT ![p] = [NoCall EXCEPT !.pc = "recent", !.query = query,
                        !.entries = [i \in DOMAIN hits |-> [Entry(hits[i]) EXCEPT !.pass = "relevant"]]]]
        /\ UNCHANGED <<facts, pages, today, stated, counted, crossed>>

\* Facts are whole: the first that does not fit ends the block.
assemble_context_block(entries) ==
    LET Size(n) == FoldLeft(LAMBDA acc, e : acc + 1 + Len(e.text), 1, SubSeq(entries, 1, n))
        n == CHOOSE n \in 0 .. Len(entries) :
                /\ \A k \in 1 .. n : Size(k) <= MaxBlock
                /\ n < Len(entries) => Size(n + 1) > MaxBlock
    IN  SubSeq(entries, 1, n)

\* ... and, in a workspace opened again, the recent one for what is not there yet.
RecentPass(p) ==
    LET had == keeper[p].entries
        more == SelectSeq([i \in DOMAIN recent |-> Entry(recent[i])],
                          LAMBDA e : \A i \in DOMAIN had : had[i].text # e.text)
    IN  /\ keeper[p].pc = "recent"
        /\ keeper' = [keeper EXCEPT ![p].pc = "block",
                                    ![p].entries = assemble_context_block(had \o more)]
        /\ UNCHANGED <<facts, pages, today, stated, calls, counted, crossed>>

UseBlock(p) ==
    /\ keeper[p].pc = "block"
    /\ keeper' = [keeper EXCEPT ![p] = NoCall]
    /\ UNCHANGED <<facts, pages, today, stated, calls, counted, crossed>>

MemNext ==
    \/ \E p \in Keepers :
          \/ \E ext \in UNION {extract(<<Memo(t, {})>>) : t \in Texts} :
                \/ \E vol \in {<<>>} \union {<<Memo(t, topics)>> : t \in Texts, topics \in TopicSets} :
                      assistant_finalize(p, vol, ext)
                \/ \E t \in Texts, topics \in TopicSets : capture(p, <<Memo(t, {})>>, ext, topics)
          \/ \E ok \in BOOLEAN : flush_memos(p, ok) \/ MarkSuperseded(p, ok)
          \/ \E t \in Texts, topics \in TopicSets, old \in DOMAIN facts :
                ~facts[old].gone /\ supersede(p, old, Memo(t, topics))
          \/ \E id \in DOMAIN facts : forget(p, id)
          \/ \E query \in Queries : recall_context(p, query)
          \/ RecentPass(p) \/ UseBlock(p)
    \/ NextDay

MemSpec == MemInit /\ [][MemNext]_memVars

-----------------------------------------------------------------------------
(* Properties.                                                             *)

\* A key that names something and no day.
Plain(k) == k # <<>> /\ \A i \in DOMAIN k : ~is_journal_slug(k[i])

\* A fact without a day in it is stored once however often, by whomever and with whatever topics it is
\* stated, and its counters add up to the statements that were filed, across corrections and
\* deletions (remember_with, reinforce, split_links).
StatedOnce ==
    /\ \A i, j \in Live(facts) : i # j /\ facts[i].said = facts[j].said => ~Plain(facts[i].said)
    /\ \A k \in DOMAIN counted : Plain(k) =>
          LET of == {i \in DOMAIN facts : facts[i].said = k}
          IN  MapThenSumSet(LAMBDA i : facts[i].seen, of) = counted[k]

\* Where corrections lead: n steps along superseded-by.
Heir[n \in Nat, i \in Nat] == IF n = 0 \/ ~is_superseded(facts[i]) THEN i
                              ELSE Heir[n - 1, facts[i].by]

\* A correction never costs a fact: from every retired fact the chain of replacements leads to one
\* that recall can return, or that was deleted on purpose, also when a correction fails half way;
\* two corrections that cross are another matter (supersede).
CorrectionsLeadSomewhere ==
    \A i \in DOMAIN facts :
        LET h == Heir[Len(facts), i]
        IN  is_superseded(facts[i]) /\ ~crossed => facts[h].gone \/ ~is_superseded(facts[h])

\* What the turn is given fits, what shares a term with the message leads, no sentence is there twice,
\* and nothing in it was retired before the pass that found it (recall, recall_context,
\* assemble_context_block).
BlockIsSound ==
    \A p \in Keepers :
        LET e == keeper[p].entries
        IN  /\ keeper[p].pc = "block" =>
                  MapThenSumSet(LAMBDA i : 1 + Len(e[i].text), DOMAIN e) + 1 <= MaxBlock \/ e = <<>>
            /\ \A i, j \in DOMAIN e : i < j /\ e[j].pass = "relevant" => e[i].pass = "relevant"
            /\ \A i, j \in DOMAIN e : i # j /\ e[i].pass # e[j].pass => e[i].text # e[j].text
            /\ \A i \in DOMAIN e : e[i].current

\* MemInv: a fact is stated once, a correction leads to what holds now, and a recalled block is sound, of
\* remember_with, supersede and assemble_context_block.
MemInv == StatedOnce /\ CorrectionsLeadSomewhere /\ BlockIsSound
=============================================================================
