---------------------------- MODULE ContextQueries ----------------------------
(***************************************************************************)
(* What Garage tells from what it keeps and changes none of: the section   *)
(* garage sync compiles into the hosts' context files, garage recommend,   *)
(* garage recall workflow, the entries related to an experience, how the   *)
(* artifact board stands to the files, and the candidates of a session.    *)
(*                                                                         *)
(* A text is the set of terms that occur in it; a lower-case comparison is *)
(* one of terms.  Ties of a sort stand in any order.                       *)
(***************************************************************************)
EXTENDS Naturals, Sequences, FiniteSets, FiniteSetsExt, ArtifactBoard, MemoryExtraction

CONSTANTS
    Kinds,              \* kind_order: a sequence without repetition
    PerKind, TopM,      \* entries of a kind and records that are selected
    Budget,             \* size_budget_bytes
    Threshold, Window,  \* of recall
    Terms, Empty,       \* terms a text may hold, the empty string among them
    Inside,             \* <<t, u>>: the one term is a part of the other
    Bases,              \* the entries and records there may be
    Queries, Hints, Limits             \* what may be asked

ASSUME QueryAssumption ==
    /\ Kinds \in Seq(STRING)
    /\ \A m, n \in DOMAIN Kinds : Kinds[m] = Kinds[n] => m = n
    /\ {PerKind, TopM, Budget, Window} \subseteq Nat
    /\ Threshold \in Nat \ {0}
    /\ Limits \subseteq Nat
    /\ Empty \in Terms
    /\ Queries \subseteq [words : Seq(Terms), tags : Seq(Terms), domain : Terms]

(* Where score, date and created are, a greater one is better or newer.    *)
Entry ==
    [id : Nat, kind : STRING, date : Nat, size : Nat \ {0},
     tags : SUBSET Terms, topic : SUBSET Terms, text : SUBSET Terms]
Record ==
    [id : Nat, created : Nat, size : Nat \ {0}, domain : Terms, problem : Terms,
     type : Terms, tech : SUBSET Terms, patterns : SUBSET Terms,
     lessons : SUBSET Terms, skills : Seq(Terms)]
Context == [skill : Terms, domain : Terms, problem : Terms, tags : Seq(Terms)]
Hint == [type : Terms, problem : Terms, skill : Terms]   \* Empty: not given

(* With a term, what is a part of it occurs too. *)
IsText(T) == Empty \in T /\ \A x \in Inside : x[2] \in T => x[1] \in T

ASSUME BaseAssumption ==
    /\ \A b \in Bases :
         /\ IsFiniteSet(b.entries) /\ IsFiniteSet(b.records)
         /\ \A e \in b.entries : /\ e \in Entry /\ e.topic \subseteq e.text
                                  /\ IsText(e.topic) /\ IsText(e.text)
         /\ \A r \in b.records : r \in Record /\ IsText(r.lessons)
         /\ b.board \in Seq(Reference) /\ b.disk \in Disk /\ b.sessions \subseteq Archived
    /\ Hints \subseteq Hint \ {[type |-> Empty, problem |-> Empty, skill |-> Empty]}

VARIABLES
    base,   \* entries, records, board, files of artifacts, archived sessions
    ask     \* the question under way or answered

vars == <<base, ask>>

Nothing == [about |-> "nothing"]

Init == base \in Bases /\ ask = Nothing

(* Sorted from the greatest, the first n. *)
Best(S, n, of(_)) ==
    {T \in SUBSET S : /\ Cardinality(T) = IF Cardinality(S) < n THEN Cardinality(S) ELSE n
                      /\ \A x \in T, y \in S \ T : of(x) >= of(y)}

---------------------------------------------------------------------------
(* compile_garage_section: kind after kind, experience last, by rank, as   *)
(* long as the next one fits.  A size is the bytes of a rendered bullet;   *)
(* the gate counts no header, heading or footer.                           *)

(* _top_n_by_type *)
Selected(kind) == Best({e \in base.entries : e.kind = kind}, PerKind, LAMBDA e : e.date)

(* _top_m_experience: the greatest record_id. *)
SelectedRecords == Best(base.records, TopM, LAMBDA r : r.id)

Section(n) == IF n <= Len(Kinds) THEN Selected(Kinds[n]) ELSE SelectedRecords

(* The order both are sorted in: date, and record_id, of a record.         *)
Rank(x) == IF "date" \in DOMAIN x THEN x.date ELSE x.id

Compile ==
    /\ ask = Nothing
    /\ \E first \in Section(1) :
         ask' = [about |-> "section", at |-> 1, left |-> first, bytes |-> 0,
                 taken |-> {}, truncated |-> {}]
    /\ UNCHANGED base

Compiling == ask.about = "section" /\ ask.at <= Len(Kinds) + 1

NextItem(x) == x \in ask.left /\ \A y \in ask.left : Rank(x) >= Rank(y)

(* Seeded fault: every section has a budget of its own. *)
Fits_Section(x) ==
    MapThenSumSet(LAMBDA y : y.size, {y \in ask.taken : "kind" \in DOMAIN y /\ "kind" \in DOMAIN x /\ y.kind = x.kind})
        + x.size <= Budget

Fits(x) == ask.bytes + x.size <= Budget

AddItem ==
    /\ Compiling
    /\ \E x \in ask.left :
         /\ NextItem(x) /\ Fits(x)
         /\ ask' = [ask EXCEPT !.left = @ \ {x}, !.bytes = @ + x.size,
                               !.taken = @ \cup {x}]
    /\ UNCHANGED base

(* The first that does not fit ends its section, not the others. *)
Truncate ==
    /\ Compiling
    /\ \E x \in ask.left : NextItem(x) /\ ~Fits(x)
    /\ ask' = [ask EXCEPT !.left = {}, !.truncated = @ \cup ask.left]
    /\ UNCHANGED base

NextSection ==
    /\ Compiling
    /\ ask.left = {}
    /\ \E more \in IF ask.at <= Len(Kinds) THEN Section(ask.at + 1) ELSE {{}} :
           ask' = [ask EXCEPT !.at = @ + 1, !.left = more]
    /\ UNCHANGED base

---------------------------------------------------------------------------
(* garage recommend and the recommendations of garage run. *)

(* build_from_query: the words and the --tag values, in one list.          *)
QueryContext(words, tags, domain) ==
    [skill |-> IF words = <<>> THEN Empty ELSE words[1],
     domain |-> domain, problem |-> Empty, tags |-> words \o tags]

(* build, as garage run calls it: no params, and the metadata of the object *)
(* that create_session returned.  It is empty: the problem_domain goes to  *)
(* update_session, whose result is dropped.                                *)
RunContext(skill) ==
    [skill |-> skill, domain |-> Empty, problem |-> Empty, tags |-> <<>>]

Points(n, holds) == IF holds THEN n ELSE 0
Named(t, S) == t # Empty /\ t \in S
Count(tags, S) == Cardinality({n \in DOMAIN tags : tags[n] \in S})
Listed(c) == {c.tags[n] : n \in DOMAIN c.tags} \ {Empty}

(* recommend, in tenths; a word that is given twice counts twice.          *)
EntryScore(e, c) ==
    IF Named(c.skill, e.tags) THEN 10 ELSE Points(5, Named(c.skill, e.text))
EntryPoints(e, c) ==
    EntryScore(e, c) + Points(8, Named(c.domain, e.tags))
        + Points(8, Named(c.problem, e.tags)) + 6 * Count(c.tags, e.tags)

Scored(S) == {x \in S : x.score > 0}

KnowledgeResults(c) ==
    Scored({[item |-> e, score |-> EntryPoints(e, c)] : e \in base.entries})

Fallback(c) ==
    {[item |-> e, score |-> 1] : e \in {e \in base.entries :
        Named(c.skill, e.topic) \/ Named(c.skill, e.tags)}}

RecommendKnowledge(c) ==
    IF KnowledgeResults(c) # {} THEN KnowledgeResults(c) ELSE Fallback(c)

(* _recommend_experience *)
RecordPoints(r, c) ==
    Points(8, Named(c.domain, {r.domain})) + Points(8, Named(c.problem, {r.problem}))
        + Points(6, \E t \in Listed(c) : <<t, r.type>> \in Inside) + 6 * Count(c.tags, r.tech \ {Empty})
        + 6 * Count(c.tags, r.patterns \ {Empty}) + 4 * Count(c.tags, r.lessons \ {Empty})

RecommendExperience(c) ==
    Scored({[item |-> r, score |-> RecordPoints(r, c)] : r \in base.records})

(* Seeded fault: each half is cut on its own. *)
Merged_Halves(c, top) ==
    {S \cup T : S \in Best(RecommendKnowledge(c), top, LAMBDA x : x.score),
                T \in Best(RecommendExperience(c), top, LAMBDA x : x.score)}

(* _recommend: both halves in one order, the first --top; 0 for all.       *)
Merged(c, top) ==
    LET all == RecommendKnowledge(c) \cup RecommendExperience(c) IN
    IF top = 0 THEN {all} ELSE Best(all, top, LAMBDA x : x.score)

Recommend(q, top) ==
    /\ ask = Nothing
    /\ LET c == QueryContext(q.words, q.tags, q.domain) IN
       \E found \in Merged(c, top) :
         ask' = [about |-> "query", context |-> c, top |-> top, found |-> found]
    /\ UNCHANGED base

RecommendRun(skill) ==
    /\ ask = Nothing
    /\ LET c == RunContext(skill) IN
       \E found \in Best(RecommendKnowledge(c), 3, LAMBDA x : x.score) :
         ask' = [about |-> "run", context |-> c, top |-> 3, found |-> found]
    /\ UNCHANGED base

---------------------------------------------------------------------------
(* garage recall workflow. *)

(* _bucket_records *)
Bucket(h) ==
    {r \in base.records : /\ h.type \in {Empty, r.type}
                          /\ h.problem \in {Empty, r.problem}
                          /\ \/ h.skill = Empty
                             \/ \E n \in DOMAIN r.skills : r.skills[n] = h.skill}

(* Seeded fault: the window is not applied. *)
Windowed_All(h) == {Bucket(h)}

(* The most recent of the bucket. *)
Windowed(h) == Best(Bucket(h), Window, LAMBDA r : r.created)

(* _take_subsequence: what came after the first use of the skill, if any.  *)
After(r, h) ==
    IF h.skill = Empty THEN {r.skills}
    ELSE {SubSeq(r.skills, n + 1, Len(r.skills)) : n \in
            {n \in 1 .. Len(r.skills) - 1 :
                /\ r.skills[n] = h.skill
                /\ \A m \in 1 .. n - 1 : r.skills[m] # h.skill}}

Hits(W, h) ==
    {[skills |-> s, count |-> Cardinality({r \in W : s \in After(r, h)})] :
        s \in UNION {After(r, h) : r \in W}}

Recall(h, top) ==
    /\ ask = Nothing
    /\ \E found \in IF Cardinality(Bucket(h)) < Threshold THEN {{}}
                   ELSE UNION {Best(Hits(W, h), top, LAMBDA x : x.count) : W \in Windowed(h)} :
         ask' = [about |-> "recall", hint |-> h, top |-> top, found |-> found]
    /\ UNCHANGED base

---------------------------------------------------------------------------
(* find_related_knowledge: the entries with a relevance above 0.  The      *)
(* empty string is a part of every text.                                   *)

SearchTerms(r) ==
    {r.skills[n] : n \in DOMAIN r.skills} \cup r.patterns \cup {r.domain, r.problem}

Relevant(e, r) ==
    \E t \in SearchTerms(r) :
        \/ t \in e.tags \cup e.text
        \/ \E u \in e.tags : <<t, u>> \in Inside \/ <<u, t>> \in Inside

FindRelated(r) ==
    /\ ask = Nothing
    /\ ask' = [about |-> "related", record |-> r,
               found |-> {e \in base.entries : Relevant(e, r)}]
    /\ UNCHANGED base

---------------------------------------------------------------------------
(* ArtifactBoardSync.sync, and extraction.  The caller keeps the board.    *)

SyncBoard ==
    /\ ask = Nothing
    /\ ask' = [about |-> "board", log |-> Logged(base.board, base.disk),
               told |-> IF Raises(base.board, base.disk) THEN Nothing
                        ELSE Synced(base.board, base.disk)]
    /\ UNCHANGED base

Extract(s) ==
    /\ ask = Nothing
    /\ ask' = [about |-> "session", session |-> s, batch |-> Extracted(s)]
    /\ UNCHANGED base

---------------------------------------------------------------------------
(* An answer is printed; the next command starts anew. *)
Answered ==
    /\ ask # Nothing /\ ~Compiling
    /\ ask' = Nothing
    /\ UNCHANGED base

Next ==
    \/ Compile \/ AddItem \/ Truncate \/ NextSection
    \/ \E q \in Queries, top \in Limits : Recommend(q, top)
    \/ \E t \in Terms \ {Empty} : RecommendRun(t)
    \/ \E h \in Hints, top \in Limits : Recall(h, top)
    \/ \E r \in base.records : FindRelated(r)
    \/ SyncBoard
    \/ \E s \in base.sessions : Extract(s)
    \/ Answered

Spec == Init /\ [][Next]_vars

---------------------------------------------------------------------------
(* Correctness. *)

Compiled == ask.about = "section" /\ ~Compiling
SameSection(x, y) == ("kind" \in DOMAIN x <=> "kind" \in DOMAIN y)
                     /\ ("kind" \in DOMAIN x => x.kind = y.kind)
SizeOf(S) == MapThenSumSet(LAMBDA y : y.size, S)

Items == base.entries \cup base.records

RankKept ==
    \A x \in Items \ ask.taken, y \in ask.taken :
        SameSection(x, y) => Rank(y) >= Rank(x)

(* The bullets of all sections together stay within the budget, which the  *)
(* kinds before have used up in part; within a section nothing is left out *)
(* for something of a lower rank; and an item is dropped only when with it *)
(* and those that rank before it the budget would have been exceeded.      *)
CompiledByRank ==
    Compiled =>
        /\ SizeOf(ask.taken) <= Budget
        /\ ask.truncated \cap ask.taken = {}
        /\ RankKept
        /\ \A x \in ask.truncated :
             \E S \in SUBSET (ask.taken \cup ask.truncated) :
                /\ \A y \in S : y \in ask.taken \/ (SameSection(x, y) /\ Rank(y) >= Rank(x))
                /\ SizeOf(S) > Budget

(* What is recommended shares a term with the question; no item that does  *)
(* is passed over for one with a lower score, or while there is room.      *)
Shares(x, c) ==
    IF "tags" \in DOMAIN x
    THEN \/ \E t \in {c.tags[n] : n \in DOMAIN c.tags} : t \in x.tags
         \/ \E t \in {c.skill, c.domain, c.problem} : Named(t, x.tags)
         \/ Named(c.skill, x.text)
    ELSE \/ \E t \in Listed(c) : \/ t \in x.tech \cup x.patterns \cup x.lessons
                                 \/ <<t, x.type>> \in Inside
         \/ Named(c.domain, {x.domain}) \/ Named(c.problem, {x.problem})

RecommendationsFound ==
    ask.about \in {"query", "run"} =>
        LET given == {x.item : x \in ask.found}
            asked == IF ask.about = "run" THEN base.entries ELSE base.entries \cup base.records
            rest  == {x \in asked \ given : Shares(x, ask.context)}
            Score(x) == IF "tags" \in DOMAIN x THEN EntryPoints(x, ask.context)
                        ELSE RecordPoints(x, ask.context)
        IN /\ \A x \in given : Shares(x, ask.context)
           /\ rest # {} => ask.top > 0 /\ Cardinality(given) = ask.top
           /\ ask.top > 0 => Cardinality(given) <= ask.top
           /\ \A x \in ask.found, y \in rest : x.score >= Score(y)

(* Each advisory is how records of the bucket went on, as often as it says *)
(* at most; and a record that is among the newest of its bucket counts:    *)
(* its way is told unless enough others are told that are as frequent.     *)
AdvisoriesFound ==
    ask.about = "recall" =>
        LET h == ask.hint
            Went(s) == {r \in Bucket(h) : s \in After(r, h)}
            Newest == {r \in Bucket(h) :
                         Cardinality({q \in Bucket(h) : q.created >= r.created}) <= Window}
        IN /\ \A a \in ask.found : a.count \in 1 .. Cardinality(Went(a.skills))
           /\ SizeOf({[of |-> a, size |-> a.count] : a \in ask.found}) <= Window
           /\ Cardinality(Bucket(h)) < Threshold => ask.found = {}
           /\ Cardinality(Bucket(h)) >= Threshold =>
                \A s \in UNION {After(r, h) : r \in Newest} :
                    \/ \E a \in ask.found : a.skills = s
                    \/ /\ Cardinality(ask.found) = ask.top
                       /\ \A a \in ask.found : a.count >= Cardinality(Newest \cap Went(s))

(* After a sync the board says what the files say, as far as these can be  *)
(* understood: of every reference whose file has a known status and a date *)
(* as strftime writes it, the board has both, so that another sync finds   *)
(* nothing to change.  No file that is there goes unmentioned.             *)
BoardFollows ==
    ask.about = "board" /\ ask.told # Nothing =>
        LET board == ask.told.consistent \o ask.told.updated IN
        /\ \A n \in DOMAIN board :
             LET f == base.disk[board[n].path] IN
             f.status \in ArtifactStatus /\ f.date.form = "utc" => SameHash(board[n], f)
        /\ \A p \in Documents : base.disk[p] \in Artifact =>
             p \in PathsOf(board) \cup ask.told.untracked
        /\ Len(board) + Len(ask.told.orphaned) = Len(base.board)

(* Extraction keeps the strongest evidence: no candidate is kept while one *)
(* with a higher score is cut, none is cut while there is room, what is    *)
(* cut is counted, and there is no more than one experience.               *)
StrongestKept ==
    ask.about = "session" /\ ask.batch.candidates # {} =>
        LET s    == ask.session
            kept == {c.id : c \in ask.batch.candidates}
            cut  == {n \in DOMAIN Signals(s) \ kept : SignalScore(s, n) >= MinPriority}
        IN /\ \A n \in kept, m \in cut : SignalScore(s, n) >= SignalScore(s, m)
           /\ cut # {} => Cardinality(kept) = MaxPending
           /\ Cardinality(kept) <= MaxPending
           /\ Cardinality(cut) = ask.batch.truncated
           /\ Cardinality({c \in ask.batch.candidates : c.type = "experience_summary"}) <= 1

(* What is recommended, advised, told of the board and extracted.          *)
AnswersHold == RecommendationsFound /\ AdvisoriesFound /\ BoardFollows /\ StrongestKept
=============================================================================
