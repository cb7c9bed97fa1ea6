------------------------ MODULE KnowledgeBase_proofs ------------------------
(***************************************************************************)
(* The store's properties hold for any processes, entries and records.     *)
(*                                                                         *)
(* Everything rests on Planned: the steps a command may still have to take *)
(* are one of a few sequences.  From it follow, apart from one another,    *)
(*   - Indexed: a clean index agrees with the files no other process       *)
(*     changed, which needs that a pending store meets a free id;          *)
(*   - Progress: while commands do not overlap, what a command has yet to  *)
(*     do is all that is missing from a consistent state.                  *)
(***************************************************************************)
EXTENDS KnowledgeBase, FiniteSetTheorems, SequenceTheorems, TLAPS

Last(c) == c[Len(c)]

(* The steps after an experience record is done with: none, the entry that *)
(* was extracted with it, or the rest of a cascade.                        *)
Planned(c) ==
    \/ c = <<>>
    \/ \E s \in Step : s.do # "write" /\ c = <<s>>
    \/ \E s \in Step, e \in Step :
         /\ s.do \in {"load", "list"} /\ s.in
         /\ e.do \in {"store", "rest"}
         /\ c = <<s, e>>
    \/ \E r \in Records, x \in SUBSET Ids : c = <<Write(r, x), Load(r, TRUE)>>
    \/ \E r \in Records, x \in SUBSET Ids, e \in Step :
         /\ e.do \in {"store", "rest"}
         /\ c = <<Write(r, x), Load(r, TRUE), e>>

Base == TypeOK /\ \A p \in Procs : Planned(call[p])

---------------------------------------------------------------------------
(* Steps and their fields. *)

LEMMA StepFields ==
    \A s \in Step :
        /\ s.do \in {"store", "update", "strip", "rest", "write", "load", "list"}
        /\ s.do \in {"store", "update"} => s.file \in Files /\ s.entry \in Entry
        /\ s.do \in {"strip", "rest"} => s.id \in Ids
        /\ s.do = "rest" => s.todo \in [Records -> Record \cup {NoRecord}]
        /\ s.do \in {"write", "load", "list"} => s.rec \in Records
        /\ s.do = "write" => s.refs \in SUBSET Ids /\ s = Write(s.rec, s.refs)
        /\ s.do \in {"load", "list"} => s.in \in BOOLEAN
        /\ s.do = "list" => s.got \in SUBSET Records
BY DEF Step, Write

LEMMA StepsMade ==
    /\ \A f \in Files, e \in Entry :
         /\ Store(f, e) \in Step /\ Store(f, e).do = "store"
         /\ Store(f, e).file = f /\ Store(f, e).entry = e
         /\ Update(f, e) \in Step /\ Update(f, e).do = "update"
         /\ Update(f, e).file = f /\ Update(f, e).entry = e
    /\ \A i \in Ids : Strip(i) \in Step /\ Strip(i).do = "strip" /\ Strip(i).id = i
    /\ \A i \in Ids, todo \in [Records -> Record \cup {NoRecord}] :
         /\ Rest(i, todo) \in Step /\ Rest(i, todo).do = "rest"
         /\ Rest(i, todo).id = i /\ Rest(i, todo).todo = todo
    /\ \A r \in Records, x \in SUBSET Ids :
         /\ Write(r, x) \in Step /\ Write(r, x).do = "write"
         /\ Write(r, x).rec = r /\ Write(r, x).refs = x
    /\ \A r \in Records, b \in BOOLEAN :
         /\ Load(r, b) \in Step /\ Load(r, b).do = "load"
         /\ Load(r, b).rec = r /\ Load(r, b).in = b
    /\ \A r \in Records, b \in BOOLEAN, g \in SUBSET Records :
         /\ List(r, b, g) \in Step /\ List(r, b, g).do = "list"
         /\ List(r, b, g).rec = r /\ List(r, b, g).in = b /\ List(r, b, g).got = g
BY DEF Step, Store, Update, Strip, Rest, Write, Load, List

LEMMA EntryFields ==
    /\ \A e \in Entry : /\ e # NoEntry /\ e.version \in 1 .. MaxVersion
                        /\ e.tags \subseteq Tags /\ e.links \subseteq Targets
    /\ NoEntry.tags = {} /\ NoEntry.version = 0 /\ NoEntry.links = {}
    /\ \A r \in Record : r.there /\ r.refs \subseteq Ids
    /\ NoRecord.refs = {} /\ ~NoRecord.there
<1>1. ASSUME NEW e \in Entry
      PROVE  /\ e # NoEntry /\ e.version \in 1 .. MaxVersion
             /\ e.tags \subseteq Tags /\ e.links \subseteq Targets
  <2>1. /\ e.version \in 1 .. MaxVersion
        /\ e.tags \subseteq Tags /\ e.links \subseteq Targets
    BY DEF Entry
  <2>2. NoEntry.version \notin 1 .. MaxVersion
    BY DEF NoEntry
  <2> QED
    BY <2>1, <2>2
<1>2. NoEntry.tags = {} /\ NoEntry.version = 0 /\ NoEntry.links = {}
  BY DEF NoEntry
<1>3. \A r \in Record : r.there /\ r.refs \subseteq Ids
  BY DEF Record
<1>4. NoRecord.refs = {} /\ ~NoRecord.there
  BY DEF NoRecord
<1> QED
  BY <1>1, <1>2, <1>3, <1>4

(* The tail of a plan, by the length of the plan. *)
LEMMA Tails ==
    ASSUME NEW a, NEW b, NEW c
    PROVE  /\ <<>> \o Tail(<<a>>) = <<>>
           /\ <<>> \o Tail(<<a, b>>) = <<b>>
           /\ <<>> \o Tail(<<a, b, c>>) = <<b, c>>
OBVIOUS

LEMMA Pairs ==
    ASSUME NEW S, NEW a \in S, NEW b \in S
    PROVE  <<a>> \o <<b>> = <<a, b>>
<1> DEFINE s == <<a>> \o <<b>>
           t == <<a, b>>
<1>1. s \in Seq(S) /\ Len(s) = 2 /\ s[1] = a /\ s[2] = b
  OBVIOUS
<1>2. t \in Seq(S) /\ Len(t) = 2 /\ t[1] = a /\ t[2] = b
  OBVIOUS
<1>3. \A i \in 1 .. 2 : i = 1 \/ i = 2
  OBVIOUS
<1> HIDE DEF s, t
<1>4. s = t
  BY <1>1, <1>2, <1>3, SeqEqual
<1> QED
  BY <1>4 DEF s, t

LEMMA Triples ==
    ASSUME NEW S, NEW a \in S, NEW b \in S, NEW c \in S
    PROVE  <<a, b>> \o <<c>> = <<a, b, c>>
<1> DEFINE s == <<a, b>> \o <<c>>
           t == <<a, b, c>>
<1>1. s \in Seq(S) /\ Len(s) = 3 /\ s[1] = a /\ s[2] = b /\ s[3] = c
  OBVIOUS
<1>2. t \in Seq(S) /\ Len(t) = 3 /\ t[1] = a /\ t[2] = b /\ t[3] = c
  OBVIOUS
<1>3. \A i \in 1 .. 3 : i = 1 \/ i = 2 \/ i = 3
  OBVIOUS
<1> HIDE DEF s, t
<1>4. s = t
  BY <1>1, <1>2, <1>3, SeqEqual
<1> QED
  BY <1>4 DEF s, t

LEMMA LongerTails ==
    ASSUME NEW S, NEW a \in S, NEW b \in S, NEW c \in S
    PROVE  /\ <<c>> \o Tail(<<a>>) = <<c>>
           /\ <<c>> \o Tail(<<a, b>>) = <<c, b>>
<1>1. Tail(<<a>>) = <<>> /\ Tail(<<a, b>>) = <<b>>
  OBVIOUS
<1>2. <<c>> \o <<>> = <<c>>
  OBVIOUS
<1> QED
  BY <1>1, <1>2, Pairs

LEMMA Chains ==
    ASSUME NEW S, NEW a \in S, NEW b \in S, NEW c \in S, NEW d \in S
    PROVE  /\ (<<a, b>> \o <<c>>) = <<a, b, c>>
           /\ (<<a, b>> \o <<c>>) \o Tail(<<d>>) = <<a, b, c>>
<1>1. Tail(<<d>>) = <<>>
  OBVIOUS
<1>2. <<a, b, c>> \o <<>> = <<a, b, c>>
  OBVIOUS
<1> QED
  BY <1>1, <1>2, Triples

LEMMA Firsts ==
    ASSUME NEW a, NEW b, NEW c
    PROVE  /\ <<a>>[1] = a /\ Last(<<a>>) = a /\ <<a>> # <<>>
           /\ <<a, b>>[1] = a /\ Last(<<a, b>>) = b /\ <<a, b>> # <<>>
           /\ <<a, b, c>>[1] = a /\ Last(<<a, b, c>>) = c /\ <<a, b, c>> # <<>>
BY DEF Last

LEMMA Plans ==
    ASSUME NEW a \in Step, NEW b \in Step, NEW c \in Step
    PROVE  /\ <<>> \in Seq(Step) /\ <<a>> \in Seq(Step)
           /\ <<a, b>> \in Seq(Step) /\ <<a, b, c>> \in Seq(Step)
OBVIOUS

---------------------------------------------------------------------------
(* A process takes up a command, or a step off its plan. *)

LEMMA Entered ==
    ASSUME TypeOK, NEW p \in Procs, NEW c \in Seq(Step), Enter(p, c)
    PROVE  /\ call' \in [Procs -> Seq(Step)]
           /\ call[p] = <<>> /\ call'[p] = c
           /\ \A q \in Procs \ {p} : call'[q] = call[q]
           /\ disturbed' \in BOOLEAN
           /\ ~disturbed' => ~disturbed /\ \A q \in Procs : call[q] = <<>>
BY DEF TypeOK, Enter, AtRest

LEMMA WentOn ==
    ASSUME TypeOK, NEW p \in Procs, NEW c, NEW d \in Seq(Step), GoOn(p, c), c \o Tail(call[p]) = d
    PROVE  /\ call' \in [Procs -> Seq(Step)]
           /\ call'[p] = d
           /\ \A q \in Procs \ {p} : call'[q] = call[q]
BY DEF TypeOK, GoOn

(* What a plan is, from its first step. *)
LEMMA WriteFirst ==
    ASSUME NEW r \in Records, NEW x \in SUBSET Ids, NEW e
    PROVE  /\ <<Write(r, x), Load(r, TRUE)>>[1].do = "write"
           /\ <<Write(r, x), Load(r, TRUE), e>>[1].do = "write"
<1>1. Write(r, x).do = "write"
  BY StepsMade
<1>2. \A w, l : <<w, l>>[1] = w /\ <<w, l, e>>[1] = w
  BY Firsts
<1> QED
  BY <1>1, <1>2

LEMMA OneStep == \A s : <<s>>[1] = s
BY Firsts

LEMMA TwoSteps == \A s, e : <<s, e>>[1] = s
BY Firsts
LEMMA SinglePlan ==
    ASSUME Base, NEW p \in Procs, NEW do \in {"store", "update", "strip", "rest"}, Does(p, do)
    PROVE  \E s \in Step : s.do = do /\ call[p] = <<s>>
<1> DEFINE c == call[p]
<1>1. Planned(c) /\ c # <<>> /\ c[1].do = do
  BY DEF Base, Does
<1> HIDE DEF c
<1>2. \A s \in Step : c = <<s>> => s.do = do
  BY <1>1, OneStep
<1>3. ~ \E s \in Step, e \in Step : /\ s.do \in {"load", "list"} /\ s.in
                                   /\ e.do \in {"store", "rest"}
                                   /\ c = <<s, e>>
  BY <1>1, TwoSteps
<1>4. ~ \E r \in Records, x \in SUBSET Ids : c = <<Write(r, x), Load(r, TRUE)>>
  BY <1>1, WriteFirst
<1>5. ~ \E r \in Records, x \in SUBSET Ids, e \in Step :
          e.do \in {"store", "rest"} /\ c = <<Write(r, x), Load(r, TRUE), e>>
  BY <1>1, WriteFirst
<1>6. \E s \in Step : s.do = do /\ c = <<s>>
  BY <1>1, <1>2, <1>3, <1>4, <1>5 DEF Planned
<1> QED
  BY <1>6 DEF c

LEMMA WritePlan ==
    ASSUME Base, NEW p \in Procs, Does(p, "write")
    PROVE  \E r \in Records, x \in SUBSET Ids :
              \/ call[p] = <<Write(r, x), Load(r, TRUE)>>
              \/ \E e \in Step : /\ e.do \in {"store", "rest"}
                                 /\ call[p] = <<Write(r, x), Load(r, TRUE), e>>
<1> DEFINE c == call[p]
<1>1. Planned(c) /\ c # <<>> /\ c[1].do = "write"
  BY DEF Base, Does
<1> HIDE DEF c
<1>2. ~ \E s \in Step : s.do # "write" /\ c = <<s>>
  BY <1>1, Firsts
<1>3. ~ \E s \in Step, e \in Step : s.do \in {"load", "list"} /\ c = <<s, e>>
  BY <1>1, Firsts
<1>4. \E r \in Records, x \in SUBSET Ids :
        \/ c = <<Write(r, x), Load(r, TRUE)>>
        \/ \E e \in Step : /\ e.do \in {"store", "rest"}
                           /\ c = <<Write(r, x), Load(r, TRUE), e>>
  BY <1>1, <1>2, <1>3 DEF Planned
<1> QED
  BY <1>4 DEF c

LEMMA ListPlan ==
    ASSUME Base, NEW p \in Procs, NEW do \in {"load", "list"}, Does(p, do)
    PROVE  \E s \in Step : /\ s.do = do
              /\ \/ call[p] = <<s>>
                 \/ s.in /\ \E e \in Step : e.do \in {"store", "rest"} /\ call[p] = <<s, e>>
<1> DEFINE c == call[p]
<1>1. Planned(c) /\ c # <<>> /\ c[1].do = do
  BY DEF Base, Does
<1> HIDE DEF c
<1>2. ~ \E r \in Records, x \in SUBSET Ids : c = <<Write(r, x), Load(r, TRUE)>>
  BY <1>1, WriteFirst
<1>3. ~ \E r \in Records, x \in SUBSET Ids, e \in Step :
          e.do \in {"store", "rest"} /\ c = <<Write(r, x), Load(r, TRUE), e>>
  BY <1>1, WriteFirst
<1>4. CASE \E s \in Step : s.do # "write" /\ c = <<s>>
  BY <1>1, <1>4, Firsts DEF c
<1>5. CASE \E s \in Step, e \in Step : /\ s.do \in {"load", "list"} /\ s.in
                                      /\ e.do \in {"store", "rest"}
                                      /\ c = <<s, e>>
  BY <1>1, <1>5, Firsts DEF c
<1> QED
  BY <1>1, <1>2, <1>3, <1>4, <1>5 DEF Planned

---------------------------------------------------------------------------
(* The index of a process, and what a write does to it. *)

LEMMA IndexTyped ==
    ASSUME NEW i \in Index
    PROVE  /\ i.clean \in BOOLEAN
           /\ i.seen \in [Files -> Entry \cup {NoEntry}]
           /\ i.byTag \in [Tags -> SUBSET Files]
BY DEF Index

LEMMA Added ==
    ASSUME NEW i \in Index, NEW f \in Files, NEW e \in Entry
    PROVE  /\ AddToIndex(i, f, e) \in Index
           /\ AddToIndex(i, f, e).clean = i.clean
           /\ AddToIndex(i, f, e).seen[f] = e
           /\ \A g \in Files \ {f} : AddToIndex(i, f, e).seen[g] = i.seen[g]
           /\ \A t \in Tags, g \in Files : g \in AddToIndex(i, f, e).byTag[t] <=>
                  g \in i.byTag[t] \/ (g = f /\ t \in e.tags)
<1> DEFINE b == [t \in Tags |-> IF t \in e.tags THEN i.byTag[t] \cup {f} ELSE i.byTag[t]]
           v == [i.seen EXCEPT ![f] = e]
<1>1. AddToIndex(i, f, e) = [i EXCEPT !.seen = v, !.byTag = b]
  BY DEF AddToIndex, Index
<1>2. b \in [Tags -> SUBSET Files] /\ v \in [Files -> Entry \cup {NoEntry}]
  BY IndexTyped
<1> HIDE DEF b, v
<1>3. /\ [i EXCEPT !.seen = v, !.byTag = b] \in Index
      /\ [i EXCEPT !.seen = v, !.byTag = b].clean = i.clean
      /\ [i EXCEPT !.seen = v, !.byTag = b].seen = v
      /\ [i EXCEPT !.seen = v, !.byTag = b].byTag = b
  BY <1>2 DEF Index
<1>4. v[f] = e /\ \A g \in Files \ {f} : v[g] = i.seen[g]
  BY IndexTyped DEF v
<1>5. \A t \in Tags, g \in Files : g \in b[t] <=> g \in i.byTag[t] \/ (g = f /\ t \in e.tags)
  BY DEF b
<1> QED
  BY <1>1, <1>3, <1>4, <1>5

LEMMA Removed ==
    ASSUME NEW i \in Index, NEW f \in Files
    PROVE  /\ RemoveFromIndex(i, f) \in Index
           /\ RemoveFromIndex(i, f).clean = i.clean
           /\ RemoveFromIndex(i, f).seen[f] = NoEntry
           /\ \A g \in Files \ {f} : RemoveFromIndex(i, f).seen[g] = i.seen[g]
           /\ \A t \in Tags, g \in Files : g \in RemoveFromIndex(i, f).byTag[t] <=>
                  g \in i.byTag[t] /\ ~(g = f /\ t \in i.seen[f].tags)
<1> DEFINE b == [t \in Tags |-> IF t \in i.seen[f].tags THEN i.byTag[t] \ {f} ELSE i.byTag[t]]
           v == [i.seen EXCEPT ![f] = NoEntry]
<1>1. RemoveFromIndex(i, f) = [i EXCEPT !.seen = v, !.byTag = b]
  BY DEF RemoveFromIndex, Index
<1>2. b \in [Tags -> SUBSET Files] /\ v \in [Files -> Entry \cup {NoEntry}]
  BY IndexTyped
<1> HIDE DEF b, v
<1>3. /\ [i EXCEPT !.seen = v, !.byTag = b] \in Index
      /\ [i EXCEPT !.seen = v, !.byTag = b].clean = i.clean
      /\ [i EXCEPT !.seen = v, !.byTag = b].seen = v
      /\ [i EXCEPT !.seen = v, !.byTag = b].byTag = b
  BY <1>2 DEF Index
<1>4. v[f] = NoEntry /\ \A g \in Files \ {f} : v[g] = i.seen[g]
  BY IndexTyped DEF v
<1>5. \A t \in Tags, g \in Files : g \in b[t] <=> g \in i.byTag[t] /\ ~(g = f /\ t \in i.seen[f].tags)
  BY DEF b
<1> QED
  BY <1>1, <1>3, <1>4, <1>5

LEMMA PutMeans ==
    ASSUME TypeOK, NEW p \in Procs, NEW f \in Files, NEW e \in Entry \cup {NoEntry}, Put(p, f, e)
    PROVE  /\ entry' \in [Files -> Entry \cup {NoEntry}]
           /\ entry'[f] = e
           /\ \A g \in Files \ {f} : entry'[g] = entry[g]
           /\ foreign' \in [Procs -> SUBSET Files]
           /\ foreign'[p] = foreign[p]
BY DEF TypeOK, Put

(* The index of p alone changes. *)
LEMMA IndexStep ==
    ASSUME TypeOK, NEW p \in Procs, NEW i \in Index, index' = [index EXCEPT ![p] = i]
    PROVE  /\ index' \in [Procs -> Index]
           /\ index'[p] = i
           /\ \A q \in Procs \ {p} : index'[q] = index[q]
BY DEF TypeOK

---------------------------------------------------------------------------
(* A clean index agrees with the files that are its own. *)

Agrees(p) ==
    \A f \in Files \ foreign[p] :
        /\ index[p].seen[f] = entry[f]
        /\ \A t \in Tags : f \in index[p].byTag[t] <=> t \in entry[f].tags

FreeToStore(p) ==
    call[p] # <<>> /\ Last(call[p]).do = "store" =>
        Last(call[p]).file \in foreign[p] \/ ~There(Last(call[p]).file)

Indexed == \A p \in Procs : index[p].clean => Agrees(p) /\ FreeToStore(p)

(* Others' writes: what they change is foreign. *)
LEMMA OthersAgree ==
    ASSUME Base, Indexed, NEW p \in Procs, NEW q \in Procs \ {p},
           NEW f \in Files, NEW e \in Entry \cup {NoEntry}, Put(p, f, e),
           index'[q] = index[q], call'[q] = call[q], index[q].clean
    PROVE  Agrees(q)' /\ FreeToStore(q)'
<1>1. TypeOK /\ Agrees(q) /\ FreeToStore(q)
  BY DEF Base, Indexed
<1>2. /\ \A g \in Files \ {f} : entry'[g] = entry[g]
      /\ foreign[q] \subseteq foreign'[q] /\ f \in foreign'[q]
  <2>1. \A g \in Files \ {f} : entry'[g] = entry[g]
    BY <1>1, PutMeans
  <2>2. foreign'[q] = foreign[q] \cup {f}
    BY <1>1 DEF Put, TypeOK
  <2> QED
    BY <2>1, <2>2
<1>3. Agrees(q)'
  BY <1>1, <1>2 DEF Agrees
<1>4. FreeToStore(q)'
  <2>1. SUFFICES ASSUME call[q] # <<>>, Last(call[q]).do = "store",
                        Last(call[q]).file \notin foreign'[q]
                 PROVE  entry'[Last(call[q]).file] = NoEntry
    BY DEF FreeToStore, There
  <2>2. Last(call[q]).file # f /\ entry[Last(call[q]).file] = NoEntry
    BY <1>1, <1>2, <2>1 DEF FreeToStore, There
  <2>3. Last(call[q]) \in Step
    BY <1>1, <2>1 DEF TypeOK, Last
  <2>4. Last(call[q]).file \in Files
    BY <2>1, <2>3, StepFields
  <2> QED
    BY <1>2, <2>2, <2>4
<1> QED
  BY <1>3, <1>4

(* A step that leaves entries and indexes alone, and plans no new store. *)
LEMMA SameIndexes ==
    ASSUME Indexed, NEW p \in Procs, UNCHANGED <<entry, index, foreign>>,
           \A q \in Procs \ {p} : call'[q] = call[q],
           call'[p] # <<>> /\ Last(call'[p]).do = "store" =>
              \/ ~There(Last(call'[p]).file)
              \/ call[p] # <<>> /\ Last(call'[p]) = Last(call[p])
    PROVE  Indexed'
<1>1. SUFFICES ASSUME NEW q \in Procs, index[q].clean
               PROVE  Agrees(q)' /\ FreeToStore(q)'
  BY DEF Indexed
<1>2. Agrees(q) /\ FreeToStore(q)
  BY <1>1 DEF Indexed
<1>3. Agrees(q)'
  BY <1>2 DEF Agrees
<1>4. CASE q = p
  BY <1>2, <1>3, <1>4 DEF FreeToStore, There
<1>5. CASE q # p
  BY <1>2, <1>3, <1>5 DEF FreeToStore, There
<1> QED
  BY <1>4, <1>5

---------------------------------------------------------------------------
(* One lemma for each action: it preserves Base and Indexed. *)

BInv == Base /\ Indexed

(* Plans of other processes stay, and so does Planned. *)
LEMMA PlansStay ==
    ASSUME Base, NEW p \in Procs, TypeOK', Planned(call'[p]),
           \A q \in Procs \ {p} : call'[q] = call[q]
    PROVE  Base'
<1>1. SUFFICES ASSUME NEW q \in Procs PROVE Planned(call'[q])
  BY DEF Base, Planned
<1>2. CASE q = p
  BY <1>2
<1>3. CASE q # p
  BY <1>3 DEF Base
<1> QED
  BY <1>2, <1>3

LEMMA PlannedSteps ==
    /\ Planned(<<>>)
    /\ \A s \in Step : s.do # "write" => Planned(<<s>>)
    /\ \A s \in Step, e \in Step : s.do \in {"load", "list"} /\ s.in /\ e.do \in {"store", "rest"}
                                    => Planned(<<s, e>>)
    /\ \A r \in Records, x \in SUBSET Ids :
         /\ Planned(<<Write(r, x), Load(r, TRUE)>>)
         /\ \A e \in Step : e.do \in {"store", "rest"} => Planned(<<Write(r, x), Load(r, TRUE), e>>)
BY ZenonT(60) DEF Planned

LEMMA InitBInv ==
    ASSUME Init
    PROVE  BInv
<1>1. TypeOK
  <2>1. Dirty \in Index
    BY DEF Dirty, Index
  <2>2. <<>> \in Seq(Step)
    OBVIOUS
  <2> QED
    BY <2>1, <2>2 DEF Init, TypeOK
<1>2. \A p \in Procs : call[p] = <<>> /\ ~index[p].clean
  BY DEF Init, Dirty
<1>3. Base
  BY <1>1, <1>2, PlannedSteps DEF Base
<1> QED
  BY <1>2, <1>3 DEF BInv, Indexed

LEMMA SearchStep ==
    ASSUME BInv, NEW p \in Procs, Search(p)
    PROVE  BInv'
<1>0. TypeOK /\ Base /\ Indexed /\ UNCHANGED <<entry, record, listed, call, cascaded, disturbed>>
  BY DEF BInv, Base, Search
<1>1. Rebuilt \in Index
  BY <1>0 DEF Rebuilt, Index, TypeOK
<1>2. /\ index' \in [Procs -> Index] /\ index'[p] = Rebuilt
      /\ \A q \in Procs \ {p} : index'[q] = index[q]
  BY <1>0, <1>1, IndexStep DEF Search
<1>3. /\ foreign' \in [Procs -> SUBSET Files] /\ foreign'[p] = {}
      /\ \A q \in Procs \ {p} : foreign'[q] = foreign[q]
  BY <1>0 DEF Search, TypeOK
<1>4. TypeOK'
  BY <1>0, <1>2, <1>3 DEF TypeOK
<1>5. Base'
  BY <1>0, <1>4 DEF Base, Planned
<1>6. Agrees(p)'
  <2>1. \A f \in Files : entry'[f].tags = entry[f].tags /\ (~There(f) => entry[f].tags = {})
    BY <1>0, EntryFields DEF There
  <2>2. \A f \in Files : Rebuilt.seen[f] = entry[f]
    BY DEF Rebuilt
  <2>3. \A t \in Tags, f \in Files : f \in Rebuilt.byTag[t] <=> There(f) /\ t \in entry[f].tags
    BY DEF Rebuilt
  <2> QED
    BY <1>0, <1>2, <1>3, <2>1, <2>2, <2>3 DEF Agrees
<1>7. FreeToStore(p)'
  BY <1>0 DEF Search, AtRest, FreeToStore
<1>8. ASSUME NEW q \in Procs, q # p, index[q].clean PROVE Agrees(q)' /\ FreeToStore(q)'
  BY <1>0, <1>2, <1>3, <1>8 DEF Indexed, Agrees, FreeToStore, There
<1> QED
  BY <1>2, <1>5, <1>6, <1>7, <1>8 DEF BInv, Indexed

(* p writes e to f and changes its own index alike. *)
LEMMA OwnAgrees ==
    ASSUME TypeOK, NEW p \in Procs, NEW f \in Files, NEW e \in Entry \cup {NoEntry}, NEW i \in Index,
           Put(p, f, e), index'[p] = i, Agrees(p),
           i.seen[f] = e, \A g \in Files \ {f} : i.seen[g] = index[p].seen[g],
           \A t \in Tags, g \in Files \ {f} : g \in i.byTag[t] <=> g \in index[p].byTag[t],
           f \notin foreign[p] => \A t \in Tags : f \in i.byTag[t] <=> t \in e.tags
    PROVE  Agrees(p)'
<1>1. /\ entry'[f] = e /\ foreign'[p] = foreign[p]
      /\ \A g \in Files \ {f} : entry'[g] = entry[g]
  BY PutMeans
<1>2. SUFFICES ASSUME NEW g \in Files \ foreign[p]
               PROVE  /\ i.seen[g] = entry'[g]
                      /\ \A t \in Tags : g \in i.byTag[t] <=> t \in entry'[g].tags
  BY <1>1 DEF Agrees
<1>3. CASE g = f
  BY <1>1, <1>3
<1>4. CASE g # f
  <2>1. entry'[g] = entry[g] /\ i.seen[g] = index[p].seen[g]
    BY <1>1, <1>4
  <2>2. \A t \in Tags : g \in i.byTag[t] <=> g \in index[p].byTag[t]
    BY <1>4
  <2> QED
    BY <2>1, <2>2 DEF Agrees
<1> QED
  BY <1>3, <1>4

(* store: p's own index takes the entry, if it had nothing of that id. *)
LEMMA DoStoreStep ==
    ASSUME BInv, NEW p \in Procs, DoStore(p)
    PROVE  BInv'
<1>0. TypeOK /\ Base /\ Indexed /\ UNCHANGED <<record, listed, disturbed>>
  BY DEF BInv, Base, DoStore
<1>1. PICK s \in Step : s.do = "store" /\ call[p] = <<s>>
  BY <1>0, SinglePlan DEF DoStore
<1>2. /\ call[p][1] = s /\ Last(call[p]) = s /\ call[p] # <<>>
      /\ s.file \in Files /\ s.entry \in Entry
  BY <1>1, Firsts, StepFields
<1> DEFINE i == IF index[p].clean THEN AddToIndex(index[p], s.file, s.entry) ELSE index[p]
<1>3. /\ Put(p, s.file, s.entry) /\ index' = [index EXCEPT ![p] = i]
      /\ cascaded' = cascaded \ {IdOf(s.file)} /\ GoOn(p, <<>>)
  BY <1>0, <1>2 DEF DoStore, TypeOK
<1>4. index[p] \in Index /\ i \in Index /\ i.clean = index[p].clean
  BY <1>0, <1>2, Added DEF TypeOK
<1> HIDE DEF i
<1>5. /\ index' \in [Procs -> Index] /\ index'[p] = i
      /\ \A q \in Procs \ {p} : index'[q] = index[q]
  BY <1>0, <1>3, <1>4, IndexStep
<1>6. /\ call' \in [Procs -> Seq(Step)] /\ call'[p] = <<>>
      /\ \A q \in Procs \ {p} : call'[q] = call[q]
  <2>1. <<>> \o Tail(call[p]) = <<>> /\ <<>> \in Seq(Step)
    BY <1>1, Tails
  <2> QED
    BY <1>0, <1>3, <2>1, WentOn
<1>7. /\ entry' \in [Files -> Entry \cup {NoEntry}] /\ entry'[s.file] = s.entry
      /\ \A g \in Files \ {s.file} : entry'[g] = entry[g]
      /\ foreign' \in [Procs -> SUBSET Files] /\ foreign'[p] = foreign[p]
  BY <1>0, <1>2, <1>3, PutMeans
<1>8. TypeOK'
  BY <1>0, <1>3, <1>5, <1>6, <1>7 DEF TypeOK
<1>9. Base'
  BY <1>0, <1>6, <1>8, PlansStay, PlannedSteps
<1>10. ASSUME index[p].clean PROVE Agrees(p)' /\ FreeToStore(p)'
  <2>1. Agrees(p) /\ (s.file \in foreign[p] \/ ~There(s.file))
    BY <1>0, <1>1, <1>2, <1>10 DEF Indexed, FreeToStore
  <2>2. i = AddToIndex(index[p], s.file, s.entry)
    BY <1>10 DEF i
  <2>3. /\ i.seen[s.file] = s.entry
        /\ \A g \in Files \ {s.file} : i.seen[g] = index[p].seen[g]
        /\ \A t \in Tags, g \in Files :
             g \in i.byTag[t] <=> g \in index[p].byTag[t] \/ (g = s.file /\ t \in s.entry.tags)
    BY <1>2, <1>4, <2>2, Added, SMTT(30)
  <2>4. s.file \notin foreign[p] => \A t \in Tags : s.file \notin index[p].byTag[t]
    BY <1>2, <2>1, EntryFields DEF Agrees, There
  <2>5. Agrees(p)'
    BY <1>0, <1>2, <1>3, <1>4, <1>5, <2>1, <2>3, <2>4, OwnAgrees
  <2> QED
    BY <1>6, <2>5 DEF FreeToStore
<1>11. ASSUME NEW q \in Procs, q # p, index[q].clean PROVE Agrees(q)' /\ FreeToStore(q)'
  BY <1>0, <1>2, <1>3, <1>5, <1>6, <1>11, OthersAgree
<1> QED
  BY <1>4, <1>5, <1>9, <1>10, <1>11 DEF BInv, Indexed

LEMMA ReindexedMeans ==
    ASSUME NEW i \in Index, NEW f \in Files, NEW e \in Entry
    PROVE  /\ Reindexed(i, f, e) \in Index
           /\ Reindexed(i, f, e).clean = i.clean
           /\ Reindexed(i, f, e).seen[f] = e
           /\ \A g \in Files \ {f} : Reindexed(i, f, e).seen[g] = i.seen[g]
           /\ \A t \in Tags, g \in Files \ {f} :
                 g \in Reindexed(i, f, e).byTag[t] <=> g \in i.byTag[t]
           /\ \A t \in Tags : f \in Reindexed(i, f, e).byTag[t] <=>
                 t \in e.tags \/ (f \in i.byTag[t] /\ t \notin i.seen[f].tags)
<1>1. PICK j \in Index : j = RemoveFromIndex(i, f)
  BY Removed
<1>2. /\ j.clean = i.clean
      /\ \A g \in Files \ {f} : j.seen[g] = i.seen[g]
      /\ \A t \in Tags, g \in Files : g \in j.byTag[t] <=>
            g \in i.byTag[t] /\ ~(g = f /\ t \in i.seen[f].tags)
  BY <1>1, Removed
<1>3. Reindexed(i, f, e) = AddToIndex(j, f, e)
  BY <1>1 DEF Reindexed
<1> QED
  BY <1>2, <1>3, Added

LEMMA DoUpdateStep ==
    ASSUME BInv, NEW p \in Procs, DoUpdate(p)
    PROVE  BInv'
<1>0. TypeOK /\ Base /\ Indexed /\ UNCHANGED <<record, listed, disturbed>>
  BY DEF BInv, Base, DoUpdate
<1>1. PICK s \in Step : s.do = "update" /\ call[p] = <<s>>
  BY <1>0, SinglePlan DEF DoUpdate
<1>2. /\ call[p][1] = s /\ Last(call[p]) = s /\ call[p] # <<>>
      /\ s.file \in Files /\ s.entry \in Entry
  BY <1>1, Firsts, StepFields
<1> DEFINE i == IF index[p].clean THEN Reindexed(index[p], s.file, s.entry) ELSE index[p]
<1>3. /\ Put(p, s.file, s.entry) /\ index' = [index EXCEPT ![p] = i]
      /\ cascaded' = cascaded \ {IdOf(s.file)} /\ GoOn(p, <<>>)
  BY <1>0, <1>2 DEF DoUpdate, TypeOK
<1>4. index[p] \in Index /\ i \in Index /\ i.clean = index[p].clean
  BY <1>0, <1>2, ReindexedMeans DEF TypeOK
<1> HIDE DEF i
<1>5. /\ index' \in [Procs -> Index] /\ index'[p] = i
      /\ \A q \in Procs \ {p} : index'[q] = index[q]
  BY <1>0, <1>3, <1>4, IndexStep
<1>6. /\ call' \in [Procs -> Seq(Step)] /\ call'[p] = <<>>
      /\ \A q \in Procs \ {p} : call'[q] = call[q]
  <2>1. <<>> \o Tail(call[p]) = <<>> /\ <<>> \in Seq(Step)
    BY <1>1, Tails
  <2> QED
    BY <1>0, <1>3, <2>1, WentOn
<1>7. /\ entry' \in [Files -> Entry \cup {NoEntry}]
      /\ foreign' \in [Procs -> SUBSET Files]
  BY <1>0, <1>2, <1>3, PutMeans
<1>8. TypeOK'
  BY <1>0, <1>3, <1>5, <1>6, <1>7 DEF TypeOK
<1>9. Base'
  BY <1>0, <1>6, <1>8, PlansStay, PlannedSteps
<1>10. ASSUME index[p].clean PROVE Agrees(p)' /\ FreeToStore(p)'
  <2>1. Agrees(p)
    BY <1>0, <1>10 DEF Indexed
  <2>2. i = Reindexed(index[p], s.file, s.entry)
    BY <1>10 DEF i
  <2>3. /\ i.seen[s.file] = s.entry
        /\ \A g \in Files \ {s.file} : i.seen[g] = index[p].seen[g]
        /\ \A t \in Tags, g \in Files \ {s.file} : g \in i.byTag[t] <=> g \in index[p].byTag[t]
        /\ \A t \in Tags : s.file \in i.byTag[t] <=>
              t \in s.entry.tags \/ (s.file \in index[p].byTag[t] /\ t \notin index[p].seen[s.file].tags)
    <3>1. PICK was \in Index, f \in Files, e \in Entry :
             was = index[p] /\ f = s.file /\ e = s.entry
      BY <1>2, <1>4
    <3>2. i = Reindexed(was, f, e)
      BY <2>2, <3>1
    <3>3. /\ i.seen[f] = e
          /\ \A g \in Files \ {f} : i.seen[g] = was.seen[g]
          /\ \A t \in Tags, g \in Files \ {f} : g \in i.byTag[t] <=> g \in was.byTag[t]
          /\ \A t \in Tags : f \in i.byTag[t] <=>
                t \in e.tags \/ (f \in was.byTag[t] /\ t \notin was.seen[f].tags)
      BY ONLY <3>2, ReindexedMeans
    <3> QED
      BY ONLY <3>1, <3>3
  <2>4. s.file \notin foreign[p] =>
            \A t \in Tags : s.file \in index[p].byTag[t] => t \in index[p].seen[s.file].tags
    BY <1>2, <2>1 DEF Agrees
  <2>5. Agrees(p)'
    BY <1>0, <1>2, <1>3, <1>4, <1>5, <2>1, <2>3, <2>4, OwnAgrees
  <2> QED
    BY <1>6, <2>5 DEF FreeToStore
<1>11. ASSUME NEW q \in Procs, q # p, index[q].clean PROVE Agrees(q)' /\ FreeToStore(q)'
  BY <1>0, <1>2, <1>3, <1>5, <1>6, <1>11, OthersAgree
<1> QED
  BY <1>4, <1>5, <1>9, <1>10, <1>11 DEF BInv, Indexed

(* A command starts that changes no file yet. *)
LEMMA CommandBegins ==
    ASSUME BInv, NEW p \in Procs, NEW c \in Seq(Step), Enter(p, c), Planned(c),
           UNCHANGED <<entry, index, foreign>>,
           record' \in [Records -> Record \cup {NoRecord}], listed' = listed,
           cascaded' \subseteq cascaded,
           c # <<>> /\ Last(c).do = "store" => ~There(Last(c).file)
    PROVE  BInv'
<1>0. TypeOK /\ Base /\ Indexed
  BY DEF BInv, Base
<1>1. /\ call' \in [Procs -> Seq(Step)] /\ call'[p] = c
      /\ \A q \in Procs \ {p} : call'[q] = call[q]
      /\ disturbed' \in BOOLEAN
  BY <1>0, Entered
<1>2. TypeOK'
  BY <1>0, <1>1 DEF TypeOK
<1>3. Base'
  BY <1>0, <1>1, <1>2, PlansStay
<1>4. Indexed'
  BY <1>0, <1>1, SameIndexes
<1> QED
  BY <1>3, <1>4 DEF BInv

LEMMA NewEntryTyped ==
    ASSUME KnowledgeAssumption, NEW ts \in SUBSET Tags
    PROVE  NewEntry(ts) \in Entry
BY DEF KnowledgeAssumption, NewEntry, Entry

LEMMA BumpedTyped ==
    ASSUME KnowledgeAssumption, NEW e \in Entry, e.version < MaxVersion
    PROVE  Bumped(e) \in Entry /\ Bumped(e).version = e.version + 1 /\ Bumped(e).links = e.links
BY DEF KnowledgeAssumption, Bumped, Entry

LEMMA EditedTyped ==
    ASSUME KnowledgeAssumption, NEW e \in Entry, e.version < MaxVersion, NEW ts \in SUBSET Tags
    PROVE  /\ Edited(e, ts) \in Entry
           /\ Edited(e, ts).version = e.version + 1 /\ Edited(e, ts).links = e.links
<1>1. PICK b \in Entry : b = Bumped(e) /\ b.version = e.version + 1 /\ b.links = e.links
  BY BumpedTyped
<1>2. /\ [b EXCEPT !.tags = ts] \in Entry /\ [b EXCEPT !.tags = ts].version = b.version
      /\ [b EXCEPT !.tags = ts].links = b.links
  BY DEF Entry
<1> QED
  BY <1>1, <1>2 DEF Edited

Linked(e, dst) == [Bumped(e) EXCEPT !.links = @ \cup {dst}]

LEMMA LinkedTyped ==
    ASSUME KnowledgeAssumption, NEW e \in Entry, e.version < MaxVersion, NEW dst \in Targets
    PROVE  /\ Linked(e, dst) \in Entry
           /\ Linked(e, dst).version = e.version + 1
           /\ Linked(e, dst).links = e.links \cup {dst}
<1>1. PICK b \in Entry : b = Bumped(e) /\ b.version = e.version + 1 /\ b.links = e.links
  BY BumpedTyped
<1>2. /\ [b EXCEPT !.links = @ \cup {dst}] \in Entry
      /\ [b EXCEPT !.links = @ \cup {dst}].version = b.version
      /\ [b EXCEPT !.links = @ \cup {dst}].links = b.links \cup {dst}
  BY DEF Entry
<1> QED
  BY <1>1, <1>2 DEF Linked

LEMMA OneStepPlan ==
    ASSUME NEW s \in Step, s.do # "write"
    PROVE  <<s>> \in Seq(Step) /\ Planned(<<s>>) /\ Last(<<s>>) = s /\ <<s>> # <<>>
<1>1. <<s>> \in Seq(Step)
  OBVIOUS
<1>2. Planned(<<s>>)
  BY PlannedSteps
<1>3. Last(<<s>>) = s /\ <<s>> # <<>>
  BY Firsts
<1> QED
  BY <1>1, <1>2, <1>3

LEMMA AddStep ==
    ASSUME KnowledgeAssumption, BInv, NEW p \in Procs, NEW f \in Files, NEW ts \in SUBSET Tags,
           KnowledgeAdd(p, f, ts)
    PROVE  BInv'
<1>1. PICK e \in Entry : e = NewEntry(ts)
  BY NewEntryTyped
<1>2. PICK s \in Step : s = Store(f, e) /\ s.do = "store" /\ s.file = f
  BY StepsMade
<1>3. <<s>> \in Seq(Step) /\ Planned(<<s>>) /\ Last(<<s>>) = s
  BY <1>2, OneStepPlan
<1> QED
  BY <1>1, <1>2, <1>3, CommandBegins DEF KnowledgeAdd, BInv, Base, TypeOK

LEMMA UpdateBegins ==
    ASSUME BInv, NEW p \in Procs, NEW f \in Files, NEW e \in Entry, Enter(p, <<Update(f, e)>>),
           UNCHANGED <<entry, index, record, listed, foreign, cascaded>>
    PROVE  BInv'
<1>1. PICK s \in Step : s = Update(f, e) /\ s.do = "update"
  BY StepsMade
<1>2. <<s>> \in Seq(Step) /\ Planned(<<s>>) /\ Last(<<s>>) = s
  BY <1>1, OneStepPlan
<1> QED
  BY <1>1, <1>2, CommandBegins DEF BInv, Base, TypeOK

LEMMA EditStep ==
    ASSUME KnowledgeAssumption, BInv, NEW p \in Procs, NEW f \in Files, NEW ts \in SUBSET Tags,
           KnowledgeEdit(p, f, ts)
    PROVE  BInv'
<1>1. entry[f] \in Entry /\ entry[f].version < MaxVersion
  BY DEF KnowledgeEdit, There, BInv, Base, TypeOK
<1>2. Edited(entry[f], ts) \in Entry
  BY <1>1, EditedTyped
<1> QED
  BY <1>2, UpdateBegins DEF KnowledgeEdit

(* The one entry of that id exists. *)
LEMMA LinkTarget ==
    ASSUME TypeOK, NEW p \in Procs, NEW i \in Ids, NEW dst \in Targets, KnowledgeLink(p, i, dst)
    PROVE  \E f \in Files : /\ entry[f] \in Entry /\ entry[f].version < MaxVersion
                            /\ Enter(p, <<Update(f, Linked(entry[f], dst))>>)
<1>1. Hits(i) # {}
  BY FS_EmptySet DEF KnowledgeLink
<1>2. (CHOOSE g \in Hits(i) : TRUE) \in Hits(i)
  BY <1>1
<1>3. PICK f \in Hits(i) : f = CHOOSE g \in Hits(i) : TRUE
  BY <1>2
<1>4. f \in Files /\ entry[f] \in Entry
  BY DEF Hits, There, TypeOK
<1> QED
  BY <1>3, <1>4 DEF KnowledgeLink, Linked

LEMMA LinkStep ==
    ASSUME KnowledgeAssumption, BInv, NEW p \in Procs, NEW i \in Ids, NEW dst \in Targets,
           KnowledgeLink(p, i, dst)
    PROVE  BInv'
<1>1. PICK f \in Files : /\ entry[f] \in Entry /\ entry[f].version < MaxVersion
                         /\ Enter(p, <<Update(f, Linked(entry[f], dst))>>)
  BY LinkTarget DEF BInv, Base
<1>2. Linked(entry[f], dst) \in Entry
  BY <1>1, LinkedTyped
<1> QED
  BY <1>1, <1>2, UpdateBegins DEF KnowledgeLink

(* An entry is removed, and the rest of the command planned. *)
LEMMA UnlinkStep ==
    ASSUME BInv, NEW p \in Procs, NEW f \in Files, NEW c \in Seq(Step), Unlink(p, f), Enter(p, c),
           Planned(c), c # <<>> => Last(c).do # "store",
           UNCHANGED <<record, listed>>, cascaded' \subseteq Ids
    PROVE  BInv'
<1>0. TypeOK /\ Base /\ Indexed
  BY DEF BInv, Base
<1>1. /\ call' \in [Procs -> Seq(Step)] /\ call'[p] = c /\ disturbed' \in BOOLEAN
      /\ \A q \in Procs \ {p} : call'[q] = call[q]
  BY <1>0, Entered
<1>2. index[p] \in Index
  BY <1>0 DEF TypeOK
<1>3. PICK i \in Index : i = RemoveFromIndex(index[p], f)
  BY <1>2, Removed
<1>4. /\ i.clean = index[p].clean /\ i.seen[f] = NoEntry
      /\ \A g \in Files \ {f} : i.seen[g] = index[p].seen[g]
      /\ \A t \in Tags, g \in Files : g \in i.byTag[t] <=>
            g \in index[p].byTag[t] /\ ~(g = f /\ t \in index[p].seen[f].tags)
  BY <1>2, <1>3, Removed
<1>5. Put(p, f, NoEntry) /\ index' = [index EXCEPT ![p] = i]
  BY <1>0, <1>3 DEF Unlink, Forgotten, TypeOK
<1>6. /\ index' \in [Procs -> Index] /\ index'[p] = i
      /\ \A q \in Procs \ {p} : index'[q] = index[q]
  BY <1>0, <1>5, IndexStep
<1>7. /\ entry' \in [Files -> Entry \cup {NoEntry}]
      /\ foreign' \in [Procs -> SUBSET Files]
  BY <1>0, <1>5, PutMeans
<1>8. TypeOK'
  BY <1>0, <1>1, <1>6, <1>7 DEF TypeOK
<1>9. Base'
  BY <1>0, <1>1, <1>8, PlansStay
<1>10. ASSUME index[p].clean PROVE Agrees(p)' /\ FreeToStore(p)'
  <2>1. Agrees(p)
    BY <1>0, <1>10 DEF Indexed
  <2>2. f \notin foreign[p] => \A t \in Tags : f \in index[p].byTag[t] => t \in index[p].seen[f].tags
    BY <2>1 DEF Agrees
  <2>3. f \notin foreign[p] => \A t \in Tags : f \in i.byTag[t] <=> t \in NoEntry.tags
    BY <1>4, <2>2, EntryFields
  <2>4. Agrees(p)'
    BY <1>0, <1>4, <1>5, <1>6, <2>1, <2>3, OwnAgrees
  <2> QED
    BY <1>1, <2>4 DEF FreeToStore
<1>11. ASSUME NEW q \in Procs, q # p, index[q].clean PROVE Agrees(q)' /\ FreeToStore(q)'
  BY <1>0, <1>1, <1>5, <1>6, <1>11, OthersAgree
<1> QED
  BY <1>4, <1>6, <1>9, <1>10, <1>11 DEF BInv, Indexed

LEMMA DeleteStep ==
    ASSUME BInv, NEW p \in Procs, NEW f \in Files, KnowledgeDelete(p, f)
    PROVE  BInv'
<1>1. <<>> \in Seq(Step) /\ Planned(<<>>)
  BY PlannedSteps
<1>2. cascaded' \subseteq Ids
  BY DEF KnowledgeDelete, BInv, Base, TypeOK
<1> QED
  BY <1>1, <1>2, UnlinkStep DEF KnowledgeDelete

LEMMA CascadeStep ==
    ASSUME BInv, NEW p \in Procs, NEW f \in Files, RemoveCascade(p, f)
    PROVE  BInv'
<1>1. IdOf(f) \in Ids
  BY DEF Files, IdOf
<1>2. PICK s \in Step : s = Strip(IdOf(f)) /\ s.do = "strip"
  BY <1>1, StepsMade
<1>3. <<s>> \in Seq(Step) /\ Planned(<<s>>) /\ Last(<<s>>) = s
  BY <1>2, OneStepPlan
<1>4. cascaded' \subseteq Ids
  BY <1>1 DEF RemoveCascade, BInv, Base, TypeOK
<1> QED
  BY <1>2, <1>3, <1>4, UnlinkStep DEF RemoveCascade

---------------------------------------------------------------------------
(* The steps on experience records: where they lead. *)

Moved(p, c, d) ==
    /\ call[p] = c /\ call'[p] = d /\ d \in Seq(Step)
    /\ call' \in [Procs -> Seq(Step)]
    /\ \A q \in Procs \ {p} : call'[q] = call[q]

LEMMA MovedOn ==
    ASSUME TypeOK, NEW p \in Procs, NEW c, NEW d \in Seq(Step), NEW x,
           call[p] = c, GoOn(p, x), x \o Tail(c) = d
    PROVE  Moved(p, c, d)
BY WentOn DEF Moved

Written(r, x) == record' = [record EXCEPT ![r] = [there |-> TRUE, refs |-> x]]

LEMMA DoWriteMeans ==
    ASSUME Base, NEW p \in Procs, DoWrite(p)
    PROVE  \E r \in Records, x \in SUBSET Ids :
              /\ Written(r, x)
              /\ \/ Moved(p, <<Write(r, x), Load(r, TRUE)>>, <<Load(r, TRUE)>>)
                 \/ \E e \in Step :
                      /\ e.do \in {"store", "rest"}
                      /\ Moved(p, <<Write(r, x), Load(r, TRUE), e>>, <<Load(r, TRUE), e>>)
<1>0. TypeOK /\ Does(p, "write") /\ GoOn(p, <<>>)
  BY DEF Base, DoWrite
<1>1. PICK r \in Records, x \in SUBSET Ids :
        \/ call[p] = <<Write(r, x), Load(r, TRUE)>>
        \/ \E e \in Step : e.do \in {"store", "rest"} /\ call[p] = <<Write(r, x), Load(r, TRUE), e>>
  BY <1>0, WritePlan
<1>2. PICK w \in Step, l \in Step : /\ w = Write(r, x) /\ l = Load(r, TRUE)
                                    /\ w.rec = r /\ w.refs = x
  <2>1. Write(r, x) \in Step /\ Write(r, x).rec = r /\ Write(r, x).refs = x
    BY StepsMade
  <2>2. Load(r, TRUE) \in Step
    BY StepsMade
  <2> QED
    BY <2>1, <2>2
<1>3. call[p][1] = w
  <2>1. CASE call[p] = <<w, l>>
    BY <2>1, Firsts
  <2>2. ASSUME NEW e \in Step, call[p] = <<w, l, e>> PROVE call[p][1] = w
    BY <2>2, Firsts
  <2> QED
    BY <1>1, <1>2, <2>1, <2>2
<1>4. Written(r, x)
  BY <1>2, <1>3 DEF DoWrite, Written
<1>5. CASE call[p] = <<w, l>>
  <2>1. <<>> \o Tail(<<w, l>>) = <<l>> /\ <<l>> \in Seq(Step)
    BY Tails
  <2>2. Moved(p, <<w, l>>, <<l>>)
    BY <1>0, <1>5, <2>1, MovedOn
  <2> QED
    BY <1>2, <1>4, <2>2
<1>6. ASSUME NEW e \in Step, e.do \in {"store", "rest"}, call[p] = <<w, l, e>>
      PROVE  Moved(p, <<w, l, e>>, <<l, e>>)
  <2>1. <<>> \o Tail(<<w, l, e>>) = <<l, e>> /\ <<l, e>> \in Seq(Step)
    BY Tails
  <2> QED
    BY <1>0, <1>6, <2>1, MovedOn
<1> QED
  BY <1>1, <1>2, <1>4, <1>5, <1>6

LEMMA DoLoadMeans ==
    ASSUME Base, NEW p \in Procs, DoLoad(p)
    PROVE  \E s \in Step, l \in Step :
              /\ s.do = "load" /\ l = List(s.rec, s.in, listed) /\ l.do = "list"
              /\ l.rec = s.rec /\ l.in = s.in /\ l.got = listed
              /\ \/ Moved(p, <<s>>, <<l>>)
                 \/ \E e \in Step : /\ s.in /\ e.do \in {"store", "rest"}
                                    /\ Moved(p, <<s, e>>, <<l, e>>)
<1>0. TypeOK /\ Does(p, "load")
  BY DEF Base, DoLoad
<1>1. PICK s \in Step : /\ s.do = "load"
                        /\ \/ call[p] = <<s>>
                           \/ s.in /\ \E e \in Step : e.do \in {"store", "rest"} /\ call[p] = <<s, e>>
  BY <1>0, ListPlan
<1>2. s.rec \in Records /\ s.in \in BOOLEAN /\ listed \in SUBSET Records
  BY <1>0, <1>1, StepFields DEF TypeOK
<1>3. PICK l \in Step : /\ l = List(s.rec, s.in, listed) /\ l.do = "list"
                        /\ l.rec = s.rec /\ l.in = s.in /\ l.got = listed
  BY <1>2, StepsMade
<1>4. CASE call[p] = <<s>>
  <2>1. call[p][1] = s
    BY <1>4, OneStep
  <2>2. GoOn(p, <<l>>)
    BY <1>3, <2>1 DEF DoLoad
  <2>3. <<l>> \o Tail(<<s>>) = <<l>> /\ <<l>> \in Seq(Step)
    BY LongerTails
  <2>4. Moved(p, <<s>>, <<l>>)
    BY <1>0, <1>4, <2>2, <2>3, MovedOn
  <2> QED
    BY <1>1, <1>3, <2>4
<1>5. ASSUME s.in, NEW e \in Step, e.do \in {"store", "rest"}, call[p] = <<s, e>>
      PROVE  Moved(p, <<s, e>>, <<l, e>>)
  <2>1. call[p][1] = s
    BY <1>5, TwoSteps
  <2>2. GoOn(p, <<l>>)
    BY <1>3, <2>1 DEF DoLoad
  <2>3. <<l>> \o Tail(<<s, e>>) = <<l, e>> /\ <<l, e>> \in Seq(Step)
    BY LongerTails
  <2> QED
    BY <1>0, <1>5, <2>2, <2>3, MovedOn
<1> QED
  BY <1>1, <1>3, <1>4, <1>5

LEMMA DoListMeans ==
    ASSUME Base, NEW p \in Procs, DoList(p)
    PROVE  \E s \in Step :
              /\ s.do = "list"
              /\ listed' = IF s.in THEN s.got \cup {s.rec}
                           ELSE IF s.rec \in s.got THEN s.got \ {s.rec} ELSE listed
              /\ \/ Moved(p, <<s>>, <<>>)
                 \/ \E e \in Step : /\ s.in /\ e.do \in {"store", "rest"}
                                    /\ Moved(p, <<s, e>>, <<e>>)
<1>0. TypeOK /\ Does(p, "list") /\ GoOn(p, <<>>)
  BY DEF Base, DoList
<1>1. PICK s \in Step : /\ s.do = "list"
                        /\ \/ call[p] = <<s>>
                           \/ s.in /\ \E e \in Step : e.do \in {"store", "rest"} /\ call[p] = <<s, e>>
  BY <1>0, ListPlan
<1>2. call[p][1] = s
  BY <1>1, OneStep, TwoSteps
<1>3. listed' = IF s.in THEN s.got \cup {s.rec}
                ELSE IF s.rec \in s.got THEN s.got \ {s.rec} ELSE listed
  BY <1>2 DEF DoList
<1>4. CASE call[p] = <<s>>
  <2>1. <<>> \o Tail(<<s>>) = <<>> /\ <<>> \in Seq(Step)
    BY Tails
  <2>2. Moved(p, <<s>>, <<>>)
    BY <1>0, <1>4, <2>1, MovedOn
  <2> QED
    BY <1>1, <1>3, <2>2
<1>5. ASSUME s.in, NEW e \in Step, e.do \in {"store", "rest"}, call[p] = <<s, e>>
      PROVE  Moved(p, <<s, e>>, <<e>>)
  <2>1. <<>> \o Tail(<<s, e>>) = <<e>> /\ <<e>> \in Seq(Step)
    BY Tails
  <2> QED
    BY <1>0, <1>5, <2>1, MovedOn
<1> QED
  BY <1>1, <1>3, <1>4, <1>5

LEMMA DoStripMeans ==
    ASSUME Base, NEW p \in Procs, DoStrip(p)
    PROVE  \E s \in Step, e \in Step :
              /\ s.do = "strip" /\ e = Rest(s.id, record)
              /\ e.do = "rest" /\ e.id = s.id /\ e.todo = record
              /\ Moved(p, <<s>>, <<e>>)
<1>0. TypeOK /\ Does(p, "strip")
  BY DEF Base, DoStrip
<1>1. PICK s \in Step : s.do = "strip" /\ call[p] = <<s>>
  BY <1>0, SinglePlan
<1>2. s.id \in Ids /\ record \in [Records -> Record \cup {NoRecord}] /\ call[p][1] = s
  BY <1>0, <1>1, StepFields, OneStep DEF TypeOK
<1>3. PICK e \in Step : e = Rest(s.id, record) /\ e.do = "rest" /\ e.id = s.id /\ e.todo = record
  BY <1>2, StepsMade
<1>4. GoOn(p, <<e>>)
  BY <1>2, <1>3 DEF DoStrip
<1>5. <<e>> \o Tail(<<s>>) = <<e>> /\ <<e>> \in Seq(Step)
  BY LongerTails
<1>6. Moved(p, <<s>>, <<e>>)
  BY <1>0, <1>1, <1>4, <1>5, MovedOn
<1> QED
  BY <1>1, <1>3, <1>6

LEMMA DoRestMeans ==
    ASSUME Base, NEW p \in Procs, DoRest(p)
    PROVE  \E s \in Step :
              /\ s.do = "rest"
              /\ \/ Referrers(s) = {} /\ Moved(p, <<s>>, <<>>)
                 \/ \E r \in Referrers(s), x \in SUBSET Ids, e \in Step :
                      /\ x = s.todo[r].refs \ {s.id}
                      /\ e.do = "rest" /\ e.id = s.id
                      /\ e.todo = [s.todo EXCEPT ![r] = NoRecord]
                      /\ Moved(p, <<s>>, <<Write(r, x), Load(r, TRUE), e>>)
<1>0. TypeOK /\ Does(p, "rest")
  BY DEF Base, DoRest
<1>1. PICK s \in Step : s.do = "rest" /\ call[p] = <<s>>
  BY <1>0, SinglePlan
<1>2. s.id \in Ids /\ s.todo \in [Records -> Record \cup {NoRecord}] /\ call[p][1] = s
  BY <1>1, StepFields, OneStep
<1>3. CASE Referrers(s) = {} /\ GoOn(p, <<>>)
  <2>1. <<>> \o Tail(<<s>>) = <<>> /\ <<>> \in Seq(Step)
    BY Tails
  <2>2. Moved(p, <<s>>, <<>>)
    BY <1>0, <1>1, <1>3, <2>1, MovedOn
  <2> QED
    BY <1>1, <1>3, <2>2
<1>4. ASSUME NEW r \in Referrers(s),
             GoOn(p, Stored(r, s.todo[r].refs \ {s.id}) \o <<Remaining(s, r)>>)
      PROVE  \E x \in SUBSET Ids, e \in Step :
                /\ x = s.todo[r].refs \ {s.id}
                /\ e.do = "rest" /\ e.id = s.id
                /\ e.todo = [s.todo EXCEPT ![r] = NoRecord]
                /\ Moved(p, <<s>>, <<Write(r, x), Load(r, TRUE), e>>)
  <2>1. r \in Records /\ s.todo[r].refs \subseteq Ids
    BY <1>2, EntryFields DEF Referrers
  <2>2. [s.todo EXCEPT ![r] = NoRecord] \in [Records -> Record \cup {NoRecord}]
    BY <1>2, <2>1
  <2>3. PICK e \in Step : /\ e = Remaining(s, r) /\ e.do = "rest" /\ e.id = s.id
                          /\ e.todo = [s.todo EXCEPT ![r] = NoRecord]
    BY <1>2, <2>2, StepsMade DEF Remaining
  <2>4. PICK x \in SUBSET Ids : x = s.todo[r].refs \ {s.id}
    BY <2>1
  <2>5. PICK w \in Step, l \in Step : w = Write(r, x) /\ l = Load(r, TRUE)
    BY <2>1, StepsMade
  <2>6. GoOn(p, <<w, l>> \o <<e>>)
    BY <1>4, <2>3, <2>4, <2>5 DEF Stored
  <2>7. (<<w, l>> \o <<e>>) \o Tail(<<s>>) = <<w, l, e>> /\ <<w, l, e>> \in Seq(Step)
    BY Chains
  <2>8. Moved(p, <<s>>, <<w, l, e>>)
    BY <1>0, <1>1, <2>6, <2>7, MovedOn
  <2> QED
    BY <2>3, <2>4, <2>5, <2>8
<1> QED
  BY <1>1, <1>2, <1>3, <1>4 DEF DoRest

(* A step on records leaves entries and indexes alone.                     *)
LEMMA RecordStep ==
    ASSUME BInv, NEW p \in Procs, NEW c, NEW d, Moved(p, c, d), Planned(d),
           UNCHANGED <<entry, index, foreign, cascaded, disturbed>>,
           record' \in [Records -> Record \cup {NoRecord}], listed' \subseteq Records,
           d # <<>> /\ Last(d).do = "store" => c # <<>> /\ Last(d) = Last(c)
    PROVE  BInv'
<1>0. TypeOK /\ Base /\ Indexed
  BY DEF BInv, Base
<1>1. TypeOK'
  BY <1>0 DEF TypeOK, Moved
<1>2. Base'
  BY <1>0, <1>1, PlansStay DEF Moved
<1>3. Indexed'
  BY <1>0, SameIndexes DEF Moved
<1> QED
  BY <1>2, <1>3 DEF BInv

LEMMA LastOf ==
    /\ \A a : Last(<<a>>) = a /\ <<a>> # <<>>
    /\ \A a, b : Last(<<a, b>>) = b /\ <<a, b>> # <<>>
    /\ \A a, b, c : Last(<<a, b, c>>) = c /\ <<a, b, c>> # <<>>
<1>1. \A a : Last(<<a>>) = a /\ <<a>> # <<>>
  BY Firsts
<1>2. \A a, b : Last(<<a, b>>) = b /\ <<a, b>> # <<>>
  BY Firsts
<1>3. \A a, b, c : Last(<<a, b, c>>) = c /\ <<a, b, c>> # <<>>
  BY DEF Last
<1> QED
  BY <1>1, <1>2, <1>3

LEMMA WrittenTyped ==
    ASSUME TypeOK, NEW r \in Records, NEW x \in SUBSET Ids, Written(r, x)
    PROVE  /\ record' \in [Records -> Record \cup {NoRecord}]
           /\ record'[r].there /\ record'[r].refs = x
           /\ \A q \in Records \ {r} : record'[q] = record[q]
BY DEF TypeOK, Written, Record

LEMMA DoWriteStep ==
    ASSUME BInv, NEW p \in Procs, DoWrite(p)
    PROVE  BInv'
<1>0. TypeOK /\ Base /\ UNCHANGED <<entry, index, foreign, cascaded, disturbed>> /\ listed' = listed
  BY DEF BInv, Base, DoWrite, history
<1>1. PICK r \in Records, x \in SUBSET Ids :
              /\ Written(r, x)
              /\ \/ Moved(p, <<Write(r, x), Load(r, TRUE)>>, <<Load(r, TRUE)>>)
                 \/ \E e \in Step :
                      /\ e.do \in {"store", "rest"}
                      /\ Moved(p, <<Write(r, x), Load(r, TRUE), e>>, <<Load(r, TRUE), e>>)
  BY <1>0, DoWriteMeans
<1>2. record' \in [Records -> Record \cup {NoRecord}] /\ listed' \subseteq Records
  BY <1>0, <1>1, WrittenTyped DEF TypeOK
<1>3. PICK l \in Step : l = Load(r, TRUE) /\ l.do = "load" /\ l.in
  BY StepsMade
<1>4. CASE Moved(p, <<Write(r, x), l>>, <<l>>)
  <2>1. Planned(<<l>>) /\ Last(<<l>>).do # "store"
    BY <1>3, PlannedSteps, LastOf
  <2> QED
    BY <1>0, <1>2, <1>4, <2>1, RecordStep
<1>5. ASSUME NEW e \in Step, e.do \in {"store", "rest"}, Moved(p, <<Write(r, x), l, e>>, <<l, e>>)
      PROVE  BInv'
  <2>1. Planned(<<l, e>>)
    BY <1>3, <1>5, PlannedSteps
  <2>2. Last(<<l, e>>) = Last(<<Write(r, x), l, e>>) /\ <<Write(r, x), l, e>> # <<>>
    BY LastOf
  <2> QED
    BY <1>0, <1>2, <1>5, <2>1, <2>2, RecordStep
<1> QED
  BY <1>1, <1>3, <1>4, <1>5

LEMMA DoLoadStep ==
    ASSUME BInv, NEW p \in Procs, DoLoad(p)
    PROVE  BInv'
<1>0. /\ TypeOK /\ Base /\ UNCHANGED <<entry, index, foreign, cascaded, disturbed>>
      /\ record' \in [Records -> Record \cup {NoRecord}] /\ listed' \subseteq Records
  BY DEF BInv, Base, DoLoad, history, TypeOK
<1>1. PICK s \in Step, l \in Step :
              /\ s.do = "load" /\ l.do = "list" /\ l.in = s.in
              /\ \/ Moved(p, <<s>>, <<l>>)
                 \/ \E e \in Step : /\ s.in /\ e.do \in {"store", "rest"}
                                    /\ Moved(p, <<s, e>>, <<l, e>>)
  BY <1>0, DoLoadMeans
<1>2. CASE Moved(p, <<s>>, <<l>>)
  <2>1. Planned(<<l>>) /\ Last(<<l>>).do # "store"
    BY <1>1, PlannedSteps, LastOf
  <2> QED
    BY <1>0, <1>2, <2>1, RecordStep
<1>3. ASSUME s.in, NEW e \in Step, e.do \in {"store", "rest"}, Moved(p, <<s, e>>, <<l, e>>)
      PROVE  BInv'
  <2>1. Planned(<<l, e>>)
    BY <1>1, <1>3, PlannedSteps
  <2>2. Last(<<l, e>>) = Last(<<s, e>>) /\ <<s, e>> # <<>>
    BY LastOf
  <2> QED
    BY <1>0, <1>3, <2>1, <2>2, RecordStep
<1> QED
  BY <1>1, <1>2, <1>3

LEMMA DoListStep ==
    ASSUME BInv, NEW p \in Procs, DoList(p)
    PROVE  BInv'
<1>0. /\ TypeOK /\ Base /\ UNCHANGED <<entry, index, foreign, cascaded, disturbed>>
      /\ record' \in [Records -> Record \cup {NoRecord}]
  BY DEF BInv, Base, DoList, history, TypeOK
<1>1. PICK s \in Step :
              /\ s.do = "list"
              /\ listed' = IF s.in THEN s.got \cup {s.rec}
                           ELSE IF s.rec \in s.got THEN s.got \ {s.rec} ELSE listed
              /\ \/ Moved(p, <<s>>, <<>>)
                 \/ \E e \in Step : /\ s.in /\ e.do \in {"store", "rest"}
                                    /\ Moved(p, <<s, e>>, <<e>>)
  BY <1>0, DoListMeans
<1>2. listed' \subseteq Records
  BY <1>0, <1>1, StepFields DEF TypeOK
<1>3. CASE Moved(p, <<s>>, <<>>)
  BY <1>0, <1>2, <1>3, PlannedSteps, RecordStep
<1>4. ASSUME NEW e \in Step, e.do \in {"store", "rest"}, Moved(p, <<s, e>>, <<e>>)
      PROVE  BInv'
  <2>1. Planned(<<e>>)
    BY <1>4, PlannedSteps
  <2>2. Last(<<e>>) = Last(<<s, e>>) /\ <<s, e>> # <<>>
    BY LastOf
  <2> QED
    BY <1>0, <1>2, <1>4, <2>1, <2>2, RecordStep
<1> QED
  BY <1>1, <1>3, <1>4

LEMMA DoStripStep ==
    ASSUME BInv, NEW p \in Procs, DoStrip(p)
    PROVE  BInv'
<1>0. /\ TypeOK /\ Base /\ UNCHANGED <<entry, index, foreign, cascaded, disturbed>>
      /\ record' \in [Records -> Record \cup {NoRecord}] /\ listed' \subseteq Records
  BY DEF BInv, Base, DoStrip, history, TypeOK
<1>1. PICK s \in Step, e \in Step : e.do = "rest" /\ Moved(p, <<s>>, <<e>>)
  BY <1>0, DoStripMeans
<1>2. Planned(<<e>>) /\ Last(<<e>>).do # "store"
  BY <1>1, PlannedSteps, LastOf
<1> QED
  BY <1>0, <1>1, <1>2, RecordStep

LEMMA DoRestStep ==
    ASSUME BInv, NEW p \in Procs, DoRest(p)
    PROVE  BInv'
<1>0. /\ TypeOK /\ Base /\ UNCHANGED <<entry, index, foreign, cascaded, disturbed>>
      /\ record' \in [Records -> Record \cup {NoRecord}] /\ listed' \subseteq Records
  BY DEF BInv, Base, DoRest, history, TypeOK
<1>1. PICK s \in Step :
              \/ Moved(p, <<s>>, <<>>)
              \/ \E r \in Records, x \in SUBSET Ids, e \in Step :
                      e.do = "rest" /\ Moved(p, <<s>>, <<Write(r, x), Load(r, TRUE), e>>)
  BY <1>0, DoRestMeans DEF Referrers
<1>2. CASE Moved(p, <<s>>, <<>>)
  BY <1>0, <1>2, PlannedSteps, RecordStep
<1>3. ASSUME NEW r \in Records, NEW x \in SUBSET Ids, NEW e \in Step, e.do = "rest",
             Moved(p, <<s>>, <<Write(r, x), Load(r, TRUE), e>>)
      PROVE  BInv'
  <2>1. Planned(<<Write(r, x), Load(r, TRUE), e>>)
    BY <1>3, PlannedSteps
  <2>2. Last(<<Write(r, x), Load(r, TRUE), e>>).do # "store"
    BY <1>3, LastOf
  <2> QED
    BY <1>0, <1>3, <2>1, <2>2, RecordStep
<1> QED
  BY <1>1, <1>2, <1>3

(* add, delete and extraction of an experience record begin. *)
LEMMA ExperienceAddMeans ==
    ASSUME NEW p \in Procs, NEW r \in Records, ExperienceAdd(p, r)
    PROVE  \E c \in Seq(Step) : /\ c = <<Write(r, {}), Load(r, TRUE)>> /\ c # <<>>
                                /\ Enter(p, c) /\ Planned(c) /\ Last(c).do = "load"
<1>1. PICK w \in Step, l \in Step : w = Write(r, {}) /\ l = Load(r, TRUE) /\ l.do = "load"
  <2>1. {} \in SUBSET Ids
    OBVIOUS
  <2>2. Write(r, {}) \in Step
    BY <2>1, StepsMade
  <2>3. Load(r, TRUE) \in Step /\ Load(r, TRUE).do = "load"
    BY StepsMade
  <2> QED
    BY <2>2, <2>3
<1>2. <<w, l>> \in Seq(Step)
  OBVIOUS
<1>3. Enter(p, <<w, l>>)
  BY <1>1 DEF ExperienceAdd, Stored
<1>4. Planned(<<w, l>>)
  BY <1>1, PlannedSteps
<1>5. Last(<<w, l>>) = l /\ <<w, l>> # <<>>
  BY LastOf
<1> QED
  BY <1>1, <1>2, <1>3, <1>4, <1>5

LEMMA ExperienceAddStep ==
    ASSUME BInv, NEW p \in Procs, NEW r \in Records, ExperienceAdd(p, r)
    PROVE  BInv'
<1>1. PICK c \in Seq(Step) : Enter(p, c) /\ Planned(c) /\ Last(c).do = "load"
  BY ExperienceAddMeans
<1> QED
  BY <1>1, CommandBegins DEF ExperienceAdd, BInv, Base, TypeOK

LEMMA ExperienceDeleteStep ==
    ASSUME BInv, NEW p \in Procs, NEW r \in Records, ExperienceDelete(p, r)
    PROVE  BInv'
<1>1. PICK l \in Step : l = Load(r, FALSE) /\ l.do = "load"
  <2>1. Load(r, FALSE) \in Step /\ Load(r, FALSE).do = "load"
    BY DEF Load, Step
  <2> QED
    BY <2>1
<1>2. <<l>> \in Seq(Step) /\ Planned(<<l>>) /\ Last(<<l>>).do = "load"
  BY <1>1, OneStepPlan
<1>3. record' \in [Records -> Record \cup {NoRecord}]
  BY DEF ExperienceDelete, BInv, Base, TypeOK
<1> QED
  BY <1>1, <1>2, <1>3, CommandBegins DEF ExperienceDelete

ExtractPlan(p, r, x, f) ==
    \E c \in Seq(Step), s \in Step :
        /\ s.do = "store" /\ s.file = f /\ c = <<Write(r, x), Load(r, TRUE), s>> /\ c # <<>>
        /\ Enter(p, c) /\ Planned(c) /\ Last(c) = s

LEMMA ExtractMeans ==
    ASSUME KnowledgeAssumption, NEW p \in Procs, NEW r \in Records, NEW x \in SUBSET Ids,
           NEW f \in Files, NEW ts \in SUBSET Tags, ExtractFromSession(p, r, x, f, ts)
    PROVE  ExtractPlan(p, r, x, f)
<1>1. PICK w \in Step, l \in Step : w = Write(r, x) /\ l = Load(r, TRUE)
  BY StepsMade
<1>2. PICK e \in Entry : e = NewEntry(ts)
  BY NewEntryTyped
<1>3. PICK s \in Step : s = Store(f, e) /\ s.do = "store" /\ s.file = f
  BY StepsMade
<1>4. <<w, l>> \o <<s>> = <<w, l, s>> /\ <<w, l, s>> \in Seq(Step)
  BY Triples
<1>5. Enter(p, <<w, l, s>>)
  BY <1>1, <1>2, <1>3, <1>4 DEF ExtractFromSession, Stored
<1>6. Planned(<<w, l, s>>)
  BY <1>1, <1>3, PlannedSteps
<1>7. Last(<<w, l, s>>) = s /\ <<w, l, s>> # <<>>
  BY LastOf
<1>8. PICK c \in Seq(Step) : c = <<w, l, s>>
  BY <1>4
<1>9. Enter(p, c) /\ Planned(c) /\ Last(c) = s /\ c # <<>> /\ c = <<Write(r, x), Load(r, TRUE), s>>
  BY <1>1, <1>5, <1>6, <1>7, <1>8
<1> QED
  BY <1>3, <1>9 DEF ExtractPlan

LEMMA ExtractStep ==
    ASSUME KnowledgeAssumption, BInv, NEW p \in Procs, NEW r \in Records, NEW x \in SUBSET Ids,
           NEW f \in Files, NEW ts \in SUBSET Tags, ExtractFromSession(p, r, x, f, ts)
    PROVE  BInv'
<1>1. ExtractPlan(p, r, x, f)
  BY ExtractMeans
<1>2. PICK c \in Seq(Step), s \in Step :
        /\ s.do = "store" /\ s.file = f /\ c = <<Write(r, x), Load(r, TRUE), s>> /\ c # <<>>
        /\ Enter(p, c) /\ Planned(c) /\ Last(c) = s
  BY <1>1 DEF ExtractPlan
<1> QED
  BY <1>2, CommandBegins DEF ExtractFromSession, BInv, Base, TypeOK

LEMMA ExitStep ==
    ASSUME BInv, NEW p \in Procs, Exit(p)
    PROVE  BInv'
<1>0. TypeOK /\ Base /\ Indexed /\ UNCHANGED <<entry, record, listed, cascaded>>
  BY DEF BInv, Base, Exit
<1>1. Dirty \in Index /\ ~Dirty.clean
  BY DEF Dirty, Index
<1>2. /\ index' \in [Procs -> Index] /\ index'[p] = Dirty
      /\ \A q \in Procs \ {p} : index'[q] = index[q]
  BY <1>0, <1>1, IndexStep DEF Exit
<1>3. /\ call' \in [Procs -> Seq(Step)] /\ call'[p] = <<>>
      /\ \A q \in Procs \ {p} : call'[q] = call[q]
      /\ foreign' \in [Procs -> SUBSET Files]
      /\ \A q \in Procs \ {p} : foreign'[q] = foreign[q]
  <2>1. <<>> \in Seq(Step)
    OBVIOUS
  <2> QED
    BY <1>0, <2>1 DEF Exit, TypeOK
<1>4. TypeOK'
  BY <1>0, <1>2, <1>3 DEF TypeOK, Exit
<1>5. Base'
  BY <1>0, <1>3, <1>4, PlansStay, PlannedSteps
<1>6. ASSUME NEW q \in Procs, index'[q].clean PROVE Agrees(q)' /\ FreeToStore(q)'
  <2>1. q # p
    BY <1>1, <1>2, <1>6
  <2>2. index[q].clean /\ index'[q] = index[q] /\ foreign'[q] = foreign[q] /\ call'[q] = call[q]
    BY <1>2, <1>3, <1>6, <2>1
  <2>3. Agrees(q) /\ FreeToStore(q)
    BY <1>0, <2>2 DEF Indexed
  <2>4. Agrees(q)'
    BY <1>0, <2>2, <2>3 DEF Agrees
  <2>5. FreeToStore(q)'
    BY <1>0, <2>2, <2>3 DEF FreeToStore, There
  <2> QED
    BY <2>4, <2>5
<1> QED
  BY <1>5, <1>6 DEF BInv, Indexed

LEMMA BInvStep ==
    ASSUME KnowledgeAssumption, BInv, [Next]_vars
    PROVE  BInv'
<1>1. CASE UNCHANGED vars
  <2>1. Base'
    BY <1>1, ZenonT(60) DEF vars, history, BInv, Base, TypeOK, Planned
  <2>2. Indexed'
    BY <1>1 DEF vars, history, BInv, Indexed, Agrees, FreeToStore, There
  <2> QED
    BY <2>1, <2>2 DEF BInv
<1>2. ASSUME NEW p \in Procs, Command(p) PROVE BInv'
  <2>1. CASE Search(p)
    BY <2>1, SearchStep
  <2>2. CASE \E f \in Files, ts \in SUBSET Tags : KnowledgeAdd(p, f, ts) \/ KnowledgeEdit(p, f, ts)
    BY <2>2, AddStep, EditStep
  <2>3. CASE \E f \in Files : KnowledgeDelete(p, f) \/ RemoveCascade(p, f)
    BY <2>3, DeleteStep, CascadeStep
  <2>4. CASE \E i \in Ids, dst \in Targets : KnowledgeLink(p, i, dst)
    BY <2>4, LinkStep
  <2>5. CASE \E r \in Records : ExperienceAdd(p, r) \/ ExperienceDelete(p, r)
    BY <2>5, ExperienceAddStep, ExperienceDeleteStep
  <2>6. CASE \E r \in Records, refs \in SUBSET Ids, f \in Files, ts \in SUBSET Tags :
               ExtractFromSession(p, r, refs, f, ts)
    BY <2>6, ExtractStep
  <2> QED
    BY <1>2, <2>1, <2>2, <2>3, <2>4, <2>5, <2>6 DEF Command
<1>3. ASSUME NEW p \in Procs, DoStep(p) PROVE BInv'
  BY <1>3, DoStoreStep, DoUpdateStep, DoStripStep, DoRestStep, DoWriteStep, DoLoadStep,
     DoListStep DEF DoStep
<1>4. ASSUME NEW p \in Procs, Exit(p) PROVE BInv'
  BY <1>4, ExitStep
<1> QED
  BY <1>1, <1>2, <1>3, <1>4 DEF Next

LEMMA BasicInvariant == Spec => []BInv
<1>1. Init => BInv
  BY InitBInv
<1>2. BInv /\ [Next]_vars => BInv'
  BY BInvStep, KnowledgeAssumption
<1> QED
  BY <1>1, <1>2, PTL DEF Spec

---------------------------------------------------------------------------
(* Entries, indexes, records and plans hold what their types say.          *)
THEOREM TypeCorrect == Spec => []TypeOK
<1>1. BInv => TypeOK
  BY DEF BInv, Base
<1> QED
  BY <1>1, BasicInvariant, PTL

(* Whatever processes do to the entries, a search by tags answers from its *)
(* index as the files would, but for those another process changed since.  *)
THEOREM SearchCorrect == Spec => []SearchAgrees
<1>1. BInv => SearchAgrees
  <2>1. SUFFICES ASSUME BInv, NEW p \in Procs, index[p].clean, NEW ts \in SUBSET Tags,
                        NEW f \in Files \ foreign[p]
                 PROVE  /\ f \in Found(p, ts) <=> There(f) /\ ts \subseteq entry[f].tags
                        /\ f \in Found(p, ts) => index[p].seen[f] = entry[f]
    BY DEF SearchAgrees
  <2>2. Agrees(p)
    BY <2>1 DEF BInv, Indexed
  <2>3. index[p].seen[f] = entry[f] /\ \A t \in ts : f \in index[p].byTag[t] <=> t \in entry[f].tags
    BY <2>2 DEF Agrees
  <2> QED
    BY <2>3 DEF Found, There
<1> QED
  BY <1>1, BasicInvariant, PTL

---------------------------------------------------------------------------
(* While commands do not overlap: what a process has yet to do, seen from  *)
(* its first and its last step, is all that is missing.                    *)

Recs == {r \in Records : record[r].there}
Clear == \A r \in Records : record[r].refs \cap cascaded = {}
Settled == listed = Recs /\ Clear

(* index.json but for the record the first step lists or takes off.        *)
Listing(h) ==
    /\ h.do \notin {"load", "list"} => listed = Recs
    /\ h.do \in {"load", "list"} /\ h.in => h.rec \in Recs /\ listed \cup {h.rec} = Recs
    /\ h.do \in {"load", "list"} /\ ~h.in => h.rec \notin Recs /\ listed \ {h.rec} = Recs
    /\ h.do = "list" => h.got = listed

(* An entry that is to be written continues the one that is there.         *)
Continues(e) ==
    /\ e.do = "store" => ~There(e.file)
    /\ e.do = "update" =>
         /\ entry[e.file].links \subseteq e.entry.links
         /\ e.entry.version > entry[e.file].version

(* References to removed entries but for those the cascade still strips.   *)
Stripping(h, e) ==
    /\ e.do \notin {"strip", "rest"} => Clear
    /\ e.do \in {"strip", "rest"} =>
         /\ e.id \in cascaded
         /\ \A r \in Records : record[r].refs \cap cascaded \subseteq {e.id}
    /\ e.do = "rest" =>
         \A r \in Records :
            /\ e.todo[r].refs \cap cascaded \subseteq {e.id}
            /\ e.id \in record[r].refs =>
                  e.id \in e.todo[r].refs \/ (h.do = "write" /\ h.rec = r)
    /\ h.do = "write" => h.refs \cap cascaded = {}

Ready(h, e) == Listing(h) /\ Continues(e) /\ Stripping(h, e)

Alone == \A p, q \in Procs : call[p] # <<>> /\ call[q] # <<>> => p = q

Progress ==
    ~disturbed =>
        /\ Alone
        /\ \A p \in Procs : call[p] # <<>> => Ready(call[p][1], Last(call[p]))
        /\ (\A p \in Procs : call[p] = <<>>) => Settled

PInv == BInv /\ Progress

(* What has to be shown of a step of p, the others being at rest.          *)
LEMMA Progresses ==
    ASSUME NEW p \in Procs, NEW d, call'[p] = d, \A q \in Procs \ {p} : call'[q] = <<>>,
           d = <<>> => Settled',
           d # <<>> => Ready(d[1], Last(d))'
    PROVE  Progress'
<1>1. Alone'
  BY DEF Alone
<1>2. ASSUME NEW q \in Procs, call'[q] # <<>> PROVE Ready(call[q][1], Last(call[q]))'
  <2>1. q = p
    BY <1>2
  <2>2. d # <<>> /\ Ready(d[1], Last(d))'
    BY <1>2, <2>1
  <2>3. d[1] = call'[q][1] /\ Last(d) = Last(call'[q])
    BY <2>1
  <2> QED
    BY <2>2, <2>3 DEF Ready, Listing, Continues, Stripping, Recs, Clear, There
<1>3. (\A q \in Procs : call'[q] = <<>>) => Settled'
  OBVIOUS
<1> QED
  BY <1>1, <1>2, <1>3 DEF Progress

(* A command of p begins while all are at rest. *)
LEMMA Begins ==
    ASSUME PInv, NEW p \in Procs, NEW c \in Seq(Step), Enter(p, c), ~disturbed'
    PROVE  /\ Settled /\ call'[p] = c
           /\ \A q \in Procs \ {p} : call'[q] = <<>>
<1>1. TypeOK
  BY DEF PInv, BInv, Base
<1>2. /\ call'[p] = c /\ \A q \in Procs \ {p} : call'[q] = call[q]
      /\ ~disturbed /\ \A q \in Procs : call[q] = <<>>
  BY <1>1, Entered
<1> QED
  BY <1>2 DEF PInv, Progress

(* A step of p is taken while the others are at rest. *)
LEMMA GoesOn ==
    ASSUME PInv, NEW p \in Procs, NEW c, NEW d, Moved(p, c, d), c # <<>>, ~disturbed
    PROVE  /\ Ready(c[1], Last(c)) /\ call'[p] = d
           /\ \A q \in Procs \ {p} : call'[q] = <<>>
BY DEF PInv, Progress, Alone, Moved

LEMMA InitPInv ==
    ASSUME Init
    PROVE  PInv
<1>1. BInv
  BY InitBInv
<1>2. \A p \in Procs : call[p] = <<>>
  BY DEF Init
<1>3. Settled
  BY EntryFields DEF Init, Settled, Recs, Clear
<1> QED
  BY <1>1, <1>2, <1>3 DEF PInv, Progress, Alone

---------------------------------------------------------------------------
(* One lemma for each action: undisturbed, it preserves Progress. *)

(* The files are as before; the plan is empty or of one step that writes   *)
(* an entry.                                                               *)
LEMMA EntryPlanned ==
    ASSUME PInv, NEW p \in Procs, NEW s \in Step, s.do \in {"store", "update"},
           Enter(p, <<s>>), ~disturbed', UNCHANGED <<entry, record, listed, cascaded>>,
           Continues(s)
    PROVE  Progress'
<1>1. <<s>> \in Seq(Step) /\ <<s>> # <<>> /\ <<s>>[1] = s /\ Last(<<s>>) = s
  BY OneStepPlan, OneStep
<1>2. Settled /\ call'[p] = <<s>> /\ \A q \in Procs \ {p} : call'[q] = <<>>
  BY <1>1, Begins
<1>3. Ready(s, s)'
  BY <1>2 DEF Ready, Listing, Continues, Stripping, Settled, Clear, Recs, There
<1> QED
  BY <1>1, <1>2, <1>3, Progresses

LEMMA AddReady ==
    ASSUME KnowledgeAssumption, PInv, NEW p \in Procs, NEW f \in Files, NEW ts \in SUBSET Tags,
           KnowledgeAdd(p, f, ts), ~disturbed'
    PROVE  Progress'
<1>1. PICK e \in Entry : e = NewEntry(ts)
  BY NewEntryTyped
<1>2. PICK s \in Step : s = Store(f, e) /\ s.do = "store" /\ s.file = f
  BY StepsMade
<1>3. Continues(s)
  BY <1>2 DEF Continues, KnowledgeAdd
<1> QED
  BY <1>1, <1>2, <1>3, EntryPlanned DEF KnowledgeAdd

LEMMA UpdateReady ==
    ASSUME PInv, NEW p \in Procs, NEW f \in Files, NEW e \in Entry, Enter(p, <<Update(f, e)>>),
           ~disturbed', UNCHANGED <<entry, record, listed, cascaded>>,
           entry[f].links \subseteq e.links, e.version > entry[f].version
    PROVE  Progress'
<1>1. PICK s \in Step : s = Update(f, e) /\ s.do = "update" /\ s.file = f /\ s.entry = e
  BY StepsMade
<1>2. Continues(s)
  BY <1>1 DEF Continues
<1> QED
  BY <1>1, <1>2, EntryPlanned

LEMMA EditReady ==
    ASSUME KnowledgeAssumption, PInv, NEW p \in Procs, NEW f \in Files, NEW ts \in SUBSET Tags,
           KnowledgeEdit(p, f, ts), ~disturbed'
    PROVE  Progress'
<1>1. entry[f] \in Entry /\ entry[f].version < MaxVersion
  BY DEF KnowledgeEdit, There, PInv, BInv, Base, TypeOK
<1>2. PICK e \in Entry : e = Edited(entry[f], ts) /\ e.version = entry[f].version + 1
                         /\ e.links = entry[f].links
  BY <1>1, EditedTyped
<1>3. entry[f].version \in Nat
  BY <1>1, EntryFields, KnowledgeAssumption DEF KnowledgeAssumption
<1>4. e.version > entry[f].version /\ entry[f].links \subseteq e.links
  BY <1>2, <1>3
<1> QED
  BY <1>2, <1>4, UpdateReady DEF KnowledgeEdit

LEMMA LinkReady ==
    ASSUME KnowledgeAssumption, PInv, NEW p \in Procs, NEW i \in Ids, NEW dst \in Targets,
           KnowledgeLink(p, i, dst), ~disturbed'
    PROVE  Progress'
<1>1. PICK f \in Files : /\ entry[f] \in Entry /\ entry[f].version < MaxVersion
                         /\ Enter(p, <<Update(f, Linked(entry[f], dst))>>)
  BY LinkTarget DEF PInv, BInv, Base
<1>2. PICK e \in Entry : e = Linked(entry[f], dst) /\ e.version = entry[f].version + 1
                         /\ e.links = entry[f].links \cup {dst}
  BY <1>1, LinkedTyped
<1>3. entry[f].version \in Nat
  BY <1>1, EntryFields, KnowledgeAssumption DEF KnowledgeAssumption
<1>4. e.version > entry[f].version /\ entry[f].links \subseteq e.links
  BY <1>2, <1>3
<1> QED
  BY <1>1, <1>2, <1>4, UpdateReady DEF KnowledgeLink

LEMMA DeleteReady ==
    ASSUME PInv, NEW p \in Procs, NEW f \in Files, KnowledgeDelete(p, f), ~disturbed'
    PROVE  Progress'
<1>1. <<>> \in Seq(Step)
  OBVIOUS
<1>2. Settled /\ call'[p] = <<>> /\ \A q \in Procs \ {p} : call'[q] = <<>>
  BY <1>1, Begins DEF KnowledgeDelete
<1>3. Settled'
  BY <1>2 DEF KnowledgeDelete, Settled, Recs, Clear
<1> QED
  BY <1>2, <1>3, Progresses

LEMMA CascadeReady ==
    ASSUME PInv, NEW p \in Procs, NEW f \in Files, RemoveCascade(p, f), ~disturbed'
    PROVE  Progress'
<1>1. IdOf(f) \in Ids
  BY DEF Files, IdOf
<1>2. PICK s \in Step : s = Strip(IdOf(f)) /\ s.do = "strip" /\ s.id = IdOf(f)
  BY <1>1, StepsMade
<1>3. <<s>> \in Seq(Step) /\ <<s>> # <<>> /\ <<s>>[1] = s /\ Last(<<s>>) = s
  BY <1>2, OneStepPlan, OneStep
<1>4. Settled /\ call'[p] = <<s>> /\ \A q \in Procs \ {p} : call'[q] = <<>>
  BY <1>2, <1>3, Begins DEF RemoveCascade
<1>5. Ready(s, s)'
  BY <1>2, <1>4 DEF RemoveCascade, Ready, Listing, Continues, Stripping, Settled, Clear, Recs
<1> QED
  BY <1>3, <1>4, <1>5, Progresses

LEMMA ExperienceAddReady ==
    ASSUME PInv, NEW p \in Procs, NEW r \in Records, ExperienceAdd(p, r), ~disturbed'
    PROVE  Progress'
<1>1. PICK c \in Seq(Step) : /\ c = <<Write(r, {}), Load(r, TRUE)>> /\ c # <<>>
                             /\ Enter(p, c) /\ Planned(c) /\ Last(c).do = "load"
  BY ExperienceAddMeans
<1>2. Settled /\ call'[p] = c /\ \A q \in Procs \ {p} : call'[q] = <<>>
  BY <1>1, Begins
<1>3. c[1] = Write(r, {})
  BY <1>1, TwoSteps
<1>4. c[1].do = "write" /\ c[1].refs = {}
  BY <1>3 DEF Write
<1>5. Ready(c[1], Last(c))'
  BY <1>1, <1>2, <1>4 DEF ExperienceAdd, Ready, Listing, Continues, Stripping, Settled, Clear, Recs
<1> QED
  BY <1>1, <1>2, <1>5, Progresses

LEMMA ExperienceDeleteReady ==
    ASSUME PInv, NEW p \in Procs, NEW r \in Records, ExperienceDelete(p, r), ~disturbed'
    PROVE  Progress'
<1>1. PICK l \in Step : l = Load(r, FALSE) /\ l.do = "load" /\ l.rec = r /\ ~l.in
  <2>1. Load(r, FALSE) \in Step
    BY DEF Load, Step
  <2> QED
    BY <2>1 DEF Load
<1>2. <<l>> \in Seq(Step) /\ <<l>> # <<>> /\ <<l>>[1] = l /\ Last(<<l>>) = l
  BY <1>1, OneStepPlan, OneStep
<1>3. Settled /\ call'[p] = <<l>> /\ \A q \in Procs \ {p} : call'[q] = <<>>
  BY <1>1, <1>2, Begins DEF ExperienceDelete
<1>4. \A q \in Records : record'[q] = IF q = r THEN NoRecord ELSE record[q]
  BY DEF ExperienceDelete, PInv, BInv, Base, TypeOK
<1>5. Recs' = Recs \ {r} /\ listed' = listed /\ Clear'
  BY <1>3, <1>4, EntryFields DEF ExperienceDelete, Recs, Settled, Clear
<1>6. Listing(l)'
  BY <1>1, <1>3, <1>5 DEF Listing, Settled
<1>7. Continues(l)' /\ Stripping(l, l)'
  BY <1>1, <1>5 DEF Continues, Stripping
<1> QED
  BY <1>2, <1>3, <1>6, <1>7, Progresses DEF Ready

LEMMA ExtractReady ==
    ASSUME KnowledgeAssumption, PInv, NEW p \in Procs, NEW r \in Records, NEW x \in SUBSET Ids,
           NEW f \in Files, NEW ts \in SUBSET Tags, ExtractFromSession(p, r, x, f, ts), ~disturbed'
    PROVE  Progress'
<1>1. PICK c \in Seq(Step), s \in Step :
        /\ s.do = "store" /\ s.file = f /\ c = <<Write(r, x), Load(r, TRUE), s>> /\ c # <<>>
        /\ Enter(p, c) /\ Planned(c) /\ Last(c) = s
  <2>1. ExtractPlan(p, r, x, f)
    BY ExtractMeans
  <2> QED
    BY <2>1 DEF ExtractPlan
<1>2. Settled /\ call'[p] = c /\ \A q \in Procs \ {p} : call'[q] = <<>>
  BY <1>1, Begins
<1>3. c[1] = Write(r, x)
  BY <1>1, Firsts
<1>4. c[1].do = "write" /\ c[1].refs = x
  BY <1>3 DEF Write
<1>5. /\ UNCHANGED <<entry, record, listed>> /\ cascaded' = cascaded \ x /\ ~There(f)
  BY DEF ExtractFromSession
<1>6. Listing(c[1])'
  BY <1>2, <1>4, <1>5 DEF Listing, Settled, Recs
<1>7. Continues(s)'
  BY <1>1, <1>5 DEF Continues, There
<1>8. Stripping(c[1], s)'
  BY <1>1, <1>2, <1>4, <1>5 DEF Stripping, Settled, Clear
<1> QED
  BY <1>1, <1>2, <1>6, <1>7, <1>8, Progresses DEF Ready

LEMMA Ends ==
    /\ \A a : <<a>> # <<>> /\ <<a>>[1] = a /\ Last(<<a>>) = a
    /\ \A a, b : <<a, b>> # <<>> /\ <<a, b>>[1] = a /\ Last(<<a, b>>) = b
    /\ \A a, b, c : <<a, b, c>> # <<>> /\ <<a, b, c>>[1] = a /\ Last(<<a, b, c>>) = c
<1>1. \A a : <<a>> # <<>> /\ <<a>>[1] = a
  OBVIOUS
<1>2. \A a, b : <<a, b>> # <<>> /\ <<a, b>>[1] = a
  OBVIOUS
<1>3. \A a, b, c : <<a, b, c>> # <<>> /\ <<a, b, c>>[1] = a
  OBVIOUS
<1> QED
  BY <1>1, <1>2, <1>3, LastOf

(* The last step of a command on an entry: nothing is missing any more.    *)
LEMMA EntryWritten ==
    ASSUME PInv, NEW p \in Procs, NEW s \in Step, s.do \in {"store", "update"},
           Moved(p, <<s>>, <<>>), ~disturbed, UNCHANGED <<record, listed>>,
           cascaded' \subseteq cascaded
    PROVE  Continues(s) /\ Progress'
<1>1. <<s>> # <<>> /\ <<s>>[1] = s /\ Last(<<s>>) = s
  BY Firsts
<1>2. Ready(s, s) /\ call'[p] = <<>> /\ \A q \in Procs \ {p} : call'[q] = <<>>
  BY <1>1, GoesOn
<1>3. Settled'
  BY <1>2 DEF Ready, Listing, Stripping, Settled, Clear, Recs
<1> QED
  BY <1>2, <1>3, Progresses DEF Ready

LEMMA DoStoreMeans ==
    ASSUME Base, NEW p \in Procs, DoStore(p)
    PROVE  \E s \in Step : /\ s.do = "store" /\ Moved(p, <<s>>, <<>>)
                           /\ Put(p, s.file, s.entry)
<1>1. PICK s \in Step : s.do = "store" /\ call[p] = <<s>>
  BY SinglePlan DEF DoStore
<1>2. call[p][1] = s /\ <<>> \o Tail(<<s>>) = <<>> /\ <<>> \in Seq(Step)
  BY <1>1, OneStep, Tails
<1>3. Moved(p, <<s>>, <<>>)
  BY <1>1, <1>2, MovedOn DEF DoStore, Base
<1> QED
  BY <1>1, <1>2, <1>3 DEF DoStore

LEMMA DoUpdateMeans ==
    ASSUME Base, NEW p \in Procs, DoUpdate(p)
    PROVE  \E s \in Step : /\ s.do = "update" /\ Moved(p, <<s>>, <<>>)
                           /\ Put(p, s.file, s.entry)
<1>1. PICK s \in Step : s.do = "update" /\ call[p] = <<s>>
  BY SinglePlan DEF DoUpdate
<1>2. call[p][1] = s /\ <<>> \o Tail(<<s>>) = <<>> /\ <<>> \in Seq(Step)
  BY <1>1, OneStep, Tails
<1>3. Moved(p, <<s>>, <<>>)
  BY <1>1, <1>2, MovedOn DEF DoUpdate, Base
<1> QED
  BY <1>1, <1>2, <1>3 DEF DoUpdate

LEMMA StoreReady ==
    ASSUME PInv, NEW p \in Procs, DoStore(p) \/ DoUpdate(p), ~disturbed'
    PROVE  Progress'
<1>1. Base /\ ~disturbed /\ UNCHANGED <<record, listed>> /\ cascaded' \subseteq cascaded
  BY DEF PInv, BInv, DoStore, DoUpdate
<1>2. PICK s \in Step : s.do \in {"store", "update"} /\ Moved(p, <<s>>, <<>>)
  BY <1>1, DoStoreMeans, DoUpdateMeans
<1> QED
  BY <1>1, <1>2, EntryWritten

LEMMA WriteReady ==
    ASSUME PInv, NEW p \in Procs, DoWrite(p), ~disturbed'
    PROVE  Progress'
<1>0. Base /\ TypeOK /\ ~disturbed /\ UNCHANGED <<entry, listed, cascaded>>
  BY DEF PInv, BInv, Base, DoWrite, history
<1>1. PICK r \in Records, x \in SUBSET Ids :
              /\ Written(r, x)
              /\ \/ Moved(p, <<Write(r, x), Load(r, TRUE)>>, <<Load(r, TRUE)>>)
                 \/ \E e \in Step :
                      /\ e.do \in {"store", "rest"}
                      /\ Moved(p, <<Write(r, x), Load(r, TRUE), e>>, <<Load(r, TRUE), e>>)
  BY <1>0, DoWriteMeans
<1> DEFINE w == Write(r, x)
           l == Load(r, TRUE)
<1>2. /\ w.do = "write" /\ w.rec = r /\ w.refs = x
      /\ l.do = "load" /\ l.rec = r /\ l.in
  BY DEF Write, Load
<1> HIDE DEF w, l
<1>3. record'[r].there /\ record'[r].refs = x /\ \A q \in Records \ {r} : record'[q] = record[q]
  BY <1>0, <1>1, WrittenTyped
<1>4. Recs' = Recs \cup {r}
  BY <1>3 DEF Recs
<1>5. ASSUME NEW e, Ready(w, e) PROVE Ready(l, e)'
  <2>1. Listing(l)'
    BY <1>0, <1>2, <1>4, <1>5 DEF Ready, Listing
  <2>2. Continues(e)'
    BY <1>0, <1>5 DEF Ready, Continues, There
  <2>3. x \cap cascaded = {}
    BY <1>2, <1>5 DEF Ready, Stripping
  <2>4. Stripping(l, e)'
    <3>1. Stripping(w, e)
      BY <1>5 DEF Ready
    <3>2. e.do \notin {"strip", "rest"} => Clear'
      BY <1>0, <1>3, <2>3, <3>1 DEF Stripping, Clear
    <3>3. e.do \in {"strip", "rest"} =>
             /\ e.id \in cascaded'
             /\ \A q \in Records : record'[q].refs \cap cascaded' \subseteq {e.id}
      BY <1>0, <1>3, <2>3, <3>1 DEF Stripping
    <3>4. ASSUME e.do = "rest", NEW q \in Records
          PROVE  /\ e.todo[q].refs \cap cascaded' \subseteq {e.id}
                 /\ e.id \in record'[q].refs => e.id \in e.todo[q].refs
      <4>1. e.id \in cascaded /\ e.todo[q].refs \cap cascaded \subseteq {e.id}
        BY <3>1, <3>4 DEF Stripping
      <4>2. CASE q = r
        BY <1>0, <1>3, <2>3, <4>1, <4>2
      <4>3. CASE q # r
        BY <1>0, <1>2, <1>3, <3>1, <3>4, <4>1, <4>3 DEF Stripping
      <4> QED
        BY <4>2, <4>3
    <3> QED
      BY <1>2, <3>2, <3>3, <3>4 DEF Stripping
  <2> QED
    BY <2>1, <2>2, <2>4 DEF Ready
<1>6. CASE Moved(p, <<w, l>>, <<l>>)
  <2>1. /\ <<w, l>> # <<>> /\ <<w, l>>[1] = w /\ Last(<<w, l>>) = l
        /\ <<l>> # <<>> /\ <<l>>[1] = l /\ Last(<<l>>) = l
    BY Firsts
  <2>2. Ready(w, l) /\ call'[p] = <<l>> /\ \A q \in Procs \ {p} : call'[q] = <<>>
    BY <1>0, <1>6, <2>1, GoesOn
  <2> QED
    BY <1>5, <2>1, <2>2, Progresses
<1>7. ASSUME NEW e \in Step, Moved(p, <<w, l, e>>, <<l, e>>) PROVE Progress'
  <2>1. /\ <<w, l, e>> # <<>> /\ <<w, l, e>>[1] = w /\ Last(<<w, l, e>>) = e
        /\ <<l, e>> # <<>> /\ <<l, e>>[1] = l /\ Last(<<l, e>>) = e
    BY Ends
  <2>2. Ready(w, e) /\ call'[p] = <<l, e>> /\ \A q \in Procs \ {p} : call'[q] = <<>>
    BY <1>0, <1>7, <2>1, GoesOn
  <2> QED
    BY <1>5, <2>1, <2>2, Progresses
<1> QED
  BY <1>1, <1>6, <1>7 DEF w, l

LEMMA LoadReady ==
    ASSUME PInv, NEW p \in Procs, DoLoad(p), ~disturbed'
    PROVE  Progress'
<1>0. Base /\ TypeOK /\ ~disturbed /\ UNCHANGED <<entry, record, listed, cascaded>>
  BY DEF PInv, BInv, Base, DoLoad, history
<1>1. PICK s \in Step, l \in Step :
              /\ s.do = "load" /\ l = List(s.rec, s.in, listed) /\ l.do = "list"
              /\ l.rec = s.rec /\ l.in = s.in /\ l.got = listed
              /\ \/ Moved(p, <<s>>, <<l>>)
                 \/ \E e \in Step : /\ s.in /\ e.do \in {"store", "rest"}
                                    /\ Moved(p, <<s, e>>, <<l, e>>)
  BY <1>0, DoLoadMeans
<1>2. Listing(s) => Listing(l)'
  BY <1>0, <1>1 DEF Listing, Recs
<1>3. CASE Moved(p, <<s>>, <<l>>)
  <2>1. /\ <<s>> # <<>> /\ <<s>>[1] = s /\ Last(<<s>>) = s
        /\ <<l>> # <<>> /\ <<l>>[1] = l /\ Last(<<l>>) = l
    BY Firsts
  <2>2. Ready(s, s) /\ call'[p] = <<l>> /\ \A q \in Procs \ {p} : call'[q] = <<>>
    BY <1>0, <1>3, <2>1, GoesOn
  <2>3. Continues(l)' /\ Stripping(l, l)'
    BY <1>0, <1>1, <2>2 DEF Ready, Continues, Stripping, Clear
  <2> QED
    BY <1>2, <2>1, <2>2, <2>3, Progresses DEF Ready
<1>4. ASSUME NEW e \in Step, Moved(p, <<s, e>>, <<l, e>>) PROVE Progress'
  <2>1. /\ <<s, e>> # <<>> /\ <<s, e>>[1] = s /\ Last(<<s, e>>) = e
        /\ <<l, e>> # <<>> /\ <<l, e>>[1] = l /\ Last(<<l, e>>) = e
    BY Firsts
  <2>2. Ready(s, e) /\ call'[p] = <<l, e>> /\ \A q \in Procs \ {p} : call'[q] = <<>>
    BY <1>0, <1>4, <2>1, GoesOn, SMTT(30)
  <2>3. Continues(e)' /\ Stripping(l, e)'
    BY <1>0, <1>1, <2>2 DEF Ready, Continues, Stripping, Clear, There
  <2> QED
    BY <1>2, <2>1, <2>2, <2>3, Progresses DEF Ready
<1> QED
  BY <1>1, <1>3, <1>4

LEMMA ListReady ==
    ASSUME PInv, NEW p \in Procs, DoList(p), ~disturbed'
    PROVE  Progress'
<1>0. Base /\ TypeOK /\ ~disturbed /\ UNCHANGED <<entry, record, cascaded>>
  BY DEF PInv, BInv, Base, DoList, history
<1>1. PICK s \in Step :
              /\ s.do = "list"
              /\ listed' = IF s.in THEN s.got \cup {s.rec}
                           ELSE IF s.rec \in s.got THEN s.got \ {s.rec} ELSE listed
              /\ \/ Moved(p, <<s>>, <<>>)
                 \/ \E e \in Step : /\ s.in /\ e.do \in {"store", "rest"}
                                    /\ Moved(p, <<s, e>>, <<e>>)
  BY <1>0, DoListMeans
<1>2. s.in \in BOOLEAN
  BY <1>1, StepFields
<1>3. Listing(s) => listed' = Recs'
  BY <1>0, <1>1, <1>2 DEF Listing, Recs
<1>4. CASE Moved(p, <<s>>, <<>>)
  <2>1. <<s>> # <<>> /\ <<s>>[1] = s /\ Last(<<s>>) = s
    BY Firsts
  <2>2. Ready(s, s) /\ call'[p] = <<>> /\ \A q \in Procs \ {p} : call'[q] = <<>>
    BY <1>0, <1>4, <2>1, GoesOn
  <2>3. Settled'
    BY <1>0, <1>1, <1>3, <2>2 DEF Ready, Stripping, Settled, Clear
  <2> QED
    BY <2>2, <2>3, Progresses
<1>5. ASSUME NEW e \in Step, e.do \in {"store", "rest"}, Moved(p, <<s, e>>, <<e>>) PROVE Progress'
  <2>1. /\ <<s, e>> # <<>> /\ <<s, e>>[1] = s /\ Last(<<s, e>>) = e
        /\ <<e>> # <<>> /\ <<e>>[1] = e /\ Last(<<e>>) = e
    BY Firsts
  <2>2. Ready(s, e) /\ call'[p] = <<e>> /\ \A q \in Procs \ {p} : call'[q] = <<>>
    BY <1>0, <1>5, <2>1, GoesOn
  <2>3. Listing(e)'
    BY <1>3, <1>5, <2>2 DEF Ready, Listing
  <2>4. Continues(e)' /\ Stripping(e, e)'
    BY <1>0, <1>1, <1>5, <2>2 DEF Ready, Continues, Stripping, Clear, There
  <2> QED
    BY <2>1, <2>2, <2>3, <2>4, Progresses DEF Ready
<1> QED
  BY <1>1, <1>4, <1>5

LEMMA StripReady ==
    ASSUME PInv, NEW p \in Procs, DoStrip(p), ~disturbed'
    PROVE  Progress'
<1>0. Base /\ ~disturbed /\ UNCHANGED <<entry, record, listed, cascaded>>
  BY DEF PInv, BInv, DoStrip, history
<1>1. PICK s \in Step, e \in Step :
              /\ s.do = "strip" /\ e = Rest(s.id, record)
              /\ e.do = "rest" /\ e.id = s.id /\ e.todo = record
              /\ Moved(p, <<s>>, <<e>>)
  BY <1>0, DoStripMeans
<1>2. /\ <<s>> # <<>> /\ <<s>>[1] = s /\ Last(<<s>>) = s
      /\ <<e>> # <<>> /\ <<e>>[1] = e /\ Last(<<e>>) = e
  BY Firsts
<1>3. Ready(s, s) /\ call'[p] = <<e>> /\ \A q \in Procs \ {p} : call'[q] = <<>>
  BY <1>0, <1>1, <1>2, GoesOn
<1>4. Ready(e, e)'
  BY <1>0, <1>1, <1>3 DEF Ready, Listing, Continues, Stripping, Recs
<1> QED
  BY <1>2, <1>3, <1>4, Progresses

LEMMA RestReady ==
    ASSUME PInv, NEW p \in Procs, DoRest(p), ~disturbed'
    PROVE  Progress'
<1>0. Base /\ ~disturbed /\ UNCHANGED <<entry, record, listed, cascaded>>
  BY DEF PInv, BInv, DoRest, history
<1>1. PICK s \in Step :
              /\ s.do = "rest"
              /\ \/ Referrers(s) = {} /\ Moved(p, <<s>>, <<>>)
                 \/ \E r \in Referrers(s), x \in SUBSET Ids, e \in Step :
                      /\ x = s.todo[r].refs \ {s.id}
                      /\ e.do = "rest" /\ e.id = s.id
                      /\ e.todo = [s.todo EXCEPT ![r] = NoRecord]
                      /\ Moved(p, <<s>>, <<Write(r, x), Load(r, TRUE), e>>)
  BY <1>0, DoRestMeans
<1>2. <<s>> # <<>> /\ <<s>>[1] = s /\ Last(<<s>>) = s
  BY Firsts
<1>3. CASE Referrers(s) = {} /\ Moved(p, <<s>>, <<>>)
  <2>1. Ready(s, s) /\ call'[p] = <<>> /\ \A q \in Procs \ {p} : call'[q] = <<>>
    BY <1>0, <1>2, <1>3, GoesOn
  <2>2. \A r \in Records : s.id \notin s.todo[r].refs
    BY <1>3 DEF Referrers
  <2>3. \A r \in Records : s.id \notin record[r].refs /\ record[r].refs \cap cascaded \subseteq {s.id}
    BY <1>1, <2>1, <2>2 DEF Ready, Stripping
  <2>4. Settled'
    BY <1>0, <1>1, <2>1, <2>3 DEF Ready, Listing, Settled, Clear, Recs
  <2> QED
    BY <2>1, <2>4, Progresses
<1>4. ASSUME NEW r \in Referrers(s), NEW x \in SUBSET Ids, NEW e \in Step,
             x = s.todo[r].refs \ {s.id}, e.do = "rest", e.id = s.id,
             e.todo = [s.todo EXCEPT ![r] = NoRecord],
             Moved(p, <<s>>, <<Write(r, x), Load(r, TRUE), e>>)
      PROVE  Progress'
  <2> DEFINE w == Write(r, x)
             l == Load(r, TRUE)
  <2>1. w.do = "write" /\ w.rec = r /\ w.refs = x
    BY DEF Write
  <2>0. Moved(p, <<s>>, <<w, l, e>>)
    BY <1>4
  <2> HIDE DEF w, l
  <2>2. <<w, l, e>> # <<>> /\ <<w, l, e>>[1] = w /\ Last(<<w, l, e>>) = e
    BY Ends
  <2>3. Ready(s, s) /\ call'[p] = <<w, l, e>> /\ \A q \in Procs \ {p} : call'[q] = <<>>
    BY <1>0, <1>2, <2>0, GoesOn
  <2>4. r \in Records /\ s.todo \in [Records -> Record \cup {NoRecord}]
    BY <1>1, <1>4, StepFields DEF Referrers
  <2>5. /\ e.todo[r].refs = {}
        /\ \A q \in Records \ {r} : e.todo[q] = s.todo[q]
    BY <1>4, <2>4, EntryFields
  <2>6. Listing(w)' /\ Continues(e)'
    BY <1>0, <1>1, <1>4, <2>1, <2>3 DEF Ready, Listing, Continues, Recs
  <2>7. s.id \in cascaded /\ x \cap cascaded = {}
    BY <1>1, <1>4, <2>3, <2>4 DEF Ready, Stripping
  <2>8. ASSUME NEW q \in Records
        PROVE  /\ e.todo[q].refs \cap cascaded \subseteq {e.id}
               /\ e.id \in record[q].refs => e.id \in e.todo[q].refs \/ q = r
    BY <1>1, <1>4, <2>3, <2>5 DEF Ready, Stripping
  <2>9. Stripping(w, e)'
    BY <1>0, <1>1, <1>4, <2>1, <2>3, <2>7, <2>8 DEF Ready, Stripping
  <2> QED
    BY <2>2, <2>3, <2>6, <2>9, Progresses DEF Ready
<1> QED
  BY <1>1, <1>3, <1>4

(* What Progress speaks of is as it was. *)
LEMMA SameProgress ==
    ASSUME Progress, UNCHANGED <<entry, record, listed, cascaded, call>>, ~disturbed' => ~disturbed
    PROVE  Progress'
BY DEF Progress, Alone, Ready, Listing, Continues, Stripping, Settled, Clear, Recs, There

LEMMA ExitReady ==
    ASSUME PInv, NEW p \in Procs, Exit(p), ~disturbed'
    PROVE  Progress'
<1>1. ~disturbed /\ call[p] = <<>> /\ UNCHANGED <<entry, record, listed, cascaded>>
  BY DEF Exit, AtRest
<1>2. call \in [Procs -> Seq(Step)]
  BY DEF PInv, BInv, Base, TypeOK
<1>3. call' = call
  BY <1>1, <1>2 DEF Exit
<1> QED
  BY <1>1, <1>3, SameProgress DEF PInv

LEMMA ProgressStep ==
    ASSUME KnowledgeAssumption, PInv, [Next]_vars
    PROVE  Progress'
<1>1. SUFFICES ASSUME ~disturbed' PROVE Progress'
  BY DEF Progress
<1>2. CASE UNCHANGED vars
  BY <1>2, SameProgress DEF vars, history, PInv
<1>3. ASSUME NEW p \in Procs, Command(p) PROVE Progress'
  <2>1. CASE Search(p)
    BY <2>1, SameProgress DEF Search, PInv
  <2>2. CASE \E f \in Files, ts \in SUBSET Tags : KnowledgeAdd(p, f, ts) \/ KnowledgeEdit(p, f, ts)
    BY <1>1, <2>2, AddReady, EditReady
  <2>3. CASE \E f \in Files : KnowledgeDelete(p, f) \/ RemoveCascade(p, f)
    BY <1>1, <2>3, DeleteReady, CascadeReady
  <2>4. CASE \E i \in Ids, dst \in Targets : KnowledgeLink(p, i, dst)
    BY <1>1, <2>4, LinkReady
  <2>5. CASE \E r \in Records : ExperienceAdd(p, r) \/ ExperienceDelete(p, r)
    BY <1>1, <2>5, ExperienceAddReady, ExperienceDeleteReady
  <2>6. CASE \E r \in Records, refs \in SUBSET Ids, f \in Files, ts \in SUBSET Tags :
               ExtractFromSession(p, r, refs, f, ts)
    BY <1>1, <2>6, ExtractReady
  <2> QED
    BY <1>3, <2>1, <2>2, <2>3, <2>4, <2>5, <2>6 DEF Command
<1>4. ASSUME NEW p \in Procs, DoStep(p) PROVE Progress'
  BY <1>1, <1>4, StoreReady, StripReady, RestReady, WriteReady, LoadReady, ListReady DEF DoStep
<1>5. ASSUME NEW p \in Procs, Exit(p) PROVE Progress'
  BY <1>1, <1>5, ExitReady
<1> QED
  BY <1>2, <1>3, <1>4, <1>5 DEF Next

LEMMA UndisturbedInvariant == Spec => []PInv
<1>1. Init => PInv
  BY InitPInv
<1>2. PInv /\ [Next]_vars => PInv'
  BY BInvStep, ProgressStep, KnowledgeAssumption DEF PInv
<1> QED
  BY <1>1, <1>2, PTL DEF Spec

---------------------------------------------------------------------------
(* Commands one after the other, at rest: index.json lists exactly the     *)
(* records there are, and a finished cascade has left no reference.        *)
THEOREM ConsistentAtRest == Spec => []RestIsConsistent
<1>1. PInv => RestIsConsistent
  BY DEF PInv, Progress, RestIsConsistent, AtRest, Settled, Recs, Clear
<1> QED
  BY <1>1, UndisturbedInvariant, PTL

(* What a step does to an entry that is there and stays. *)
EntryGoesOn ==
    ~disturbed' => \A f \in Files : There(f) /\ There(f)' =>
        /\ entry[f].links \subseteq entry'[f].links
        /\ entry'[f] # entry[f] => entry'[f].version > entry[f].version

LEMMA WriteGoesOn ==
    ASSUME PInv, NEW p \in Procs, NEW s \in Step, s.do \in {"store", "update"},
           Continues(s), Put(p, s.file, s.entry)
    PROVE  EntryGoesOn
<1>1. s.file \in Files /\ s.entry \in Entry /\ TypeOK
  BY StepFields DEF PInv, BInv, Base
<1>2. entry'[s.file] = s.entry /\ \A g \in Files \ {s.file} : entry'[g] = entry[g]
  BY <1>1, PutMeans
<1>3. SUFFICES ASSUME NEW f \in Files, There(f)
               PROVE  /\ entry[f].links \subseteq entry'[f].links
                      /\ entry'[f] # entry[f] => entry'[f].version > entry[f].version
  BY DEF EntryGoesOn
<1>4. CASE f = s.file
  BY <1>2, <1>3, <1>4 DEF Continues
<1>5. CASE f # s.file
  BY <1>2, <1>5
<1> QED
  BY <1>4, <1>5

LEMMA RemovalGoesOn ==
    ASSUME TypeOK, NEW p \in Procs, NEW f \in Files, Unlink(p, f)
    PROVE  EntryGoesOn
<1>1. Put(p, f, NoEntry)
  BY DEF Unlink
<1>2. entry'[f] = NoEntry /\ \A g \in Files \ {f} : entry'[g] = entry[g]
  BY <1>1, PutMeans
<1> QED
  BY <1>2 DEF EntryGoesOn, There

LEMMA GoesOnStep ==
    ASSUME PInv, [Next]_vars
    PROVE  EntryGoesOn
<1>0. Base /\ TypeOK
  BY DEF PInv, BInv, Base
<1>1. CASE UNCHANGED entry
  BY <1>1 DEF EntryGoesOn
<1>2. ASSUME NEW p \in Procs, NEW f \in Files, KnowledgeDelete(p, f) \/ RemoveCascade(p, f)
      PROVE  EntryGoesOn
  BY <1>0, <1>2, RemovalGoesOn DEF KnowledgeDelete, RemoveCascade
<1>3. ASSUME NEW p \in Procs, DoStore(p) \/ DoUpdate(p), ~disturbed'
      PROVE  EntryGoesOn
  <2>1. PICK s \in Step : /\ s.do \in {"store", "update"} /\ Moved(p, <<s>>, <<>>)
                          /\ Put(p, s.file, s.entry)
    BY <1>0, <1>3, DoStoreMeans, DoUpdateMeans
  <2>2. ~disturbed /\ UNCHANGED <<record, listed>> /\ cascaded' \subseteq cascaded
    BY <1>3 DEF DoStore, DoUpdate
  <2>3. Continues(s)
    BY <2>1, <2>2, EntryWritten
  <2> QED
    BY <2>1, <2>3, WriteGoesOn
<1>4. CASE disturbed'
  BY <1>4 DEF EntryGoesOn
<1>5. ASSUME Next, ~ UNCHANGED entry
      PROVE  \/ \E p \in Procs, f \in Files : KnowledgeDelete(p, f) \/ RemoveCascade(p, f)
             \/ \E p \in Procs : DoStore(p) \/ DoUpdate(p)
  BY <1>5, ZenonT(60) DEF Next, Command, DoStep, Search, KnowledgeAdd, KnowledgeEdit, KnowledgeLink,
     ExperienceAdd, ExperienceDelete, ExtractFromSession, DoStrip, DoRest, DoWrite, DoLoad,
     DoList, Exit
<1>6. CASE UNCHANGED vars
  BY <1>1, <1>6 DEF vars
<1> QED
  BY <1>1, <1>2, <1>3, <1>4, <1>5, <1>6

(* Commands one after the other: no change loses a link of an entry, takes *)
(* its version back or gives one version two contents.                     *)
THEOREM VersionsGrow == Spec => ChangesAccumulate
<1>1. PInv /\ [Next]_vars => EntryGoesOn
  BY GoesOnStep
<1>2. Spec => [][EntryGoesOn]_vars
  BY <1>1, UndisturbedInvariant, PTL DEF Spec
<1> QED
  BY <1>2, PTL DEF ChangesAccumulate, EntryGoesOn
=============================================================================
