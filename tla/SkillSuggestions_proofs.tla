------------------------ MODULE SkillSuggestions_proofs ------------------------
(***************************************************************************)
(* What SkillSuggestions promises holds for any number of processes,       *)
(* patterns and sessions, and any threshold.                               *)
(*                                                                         *)
(* Each property speaks of steps that commands have yet to take, so the    *)
(* invariant says what is true of the store while each of them is waiting: *)
(* Recorded, Moves, Lands and Leaves along a decision or an audit, Passed  *)
(* and Accounted along a detection.  Apart says whose steps may come in    *)
(* between: a detection writes fresh ids only, and a decision brings no    *)
(* key to a directory that detection has listed already.                   *)
(***************************************************************************)
EXTENDS SkillSuggestions, SequenceTheorems, TLAPS

Kinds == {"record", "archive", "scan", "cover", "make", "audit", "list", "purge",
          "open", "fill", "write", "move", "unlink"}

Harmless(x, ids) ==
    /\ x.do = "write" => x.id \in ids /\ x.at # "accepted"
    /\ x.do = "move" => x.to # "accepted"

(* Whatever is disturbed: files are of ids that were made, none is accepted *)
(* (no command writes there), and no pending step changes that.            *)
Known ==
    /\ \A st \in Statuses, i \in Ids : Holds(st, i) => i \in made /\ st # "accepted"
    /\ \A p \in Procs : \A n \in DOMAIN call[p] : Harmless(call[p][n], made)

(* Two commands under way are a detection and a decision.                  *)
Apart ==
    \A p, q \in Procs :
        p # q /\ ~AtRest(p) /\ ~AtRest(q) =>
            \/ Detects(call[p]) /\ Decides(call[q])
            \/ Decides(call[p]) /\ Detects(call[q])

---------------------------------------------------------------------------
(* The store along a decision and an audit. *)

(* The files of a suggestion agree on its pattern. *)
Agree ==
    \A i \in Ids : \A st, su \in Statuses :
        Holds(st, i) /\ Holds(su, i) => home[st][i].key = home[su][i].key

(* The SKILL.md a file names is there. *)
Chosen(f) == <<f.path, f.key>>
Named(f) == Chosen(f) \in skills

(* The answer is about to be written to the file that find returned.       *)
Recorded(st, i, f, to) ==
    /\ Homes(i) # {}
    /\ st = Found(i)
    /\ f.key = home[st][i].key
    /\ to # "promoted" => st = "proposed"

(* The file that find will return may go where it is to go. *)
Moves(i, to) ==
    /\ Homes(i) # {}
    /\ to = "promoted" => Named(home[Found(i)][i])
    /\ to # "promoted" => Found(i) = "proposed"

(* The new file is about to be written. *)
Lands(st, i, f, to) ==
    /\ st # to
    /\ Holds(st, i)
    /\ f = home[st][i]
    /\ to = "promoted" => Named(f)
    /\ to # "promoted" => st = "proposed"

(* The new file is there, the old one about to go. *)
Leaves(st, i, to) ==
    /\ st # to
    /\ st # "promoted"
    /\ Holds(to, i)

(* The next step of a command, and those after it. *)
At(p, step, then) == ~AtRest(p) /\ call[p][1] = step /\ Tail(call[p]) = then

Deciding(p) ==
    \E st \in Statuses, i \in made, f \in Suggestion, to \in {"promoted", "rejected"} :
        \/ /\ At(p, OpenSkill(Chosen(f)), <<Write(st, i, f), Move(i, to)>>)
           /\ Recorded(st, i, f, to) /\ f.path \in Targets
        \/ /\ At(p, FillSkill(Chosen(f)), <<Write(st, i, f), Move(i, to)>>)
           /\ Recorded(st, i, f, to) /\ f.path \in Targets
        \/ /\ At(p, Write(st, i, f), <<Move(i, to)>>)
           /\ Recorded(st, i, f, to) /\ (to = "promoted" => Named(f))
        \/ At(p, Move(i, to), <<>>) /\ Moves(i, to)
        \/ At(p, Write(to, i, f), <<Unlink(st, i)>>) /\ Lands(st, i, f, to)
        \/ At(p, Unlink(st, i), <<>>) /\ Leaves(st, i, to)

(* The audit has come to ids, which nobody else moves. *)
Auditing(p) ==
    \E ids \in SUBSET Listing("proposed"), then \in {<<>>, <<ListExpired>>, <<Scan>>} :
        \/ At(p, Audit(ids), then)
        \/ \E i \in made \ ids, f \in Suggestion :
             \/ At(p, Move(i, "expired"), <<Audit(ids)>> \o then) /\ Moves(i, "expired")
             \/ /\ At(p, Write("expired", i, f),
                      <<Unlink("proposed", i)>> \o (<<Audit(ids)>> \o then))
                /\ Lands("proposed", i, f, "expired")
             \/ /\ At(p, Unlink("proposed", i), <<Audit(ids)>> \o then)
                /\ Leaves("proposed", i, "expired")

Purging(p) ==
    \/ At(p, ListExpired, <<>>)
    \/ \E ids \in SUBSET Ids : At(p, Purge(ids), <<>>)

---------------------------------------------------------------------------
(* The store along a detection. *)

Keys(st) == {home[st][i].key : i \in Listing(st)}

(* Directories that were listed have no pattern that is left to propose. *)
Passed(p) ==
    /\ Does(p, "cover") /\ call[p][1].next > 1 => call[p][1].todo \cap Keys("proposed") = {}
    /\ Does(p, "make") => call[p][1].todo \cap (Keys("proposed") \cup Keys("rejected")) = {}

Suggested(c) ==
    \E st \in Statuses \ {"expired"} : \E i \in Listing(st) : home[st][i].key = c

Filling(c) ==
    \E q \in Procs : Does(q, "fill") /\ call[q][1].skill[2][1] = c[1]

(* A ripe pattern is left to propose unless something stands for it. *)
Accounted(p) ==
    Does(p, "cover") \/ Does(p, "make") =>
        \A c \in Clusters :
            Ripe(c) => c \in call[p][1].todo \/ CoveredBySkill(c) \/ Filling(c) \/ Suggested(c)

(* Only the step at hand goes through directories and patterns.            *)
AtHand == \A p \in Procs : \A n \in DOMAIN call[p] : n > 1 => call[p][n].do \notin {"cover", "make"}

Kept == \A i \in made : Homes(i) # {} \/ i \in purged

Open == {"proposed", "rejected"}

Once ==
    \A i, j \in Ids : \A st, su \in Open :
        Holds(st, i) /\ Holds(su, j) /\ home[st][i].key = home[su][j].key => i = j

Store == Agree /\ Kept /\ Once

Shaped(p) == Detects(call[p]) \/ Deciding(p) \/ Auditing(p) \/ Purging(p)

Calm == Apart /\ Store /\ \A p \in Procs : Shaped(p) /\ Passed(p) /\ Accounted(p)

Basics == TypeOK /\ Known

IInv == Basics /\ AtHand /\ (~disturbed => Calm)

---------------------------------------------------------------------------
LEMMA StepKinds ==
    /\ \A c \in Clusters, s \in Sessions : Record(c, s) \in Step
    /\ \A s \in Sessions : Archive(s) \in Step
    /\ Scan \in Step /\ ListExpired \in Step
    /\ \A t \in SUBSET Clusters : Make(t) \in Step
    /\ \A t \in SUBSET Clusters : \A n \in 1 .. 4 : Cover(t, n) \in Step
    /\ \A ids \in SUBSET Ids : Audit(ids) \in Step /\ Purge(ids) \in Step
    /\ \A k \in Skill : OpenSkill(k) \in Step /\ FillSkill(k) \in Step
    /\ \A st \in Statuses, i \in Ids :
         /\ Move(i, st) \in Step /\ Unlink(st, i) \in Step
         /\ \A f \in Suggestion : Write(st, i, f) \in Step
BY DEF Step, Record, Archive, Scan, ListExpired, Make, Cover, Audit, Purge, OpenSkill,
       FillSkill, Move, Unlink, Write

LEMMA StepFields ==
    ASSUME NEW x \in Step
    PROVE  /\ x.do \in Kinds
           /\ x.do = "record" => x.key \in Clusters /\ x.session \in Sessions
           /\ x.do = "archive" => x.session \in Sessions
           /\ x.do = "cover" => x.todo \in SUBSET Clusters /\ x.next \in 1 .. 4
           /\ x.do = "make" => x.todo \in SUBSET Clusters
           /\ x.do \in {"audit", "purge"} => x.ids \in SUBSET Ids
           /\ x.do \in {"open", "fill"} => x.skill \in Skill
           /\ x.do = "write" => x.at \in Statuses /\ x.id \in Ids /\ x.file \in Suggestion
           /\ x.do = "move" => x.to \in Statuses /\ x.id \in Ids
           /\ x.do = "unlink" => x.at \in Statuses /\ x.id \in Ids
BY DEF Step, Kinds

LEMMA Ahead ==
    ASSUME NEW S, NEW a \in S, NEW r \in Seq(S)
    PROVE  /\ <<a>> \o r \in Seq(S)
           /\ <<a>> \o r # <<>>
           /\ (<<a>> \o r)[1] = a
           /\ Tail(<<a>> \o r) = r
           /\ <<>> \o r = r
           /\ \A n \in DOMAIN (<<a>> \o r) :
                 (<<a>> \o r)[n] = a \/ \E m \in DOMAIN r : (<<a>> \o r)[n] = r[m]
<1>1. <<a>> \in Seq(S) /\ Len(<<a>>) = 1 /\ <<a>>[1] = a
  OBVIOUS
<1>2. /\ <<a>> \o r \in Seq(S)
      /\ Len(<<a>> \o r) = 1 + Len(r)
      /\ \A i \in 1 .. 1 + Len(r) : (<<a>> \o r)[i] = IF i <= 1 THEN <<a>>[i] ELSE r[i - 1]
  BY <1>1, ConcatProperties
<1>3. Len(r) \in Nat /\ DOMAIN r = 1 .. Len(r)
  BY LenProperties
<1>4. DOMAIN (<<a>> \o r) = 1 .. 1 + Len(r)
  BY <1>2, LenProperties
<1>5. <<a>> \o r # <<>>
  BY <1>2, <1>3
<1>6. Tail(<<a>> \o r) = r
  <2>1. /\ Tail(<<a>> \o r) \in Seq(S)
        /\ Len(Tail(<<a>> \o r)) = Len(<<a>> \o r) - 1
        /\ \A i \in 1 .. Len(Tail(<<a>> \o r)) : Tail(<<a>> \o r)[i] = (<<a>> \o r)[i + 1]
    BY <1>2, <1>5, HeadTailProperties
  <2>2. Len(Tail(<<a>> \o r)) = Len(r)
    BY <2>1, <1>2, <1>3
  <2>3. \A i \in 1 .. Len(r) : Tail(<<a>> \o r)[i] = r[i]
    BY <2>1, <2>2, <1>2, <1>3
  <2> QED
    BY <2>1, <2>2, <2>3, SeqEqual
<1>7. <<>> \o r = r
  BY ConcatEmptySeq
<1>8. (<<a>> \o r)[1] = a
  BY <1>1, <1>2, <1>3
<1>9. \A n \in 1 .. 1 + Len(r) :
        (<<a>> \o r)[n] = a \/ \E m \in DOMAIN r : (<<a>> \o r)[n] = r[m]
  BY <1>1, <1>2, <1>3
<1> QED
  BY <1>2, <1>4, <1>5, <1>6, <1>7, <1>8, <1>9

LEMMA Pairs ==
    ASSUME NEW S, NEW a \in S, NEW b \in S, NEW c \in S
    PROVE  /\ <<a>> \o <<>> = <<a>>
           /\ <<a>> \o <<b>> = <<a, b>>
           /\ <<a>> \o <<b, c>> = <<a, b, c>>
<1>1. /\ <<a>> \in Seq(S) /\ <<b>> \in Seq(S) /\ <<b, c>> \in Seq(S)
      /\ <<a, b>> \in Seq(S) /\ <<a, b, c>> \in Seq(S)
  OBVIOUS
<1>2. <<a>> \o <<>> = <<a>>
  BY <1>1, ConcatEmptySeq
<1>3. <<a>> \o <<b>> = <<a, b>>
  <2>1. /\ <<a>> \o <<b>> \in Seq(S) /\ Len(<<a>> \o <<b>>) = 2
        /\ \A i \in 1 .. 2 : (<<a>> \o <<b>>)[i] = IF i <= 1 THEN <<a>>[i] ELSE <<b>>[i - 1]
    BY <1>1, ConcatProperties
  <2>2. \A i \in 1 .. 2 : (<<a>> \o <<b>>)[i] = <<a, b>>[i]
    BY <2>1
  <2> QED
    BY <1>1, <2>1, <2>2, SeqEqual
<1>4. <<a>> \o <<b, c>> = <<a, b, c>>
  <2>1. /\ <<a>> \o <<b, c>> \in Seq(S) /\ Len(<<a>> \o <<b, c>>) = 3
        /\ \A i \in 1 .. 3 : (<<a>> \o <<b, c>>)[i] = IF i <= 1 THEN <<a>>[i] ELSE <<b, c>>[i - 1]
    BY <1>1, ConcatProperties
  <2>2. \A i \in 1 .. 3 : (<<a>> \o <<b, c>>)[i] = <<a, b, c>>[i]
    BY <2>1
  <2> QED
    BY <1>1, <2>1, <2>2, SeqEqual
<1> QED
  BY <1>2, <1>3, <1>4

LEMMA PairAhead ==
    ASSUME NEW S, NEW a \in S, NEW b \in S, NEW r \in Seq(S)
    PROVE  <<a, b>> \o r = <<a>> \o (<<b>> \o r)
<1>1. <<a>> \in Seq(S) /\ <<b>> \in Seq(S)
  OBVIOUS
<1>2. <<a, b>> = <<a>> \o <<b>>
  BY Pairs
<1>3. (<<a>> \o <<b>>) \o r = <<a>> \o (<<b>> \o r)
  BY <1>1, ConcatAssociative
<1> QED
  BY <1>2, <1>3

---------------------------------------------------------------------------
(* find and the status directories. *)
LEMMA StatusNames ==
    /\ Statuses = {"proposed", "accepted", "promoted", "rejected", "expired"}
    /\ Order[1] = "proposed" /\ Order[2] = "accepted" /\ Order[3] = "promoted"
    /\ Order[4] = "rejected" /\ Order[5] = "expired"
<1>1. /\ Order[1] = "proposed" /\ Order[2] = "accepted" /\ Order[3] = "promoted"
      /\ Order[4] = "rejected" /\ Order[5] = "expired"
  BY DEF Order
<1>2. 1 .. 5 = {1, 2, 3, 4, 5}
  OBVIOUS
<1> QED
  BY <1>1, <1>2 DEF Statuses

LEMMA FoundIs ==
    ASSUME NEW i, Homes(i) # {}
    PROVE  /\ Found(i) \in Statuses
           /\ Holds(Found(i), i)
           /\ Holds("proposed", i) => Found(i) = "proposed"
<1> DEFINE H == Homes(i)
<1>1. H \subseteq 1 .. 5
  BY DEF Homes
<1>2. \E n \in H : \A m \in H : n <= m
  <2> HIDE DEF H
  <2>1. CASE 1 \in H BY <2>1, <1>1
  <2>2. CASE 1 \notin H /\ 2 \in H BY <2>2, <1>1
  <2>3. CASE 1 \notin H /\ 2 \notin H /\ 3 \in H BY <2>3, <1>1
  <2>4. CASE 1 \notin H /\ 2 \notin H /\ 3 \notin H /\ 4 \in H BY <2>4, <1>1
  <2>5. CASE 1 \notin H /\ 2 \notin H /\ 3 \notin H /\ 4 \notin H
    <3>1. PICK x \in H : TRUE
      BY DEF H
    <3>2. \A m \in H : m = 5
      BY <2>5, <1>1
    <3> QED
      BY <3>1, <3>2
  <2> QED
    BY <2>1, <2>2, <2>3, <2>4, <2>5
<1> DEFINE n == CHOOSE x \in H : \A m \in H : x <= m
<1>3. n \in H /\ \A m \in H : n <= m
  <2> HIDE DEF H
  <2> QED BY <1>2
<1>4. Found(i) = Order[n]
  BY DEF Found
<1>5. Holds(Order[n], i) /\ n \in 1 .. 5
  BY <1>3 DEF Homes
<1>6. Order[n] \in Statuses
  BY <1>5 DEF Statuses
<1>7. ASSUME Holds("proposed", i) PROVE n = 1
  <2>1. 1 \in H
    BY <1>7, StatusNames DEF Homes
  <2> QED
    BY <2>1, <1>3, <1>1
<1> HIDE DEF n
<1> QED
  BY <1>4, <1>5, <1>6, <1>7, StatusNames

LEMMA Housed ==
    ASSUME NEW i, NEW st \in Statuses, Holds(st, i)
    PROVE  Homes(i) # {}
BY DEF Statuses, Homes

LEMMA Sheltered ==
    ASSUME NEW i, Homes(i) # {}
    PROVE  \E st \in Statuses : Holds(st, i)
BY FoundIs

(* Where a suggestion is depends on its own files only.                    *)
LEMMA SameHomes ==
    ASSUME NEW i, \A st \in Statuses : Holds(st, i)' <=> Holds(st, i)
    PROVE  Homes(i)' = Homes(i) /\ Found(i)' = Found(i)
<1>1. \A n \in 1 .. 5 : Order[n] \in Statuses
  BY DEF Statuses
<1>2. Homes(i)' = Homes(i)
  BY <1>1 DEF Homes
<1> QED
  BY <1>2 DEF Found

LEMMA SuggestionIs ==
    \A f \in Suggestion : f.key \in Clusters /\ f.path \in Targets \cup {NoPath} /\ f # None
<1>1. None.key = <<>>
  BY DEF None
<1>2. ASSUME NEW c \in Clusters PROVE c # <<>>
  <2>1. PICK d \in Domains, b \in Buckets : c = <<d, b>>
    BY DEF Clusters
  <2>2. Len(c) = 2 /\ Len(<<>>) = 0
    BY <2>1
  <2> QED
    BY <2>2
<1> QED
  BY <1>1, <1>2 DEF Suggestion

(* A file in a directory is a suggestion. *)
LEMMA FileIs ==
    ASSUME TypeOK, NEW st \in Statuses, NEW i \in Ids
    PROVE  /\ Holds(st, i) <=> home[st][i] \in Suggestion
           /\ home[st][i] \in Suggestion => /\ home[st][i].key \in Clusters
                                            /\ home[st][i].path \in Targets \cup {NoPath}
BY SuggestionIs DEF TypeOK, Holds

---------------------------------------------------------------------------
(* A command takes the first of its steps. *)
LEMMA GoesOn ==
    ASSUME TypeOK, NEW p \in Procs, ~AtRest(p), NEW steps \in Seq(Step), GoOn(p, steps)
    PROVE  /\ call[p] \in Seq(Step) /\ call[p][1] \in Step /\ 1 \in DOMAIN call[p]
           /\ Tail(call[p]) \in Seq(Step)
           /\ call' \in [Procs -> Seq(Step)]
           /\ call'[p] = steps \o Tail(call[p])
           /\ \A q \in Procs : q # p => call'[q] = call[q]
           /\ \A n \in DOMAIN call'[p] :
                \/ n \in DOMAIN steps /\ call'[p][n] = steps[n]
                \/ \E m \in DOMAIN call[p] : m > 1 /\ call'[p][n] = call[p][m]
<1>1. call[p] \in Seq(Step) /\ call[p] # <<>>
  BY DEF TypeOK, AtRest
<1> DEFINE t == Tail(call[p])
<1>2. /\ t \in Seq(Step) /\ Len(t) = Len(call[p]) - 1
      /\ \A n \in 1 .. Len(t) : t[n] = call[p][n + 1]
  BY <1>1, HeadTailProperties
<1>3. Len(call[p]) \in Nat /\ Len(call[p]) # 0 /\ DOMAIN call[p] = 1 .. Len(call[p])
  BY <1>1, LenProperties, EmptySeq
<1>4. call[p][1] \in Step
  BY <1>1, <1>3, ElementOfSeq
<1> HIDE DEF t
<1>5. /\ steps \o t \in Seq(Step)
      /\ Len(steps \o t) = Len(steps) + Len(t)
      /\ \A n \in 1 .. Len(steps) + Len(t) :
           (steps \o t)[n] = IF n <= Len(steps) THEN steps[n] ELSE t[n - Len(steps)]
  BY <1>2, ConcatProperties
<1>6. Len(steps) \in Nat /\ DOMAIN steps = 1 .. Len(steps) /\ Len(t) \in Nat
  BY <1>2, LenProperties
<1>7. DOMAIN (steps \o t) = 1 .. Len(steps) + Len(t)
  BY <1>5, LenProperties
<1>8. ASSUME NEW n \in 1 .. Len(steps) + Len(t)
      PROVE  \/ n \in DOMAIN steps /\ (steps \o t)[n] = steps[n]
             \/ \E m \in DOMAIN call[p] : m > 1 /\ (steps \o t)[n] = call[p][m]
  <2>1. CASE n <= Len(steps)
    BY <2>1, <1>5, <1>6
  <2>2. CASE n > Len(steps)
    <3>1. n - Len(steps) \in 1 .. Len(t)
      BY <2>2, <1>6
    <3>2. (steps \o t)[n] = call[p][(n - Len(steps)) + 1]
      BY <3>1, <2>2, <1>5, <1>6, <1>2
    <3>3. (n - Len(steps)) + 1 \in DOMAIN call[p] /\ (n - Len(steps)) + 1 > 1
      BY <3>1, <1>2, <1>3
    <3> QED
      BY <3>2, <3>3
  <2> QED
    BY <2>1, <2>2, <1>6
<1>9. call' = [call EXCEPT ![p] = steps \o t]
  BY DEF GoOn, t
<1>10. call'[p] = steps \o t /\ call' \in [Procs -> Seq(Step)]
       /\ \A q \in Procs : q # p => call'[q] = call[q]
  BY <1>9, <1>5 DEF TypeOK
<1>11. \A n \in DOMAIN call'[p] :
          \/ n \in DOMAIN steps /\ call'[p][n] = steps[n]
          \/ \E m \in DOMAIN call[p] : m > 1 /\ call'[p][n] = call[p][m]
  BY <1>7, <1>8, <1>10
<1>12. 1 \in DOMAIN call[p]
  BY <1>3
<1> QED
  BY <1>1, <1>2, <1>4, <1>10, <1>11, <1>12 DEF t

LEMMA GoesOnHarmless ==
    ASSUME TypeOK, Known, NEW p \in Procs, ~AtRest(p), NEW steps \in Seq(Step), GoOn(p, steps),
           made \subseteq made', \A n \in DOMAIN steps : Harmless(steps[n], made')
    PROVE  \A q \in Procs : \A n \in DOMAIN call'[q] : Harmless(call'[q][n], made')
<1>1. \A x : Harmless(x, made) => Harmless(x, made')
  BY DEF Harmless
<1>2. \A q \in Procs : q # p => call'[q] = call[q]
  BY GoesOn
<1>3. ASSUME NEW n \in DOMAIN call'[p] PROVE Harmless(call'[p][n], made')
  <2>1. CASE \E m \in DOMAIN steps : call'[p][n] = steps[m]
    <3>1. PICK m \in DOMAIN steps : call'[p][n] = steps[m]
      BY <2>1
    <3>2. Harmless(steps[m], made')
      OBVIOUS
    <3> QED
      BY <3>1, <3>2 DEF Harmless
  <2>2. CASE \E m \in DOMAIN call[p] : call'[p][n] = call[p][m]
    <3>1. PICK m \in DOMAIN call[p] : call'[p][n] = call[p][m]
      BY <2>2
    <3>2. Harmless(call[p][m], made)
      BY DEF Known
    <3> QED
      BY <3>1, <3>2, <1>1 DEF Harmless
  <2> QED
    BY <2>1, <2>2, GoesOn
<1>4. ASSUME NEW q \in Procs, q # p, NEW n \in DOMAIN call'[q] PROVE Harmless(call'[q][n], made')
  <2>1. call'[q] = call[q]
    BY <1>2, <1>4
  <2>2. Harmless(call[q][n], made)
    BY <2>1 DEF Known
  <2> QED
    BY <2>1, <2>2 DEF Harmless
<1> QED
  BY <1>3, <1>4

(* The new steps of a command, few as they are. *)
LEMMA FewSteps ==
    /\ <<>> \in Seq(Step) /\ \A n \in DOMAIN <<>> : Harmless(<<>>[n], made')
    /\ \A x \in Step : /\ <<x>> \in Seq(Step)
                       /\ Harmless(x, made') => \A n \in DOMAIN <<x>> : Harmless(<<x>>[n], made')
    /\ \A x, y \in Step : /\ <<x, y>> \in Seq(Step)
                          /\ Harmless(x, made') /\ Harmless(y, made') =>
                               \A n \in DOMAIN <<x, y>> : Harmless(<<x, y>>[n], made')
    /\ \A x, y, z \in Step : /\ <<x, y, z>> \in Seq(Step)
                             /\ Harmless(x, made') /\ Harmless(y, made') /\ Harmless(z, made') =>
                                  \A n \in DOMAIN <<x, y, z>> : Harmless(<<x, y, z>>[n], made')
<1>1. <<>> \in Seq(Step) /\ \A n \in DOMAIN <<>> : Harmless(<<>>[n], made')
  OBVIOUS
<1>2. ASSUME NEW x \in Step
      PROVE  <<x>> \in Seq(Step) /\ DOMAIN <<x>> = {1} /\ <<x>>[1] = x
  OBVIOUS
<1>3. ASSUME NEW x \in Step, NEW y \in Step
      PROVE  /\ <<x, y>> \in Seq(Step) /\ DOMAIN <<x, y>> = {1, 2}
             /\ <<x, y>>[1] = x /\ <<x, y>>[2] = y
  OBVIOUS
<1>4. ASSUME NEW x \in Step, NEW y \in Step, NEW z \in Step
      PROVE  /\ <<x, y, z>> \in Seq(Step) /\ DOMAIN <<x, y, z>> = {1, 2, 3}
             /\ <<x, y, z>>[1] = x /\ <<x, y, z>>[2] = y /\ <<x, y, z>>[3] = z
  OBVIOUS
<1> QED
  BY <1>1, <1>2, <1>3, <1>4 DEF Harmless

(* What is pending after a step does no harm. *)
CallsWell ==
    /\ call' \in [Procs -> Seq(Step)]
    /\ \A q \in Procs : \A n \in DOMAIN call'[q] : Harmless(call'[q][n], made')

LEMMA OnWell ==
    ASSUME Basics, NEW p \in Procs, ~AtRest(p), made \subseteq made'
    PROVE  /\ GoOn(p, <<>>) => CallsWell
           /\ \A x \in Step : Harmless(x, made') /\ GoOn(p, <<x>>) => CallsWell
           /\ \A x, y \in Step :
                Harmless(x, made') /\ Harmless(y, made') /\ GoOn(p, <<x, y>>) => CallsWell
<1>1. ASSUME NEW steps \in Seq(Step), GoOn(p, steps),
             \A n \in DOMAIN steps : Harmless(steps[n], made')
      PROVE  CallsWell
  BY <1>1, GoesOn, GoesOnHarmless DEF Basics, CallsWell
<1> QED
  BY <1>1, FewSteps

LEMMA EntersWell ==
    ASSUME Basics, NEW p \in Procs, NEW steps \in Seq(Step), made \subseteq made',
           call' = [call EXCEPT ![p] = steps],
           \A n \in DOMAIN steps : Harmless(steps[n], made')
    PROVE  CallsWell
<1>1. call' \in [Procs -> Seq(Step)]
  BY DEF Basics, TypeOK
<1>2. call'[p] = steps /\ \A q \in Procs \ {p} : call'[q] = call[q]
  BY DEF Basics, TypeOK
<1>3. \A x : Harmless(x, made) => Harmless(x, made')
  BY DEF Harmless
<1> QED
  BY <1>1, <1>2, <1>3 DEF Basics, Known, CallsWell

(* A step that leaves the files as they are. *)
LEMMA BasicsKept ==
    ASSUME Basics, CallsWell, UNCHANGED <<home, made, purged>>,
           session' \in [Sessions -> {"none", "active", "archived"}],
           evidence' \subseteq Clusters \X Sessions, skills' \subseteq Skill,
           due' \subseteq Ids, disturbed' \in BOOLEAN
    PROVE  Basics'
<1>1. TypeOK'
  BY DEF Basics, TypeOK, CallsWell
<1>2. \A st \in Statuses, i \in Ids : Holds(st, i)' => i \in made' /\ st # "accepted"
  BY DEF Basics, Known, Holds
<1>3. \A q \in Procs : \A n \in DOMAIN call'[q] : Harmless(call'[q][n], made')
  BY DEF CallsWell
<1> QED
  BY <1>1, <1>2, <1>3 DEF Basics, Known

LEMMA HeadIs ==
    ASSUME TypeOK, NEW p \in Procs, ~AtRest(p)
    PROVE  call[p] \in Seq(Step) /\ call[p][1] \in Step /\ 1 \in DOMAIN call[p]
<1>1. call[p] \in Seq(Step) /\ call[p] # <<>>
  BY DEF TypeOK, AtRest
<1>2. Len(call[p]) \in Nat /\ Len(call[p]) # 0 /\ DOMAIN call[p] = 1 .. Len(call[p])
  BY <1>1, LenProperties, EmptySeq
<1> QED
  BY <1>1, <1>2, ElementOfSeq

LEMMA BasicsQuiet ==
    ASSUME Basics, NEW p \in Procs,
           DoRecord(p) \/ DoArchive(p) \/ DoScan(p) \/ DoCover(p) \/ DoAudit(p) \/ DoList(p)
             \/ DoFill(p)
    PROVE  Basics'
<1> DEFINE s == call[p][1]
<1> USE DEF Basics
<1>0. ~AtRest(p)
  BY DEF DoRecord, DoArchive, DoScan, DoCover, DoAudit, DoList, DoFill, Does, AtRest
<1>1. s \in Step
  BY <1>0, HeadIs
<1> HIDE DEF s
<1>2. CASE DoRecord(p)
  <2>1. s.do = "record" /\ GoOn(p, <<>>) /\ evidence' = evidence \cup {<<s.key, s.session>>}
    BY <1>2 DEF DoRecord, Does, s
  <2>2. s.key \in Clusters /\ s.session \in Sessions
    BY <1>1, <2>1, StepFields
  <2>3. evidence' \subseteq Clusters \X Sessions /\ CallsWell
    BY <1>0, <1>2, <2>1, <2>2, OnWell DEF TypeOK, DoRecord, history
  <2> QED
    BY <1>0, <1>2, <2>3, BasicsKept DEF DoRecord, TypeOK, history
<1>3. CASE DoArchive(p)
  <2>1. s.do = "archive" /\ session' = [session EXCEPT ![s.session] = "archived"]
    BY <1>3 DEF DoArchive, Does, s
  <2>2. session' \in [Sessions -> {"none", "active", "archived"}]
    BY <2>1 DEF TypeOK
  <2>3. Harmless(Scan, made')
    BY DEF Harmless, Scan
  <2>4. \E steps \in {<<Scan>>, <<>>} : GoOn(p, steps)
    BY <1>3 DEF DoArchive
  <2> QED
    BY <1>0, <1>3, <2>2, <2>3, <2>4, OnWell, StepKinds, BasicsKept DEF DoArchive, TypeOK, history
<1>4. CASE DoScan(p)
  <2> DEFINE t == {c \in Clusters : Ripe(c)}
  <2>1. GoOn(p, <<Cover(t, 1)>>) \/ GoOn(p, <<>>)
    BY <1>4 DEF DoScan
  <2>2. t \in SUBSET Clusters
    OBVIOUS
  <2> HIDE DEF t
  <2>3. Cover(t, 1) \in Step /\ Harmless(Cover(t, 1), made')
    <3>1. 1 \in 1 .. 4
      OBVIOUS
    <3> QED
      BY <2>2, <3>1, StepKinds DEF Harmless, Cover
  <2> QED
    BY <1>0, <1>4, <2>1, <2>3, OnWell, BasicsKept DEF DoScan, TypeOK, history
<1>5. CASE DoCover(p)
  <2> DEFINE left == s.todo \ {home[Covering[s.next]][i].key : i \in Listing(Covering[s.next])}
  <2>1. s.do = "cover"
    BY <1>5 DEF DoCover, Does, s
  <2>2. s.todo \in SUBSET Clusters /\ s.next \in 1 .. 4
    BY <1>1, <2>1, StepFields
  <2>3. left \in SUBSET Clusters
    BY <2>2
  <2>4. GoOn(p, IF Last(s.next) THEN <<Make(left)>> ELSE <<Cover(left, s.next + 1)>>)
    BY <1>5 DEF DoCover, s
  <2> HIDE DEF left
  <2>5. Make(left) \in Step /\ Harmless(Make(left), made')
    BY <2>3, StepKinds DEF Harmless, Make
  <2>6. ~Last(s.next) => s.next + 1 \in 1 .. 4
    BY <2>2 DEF Last, Covering
  <2>7. ~Last(s.next) => Cover(left, s.next + 1) \in Step /\ Harmless(Cover(left, s.next + 1), made')
    BY <2>3, <2>6, StepKinds DEF Harmless, Cover
  <2> QED
    BY <1>0, <1>5, <2>4, <2>5, <2>7, OnWell, BasicsKept DEF DoCover, TypeOK, history
<1>6. CASE DoAudit(p)
  <2>1. s.do = "audit"
    BY <1>6 DEF DoAudit, Does, s
  <2>2. s.ids \in SUBSET Ids
    BY <1>1, <2>1, StepFields
  <2>3. GoOn(p, <<>>) \/ \E i \in s.ids : GoOn(p, <<Move(i, "expired"), Audit(s.ids \ {i})>>)
    BY <1>6 DEF DoAudit, s
  <2>4. ASSUME NEW i \in s.ids
        PROVE  /\ Move(i, "expired") \in Step /\ Audit(s.ids \ {i}) \in Step
               /\ Harmless(Move(i, "expired"), made') /\ Harmless(Audit(s.ids \ {i}), made')
    <3>1. s.ids \ {i} \in SUBSET Ids /\ i \in Ids /\ "expired" \in Statuses
      BY <2>2, StatusNames
    <3> QED
      BY <3>1, StepKinds DEF Harmless, Move, Audit
  <2> QED
    BY <1>0, <1>6, <2>3, <2>4, OnWell, BasicsKept DEF DoAudit, TypeOK, history
<1>7. CASE DoList(p)
  <2>1. GoOn(p, <<Purge(Listing("expired"))>>) \/ GoOn(p, <<>>)
    BY <1>7 DEF DoList
  <2>2. Purge(Listing("expired")) \in Step /\ Harmless(Purge(Listing("expired")), made')
    <3>1. Listing("expired") \in SUBSET Ids
      BY DEF Listing
    <3> QED
      BY <3>1, StepKinds DEF Harmless, Purge
  <2> QED
    BY <1>0, <1>7, <2>1, <2>2, OnWell, BasicsKept DEF DoList, TypeOK, history
<1>8. CASE DoFill(p)
  <2>1. s.do = "fill" /\ GoOn(p, <<>>) /\ skills' = skills \cup {s.skill}
    BY <1>8 DEF DoFill, Does, s
  <2>2. s.skill \in Skill
    BY <1>1, <2>1, StepFields
  <2> QED
    BY <1>0, <1>8, <2>1, <2>2, OnWell, BasicsKept DEF DoFill, TypeOK, history
<1> QED
  BY <1>2, <1>3, <1>4, <1>5, <1>6, <1>7, <1>8

LEMMA BasicsOpen ==
    ASSUME Basics, NEW p \in Procs, DoOpen(p)
    PROVE  Basics'
<1>1. ~AtRest(p) /\ call[p][1].do = "open" /\ UNCHANGED <<session, evidence, home, due, history>>
  BY DEF DoOpen, Does, AtRest
<1>2. call[p][1].skill \in Skill
  BY <1>1, HeadIs, StepFields DEF Basics
<1>3. made \subseteq made'
  BY <1>1 DEF history
<1>4. CASE call' = [call EXCEPT ![p] = <<>>] /\ UNCHANGED skills
  <2>1. CallsWell
    BY <1>3, <1>4, EntersWell, FewSteps
  <2> QED
    BY <1>1, <1>4, <2>1, BasicsKept DEF Basics, TypeOK, history
<1>5. CASE GoOn(p, <<FillSkill(call[p][1].skill)>>) /\ skills' = skills \ {call[p][1].skill}
  <2>1. FillSkill(call[p][1].skill) \in Step /\ Harmless(FillSkill(call[p][1].skill), made')
    BY <1>2, StepKinds DEF FillSkill, Harmless
  <2>2. CallsWell
    BY <1>1, <1>3, <1>5, <2>1, OnWell
  <2> QED
    BY <1>1, <1>5, <2>2, BasicsKept DEF Basics, TypeOK, history
<1> QED
  BY <1>4, <1>5 DEF DoOpen

LEMMA BasicsMove ==
    ASSUME Basics, NEW p \in Procs, DoMove(p)
    PROVE  Basics'
<1> DEFINE i == call[p][1].id
           to == call[p][1].to
<1>1. ~AtRest(p) /\ call[p][1].do = "move"
      /\ UNCHANGED <<session, evidence, home, due, skills, history>>
  BY DEF DoMove, Does, AtRest
<1>2. /\ IF Homes(i) = {} \/ Found(i) = to THEN GoOn(p, <<>>)
         ELSE GoOn(p, Moved(Found(i), i, to))
  BY DEF DoMove
<1>3. i \in Ids /\ to \in Statuses /\ to # "accepted"
  <2>1. Harmless(call[p][1], made)
    BY <1>1, HeadIs DEF Basics, Known
  <2> QED
    BY <1>1, <2>1, HeadIs, StepFields DEF Basics, Harmless
<1> HIDE DEF i, to
<1>4. made \subseteq made'
  BY <1>1 DEF history
<1>5. CallsWell
  <2>1. CASE GoOn(p, <<>>)
    BY <2>1, <1>1, <1>4, OnWell
  <2>2. CASE Homes(i) # {} /\ GoOn(p, Moved(Found(i), i, to))
    <3>1. Found(i) \in Statuses /\ Holds(Found(i), i)
      BY <2>2, FoundIs
    <3>2. i \in made' /\ home[Found(i)][i] \in Suggestion
      BY <3>1, <1>3, <1>4, FileIs DEF Basics, Known
    <3> DEFINE st == Found(i)
               x == Write(to, i, home[st][i])
               y == Unlink(st, i)
    <3>3. x \in Step /\ y \in Step
      BY <3>1, <3>2, <1>3, StepKinds
    <3>4. Harmless(x, made') /\ Harmless(y, made')
      BY <3>2, <1>3 DEF Harmless, Write, Unlink
    <3>5. GoOn(p, <<x, y>>)
      BY <2>2 DEF Moved
    <3> HIDE DEF x, y
    <3> QED
      BY <3>3, <3>4, <3>5, <1>1, <1>4, OnWell
  <2> QED
    BY <2>1, <2>2, <1>2
<1> QED
  BY <1>1, <1>5, BasicsKept DEF Basics, TypeOK, history

(* One file is written or removed, or a fresh one made. *)
LEMMA BasicsFile ==
    ASSUME Basics, CallsWell, NEW st \in Statuses, NEW i \in Ids, NEW f \in Suggestion \cup {None},
           home' = [home EXCEPT ![st][i] = f],
           f # None => i \in made' /\ st # "accepted",
           made \subseteq made', made' \subseteq Ids, purged' \subseteq made',
           UNCHANGED <<session, evidence, due, skills, disturbed>>
    PROVE  Basics'
<1>1. home' \in [Statuses -> [Ids -> Suggestion \cup {None}]]
  BY DEF Basics, TypeOK
<1>2. TypeOK'
  BY <1>1 DEF Basics, TypeOK, CallsWell
<1>3. ASSUME NEW su \in Statuses, NEW j \in Ids, home'[su][j] # None
      PROVE  j \in made' /\ su # "accepted"
  <2>1. home'[su][j] = IF su = st /\ j = i THEN f ELSE home[su][j]
    BY DEF Basics, TypeOK
  <2>2. CASE su = st /\ j = i
    BY <1>3, <2>1, <2>2
  <2>3. CASE ~(su = st /\ j = i)
    BY <1>3, <2>1, <2>3 DEF Basics, Known, Holds
  <2> QED
    BY <2>2, <2>3
<1> QED
  BY <1>2, <1>3 DEF Basics, Known, Holds, CallsWell

LEMMA BasicsWrite ==
    ASSUME Basics, NEW p \in Procs, DoWrite(p)
    PROVE  Basics'
<1> DEFINE s == call[p][1]
<1>1. ~AtRest(p) /\ s.do = "write" /\ home' = [home EXCEPT ![s.at][s.id] = s.file]
      /\ GoOn(p, <<>>) /\ UNCHANGED <<session, evidence, due, skills, history>>
  BY DEF DoWrite, Does, AtRest
<1>2. s.at \in Statuses /\ s.id \in Ids /\ s.file \in Suggestion
  BY <1>1, HeadIs, StepFields DEF Basics
<1>3. s.id \in made /\ s.at # "accepted"
  <2>1. Harmless(s, made)
    BY <1>1, HeadIs DEF Basics, Known
  <2> QED
    BY <1>1, <2>1 DEF Harmless
<1>4. CallsWell
  BY <1>1, OnWell DEF history
<1> HIDE DEF s
<1> QED
  BY <1>1, <1>2, <1>3, <1>4, BasicsFile DEF history, Basics, TypeOK

LEMMA BasicsUnlink ==
    ASSUME Basics, NEW p \in Procs, DoUnlink(p)
    PROVE  Basics'
<1> DEFINE s == call[p][1]
<1>1. ~AtRest(p) /\ s.do = "unlink" /\ home' = [home EXCEPT ![s.at][s.id] = None]
      /\ GoOn(p, <<>>) /\ UNCHANGED <<session, evidence, due, skills, history>>
  BY DEF DoUnlink, Does, AtRest
<1>2. s.at \in Statuses /\ s.id \in Ids
  BY <1>1, HeadIs, StepFields DEF Basics
<1>3. CallsWell
  BY <1>1, OnWell DEF history
<1> HIDE DEF s
<1> QED
  BY <1>1, <1>2, <1>3, BasicsFile DEF history, Basics, TypeOK

LEMMA BasicsMake ==
    ASSUME Basics, NEW p \in Procs, DoMake(p)
    PROVE  Basics'
<1> DEFINE s == call[p][1]
<1>1. ~AtRest(p) /\ s.do = "make" /\ UNCHANGED <<session, evidence, due, skills, purged, disturbed>>
  BY DEF DoMake, Does, AtRest
<1>2. s.todo \in SUBSET Clusters
  BY <1>1, HeadIs, StepFields DEF Basics
<1>3. CASE s.todo = {} /\ GoOn(p, <<>>) /\ UNCHANGED <<home, made>>
  <2>1. CallsWell
    BY <1>1, <1>3, OnWell
  <2> QED
    BY <1>1, <1>3, <2>1, BasicsKept DEF Basics, TypeOK
<1>4. ASSUME NEW c \in s.todo, GoOn(p, <<Make(s.todo \ {c})>>), made \subseteq made'
      PROVE  CallsWell
  <2>1. s.todo \ {c} \in SUBSET Clusters
    BY <1>2
  <2>2. Make(s.todo \ {c}) \in Step /\ Harmless(Make(s.todo \ {c}), made')
    BY <2>1, StepKinds DEF Harmless, Make
  <2> QED
    BY <1>1, <1>4, <2>2, OnWell
<1>5. ASSUME NEW c \in s.todo, GoOn(p, <<Make(s.todo \ {c})>>), UNCHANGED <<home, made>>
      PROVE  Basics'
  BY <1>1, <1>4, <1>5, BasicsKept DEF Basics, TypeOK
<1>6. ASSUME NEW c \in s.todo, GoOn(p, <<Make(s.todo \ {c})>>), NEW i \in Ids \ made,
             home' = [home EXCEPT !["proposed"][i] = [key |-> c, path |-> NoPath]],
             made' = made \cup {i}
      PROVE  Basics'
  <2>1. [key |-> c, path |-> NoPath] \in Suggestion /\ "proposed" \in Statuses
    BY <1>2, <1>6, StatusNames DEF Suggestion
  <2>2. CallsWell
    BY <1>4, <1>6
  <2>3. made' \subseteq Ids /\ purged' \subseteq made' /\ made \subseteq made' /\ i \in made'
    BY <1>1, <1>6 DEF Basics, TypeOK
  <2> QED
    BY <1>1, <1>6, <2>1, <2>2, <2>3, BasicsFile
<1> QED
  BY <1>3, <1>5, <1>6 DEF DoMake

LEMMA BasicsPurge ==
    ASSUME Basics, NEW p \in Procs, DoPurge(p)
    PROVE  Basics'
<1> DEFINE s == call[p][1]
<1>1. ~AtRest(p) /\ s.do = "purge" /\ UNCHANGED <<session, evidence, due, skills, made, disturbed>>
  BY DEF DoPurge, Does, AtRest
<1>2. s.ids \in SUBSET Ids
  BY <1>1, HeadIs, StepFields DEF Basics
<1>3. CASE s.ids = {} /\ GoOn(p, <<>>) /\ UNCHANGED <<home, purged>>
  <2>1. CallsWell
    BY <1>1, <1>3, OnWell
  <2> QED
    BY <1>1, <1>3, <2>1, BasicsKept DEF Basics, TypeOK
<1>4. ASSUME NEW i \in s.ids, GoOn(p, <<Purge(s.ids \ {i})>>),
             home' = [home EXCEPT !["expired"][i] = None],
             purged' = purged \cup ({i} \cap Listing("expired"))
      PROVE  Basics'
  <2>1. s.ids \ {i} \in SUBSET Ids /\ i \in Ids /\ "expired" \in Statuses
    BY <1>2, StatusNames
  <2>2. Purge(s.ids \ {i}) \in Step /\ Harmless(Purge(s.ids \ {i}), made')
    BY <2>1, StepKinds DEF Harmless, Purge
  <2>3. CallsWell
    BY <1>1, <1>4, <2>2, OnWell
  <2>4. purged' \subseteq made'
    BY <1>1, <1>4, <2>1 DEF Basics, TypeOK, Known, Listing
  <2> QED
    BY <1>1, <1>4, <2>1, <2>3, <2>4, BasicsFile DEF Basics, TypeOK
<1> QED
  BY <1>3, <1>4 DEF DoPurge

LEMMA BasicsEnter ==
    ASSUME Basics, NEW p \in Procs, NEW steps \in Seq(Step), Enter(p, steps),
           \A n \in DOMAIN steps : Harmless(steps[n], made'),
           UNCHANGED <<evidence, home, due, skills, made, purged>>,
           session' \in [Sessions -> {"none", "active", "archived"}]
    PROVE  Basics'
<1>1. CallsWell
  BY EntersWell DEF Enter
<1>2. disturbed' \in BOOLEAN
  BY DEF Enter
<1> QED
  BY <1>1, <1>2, BasicsKept DEF Basics, TypeOK

LEMMA FoundFile ==
    ASSUME Basics, NEW i \in Ids, Homes(i) # {}
    PROVE  /\ Found(i) \in Statuses \ {"accepted"}
           /\ i \in made
           /\ Holds(Found(i), i)
           /\ home[Found(i)][i] \in Suggestion
           /\ home[Found(i)][i].key \in Clusters
           /\ \A to \in Targets :
                /\ [home[Found(i)][i] EXCEPT !.path = to] \in Suggestion
                /\ <<to, home[Found(i)][i].key>> \in Skill
<1>1. Found(i) \in Statuses /\ Holds(Found(i), i)
  BY FoundIs
<1>2. home[Found(i)][i] \in Suggestion
  BY <1>1, FileIs DEF Basics
<1>3. Found(i) # "accepted" /\ i \in made
  BY <1>1 DEF Basics, Known
<1>4. \A f \in Suggestion, to \in Targets :
        [f EXCEPT !.path = to] \in Suggestion /\ <<to, f.key>> \in Skill
  BY DEF Suggestion, Skill
<1>5. \A f \in Suggestion : f.key \in Clusters
  BY DEF Suggestion
<1> QED
  BY <1>1, <1>2, <1>3, <1>4, <1>5

LEMMA BasicsCommand ==
    ASSUME Basics, NEW p \in Procs, Command(p)
    PROVE  Basics'
<1>1. ASSUME NEW then \in {<<>>, <<ListExpired>>, <<Scan>>}, Suggest(p, then)
      PROVE  Basics'
  <2> DEFINE a == Audit(Listing("proposed") \cap due)
  <2>1. a \in Step /\ a.do = "audit"
    <3>1. Listing("proposed") \cap due \in SUBSET Ids
      BY DEF Listing
    <3> QED
      BY <3>1, StepKinds DEF Audit
  <2>2. /\ Enter(p, <<a>> \o then)
        /\ UNCHANGED <<session, evidence, home, due, skills, made, purged>>
    BY <1>1 DEF Suggest
  <2> HIDE DEF a
  <2>3. \A x \in {a, ListExpired, Scan} : x \in Step /\ Harmless(x, made')
    BY <2>1, StepKinds DEF Harmless, ListExpired, Scan
  <2>4. <<a>> \o then \in {<<a>>, <<a, ListExpired>>, <<a, Scan>>}
    BY <2>1, StepKinds, Pairs
  <2>5. /\ <<a>> \o then \in Seq(Step)
        /\ \A n \in DOMAIN (<<a>> \o then) : Harmless((<<a>> \o then)[n], made')
    BY <2>3, <2>4, FewSteps
  <2> QED
    BY <2>2, <2>5, BasicsEnter DEF Basics, TypeOK
<1>2. ASSUME NEW i \in Ids, Reject(p, i)
      PROVE  Basics'
  <2> DEFINE x == Write(Found(i), i, home[Found(i)][i])
             y == Move(i, "rejected")
  <2>1. /\ Homes(i) # {} /\ Enter(p, <<x, y>>)
        /\ UNCHANGED <<session, evidence, home, due, skills, made, purged>>
    BY <1>2 DEF Reject
  <2>2. x \in Step /\ y \in Step
    BY <2>1, FoundFile, StepKinds, StatusNames
  <2>3. Harmless(x, made') /\ Harmless(y, made')
    BY <2>1, FoundFile DEF Harmless, Write, Move
  <2> HIDE DEF x, y
  <2>4. <<x, y>> \in Seq(Step) /\ \A n \in DOMAIN <<x, y>> : Harmless(<<x, y>>[n], made')
    BY <2>2, <2>3, FewSteps
  <2> QED
    BY <2>1, <2>4, BasicsEnter DEF Basics, TypeOK
<1>3. ASSUME NEW i \in Ids, NEW to \in Targets, Promote(p, i, to)
      PROVE  Basics'
  <2> DEFINE x == OpenSkill(<<to, home[Found(i)][i].key>>)
             y == Write(Found(i), i, [home[Found(i)][i] EXCEPT !.path = to])
             z == Move(i, "promoted")
  <2>1. /\ Homes(i) # {} /\ Enter(p, <<x, y, z>>)
        /\ UNCHANGED <<session, evidence, home, due, skills, made, purged>>
    BY <1>3 DEF Promote, Promotion
  <2>2. x \in Step /\ y \in Step /\ z \in Step
    BY <2>1, FoundFile, StepKinds, StatusNames
  <2>3. Harmless(x, made') /\ Harmless(y, made') /\ Harmless(z, made')
    BY <2>1, FoundFile DEF Harmless, OpenSkill, Write, Move
  <2> HIDE DEF x, y, z
  <2>4. /\ <<x, y, z>> \in Seq(Step)
        /\ \A n \in DOMAIN <<x, y, z>> : Harmless(<<x, y, z>>[n], made')
    BY <2>2, <2>3, FewSteps
  <2> QED
    BY <2>1, <2>4, BasicsEnter DEF Basics, TypeOK
<1>4. ASSUME NEW s \in Sessions, NEW x \in Step, NEW y \in Step, Start(p, s, <<x, y>>),
             Harmless(x, made'), Harmless(y, made')
      PROVE  Basics'
  <2>1. <<x, y>> \in Seq(Step) /\ \A n \in DOMAIN <<x, y>> : Harmless(<<x, y>>[n], made')
    BY <1>4, FewSteps
  <2>2. session' \in [Sessions -> {"none", "active", "archived"}]
    BY <1>4 DEF Start, Basics, TypeOK
  <2> QED
    BY <1>4, <2>1, <2>2, BasicsEnter DEF Start
<1>5. ASSUME NEW s \in Sessions, Import(p, s)
      PROVE  Basics'
  <2>1. /\ Archive(s) \in Step /\ Scan \in Step
        /\ Harmless(Archive(s), made') /\ Harmless(Scan, made')
    BY StepKinds DEF Harmless, Archive, Scan
  <2> QED
    BY <1>4, <1>5, <2>1 DEF Import
<1>6. ASSUME NEW s \in Sessions, NEW d \in Domains, Run(p, s, d)
      PROVE  Basics'
  <2>1. <<d, NoTags>> \in Clusters
    BY SuggestionAssumption DEF Clusters
  <2>2. Record(<<d, NoTags>>, s) \in Step /\ Archive(s) \in Step
    BY <2>1, StepKinds
  <2>3. Harmless(Record(<<d, NoTags>>, s), made') /\ Harmless(Archive(s), made')
    BY DEF Harmless, Record, Archive
  <2> QED
    BY <1>4, <1>6, <2>2, <2>3 DEF Run
<1> QED
  BY <1>1, <1>2, <1>3, <1>5, <1>6 DEF Command

LEMMA BasicsAround ==
    ASSUME Basics, Environment \/ (\E p \in Procs : Kill(p)) \/ UNCHANGED vars
    PROVE  Basics'
<1>1. CASE call' = call /\ UNCHANGED <<home, made, purged>>
  <2>1. CallsWell
    BY <1>1 DEF CallsWell, Basics, TypeOK, Known
  <2>2. CASE \E c \in Clusters, s \in Sessions : Publish(c, s)
    BY <1>1, <2>1, <2>2, BasicsKept DEF Publish, Meanwhile, Basics, TypeOK
  <2>3. CASE \E e \in evidence : Forget(e)
    BY <1>1, <2>1, <2>3, BasicsKept DEF Forget, Meanwhile, Basics, TypeOK
  <2>4. CASE \E to \in Targets, keys \in SUBSET Clusters : Packs(to, keys)
    BY <1>1, <2>1, <2>4, BasicsKept DEF Packs, Meanwhile, Basics, TypeOK, Skill
  <2>5. CASE \E i \in Ids : Expire(i)
    BY <1>1, <2>1, <2>5, BasicsKept DEF Expire, history, Basics, TypeOK
  <2>6. CASE UNCHANGED vars
    BY <1>1, <2>1, <2>6, BasicsKept DEF vars, history, Basics, TypeOK
  <2>7. ASSUME NEW p \in Procs, Kill(p)
        PROVE  Basics'
    BY <1>1, <2>1, <2>7, BasicsKept DEF Kill, Basics, TypeOK
  <2> QED
    BY <2>2, <2>3, <2>4, <2>5, <2>6, <2>7 DEF Environment
<1>2. ASSUME NEW p \in Procs, Kill(p)
      PROVE  Basics'
  <2>1. CallsWell
    BY <1>2, EntersWell, FewSteps DEF Kill
  <2> QED
    BY <1>2, <2>1, BasicsKept DEF Kill, Basics, TypeOK
<1> QED
  BY <1>1, <1>2 DEF Environment, Publish, Forget, Packs, Expire, Meanwhile, vars, history

LEMMA BasicsInit == Init => Basics
<1> SUFFICES ASSUME Init PROVE Basics
  OBVIOUS
<1>1. \A st \in Statuses, i \in Ids : home[st][i] = None
  BY DEF Init
<1>2. \A p \in Procs : call[p] = <<>>
  BY DEF Init
<1>3. TypeOK
  <2>1. <<>> \in Seq(Step)
    BY EmptySeq
  <2>2. call \in [Procs -> Seq(Step)]
    BY <2>1 DEF Init
  <2>3. home \in [Statuses -> [Ids -> Suggestion \cup {None}]]
    BY DEF Init
  <2> QED
    BY <2>2, <2>3 DEF Init, TypeOK
<1>4. Known
  BY <1>1, <1>2 DEF Known, Holds
<1> QED
  BY <1>3, <1>4 DEF Basics

LEMMA BasicsNext == Basics /\ [Next]_vars => Basics'
<1> SUFFICES ASSUME Basics, [Next]_vars PROVE Basics'
  OBVIOUS
<1>1. ASSUME NEW p \in Procs, DoStep(p) PROVE Basics'
  BY <1>1, BasicsQuiet, BasicsOpen, BasicsMove, BasicsWrite, BasicsUnlink, BasicsMake, BasicsPurge
     DEF DoStep
<1> QED
  BY <1>1, BasicsCommand, BasicsAround DEF Next


---------------------------------------------------------------------------
(* What comes after the step at hand. *)
LEMMA AtHandOn ==
    ASSUME TypeOK, AtHand, NEW p \in Procs, ~AtRest(p)
    PROVE  /\ GoOn(p, <<>>) => AtHand'
           /\ \A x \in Step : GoOn(p, <<x>>) => AtHand'
           /\ \A x, y \in Step : GoOn(p, <<x, y>>) /\ y.do \notin {"cover", "make"} => AtHand'
<1>1. ASSUME NEW steps \in Seq(Step), GoOn(p, steps),
             \A n \in DOMAIN steps : n > 1 => steps[n].do \notin {"cover", "make"}
      PROVE  AtHand'
  <2>1. ASSUME NEW n \in DOMAIN call'[p], n > 1
        PROVE  call'[p][n].do \notin {"cover", "make"}
    <3>1. CASE n \in DOMAIN steps /\ call'[p][n] = steps[n]
      BY <1>1, <2>1, <3>1
    <3>2. CASE \E m \in DOMAIN call[p] : m > 1 /\ call'[p][n] = call[p][m]
      BY <3>2 DEF AtHand
    <3> QED
      BY <1>1, <3>1, <3>2, GoesOn
  <2>2. \A q \in Procs : q # p => call'[q] = call[q]
    BY <1>1, GoesOn
  <2> QED
    BY <2>1, <2>2 DEF AtHand
<1>2. <<>> \in Seq(Step) /\ DOMAIN <<>> = {}
  OBVIOUS
<1>3. \A x \in Step : <<x>> \in Seq(Step) /\ DOMAIN <<x>> = {1}
  OBVIOUS
<1>4. \A x, y \in Step : <<x, y>> \in Seq(Step) /\ DOMAIN <<x, y>> = {1, 2} /\ <<x, y>>[2] = y
  OBVIOUS
<1>5. ASSUME GoOn(p, <<>>) PROVE AtHand'
  BY <1>1, <1>2, <1>5
<1>6. ASSUME NEW x \in Step, GoOn(p, <<x>>) PROVE AtHand'
  <2>1. \A n \in DOMAIN <<x>> : ~(n > 1)
    BY <1>3
  <2> QED
    BY <1>1, <1>3, <1>6, <2>1
<1>7. ASSUME NEW x \in Step, NEW y \in Step, GoOn(p, <<x, y>>), y.do \notin {"cover", "make"}
      PROVE  AtHand'
  <2>1. \A n \in DOMAIN <<x, y>> : n > 1 => <<x, y>>[n].do \notin {"cover", "make"}
    BY <1>4, <1>7
  <2> QED
    BY <1>1, <1>4, <1>7, <2>1
<1> QED
  BY <1>5, <1>6, <1>7

LEMMA AtHandSet ==
    ASSUME TypeOK, AtHand, NEW p \in Procs, NEW steps \in Seq(Step),
           call' = [call EXCEPT ![p] = steps],
           \A n \in DOMAIN steps : n > 1 => steps[n].do \notin {"cover", "make"}
    PROVE  AtHand'
BY DEF TypeOK, AtHand

LEMMA AtHandCleared ==
    ASSUME TypeOK, AtHand, NEW p \in Procs, call' = [call EXCEPT ![p] = <<>>]
    PROVE  AtHand'
<1>1. <<>> \in Seq(Step) /\ \A n \in DOMAIN <<>> : FALSE
  OBVIOUS
<1> QED
  BY <1>1, AtHandSet

DetectDos == {"record", "archive", "scan", "cover", "make"}
DecideDos == {"open", "fill", "write", "move", "unlink"}

(* A step is followed by one of its side, and a search goes on as one.     *)
Alike(x, y) ==
    /\ x.do \in DetectDos => y.do \in DetectDos
    /\ x.do \in DecideDos => y.do \in DecideDos
    /\ y.do \in {"cover", "make"} => x.do \in {"scan", "cover", "make"}

(* The steps an action puts in the place of the one it took.               *)
LEMMA NewSteps ==
    ASSUME Basics, NEW p \in Procs, DoStep(p)
    PROVE  /\ ~AtRest(p)
           /\ \/ DoOpen(p) /\ call' = [call EXCEPT ![p] = <<>>]
              \/ GoOn(p, <<>>)
              \/ \E x \in Step : GoOn(p, <<x>>) /\ Alike(call[p][1], x)
              \/ \E x, y \in Step :
                   /\ GoOn(p, <<x, y>>)
                   /\ y.do \notin {"cover", "make"}
                   /\ Alike(call[p][1], x) /\ Alike(call[p][1], y)
<1> DEFINE s == call[p][1]
<1>0. ~AtRest(p)
  BY DEF DoStep, DoRecord, DoArchive, DoScan, DoCover, DoMake, DoAudit, DoList, DoPurge,
         DoOpen, DoFill, DoWrite, DoMove, DoUnlink, Does, AtRest
<1>1. s \in Step
  BY <1>0, HeadIs DEF Basics
<1>2. CASE DoRecord(p) \/ DoFill(p) \/ DoWrite(p) \/ DoUnlink(p)
  BY <1>0, <1>2 DEF DoRecord, DoFill, DoWrite, DoUnlink
<1>3. CASE DoArchive(p)
  <2>1. s.do = "archive" => Alike(s, Scan)
    BY DEF Alike, Scan, DetectDos, DecideDos
  <2> QED
    BY <1>0, <1>3, <2>1, StepKinds DEF DoArchive, Does
<1>4. CASE DoScan(p)
  <2>1. {c \in Clusters : Ripe(c)} \in SUBSET Clusters /\ 1 \in 1 .. 4
    OBVIOUS
  <2> DEFINE x == Cover({c \in Clusters : Ripe(c)}, 1)
  <2>2. s.do = "scan" /\ (GoOn(p, <<x>>) \/ GoOn(p, <<>>))
    BY <1>4 DEF DoScan, Does
  <2>3. x \in Step /\ x.do = "cover"
    BY <2>1, StepKinds DEF Cover
  <2> HIDE DEF x
  <2>4. Alike(s, x)
    BY <2>2, <2>3 DEF Alike, DetectDos, DecideDos
  <2> QED
    BY <1>0, <2>2, <2>3, <2>4
<1>5. CASE DoCover(p)
  <2> DEFINE left == s.todo \ {home[Covering[s.next]][i].key : i \in Listing(Covering[s.next])}
  <2>1. s.todo \in SUBSET Clusters /\ s.next \in 1 .. 4
    BY <1>1, <1>5, StepFields DEF DoCover, Does
  <2>2. left \in SUBSET Clusters
    BY <2>1
  <2>3. GoOn(p, IF Last(s.next) THEN <<Make(left)>> ELSE <<Cover(left, s.next + 1)>>)
    BY <1>5 DEF DoCover
  <2> HIDE DEF left
  <2>4. ~Last(s.next) => s.next + 1 \in 1 .. 4
    BY <2>1 DEF Last, Covering
  <2>7. s.do = "cover"
    BY <1>5 DEF DoCover, Does
  <2>8. Alike(s, Make(left)) /\ Alike(s, Cover(left, s.next + 1))
    BY <2>7 DEF Alike, DetectDos, DecideDos, Make, Cover
  <2>5. CASE Last(s.next)
    BY <1>0, <2>2, <2>3, <2>5, <2>8, StepKinds
  <2>6. CASE ~Last(s.next)
    BY <1>0, <2>2, <2>3, <2>4, <2>6, <2>8, StepKinds
  <2> QED
    BY <2>5, <2>6
<1>6. CASE DoMake(p)
  <2>1. s.todo \in SUBSET Clusters
    BY <1>1, <1>6, StepFields DEF DoMake, Does
  <2>2. \A c \in s.todo : Make(s.todo \ {c}) \in Step
    <3>1. \A c \in s.todo : s.todo \ {c} \in SUBSET Clusters
      BY <2>1
    <3> QED
      BY <3>1, StepKinds
  <2>3. GoOn(p, <<>>) \/ \E c \in s.todo : GoOn(p, <<Make(s.todo \ {c})>>)
    BY <1>6 DEF DoMake
  <2>4. s.do = "make"
    BY <1>6 DEF DoMake, Does
  <2>5. \A c \in s.todo : Alike(s, Make(s.todo \ {c}))
    BY <2>4 DEF Alike, DetectDos, DecideDos, Make
  <2> QED
    BY <1>0, <2>2, <2>3, <2>5
<1>7. CASE DoAudit(p)
  <2>1. s.ids \in SUBSET Ids
    BY <1>1, <1>7, StepFields DEF DoAudit, Does
  <2>2. GoOn(p, <<>>) \/ \E i \in s.ids : GoOn(p, <<Move(i, "expired"), Audit(s.ids \ {i})>>)
    BY <1>7 DEF DoAudit
  <2>3. ASSUME NEW i \in s.ids
        PROVE  /\ Move(i, "expired") \in Step /\ Audit(s.ids \ {i}) \in Step
               /\ Audit(s.ids \ {i}).do \notin {"cover", "make"}
    <3>1. s.ids \ {i} \in SUBSET Ids /\ i \in Ids /\ "expired" \in Statuses
      BY <2>1, StatusNames
    <3>2. Move(i, "expired") \in Step /\ Audit(s.ids \ {i}) \in Step
      BY <3>1, StepKinds
    <3> QED
      BY <3>2 DEF Audit
  <2>4. s.do = "audit"
    BY <1>7 DEF DoAudit, Does
  <2>5. \A i, js : Alike(s, Move(i, "expired")) /\ Alike(s, Audit(js))
    BY <2>4 DEF Alike, DetectDos, DecideDos, Move, Audit
  <2> QED
    BY <1>0, <2>2, <2>3, <2>5
<1>8. CASE DoList(p)
  <2>1. Listing("expired") \in SUBSET Ids
    BY DEF Listing
  <2>2. Purge(Listing("expired")) \in Step
    BY <2>1, StepKinds
  <2>3. s.do = "list"
    BY <1>8 DEF DoList, Does
  <2>4. \A js : Alike(s, Purge(js))
    BY <2>3 DEF Alike, DetectDos, DecideDos, Purge
  <2> QED
    BY <1>0, <1>8, <2>2, <2>4 DEF DoList
<1>9. CASE DoPurge(p)
  <2>1. s.ids \in SUBSET Ids
    BY <1>1, <1>9, StepFields DEF DoPurge, Does
  <2>2. \A i \in s.ids : Purge(s.ids \ {i}) \in Step
    <3>1. \A i \in s.ids : s.ids \ {i} \in SUBSET Ids
      BY <2>1
    <3> QED
      BY <3>1, StepKinds
  <2>3. GoOn(p, <<>>) \/ \E i \in s.ids : GoOn(p, <<Purge(s.ids \ {i})>>)
    BY <1>9 DEF DoPurge
  <2>4. s.do = "purge"
    BY <1>9 DEF DoPurge, Does
  <2>5. \A js : Alike(s, Purge(js))
    BY <2>4 DEF Alike, DetectDos, DecideDos, Purge
  <2> QED
    BY <1>0, <2>2, <2>3, <2>5
<1>10. CASE DoOpen(p)
  <2>1. s.skill \in Skill
    BY <1>1, <1>10, StepFields DEF DoOpen, Does
  <2>2. FillSkill(s.skill) \in Step
    BY <2>1, StepKinds
  <2>3. s.do = "open"
    BY <1>10 DEF DoOpen, Does
  <2>4. Alike(s, FillSkill(s.skill))
    BY <2>3 DEF Alike, DetectDos, DecideDos, FillSkill
  <2> QED
    BY <1>0, <1>10, <2>2, <2>4 DEF DoOpen
<1>11. CASE DoMove(p)
  <2>1. s.id \in Ids /\ s.to \in Statuses
    BY <1>1, <1>11, StepFields DEF DoMove, Does
  <2>2. \/ GoOn(p, <<>>)
        \/ Homes(s.id) # {} /\ GoOn(p, Moved(Found(s.id), s.id, s.to))
    BY <1>11 DEF DoMove
  <2>3. ASSUME Homes(s.id) # {}
        PROVE  /\ Write(s.to, s.id, home[Found(s.id)][s.id]) \in Step
               /\ Unlink(Found(s.id), s.id) \in Step
    BY <2>1, <2>3, FoundFile, StepKinds
  <2>4. Unlink(Found(s.id), s.id).do \notin {"cover", "make"}
    BY DEF Unlink
  <2>5. s.do = "move"
    BY <1>11 DEF DoMove, Does
  <2>6. /\ Alike(s, Write(s.to, s.id, home[Found(s.id)][s.id]))
        /\ Alike(s, Unlink(Found(s.id), s.id))
    BY <2>5 DEF Alike, DetectDos, DecideDos, Write, Unlink
  <2> QED
    BY <1>0, <2>2, <2>3, <2>4, <2>6 DEF Moved
<1> QED
  BY <1>2, <1>3, <1>4, <1>5, <1>6, <1>7, <1>8, <1>9, <1>10, <1>11 DEF DoStep

(* A command as it starts. *)
LEMMA Entered ==
    ASSUME Basics, NEW p \in Procs, Command(p)
    PROVE  \E steps \in Seq(Step) :
             /\ Enter(p, steps)
             /\ \A n \in DOMAIN steps : steps[n].do \notin {"cover", "make"}
             /\ UNCHANGED <<evidence, home, due, skills, made, purged>>
<1>0. \A x \in Step : <<x>> \in Seq(Step) /\ DOMAIN <<x>> = {1} /\ <<x>>[1] = x
  OBVIOUS
<1>1. \A x, y \in Step : /\ <<x, y>> \in Seq(Step) /\ DOMAIN <<x, y>> = {1, 2}
                         /\ <<x, y>>[1] = x /\ <<x, y>>[2] = y
  OBVIOUS
<1>2. \A x, y, z \in Step :
        /\ <<x, y, z>> \in Seq(Step) /\ DOMAIN <<x, y, z>> = {1, 2, 3}
        /\ <<x, y, z>>[1] = x /\ <<x, y, z>>[2] = y /\ <<x, y, z>>[3] = z
  OBVIOUS
<1>3. ASSUME NEW then \in {<<>>, <<ListExpired>>, <<Scan>>}, Suggest(p, then)
      PROVE  \E steps \in {<<Audit(Listing("proposed") \cap due)>> \o then} :
               /\ Enter(p, steps) /\ steps \in Seq(Step)
               /\ \A n \in DOMAIN steps : steps[n].do \notin {"cover", "make"}
  <2> DEFINE a == Audit(Listing("proposed") \cap due)
  <2>1. a \in Step /\ a.do = "audit"
    <3>1. Listing("proposed") \cap due \in SUBSET Ids
      BY DEF Listing
    <3> QED
      BY <3>1, StepKinds DEF Audit
  <2>2. Enter(p, <<a>> \o then)
    BY <1>3 DEF Suggest
  <2> HIDE DEF a
  <2>3. /\ ListExpired \in Step /\ ListExpired.do = "list"
        /\ Scan \in Step /\ Scan.do = "scan"
    BY StepKinds DEF ListExpired, Scan
  <2>4. <<a>> \o then \in {<<a>>, <<a, ListExpired>>, <<a, Scan>>}
    BY <2>1, <2>3, Pairs
  <2>5. \A l \in {<<a>>, <<a, ListExpired>>, <<a, Scan>>} :
          l \in Seq(Step) /\ \A n \in DOMAIN l : l[n].do \notin {"cover", "make"}
    <3>1. /\ <<a>> \in Seq(Step) /\ DOMAIN <<a>> = {1} /\ <<a>>[1] = a
      BY <2>1, <1>0
    <3>2. \A x \in {ListExpired, Scan} :
            /\ <<a, x>> \in Seq(Step) /\ DOMAIN <<a, x>> = {1, 2}
            /\ <<a, x>>[1] = a /\ <<a, x>>[2] = x
      BY <2>1, <2>3, <1>1
    <3> QED
      BY <3>1, <3>2, <2>1, <2>3
  <2> QED
    BY <2>2, <2>4, <2>5 DEF a
<1>4. ASSUME NEW i \in Ids, Reject(p, i)
      PROVE  \E x, y \in Step : /\ Enter(p, <<x, y>>)
                                /\ x.do = "write" /\ y.do = "move"
  <2>1. Homes(i) # {} /\ Enter(p, <<Write(Found(i), i, home[Found(i)][i]), Move(i, "rejected")>>)
    BY <1>4 DEF Reject
  <2>2. Write(Found(i), i, home[Found(i)][i]) \in Step /\ Move(i, "rejected") \in Step
    BY <2>1, FoundFile, StepKinds, StatusNames
  <2>3. Write(Found(i), i, home[Found(i)][i]).do = "write" /\ Move(i, "rejected").do = "move"
    BY DEF Write, Move
  <2> QED
    BY <2>1, <2>2, <2>3
<1>5. ASSUME NEW i \in Ids, NEW to \in Targets, Promote(p, i, to)
      PROVE  \E x, y, z \in Step : /\ Enter(p, <<x, y, z>>)
                                   /\ x.do = "open" /\ y.do = "write" /\ z.do = "move"
  <2> DEFINE x == OpenSkill(<<to, home[Found(i)][i].key>>)
             y == Write(Found(i), i, [home[Found(i)][i] EXCEPT !.path = to])
             z == Move(i, "promoted")
  <2>1. Homes(i) # {} /\ Enter(p, <<x, y, z>>)
    BY <1>5 DEF Promote, Promotion
  <2>2. x \in Step /\ y \in Step /\ z \in Step
    BY <2>1, FoundFile, StepKinds, StatusNames
  <2>3. x.do = "open" /\ y.do = "write" /\ z.do = "move"
    BY DEF OpenSkill, Write, Move
  <2> QED
    BY <2>1, <2>2, <2>3
<1>6. ASSUME NEW s \in Sessions, Import(p, s)
      PROVE  \E x, y \in Step : Enter(p, <<x, y>>) /\ x.do = "archive" /\ y.do = "scan"
  <2>1. Archive(s) \in Step /\ Scan \in Step /\ Archive(s).do = "archive" /\ Scan.do = "scan"
    BY StepKinds DEF Archive, Scan
  <2> QED
    BY <1>6, <2>1 DEF Import, Start
<1>7. ASSUME NEW s \in Sessions, NEW d \in Domains, Run(p, s, d)
      PROVE  \E x, y \in Step : Enter(p, <<x, y>>) /\ x.do = "record" /\ y.do = "archive"
  <2>1. <<d, NoTags>> \in Clusters
    BY SuggestionAssumption DEF Clusters
  <2>2. /\ Record(<<d, NoTags>>, s) \in Step /\ Record(<<d, NoTags>>, s).do = "record"
        /\ Archive(s) \in Step /\ Archive(s).do = "archive"
    BY <2>1, StepKinds DEF Record, Archive
  <2> QED
    BY <1>7, <2>2 DEF Run, Start
<1>8. UNCHANGED <<evidence, home, due, skills, made, purged>>
  BY DEF Command, Suggest, Reject, Promote, Import, Run, Start
<1> DEFINE Starts(steps) ==
             /\ Enter(p, steps)
             /\ \A n \in DOMAIN steps : steps[n].do \notin {"cover", "make"}
<1>9. \E steps \in Seq(Step) : Starts(steps)
  <2>1. ASSUME NEW x \in Step, NEW y \in Step, Enter(p, <<x, y>>),
               x.do \notin {"cover", "make"}, y.do \notin {"cover", "make"}
        PROVE  \E steps \in Seq(Step) : Starts(steps)
    <3>1. Starts(<<x, y>>)
      BY <2>1, <1>1
    <3> QED
      BY <3>1, <1>1
  <2>2. CASE \E then \in {<<>>, <<ListExpired>>, <<Scan>>} : Suggest(p, then)
    BY <2>2, <1>3
  <2>3. CASE \E i \in Ids : Reject(p, i)
    BY <2>3, <2>1, <1>4
  <2>4. CASE \E i \in Ids, to \in Targets : Promote(p, i, to)
    <3>1. PICK x \in Step, y \in Step, z \in Step :
            Enter(p, <<x, y, z>>) /\ x.do = "open" /\ y.do = "write" /\ z.do = "move"
      BY <2>4, <1>5
    <3>2. Starts(<<x, y, z>>)
      BY <3>1, <1>2
    <3> QED
      BY <3>2, <1>2
  <2>5. CASE \E s \in Sessions : Import(p, s) \/ \E d \in Domains : Run(p, s, d)
    BY <2>5, <2>1, <1>6, <1>7
  <2> QED
    BY <2>2, <2>3, <2>4, <2>5 DEF Command
<1> QED
  BY <1>8, <1>9

LEMMA AtHandInit == Init => AtHand
BY DEF Init, AtHand

LEMMA AtHandNext == Basics /\ AtHand /\ [Next]_vars => AtHand'
<1> SUFFICES ASSUME Basics, AtHand, [Next]_vars PROVE AtHand'
  OBVIOUS
<1>1. ASSUME NEW p \in Procs, DoStep(p) PROVE AtHand'
  <2>1. CASE call' = [call EXCEPT ![p] = <<>>]
    BY <2>1, AtHandCleared DEF Basics
  <2>2. CASE ~(call' = [call EXCEPT ![p] = <<>>])
    BY <1>1, <2>2, NewSteps, AtHandOn DEF Basics
  <2> QED
    BY <2>1, <2>2
<1>2. ASSUME NEW p \in Procs, Command(p) PROVE AtHand'
  BY <1>2, Entered, AtHandSet DEF Basics, Enter
<1>3. ASSUME NEW p \in Procs, Kill(p) PROVE AtHand'
  BY <1>3, AtHandCleared DEF Basics, Kill
<1>4. CASE Environment \/ UNCHANGED vars
  <2>1. call' = call
    BY <1>4 DEF Environment, Publish, Forget, Packs, Expire, Meanwhile, vars
  <2> QED
    BY <2>1 DEF AtHand
<1> QED
  BY <1>1, <1>2, <1>3, <1>4 DEF Next


---------------------------------------------------------------------------
(* The two sides. *)
LEMMA OnlyDoSplit ==
    ASSUME NEW l \in Seq(Step), l # <<>>, NEW D
    PROVE  OnlyDo(l, D) <=> l[1].do \in D /\ OnlyDo(Tail(l), D)
<1>1. Len(l) \in Nat \ {0} /\ DOMAIN l = 1 .. Len(l)
  BY LenProperties, EmptySeq
<1>2. /\ Tail(l) \in Seq(Step) /\ Len(Tail(l)) = Len(l) - 1
      /\ \A n \in 1 .. Len(Tail(l)) : Tail(l)[n] = l[n + 1]
  BY HeadTailProperties
<1>3. DOMAIN Tail(l) = 1 .. Len(l) - 1
  BY <1>2, LenProperties
<1>4. ASSUME OnlyDo(l, D) PROVE l[1].do \in D /\ OnlyDo(Tail(l), D)
  <2>1. \A n \in 1 .. Len(l) - 1 : n + 1 \in 1 .. Len(l)
    BY <1>1
  <2> QED
    BY <1>1, <1>2, <1>3, <1>4, <2>1 DEF OnlyDo
<1>5. ASSUME l[1].do \in D, OnlyDo(Tail(l), D) PROVE OnlyDo(l, D)
  <2>1. ASSUME NEW n \in 1 .. Len(l), n # 1 PROVE l[n].do \in D
    <3>1. n - 1 \in 1 .. Len(l) - 1 /\ (n - 1) + 1 = n
      BY <1>1, <2>1
    <3>2. Tail(l)[n - 1] = l[(n - 1) + 1]
      BY <1>2, <3>1
    <3> QED
      BY <1>3, <1>5, <3>1, <3>2 DEF OnlyDo
  <2> QED
    BY <1>1, <1>5, <2>1 DEF OnlyDo
<1> QED
  BY <1>4, <1>5

LEMMA Sides ==
    \A l : /\ Detects(l) <=> OnlyDo(l, DetectDos)
           /\ Decides(l) <=> OnlyDo(l, DecideDos)
BY DEF Detects, Decides, DetectDos, DecideDos

LEMMA Resting == Detects(<<>>) /\ Decides(<<>>)
BY DEF Detects, Decides, OnlyDo

LEMMA OneSide ==
    ASSUME Basics, NEW p \in Procs, ~AtRest(p)
    PROVE  ~(Detects(call[p]) /\ Decides(call[p]))
<1>1. call[p] \in Seq(Step) /\ call[p] # <<>>
  BY DEF Basics, TypeOK, AtRest
<1> QED
  BY <1>1, OnlyDoSplit, Sides DEF DetectDos, DecideDos

LEMMA OnlyDoOn ==
    ASSUME TypeOK, NEW p \in Procs, ~AtRest(p), NEW D, OnlyDo(call[p], D)
    PROVE  /\ GoOn(p, <<>>) => OnlyDo(call'[p], D)
           /\ \A x \in Step : GoOn(p, <<x>>) /\ x.do \in D => OnlyDo(call'[p], D)
           /\ \A x, y \in Step :
                GoOn(p, <<x, y>>) /\ x.do \in D /\ y.do \in D => OnlyDo(call'[p], D)
<1>1. ASSUME NEW steps \in Seq(Step), GoOn(p, steps), \A n \in DOMAIN steps : steps[n].do \in D
      PROVE  OnlyDo(call'[p], D)
  <2> SUFFICES ASSUME NEW n \in DOMAIN call'[p] PROVE call'[p][n].do \in D
    BY DEF OnlyDo
  <2>1. CASE n \in DOMAIN steps /\ call'[p][n] = steps[n]
    BY <1>1, <2>1
  <2>2. CASE \E m \in DOMAIN call[p] : m > 1 /\ call'[p][n] = call[p][m]
    BY <2>2 DEF OnlyDo
  <2> QED
    BY <1>1, <2>1, <2>2, GoesOn
<1>2. <<>> \in Seq(Step) /\ DOMAIN <<>> = {}
  OBVIOUS
<1>3. ASSUME GoOn(p, <<>>) PROVE OnlyDo(call'[p], D)
  BY <1>1, <1>2, <1>3
<1>4. ASSUME NEW x \in Step, GoOn(p, <<x>>), x.do \in D PROVE OnlyDo(call'[p], D)
  <2>1. <<x>> \in Seq(Step) /\ \A n \in DOMAIN <<x>> : <<x>>[n].do \in D
    BY <1>4
  <2> QED
    BY <1>1, <1>4, <2>1
<1>5. ASSUME NEW x \in Step, NEW y \in Step, GoOn(p, <<x, y>>), x.do \in D, y.do \in D
      PROVE  OnlyDo(call'[p], D)
  <2>1. <<x, y>> \in Seq(Step) /\ DOMAIN <<x, y>> = {1, 2} /\ <<x, y>>[1] = x /\ <<x, y>>[2] = y
    OBVIOUS
  <2>2. \A n \in DOMAIN <<x, y>> : <<x, y>>[n].do \in D
    BY <1>5, <2>1
  <2> QED
    BY <1>1, <1>5, <2>1, <2>2
<1> QED
  BY <1>3, <1>4, <1>5

LEMMA SidesKept ==
    ASSUME Basics, NEW p \in Procs, DoStep(p)
    PROVE  /\ Detects(call[p]) => Detects(call'[p])
           /\ Decides(call[p]) => Decides(call'[p])
           /\ \A q \in Procs : q # p => call'[q] = call[q]
<1>1. ~AtRest(p)
  BY NewSteps
<1>2. call[p] \in Seq(Step) /\ call[p] # <<>>
  BY <1>1 DEF Basics, TypeOK, AtRest
<1>3. ASSUME NEW D \in {DetectDos, DecideDos}, OnlyDo(call[p], D)
      PROVE  OnlyDo(call'[p], D)
  <2>1. call[p][1].do \in D
    BY <1>2, <1>3, OnlyDoSplit
  <2>2. \A y : Alike(call[p][1], y) => y.do \in D
    BY <2>1, <1>3 DEF Alike
  <2>3. CASE call' = [call EXCEPT ![p] = <<>>]
    <3>1. call'[p] = <<>>
      BY <2>3 DEF Basics, TypeOK
    <3> QED
      BY <3>1 DEF OnlyDo
  <2>4. CASE ~(call' = [call EXCEPT ![p] = <<>>])
    BY <1>1, <1>3, <2>2, <2>4, NewSteps, OnlyDoOn DEF Basics
  <2> QED
    BY <2>3, <2>4
<1>4. \A q \in Procs : q # p => call'[q] = call[q]
  <2>1. \/ call' = [call EXCEPT ![p] = <<>>]
        \/ \E steps : GoOn(p, steps)
    BY NewSteps
  <2> QED
    BY <2>1 DEF GoOn, Basics, TypeOK
<1> QED
  BY <1>3, <1>4, Sides

LEMMA Opposite ==
    ASSUME Basics, Apart, NEW p \in Procs, NEW q \in Procs, p # q, ~AtRest(p)
    PROVE  /\ Detects(call[p]) => Decides(call[q])
           /\ Decides(call[p]) => Detects(call[q])
           /\ ~Detects(call[p]) /\ ~Decides(call[p]) => AtRest(q)
BY OneSide, Resting DEF Apart, AtRest

LEMMA ApartStep ==
    ASSUME Basics, Apart, NEW p \in Procs, DoStep(p)
    PROVE  Apart'
<1>1. ~AtRest(p)
  BY NewSteps
<1>2. ASSUME NEW q \in Procs, NEW r \in Procs, q # r, call'[q] # <<>>, call'[r] # <<>>
      PROVE  \/ Detects(call'[q]) /\ Decides(call'[r])
             \/ Decides(call'[q]) /\ Detects(call'[r])
  BY <1>1, <1>2, SidesKept DEF Apart, AtRest
<1> QED
  BY <1>2 DEF Apart, AtRest

LEMMA ApartEnter ==
    ASSUME Basics, Apart, NEW p \in Procs, NEW steps, Enter(p, steps), ~disturbed'
    PROVE  Apart'
<1>1. call'[p] = steps /\ \A q \in Procs : q # p => call'[q] = call[q]
  BY DEF Enter, Basics, TypeOK
<1> DEFINE Meets == \E q \in Procs : /\ ~AtRest(q)
                                     /\ ~(Detects(steps) /\ Decides(call[q]))
                                     /\ ~(Decides(steps) /\ Detects(call[q]))
<1>a. disturbed' = (disturbed \/ Meets)
  BY DEF Enter
<1>b. ~Meets
  <2> HIDE DEF Meets
  <2> QED BY <1>a
<1>2. \A q \in Procs :
        ~AtRest(q) => \/ Detects(steps) /\ Decides(call[q])
                      \/ Decides(steps) /\ Detects(call[q])
  BY <1>b
<1>3. ASSUME NEW q \in Procs, NEW r \in Procs, q # r, call'[q] # <<>>, call'[r] # <<>>
      PROVE  \/ Detects(call'[q]) /\ Decides(call'[r])
             \/ Decides(call'[q]) /\ Detects(call'[r])
  BY <1>1, <1>2, <1>3 DEF Apart, AtRest
<1> QED
  BY <1>3 DEF Apart, AtRest

LEMMA ApartCleared ==
    ASSUME Basics, Apart, NEW p \in Procs, call' = [call EXCEPT ![p] = <<>>]
    PROVE  Apart'
<1>1. call'[p] = <<>> /\ \A q \in Procs : q # p => call'[q] = call[q]
  BY DEF Basics, TypeOK
<1>2. ASSUME NEW q \in Procs, NEW r \in Procs, q # r, call'[q] # <<>>, call'[r] # <<>>
      PROVE  \/ Detects(call'[q]) /\ Decides(call'[r])
             \/ Decides(call'[q]) /\ Detects(call'[r])
  BY <1>1, <1>2 DEF Apart, AtRest
<1> QED
  BY <1>2 DEF Apart, AtRest

(* Which side a shape is on. *)
LEMMA DecidingSide ==
    ASSUME Basics, NEW p \in Procs, Deciding(p)
    PROVE  ~AtRest(p) /\ Decides(call[p])
<1>1. ~AtRest(p) /\ call[p] \in Seq(Step) /\ call[p] # <<>>
  BY DEF Deciding, At, Basics, TypeOK, AtRest
<1>2. /\ OnlyDo(<<>>, DecideDos)
      /\ \A x : x.do \in DecideDos => OnlyDo(<<x>>, DecideDos)
      /\ \A x, y : x.do \in DecideDos /\ y.do \in DecideDos => OnlyDo(<<x, y>>, DecideDos)
  BY DEF OnlyDo
<1>3. PICK st \in Statuses, i \in made, f \in Suggestion, to \in {"promoted", "rejected"} :
        \/ At(p, OpenSkill(Chosen(f)), <<Write(st, i, f), Move(i, to)>>)
        \/ At(p, FillSkill(Chosen(f)), <<Write(st, i, f), Move(i, to)>>)
        \/ At(p, Write(st, i, f), <<Move(i, to)>>)
        \/ At(p, Move(i, to), <<>>)
        \/ At(p, Write(to, i, f), <<Unlink(st, i)>>)
        \/ At(p, Unlink(st, i), <<>>)
  BY DEF Deciding
<1>4. /\ Write(st, i, f).do \in DecideDos /\ Move(i, to).do \in DecideDos
      /\ Write(to, i, f).do \in DecideDos /\ Unlink(st, i).do \in DecideDos
      /\ \A c : OpenSkill(c).do \in DecideDos /\ FillSkill(c).do \in DecideDos
  BY DEF Write, Move, Unlink, OpenSkill, FillSkill, DecideDos
<1>5. call[p][1].do \in DecideDos /\ OnlyDo(Tail(call[p]), DecideDos)
  BY <1>2, <1>3, <1>4 DEF At
<1> QED
  BY <1>1, <1>5, OnlyDoSplit, Sides

LEMMA AuditingSide ==
    ASSUME Basics, NEW p \in Procs, Auditing(p)
    PROVE  ~AtRest(p) /\ ~Detects(call[p]) /\ ~Decides(call[p])
<1>1. ~AtRest(p) /\ call[p] \in Seq(Step) /\ call[p] # <<>>
  BY DEF Auditing, At, Basics, TypeOK, AtRest
<1>2. PICK ids \in SUBSET Listing("proposed"), then \in {<<>>, <<ListExpired>>, <<Scan>>} :
        \/ At(p, Audit(ids), then)
        \/ \E i \in made, f \in Suggestion :
             \/ At(p, Move(i, "expired"), <<Audit(ids)>> \o then)
             \/ At(p, Write("expired", i, f),
                    <<Unlink("proposed", i)>> \o (<<Audit(ids)>> \o then))
             \/ At(p, Unlink("proposed", i), <<Audit(ids)>> \o then)
  BY DEF Auditing
<1>3. then \in Seq(Step) /\ Audit(ids) \in Step /\ Audit(ids).do = "audit"
  <2>1. ids \in SUBSET Ids
    BY DEF Listing
  <2>2. <<>> \in Seq(Step) /\ <<ListExpired>> \in Seq(Step) /\ <<Scan>> \in Seq(Step)
    BY StepKinds
  <2> QED
    BY <2>1, <2>2, StepKinds DEF Audit
<1> DEFINE a == <<Audit(ids)>> \o then
<1>4. /\ a \in Seq(Step) /\ a # <<>> /\ a[1].do = "audit"
  BY <1>3, Ahead
<1> HIDE DEF a
<1>5. ASSUME NEW D \in {DetectDos, DecideDos} PROVE ~OnlyDo(a, D)
  BY <1>4, <1>5, OnlyDoSplit DEF DetectDos, DecideDos
<1>6. ASSUME NEW D \in {DetectDos, DecideDos} PROVE ~OnlyDo(call[p], D)
  <2>1. CASE At(p, Audit(ids), then)
    BY <1>1, <1>3, <1>6, <2>1, OnlyDoSplit DEF At, DetectDos, DecideDos
  <2>2. CASE Tail(call[p]) = <<Audit(ids)>> \o then
    <3>1. Tail(call[p]) = a
      BY <2>2 DEF a
    <3> QED
      BY <1>1, <1>5, <1>6, <3>1, OnlyDoSplit
  <2>3. ASSUME NEW i \in made,
               Tail(call[p]) = <<Unlink("proposed", i)>> \o (<<Audit(ids)>> \o then)
        PROVE  ~OnlyDo(call[p], D)
    <3> DEFINE u == Unlink("proposed", i)
    <3>1. Tail(call[p]) = <<u>> \o a
      BY <2>3 DEF a
    <3>2. u \in Step
      BY StepKinds, StatusNames DEF Basics, TypeOK
    <3> HIDE DEF u
    <3>5. <<u>> \o a \in Seq(Step) /\ <<u>> \o a # <<>> /\ Tail(<<u>> \o a) = a
      BY <1>4, <3>2, Ahead
    <3>3. /\ Tail(call[p]) \in Seq(Step) /\ Tail(call[p]) # <<>> /\ Tail(Tail(call[p])) = a
      BY <3>1, <3>5
    <3>4. ~OnlyDo(Tail(call[p]), D)
      BY <1>5, <1>6, <3>3, OnlyDoSplit
    <3> QED
      BY <1>1, <3>4, OnlyDoSplit
  <2> QED
    BY <1>2, <2>1, <2>2, <2>3 DEF At
<1> QED
  BY <1>1, <1>6, Sides

LEMMA PurgingSide ==
    ASSUME Basics, NEW p \in Procs, Purging(p)
    PROVE  ~AtRest(p) /\ ~Detects(call[p]) /\ ~Decides(call[p])
<1>1. ~AtRest(p) /\ call[p] \in Seq(Step) /\ call[p] # <<>>
  BY DEF Purging, At, Basics, TypeOK, AtRest
<1>2. ListExpired.do = "list" /\ \A ids : Purge(ids).do = "purge"
  BY DEF ListExpired, Purge
<1>3. call[p][1].do \in {"list", "purge"}
  BY <1>2 DEF Purging, At
<1> QED
  BY <1>1, <1>3, OnlyDoSplit, Sides DEF DetectDos, DecideDos


---------------------------------------------------------------------------
(* What a step of an undisturbed command may do to the files. *)
Untouched == UNCHANGED <<home, made, purged>>

Proposes(i, c) ==
    /\ i \in Ids \ made /\ c \in Clusters
    /\ c \notin Keys("proposed") \cup Keys("rejected")
    /\ home' = [home EXCEPT !["proposed"][i] = [key |-> c, path |-> NoPath]]
    /\ made' = made \cup {i} /\ UNCHANGED purged

Puts(st, i, f) ==
    /\ st \in Statuses /\ i \in made /\ f \in Suggestion
    /\ \E su \in Statuses : Holds(su, i) /\ f.key = home[su][i].key
    /\ st = "promoted" => Named(f)
    /\ st = "proposed" => Holds("proposed", i)
    /\ st = "rejected" => Holds("proposed", i) \/ Holds("rejected", i)
    /\ home' = [home EXCEPT ![st][i] = f]
    /\ UNCHANGED <<made, purged>>

Drops(st, i, to) ==
    /\ st \in Statuses /\ i \in made /\ to \in Statuses
    /\ st # to /\ st # "promoted" /\ Holds(to, i)
    /\ home' = [home EXCEPT ![st][i] = None]
    /\ UNCHANGED <<made, purged>>

Clears(i) ==
    /\ i \in Ids
    /\ home' = [home EXCEPT !["expired"][i] = None]
    /\ purged' = purged \cup ({i} \cap Listing("expired"))
    /\ UNCHANGED made

LEMMA HousedNext ==
    ASSUME NEW i, NEW st \in Statuses, Holds(st, i)'
    PROVE  Homes(i)' # {}
BY DEF Statuses, Homes

LEMMA HomeExcept ==
    ASSUME TypeOK, NEW st \in Statuses, NEW i \in Ids, NEW f,
           home' = [home EXCEPT ![st][i] = f]
    PROVE  /\ home'[st][i] = f
           /\ \A su \in Statuses, j \in Ids : ~(su = st /\ j = i) =>
                home'[su][j] = home[su][j] /\ (Holds(su, j)' <=> Holds(su, j))
           /\ Holds(st, i)' <=> home'[st][i] # None
BY DEF TypeOK, Holds

LEMMA StoreUntouched ==
    ASSUME Store, Untouched
    PROVE  Store'
BY DEF Store, Untouched, Agree, Kept, Once, Holds, Homes

(* A suggestion stays where it has a file. *)
LEMMA KeptWhere ==
    ASSUME Basics, Kept, made' \subseteq Ids, purged \subseteq purged',
           \A j \in made : j \notin purged' =>
             \A su \in Statuses : Holds(su, j) => \E sv \in Statuses : Holds(sv, j)',
           \A j \in made' \ made : \E sv \in Statuses : Holds(sv, j)'
    PROVE  Kept'
<1>1. ASSUME NEW j \in made', j \notin purged' PROVE Homes(j)' # {}
  <2>1. \E sv \in Statuses : Holds(sv, j)'
    <3>1. CASE j \in made
      <4>1. Homes(j) # {}
        BY <1>1, <3>1 DEF Kept
      <4>2. \E su \in Statuses : Holds(su, j)
        BY <4>1, Sheltered
      <4> QED
        BY <1>1, <3>1, <4>2
    <3> QED
      BY <1>1, <3>1
  <2> QED
    BY <2>1, HousedNext
<1> QED
  BY <1>1 DEF Kept

LEMMA StoreProposes ==
    ASSUME Basics, Store, NEW i, NEW c, Proposes(i, c)
    PROVE  Store'
<1> DEFINE f == [key |-> c, path |-> NoPath]
<1> USE DEF Basics
<1>1. i \in Ids \ made /\ c \in Clusters /\ "proposed" \in Statuses /\ "promoted" \in Statuses
  BY StatusNames DEF Proposes
<1>2. f \in Suggestion /\ f # None /\ f.key = c
  BY <1>1, SuggestionIs DEF Suggestion
<1>3. home' = [home EXCEPT !["proposed"][i] = f] /\ made' = made \cup {i} /\ purged' = purged
  BY DEF Proposes
<1> HIDE DEF f
<1>4. /\ home'["proposed"][i] = f
      /\ \A su \in Statuses, j \in Ids : ~(su = "proposed" /\ j = i) =>
           home'[su][j] = home[su][j] /\ (Holds(su, j)' <=> Holds(su, j))
  <2>1. home'["proposed"][i] = f
    BY <1>1, <1>3 DEF TypeOK
  <2> QED
    BY <1>1, <1>3, <2>1, HomeExcept
<1>h. Holds("proposed", i)'
  BY <1>2, <1>4 DEF Holds
<1>5. \A su \in Statuses : ~Holds(su, i)
  BY <1>1 DEF Known
<1>6. \A su \in Statuses : Holds(su, i)' => su = "proposed"
  BY <1>1, <1>4, <1>5, <1>h
<1>7. Agree'
  <2>1. ASSUME NEW j \in Ids, NEW su \in Statuses, NEW sv \in Statuses, Holds(su, j)', Holds(sv, j)'
        PROVE  home'[su][j].key = home'[sv][j].key
    <3>1. CASE j = i
      BY <2>1, <3>1, <1>6
    <3>2. CASE j # i
      BY <2>1, <3>2, <1>4 DEF Store, Agree
    <3> QED
      BY <3>1, <3>2
  <2> QED
    BY <2>1 DEF Agree
<1>8. Kept'
  <2>1. \A j \in made : \A su \in Statuses : Holds(su, j) => Holds(su, j)'
    BY <1>1, <1>4 DEF TypeOK
  <2>2. \A j \in made' \ made : Holds("proposed", j)'
    BY <1>3, <1>h
  <2>3. made' \subseteq Ids
    BY <1>1, <1>3 DEF TypeOK
  <2> QED
    BY <2>1, <2>2, <2>3, <1>1, <1>3, KeptWhere DEF Store
<1>9. Once'
  <2>1. \A su \in Open : su \in Statuses
    BY StatusNames DEF Open
  <2>2. ASSUME NEW j \in Ids, NEW su \in Open, Holds(su, j)', j # i
        PROVE  home'[su][j].key # c
    <3>1. Holds(su, j) /\ home'[su][j] = home[su][j]
      BY <1>4, <2>1, <2>2
    <3>2. home[su][j].key \in Keys("proposed") \cup Keys("rejected")
      BY <3>1 DEF Keys, Listing, Open
    <3> QED
      BY <3>1, <3>2 DEF Proposes
  <2>3. ASSUME NEW j \in Ids, NEW k \in Ids, NEW su \in Open, NEW sv \in Open,
               Holds(su, j)', Holds(sv, k)', home'[su][j].key = home'[sv][k].key, j # k
        PROVE  FALSE
    <3>1. CASE j = i
      BY <1>2, <1>4, <1>6, <2>1, <2>2, <2>3, <3>1
    <3>2. CASE k = i
      BY <1>2, <1>4, <1>6, <2>1, <2>2, <2>3, <3>2
    <3>3. CASE j # i /\ k # i
      BY <1>4, <2>1, <2>3, <3>3 DEF Store, Once
    <3> QED
      BY <3>1, <3>2, <3>3
  <2> QED
    BY <2>3 DEF Once
<1> QED
  BY <1>7, <1>8, <1>9 DEF Store

LEMMA StorePuts ==
    ASSUME Basics, Store, NEW st, NEW i, NEW f, Puts(st, i, f)
    PROVE  Store'
<1> USE DEF Basics
<1>1. st \in Statuses /\ i \in Ids /\ f \in Suggestion /\ f # None
  BY SuggestionIs DEF Puts, TypeOK
<1>2. home' = [home EXCEPT ![st][i] = f] /\ made' = made /\ purged' = purged
  BY DEF Puts
<1>3. /\ home'[st][i] = f
      /\ \A su \in Statuses, j \in Ids : ~(su = st /\ j = i) =>
           home'[su][j] = home[su][j] /\ (Holds(su, j)' <=> Holds(su, j))
  <2>1. home'[st][i] = f
    BY <1>1, <1>2 DEF TypeOK
  <2> QED
    BY <1>1, <1>2, <2>1, HomeExcept
<1>h. Holds(st, i)'
  BY <1>1, <1>3 DEF Holds
<1>4. \A su \in Statuses : Holds(su, i) => home[su][i].key = f.key
  BY <1>1 DEF Puts, Store, Agree
<1>5. \A su \in Statuses : Holds(su, i)' => home'[su][i].key = f.key
  BY <1>1, <1>3, <1>4
<1>6. Agree'
  <2>1. ASSUME NEW j \in Ids, NEW su \in Statuses, NEW sv \in Statuses, Holds(su, j)', Holds(sv, j)'
        PROVE  home'[su][j].key = home'[sv][j].key
    <3>1. CASE j = i
      BY <2>1, <3>1, <1>5
    <3>2. CASE j # i
      BY <2>1, <3>2, <1>3 DEF Store, Agree
    <3> QED
      BY <3>1, <3>2
  <2> QED
    BY <2>1 DEF Agree
<1>7. Kept'
  <2>1. \A j \in made : \A su \in Statuses : Holds(su, j) => Holds(su, j)'
    BY <1>1, <1>3, <1>h DEF TypeOK
  <2> QED
    BY <2>1, <1>2, KeptWhere DEF Store, TypeOK
<1>8. Once'
  <2>1. \A su \in Open : su \in Statuses
    BY StatusNames DEF Open
  <2>2. ASSUME NEW j \in Ids, NEW su \in Open, Holds(su, j)'
        PROVE  \E so \in Open : Holds(so, j) /\ home[so][j].key = home'[su][j].key
    <3>1. CASE su = st /\ j = i
      <4>1. \E so \in Open : Holds(so, i)
        BY <2>2, <3>1 DEF Puts, Open
      <4> QED
        BY <4>1, <3>1, <2>1, <1>3, <1>4
    <3>2. CASE ~(su = st /\ j = i)
      BY <2>1, <2>2, <3>2, <1>3
    <3> QED
      BY <3>1, <3>2
  <2> QED
    BY <2>2 DEF Once, Store
<1> QED
  BY <1>6, <1>7, <1>8 DEF Store

(* Nothing new, and every suggestion that goes is in another place or purged. *)
LEMMA StoreLess ==
    ASSUME Basics, Store, made' = made, purged \subseteq purged',
           \A su \in Statuses, j \in Ids : Holds(su, j)' => Holds(su, j) /\ home'[su][j] = home[su][j],
           \A j \in made : j \notin purged' =>
             \A su \in Statuses : Holds(su, j) => \E sv \in Statuses : Holds(sv, j)'
    PROVE  Store'
<1>1. Agree'
  BY StatusNames DEF Store, Agree
<1>2. Kept'
  BY KeptWhere DEF Store, Basics, TypeOK
<1>3. Once'
  BY StatusNames DEF Store, Once, Open
<1> QED
  BY <1>1, <1>2, <1>3 DEF Store

LEMMA StoreDrops ==
    ASSUME Basics, Store, NEW st, NEW i, NEW to, Drops(st, i, to)
    PROVE  Store'
<1>1. st \in Statuses /\ i \in Ids /\ to \in Statuses /\ st # to
  BY DEF Drops, Basics, TypeOK
<1>2. /\ \A su \in Statuses, j \in Ids : ~(su = st /\ j = i) =>
           home'[su][j] = home[su][j] /\ (Holds(su, j)' <=> Holds(su, j))
      /\ ~Holds(st, i)'
  BY <1>1, HomeExcept DEF Drops, Basics
<1>3. \A su \in Statuses, j \in Ids : Holds(su, j)' => Holds(su, j) /\ home'[su][j] = home[su][j]
  BY <1>2
<1>4. Holds(to, i)'
  BY <1>1, <1>2 DEF Drops
<1>5. \A j \in made : \A su \in Statuses : Holds(su, j) => \E sv \in Statuses : Holds(sv, j)'
  <2>1. made \subseteq Ids
    BY DEF Basics, TypeOK
  <2> QED
    BY <2>1, <1>1, <1>2, <1>4
<1> QED
  BY <1>3, <1>5, StoreLess DEF Drops

LEMMA StoreClears ==
    ASSUME Basics, Store, NEW i, Clears(i)
    PROVE  Store'
<1>1. "expired" \in Statuses /\ i \in Ids
  BY StatusNames DEF Clears
<1>2. /\ \A su \in Statuses, j \in Ids : ~(su = "expired" /\ j = i) =>
           home'[su][j] = home[su][j] /\ (Holds(su, j)' <=> Holds(su, j))
      /\ ~Holds("expired", i)'
  BY <1>1, HomeExcept DEF Clears, Basics
<1>3. \A su \in Statuses, j \in Ids : Holds(su, j)' => Holds(su, j) /\ home'[su][j] = home[su][j]
  BY <1>2
<1>4. Holds("expired", i) => i \in purged'
  BY <1>1 DEF Clears, Listing
<1>5. ASSUME NEW j \in made, j \notin purged', NEW su \in Statuses, Holds(su, j)
      PROVE  \E sv \in Statuses : Holds(sv, j)'
  <2>1. j \in Ids
    BY DEF Basics, TypeOK
  <2> QED
    BY <2>1, <1>2, <1>4, <1>5
<1> QED
  BY <1>3, <1>5, StoreLess DEF Clears


---------------------------------------------------------------------------
(* A command from one shape to the next. *)
LEMMA WhichStep ==
    ASSUME NEW p \in Procs, DoStep(p)
    PROVE  LET do == call[p][1].do IN
           /\ do = "record" => DoRecord(p)
           /\ do = "archive" => DoArchive(p)
           /\ do = "scan" => DoScan(p)
           /\ do = "cover" => DoCover(p)
           /\ do = "make" => DoMake(p)
           /\ do = "audit" => DoAudit(p)
           /\ do = "list" => DoList(p)
           /\ do = "purge" => DoPurge(p)
           /\ do = "open" => DoOpen(p)
           /\ do = "fill" => DoFill(p)
           /\ do = "write" => DoWrite(p)
           /\ do = "move" => DoMove(p)
           /\ do = "unlink" => DoUnlink(p)
BY DEF DoStep, DoRecord, DoArchive, DoScan, DoCover, DoMake, DoAudit, DoList, DoPurge,
       DoOpen, DoFill, DoWrite, DoMove, DoUnlink, Does

LEMMA Dos ==
    /\ \A c, s : Record(c, s).do = "record" /\ Archive(s).do = "archive"
    /\ Scan.do = "scan" /\ ListExpired.do = "list"
    /\ \A t, n : Cover(t, n).do = "cover" /\ Make(t).do = "make"
    /\ \A ids : Audit(ids).do = "audit" /\ Purge(ids).do = "purge"
    /\ \A c : OpenSkill(c).do = "open" /\ FillSkill(c).do = "fill"
    /\ \A st, i, f : Write(st, i, f).do = "write" /\ Move(i, st).do = "move"
                     /\ Unlink(st, i).do = "unlink"
BY DEF Record, Archive, Scan, ListExpired, Cover, Make, Audit, Purge, OpenSkill, FillSkill,
       Write, Move, Unlink

LEMMA AtNext ==
    ASSUME TypeOK, NEW p \in Procs, ~AtRest(p)
    PROVE  /\ GoOn(p, <<>>) => call'[p] = Tail(call[p])
           /\ \A x \in Step : \A then :
                GoOn(p, <<x>>) /\ then = Tail(call[p]) => At(p, x, then)'
           /\ \A x, y \in Step : \A then :
                GoOn(p, <<x, y>>) /\ then = Tail(call[p]) => At(p, x, <<y>> \o then)'
<1> DEFINE t == Tail(call[p])
<1>0. t \in Seq(Step)
  BY HeadTailProperties DEF TypeOK, AtRest
<1>1. \A steps : GoOn(p, steps) => call'[p] = steps \o t
  BY DEF GoOn, TypeOK
<1> HIDE DEF t
<1>2. ASSUME GoOn(p, <<>>) PROVE call'[p] = t
  BY <1>0, <1>1, <1>2, ConcatEmptySeq
<1>3. ASSUME NEW x \in Step, NEW u \in Seq(Step), call'[p] = <<x>> \o u
      PROVE  call'[p] # <<>> /\ call'[p][1] = x /\ Tail(call'[p]) = u
  BY <1>3, Ahead
<1>4. ASSUME NEW x \in Step, GoOn(p, <<x>>)
      PROVE  call'[p] # <<>> /\ call'[p][1] = x /\ Tail(call'[p]) = t
  BY <1>0, <1>1, <1>3, <1>4
<1>5. ASSUME NEW x \in Step, NEW y \in Step, GoOn(p, <<x, y>>)
      PROVE  call'[p] # <<>> /\ call'[p][1] = x /\ Tail(call'[p]) = <<y>> \o t
  <2>1. call'[p] = <<x>> \o (<<y>> \o t)
    <3>1. <<x, y>> \o t = <<x>> \o (<<y>> \o t)
      BY <1>0, PairAhead
    <3> QED
      BY <1>1, <1>5, <3>1
  <2>2. <<y>> \o t \in Seq(Step)
    BY <1>0, Ahead
  <2> QED
    BY <1>3, <2>1, <2>2
<1> QED
  BY <1>2, <1>4, <1>5 DEF At, AtRest, t

LEMMA AtGiven ==
    ASSUME NEW p \in Procs
    PROVE  /\ \A x \in Step : call'[p] = <<x>> => At(p, x, <<>>)'
           /\ \A x, y \in Step : call'[p] = <<x, y>> => At(p, x, <<y>>)'
           /\ \A x, y, z \in Step : call'[p] = <<x, y, z>> => At(p, x, <<y, z>>)'
           /\ \A x \in Step, r \in Seq(Step) : call'[p] = <<x>> \o r => At(p, x, r)'
<1>1. ASSUME NEW x \in Step, NEW r \in Seq(Step), call'[p] = <<x>> \o r
      PROVE  call'[p] # <<>> /\ call'[p][1] = x /\ Tail(call'[p]) = r
  BY <1>1, Ahead
<1>2. ASSUME NEW x \in Step, NEW y \in Step, NEW z \in Step
      PROVE  /\ <<>> \in Seq(Step) /\ <<y>> \in Seq(Step) /\ <<y, z>> \in Seq(Step)
             /\ <<x>> = <<x>> \o <<>> /\ <<x, y>> = <<x>> \o <<y>>
             /\ <<x, y, z>> = <<x>> \o <<y, z>>
  <2>1. <<>> \in Seq(Step) /\ <<y>> \in Seq(Step) /\ <<y, z>> \in Seq(Step)
    OBVIOUS
  <2>2. /\ <<x>> \o <<>> = <<x>> /\ <<x>> \o <<y>> = <<x, y>>
        /\ <<x>> \o <<y, z>> = <<x, y, z>>
    BY Pairs
  <2> QED
    BY <2>1, <2>2
<1>3. \A x \in Step, r \in Seq(Step) : call'[p] = <<x>> \o r => At(p, x, r)'
  BY <1>1 DEF At, AtRest
<1> QED
  BY <1>2, <1>3

(* What is known of a suggestion rests on its own files. *)
LEMMA FactsKept ==
    ASSUME NEW i, \A su \in Statuses : home'[su][i] = home[su][i]
    PROVE  /\ Homes(i)' = Homes(i)
           /\ Homes(i) # {} => Found(i)' = Found(i)
           /\ \A st, f, to : Recorded(st, i, f, to) => Recorded(st, i, f, to)'
           /\ \A to : Moves(i, to) /\ (to = "promoted" => skills \subseteq skills') => Moves(i, to)'
           /\ \A f, to : \A st \in Statuses :
                Lands(st, i, f, to) /\ (to = "promoted" => skills \subseteq skills') => Lands(st, i, f, to)'
           /\ \A st, to \in Statuses : Leaves(st, i, to) => Leaves(st, i, to)'
<1>1. \A su \in Statuses : Holds(su, i)' <=> Holds(su, i)
  BY DEF Holds
<1>2. Homes(i)' = Homes(i) /\ Found(i)' = Found(i)
  BY <1>1, SameHomes
<1>3. Homes(i) # {} => home'[Found(i)][i] = home[Found(i)][i]
  BY FoundIs
<1> QED
  BY <1>1, <1>2, <1>3 DEF Recorded, Moves, Lands, Leaves, Holds, Named, Chosen

(* A move finds the file it is to move, and is where it was to go or not.  *)
LEMMA MoveStep ==
    ASSUME Basics, NEW p \in Procs, NEW i \in Ids, NEW to \in Statuses, NEW then,
           At(p, Move(i, to), then), DoMove(p), Moves(i, to)
    PROVE  \/ call'[p] = then
           \/ \E st \in Statuses, f \in Suggestion :
                /\ Lands(st, i, f, to)
                /\ At(p, Write(to, i, f), <<Unlink(st, i)>> \o then)'
<1>1. Homes(i) # {} /\ ~AtRest(p) /\ Tail(call[p]) = then
  BY DEF Moves, At
<1>2. call[p][1].id = i /\ call[p][1].to = to
  BY DEF At, Move
<1>3. CASE Found(i) = to
  <2>1. GoOn(p, <<>>)
    BY <1>1, <1>2, <1>3 DEF DoMove
  <2> QED
    BY <1>1, <2>1, AtNext DEF Basics
<1>4. CASE Found(i) # to
  <2>1. PICK st \in Statuses, f \in Suggestion : st = Found(i) /\ f = home[st][i] /\ Holds(st, i)
    BY <1>1, FoundFile
  <2>2. GoOn(p, <<Write(to, i, f), Unlink(st, i)>>)
    BY <1>1, <1>2, <1>4, <2>1 DEF DoMove, Moved
  <2>3. Write(to, i, f) \in Step /\ Unlink(st, i) \in Step
    BY StepKinds
  <2>4. At(p, Write(to, i, f), <<Unlink(st, i)>> \o then)'
    BY <1>1, <2>2, <2>3, AtNext DEF Basics
  <2>5. Lands(st, i, f, to)
    BY <1>4, <2>1 DEF Moves, Lands
  <2> QED
    BY <2>4, <2>5
<1> QED
  BY <1>3, <1>4

(* The new file is written: now the old one may go. *)
LEMMA LandStep ==
    ASSUME Basics, NEW p \in Procs, NEW st \in Statuses, NEW i \in made, NEW f \in Suggestion,
           NEW to \in Statuses, NEW then, At(p, Write(to, i, f), then), DoWrite(p),
           Lands(st, i, f, to), to \in {"promoted", "rejected", "expired"}
    PROVE  call'[p] = then /\ Puts(to, i, f) /\ Leaves(st, i, to)'
<1>1. ~AtRest(p) /\ Tail(call[p]) = then
      /\ call[p][1].at = to /\ call[p][1].id = i /\ call[p][1].file = f
  BY DEF At, Write
<1>2. GoOn(p, <<>>) /\ home' = [home EXCEPT ![to][i] = f] /\ UNCHANGED <<made, purged>>
  BY <1>1 DEF DoWrite, history
<1>3. call'[p] = then
  BY <1>1, <1>2, AtNext DEF Basics
<1>4. Puts(to, i, f)
  BY <1>2 DEF Puts, Lands
<1>5. home'[to][i] = f
  BY <1>2 DEF Basics, TypeOK
<1>6. f # None
  BY SuggestionIs
<1>7. Leaves(st, i, to)'
  BY <1>5, <1>6 DEF Lands, Leaves, Holds
<1> QED
  BY <1>3, <1>4, <1>7

(* The answer is recorded where the suggestion is. *)
LEMMA RecordStep ==
    ASSUME Basics, NEW p \in Procs, NEW st \in Statuses, NEW i \in made, NEW f \in Suggestion,
           NEW to \in {"promoted", "rejected"}, NEW then, At(p, Write(st, i, f), then), DoWrite(p),
           Recorded(st, i, f, to), to = "promoted" => Named(f)
    PROVE  call'[p] = then /\ Puts(st, i, f) /\ Moves(i, to)'
<1>1. ~AtRest(p) /\ Tail(call[p]) = then
      /\ call[p][1].at = st /\ call[p][1].id = i /\ call[p][1].file = f
  BY DEF At, Write
<1>2. GoOn(p, <<>>) /\ home' = [home EXCEPT ![st][i] = f] /\ UNCHANGED <<skills, made, purged>>
  BY <1>1 DEF DoWrite, history
<1>3. call'[p] = then
  BY <1>1, <1>2, AtNext DEF Basics
<1>4. Holds(st, i) /\ Homes(i) # {} /\ st = Found(i)
  BY FoundIs DEF Recorded
<1>5. Puts(st, i, f)
  BY <1>2, <1>4 DEF Puts, Recorded
<1>6. home'[st][i] = f /\ f # None
      /\ \A su \in Statuses : su # st => home'[su][i] = home[su][i]
  BY <1>2, SuggestionIs DEF Basics, TypeOK
<1>7. \A su \in Statuses : Holds(su, i)' <=> Holds(su, i)
  BY <1>4, <1>6 DEF Holds
<1>8. Homes(i)' = Homes(i) /\ Found(i)' = Found(i)
  BY <1>7, SameHomes
<1>9. Moves(i, to)'
  BY <1>2, <1>4, <1>6, <1>8 DEF Moves, Recorded, Named
<1> QED
  BY <1>3, <1>5, <1>9

LEMMA UnlinkStep ==
    ASSUME Basics, NEW p \in Procs, NEW st \in Statuses, NEW i \in made, NEW to \in Statuses,
           NEW then, At(p, Unlink(st, i), then), DoUnlink(p), Leaves(st, i, to)
    PROVE  call'[p] = then /\ Drops(st, i, to)
<1>1. ~AtRest(p) /\ Tail(call[p]) = then /\ call[p][1].at = st /\ call[p][1].id = i
  BY DEF At, Unlink
<1>2. GoOn(p, <<>>) /\ home' = [home EXCEPT ![st][i] = None] /\ UNCHANGED <<made, purged>>
  BY <1>1 DEF DoUnlink, history
<1> QED
  BY <1>1, <1>2, AtNext DEF Basics, Drops, Leaves

Effects == Untouched \/ \E st, i, f : Puts(st, i, f)
                     \/ \E to \in {"promoted", "rejected"} : Drops(st, i, to)

LEMMA DecidingStep ==
    ASSUME Basics, NEW p \in Procs, Deciding(p), DoStep(p)
    PROVE  Shaped(p)' /\ Effects
<1>1. PICK st \in Statuses, i \in made, f \in Suggestion, to \in {"promoted", "rejected"} :
        \/ /\ At(p, OpenSkill(Chosen(f)), <<Write(st, i, f), Move(i, to)>>)
           /\ Recorded(st, i, f, to) /\ f.path \in Targets
        \/ /\ At(p, FillSkill(Chosen(f)), <<Write(st, i, f), Move(i, to)>>)
           /\ Recorded(st, i, f, to) /\ f.path \in Targets
        \/ /\ At(p, Write(st, i, f), <<Move(i, to)>>)
           /\ Recorded(st, i, f, to) /\ (to = "promoted" => Named(f))
        \/ At(p, Move(i, to), <<>>) /\ Moves(i, to)
        \/ At(p, Write(to, i, f), <<Unlink(st, i)>>) /\ Lands(st, i, f, to)
        \/ At(p, Unlink(st, i), <<>>) /\ Leaves(st, i, to)
  BY DEF Deciding
<1>2. i \in Ids /\ to \in Statuses /\ made \subseteq made'
  BY StatusNames, BasicsNext DEF Basics, TypeOK, DoStep, DoRecord, DoArchive, DoScan, DoCover,
     DoMake, DoAudit, DoList, DoPurge, DoOpen, DoFill, DoWrite, DoMove, DoUnlink, history
<1>3. i \in made' /\ st \in Statuses /\ f \in Suggestion
  BY <1>2
<1>4. /\ Write(st, i, f) \in Step /\ Write(to, i, f) \in Step /\ Move(i, to) \in Step
      /\ Unlink(st, i) \in Step
  BY <1>2, StepKinds
<1>f. f.path \in Targets => Chosen(f) \in Skill
  BY SuggestionIs DEF Skill, Chosen
<1>5. call'[p] = <<>> => Shaped(p)'
  BY Resting DEF Shaped
<1>6. CASE /\ At(p, OpenSkill(Chosen(f)), <<Write(st, i, f), Move(i, to)>>)
           /\ Recorded(st, i, f, to) /\ f.path \in Targets
  <2>1. PICK k \in Skill : k = Chosen(f)
    BY <1>6, <1>f
  <2>2. /\ At(p, OpenSkill(k), <<Write(st, i, f), Move(i, to)>>)
        /\ call[p][1].do = "open" /\ call[p][1].skill = k /\ ~AtRest(p)
    BY <1>6, <2>1, Dos DEF At, OpenSkill
  <2>3. DoOpen(p) /\ Untouched
    BY <2>2, WhichStep DEF DoOpen, Untouched, history
  <2>4. CASE call' = [call EXCEPT ![p] = <<>>]
    <3>1. call'[p] = <<>>
      BY <2>4 DEF Basics, TypeOK
    <3> QED
      BY <3>1, <1>5, <2>3 DEF Effects
  <2>5. CASE GoOn(p, <<FillSkill(k)>>)
    <3>0. FillSkill(k) \in Step
      BY StepKinds
    <3>1. At(p, FillSkill(k), <<Write(st, i, f), Move(i, to)>>)'
      BY <3>0, <2>2, <2>5, AtNext DEF At, Basics
    <3>2. Recorded(st, i, f, to)'
      BY <1>6, <2>3, FactsKept DEF Untouched
    <3>4. At(p, FillSkill(Chosen(f)), <<Write(st, i, f), Move(i, to)>>)'
      BY <2>1, <3>1 DEF Chosen
    <3>3. Deciding(p)'
      BY <1>3, <1>6, <3>4, <3>2 DEF Deciding
    <3> QED
      BY <2>3, <3>3 DEF Effects, Shaped
  <2> QED
    BY <2>2, <2>3, <2>4, <2>5 DEF DoOpen
<1>7. CASE /\ At(p, FillSkill(Chosen(f)), <<Write(st, i, f), Move(i, to)>>)
           /\ Recorded(st, i, f, to) /\ f.path \in Targets
  <2>2. call[p][1].do = "fill" /\ call[p][1].skill = Chosen(f) /\ ~AtRest(p)
    BY <1>7, Dos DEF At, FillSkill
  <2>3. GoOn(p, <<>>) /\ Untouched /\ skills' = skills \cup {Chosen(f)}
    BY <2>2, WhichStep DEF DoFill, Untouched, history
  <2>8. Named(f)'
    BY <2>3 DEF Named, Chosen
  <2>4. call'[p] = <<Write(st, i, f), Move(i, to)>>
    BY <1>7, <2>2, <2>3, AtNext DEF At, Basics
  <2>5. At(p, Write(st, i, f), <<Move(i, to)>>)'
    BY <1>4, <2>4, AtGiven
  <2>6. Recorded(st, i, f, to)'
    BY <1>7, <2>3, FactsKept DEF Untouched
  <2>7. Deciding(p)'
    BY <1>3, <2>5, <2>6, <2>8 DEF Deciding
  <2> QED
    BY <2>3, <2>7 DEF Effects, Shaped
<1>8. CASE /\ At(p, Write(st, i, f), <<Move(i, to)>>)
           /\ Recorded(st, i, f, to) /\ (to = "promoted" => Named(f))
  <2>1. DoWrite(p)
    BY <1>8, Dos, WhichStep DEF At
  <2>2. call'[p] = <<Move(i, to)>> /\ Puts(st, i, f) /\ Moves(i, to)'
    BY <1>8, <2>1, RecordStep
  <2>3. At(p, Move(i, to), <<>>)'
    BY <1>4, <2>2, AtGiven
  <2>4. Deciding(p)'
    BY <1>3, <2>2, <2>3 DEF Deciding
  <2> QED
    BY <2>2, <2>4 DEF Effects, Shaped
<1>9. CASE At(p, Move(i, to), <<>>) /\ Moves(i, to)
  <2>1. DoMove(p)
    BY <1>9, Dos, WhichStep DEF At
  <2>2. Untouched /\ skills \subseteq skills'
    BY <2>1 DEF DoMove, Untouched, history
  <2>3. \/ call'[p] = <<>>
        \/ \E su \in Statuses, g \in Suggestion :
             /\ Lands(su, i, g, to)
             /\ At(p, Write(to, i, g), <<Unlink(su, i)>> \o <<>>)'
    BY <1>2, <1>9, <2>1, MoveStep
  <2>4. ASSUME NEW su \in Statuses, NEW g \in Suggestion, Lands(su, i, g, to),
               At(p, Write(to, i, g), <<Unlink(su, i)>> \o <<>>)'
        PROVE  Deciding(p)'
    <3>1. Unlink(su, i) \in Step
      BY <1>2, StepKinds
    <3>2. <<Unlink(su, i)>> \o <<>> = <<Unlink(su, i)>>
      BY <3>1, Pairs
    <3>3. At(p, Write(to, i, g), <<Unlink(su, i)>>)'
      BY <2>4, <3>2 DEF At
    <3>4. Lands(su, i, g, to)'
      BY <2>2, <2>4, FactsKept DEF Untouched
    <3> QED
      BY <1>3, <3>3, <3>4 DEF Deciding
  <2> QED
    BY <1>5, <2>2, <2>3, <2>4 DEF Effects, Shaped
<1>10. CASE At(p, Write(to, i, f), <<Unlink(st, i)>>) /\ Lands(st, i, f, to)
  <2>1. DoWrite(p)
    BY <1>10, Dos, WhichStep DEF At
  <2>2. call'[p] = <<Unlink(st, i)>> /\ Puts(to, i, f) /\ Leaves(st, i, to)'
    BY <1>2, <1>10, <2>1, LandStep
  <2>3. At(p, Unlink(st, i), <<>>)'
    BY <1>4, <2>2, AtGiven
  <2>4. Deciding(p)'
    BY <1>3, <2>2, <2>3 DEF Deciding
  <2> QED
    BY <2>2, <2>4 DEF Effects, Shaped
<1>11. CASE At(p, Unlink(st, i), <<>>) /\ Leaves(st, i, to)
  <2>1. DoUnlink(p)
    BY <1>11, Dos, WhichStep DEF At
  <2>2. call'[p] = <<>> /\ Drops(st, i, to)
    BY <1>2, <1>11, <2>1, UnlinkStep
  <2> QED
    BY <1>5, <2>2 DEF Effects
<1> QED
  BY <1>1, <1>6, <1>7, <1>8, <1>9, <1>10, <1>11

Followers == {<<>>, <<ListExpired>>, <<Scan>>}

LEMMA FollowerIs ==
    /\ \A then \in Followers : then \in Seq(Step)
    /\ \A p \in Procs, then \in Followers : call'[p] = then => Shaped(p)'
<1>1. ListExpired \in Step /\ Scan \in Step /\ <<>> \in Seq(Step)
  BY StepKinds, EmptySeq
<1>2. \A then \in Followers : then \in Seq(Step)
  <2>1. \A x \in Step : <<x>> \in Seq(Step)
    OBVIOUS
  <2>2. <<ListExpired>> \in Seq(Step) /\ <<Scan>> \in Seq(Step)
    BY <1>1, <2>1
  <2> QED
    BY <1>1, <2>2 DEF Followers
<1>3. Detects(<<>>) /\ Detects(<<Scan>>)
  BY Dos DEF Detects, OnlyDo
<1>4. ASSUME NEW p \in Procs, call'[p] = <<ListExpired>> PROVE Shaped(p)'
  <2>1. At(p, ListExpired, <<>>)'
    BY <1>1, <1>4, AtGiven
  <2> QED
    BY <2>1 DEF Shaped, Purging
<1>5. ASSUME NEW p \in Procs, call'[p] \in {<<>>, <<Scan>>} PROVE Shaped(p)'
  BY <1>3, <1>5 DEF Shaped
<1> QED
  BY <1>2, <1>4, <1>5 DEF Followers

(* An audit has its ids from what is proposed, and moves them out of there. *)
LEMMA AuditingStep ==
    ASSUME Basics, NEW p \in Procs, Auditing(p), DoStep(p)
    PROVE  /\ Shaped(p)'
           /\ Untouched \/ \E st, i, f : Puts(st, i, f) \/ Drops(st, i, "expired")
<1>1. PICK ids \in SUBSET Listing("proposed"), then \in Followers :
        \/ At(p, Audit(ids), then)
        \/ \E i \in made \ ids, f \in Suggestion :
             \/ At(p, Move(i, "expired"), <<Audit(ids)>> \o then) /\ Moves(i, "expired")
             \/ /\ At(p, Write("expired", i, f),
                      <<Unlink("proposed", i)>> \o (<<Audit(ids)>> \o then))
                /\ Lands("proposed", i, f, "expired")
             \/ /\ At(p, Unlink("proposed", i), <<Audit(ids)>> \o then)
                /\ Leaves("proposed", i, "expired")
  BY DEF Auditing, Followers
<1>2. /\ ids \in SUBSET Ids /\ made \subseteq Ids /\ then \in Seq(Step)
      /\ "proposed" \in Statuses /\ "expired" \in Statuses
  BY FollowerIs, StatusNames DEF Listing, Basics, TypeOK
<1>3. \A js \in SUBSET ids : Audit(js) \in Step /\ <<Audit(js)>> \o then \in Seq(Step)
  <2>1. \A js \in SUBSET ids : js \in SUBSET Ids
    BY <1>2
  <2>2. \A js \in SUBSET ids : Audit(js) \in Step
    BY <2>1, StepKinds
  <2> QED
    BY <1>2, <2>2, Ahead
<1>4. \A i \in made : /\ Move(i, "expired") \in Step /\ Unlink("proposed", i) \in Step
                      /\ \A f \in Suggestion : Write("expired", i, f) \in Step
  BY <1>2, StepKinds
<1>5. CASE At(p, Audit(ids), then)
  <2>1. call[p][1].do = "audit" /\ call[p][1].ids = ids /\ ~AtRest(p) /\ Tail(call[p]) = then
    BY <1>5, Dos DEF At, Audit
  <2>2. DoAudit(p) /\ Untouched
    BY <2>1, WhichStep DEF DoAudit, Untouched, history
  <2>3. CASE GoOn(p, <<>>)
    <3>1. call'[p] = then
      BY <2>1, <2>3, AtNext DEF Basics
    <3> QED
      BY <2>2, <3>1, FollowerIs
  <2>4. ASSUME NEW i \in ids, GoOn(p, <<Move(i, "expired"), Audit(ids \ {i})>>)
        PROVE  Auditing(p)'
    <3> DEFINE js == ids \ {i}
    <3>1. js \in SUBSET ids /\ i \notin js
      OBVIOUS
    <3>2. i \in made /\ Holds("proposed", i)
      BY <1>2 DEF Listing, Basics, Known
    <3>3. js \in SUBSET Listing("proposed")' /\ i \in made'
      BY <2>2, <3>2 DEF Untouched, Listing, Holds
    <3> HIDE DEF js
    <3>4. At(p, Move(i, "expired"), <<Audit(js)>> \o then)'
      BY <1>3, <1>4, <2>1, <2>4, <3>1, <3>2, AtNext DEF Basics, js
    <3>5. Moves(i, "expired")
      BY <3>2, <1>2, Housed, FoundIs DEF Moves
    <3>6. Moves(i, "expired")'
      BY <2>2, <3>5, FactsKept DEF Untouched
    <3>7. \E f : f \in Suggestion
      BY <1>2, <3>2, FileIs DEF Basics
    <3>8. i \in made' \ js
      BY <3>1, <3>3
    <3> QED
      BY <3>3, <3>4, <3>6, <3>7, <3>8 DEF Auditing, Followers
  <2> QED
    BY <2>1, <2>2, <2>3, <2>4 DEF DoAudit, Shaped
<1>6. ASSUME NEW i \in made \ ids,
             At(p, Move(i, "expired"), <<Audit(ids)>> \o then), Moves(i, "expired")
      PROVE  Shaped(p)' /\ Untouched
  <2>1. DoMove(p)
    BY <1>6, Dos, WhichStep DEF At
  <2>2. Untouched
    BY <2>1 DEF DoMove, Untouched, history
  <2>3. \/ call'[p] = <<Audit(ids)>> \o then
        \/ \E st \in Statuses, f \in Suggestion :
             /\ Lands(st, i, f, "expired")
             /\ At(p, Write("expired", i, f), <<Unlink(st, i)>> \o (<<Audit(ids)>> \o then))'
    BY <1>2, <1>6, <2>1, MoveStep
  <2>4. ids \in SUBSET Listing("proposed")' /\ i \in made' \ ids
    BY <2>2, <1>6 DEF Untouched, Listing, Holds
  <2>5. CASE call'[p] = <<Audit(ids)>> \o then
    <3>1. At(p, Audit(ids), then)'
      BY <1>2, <1>3, <2>5, AtGiven
    <3> QED
      BY <2>2, <2>4, <3>1 DEF Auditing, Followers, Shaped
  <2>6. ASSUME NEW st \in Statuses, NEW f \in Suggestion, Lands(st, i, f, "expired"),
               At(p, Write("expired", i, f), <<Unlink(st, i)>> \o (<<Audit(ids)>> \o then))'
        PROVE  Auditing(p)'
    <3>1. st = "proposed"
      BY <2>6 DEF Lands
    <3>2. Lands("proposed", i, f, "expired")'
      BY <1>2, <2>2, <2>6, <3>1, FactsKept DEF Untouched
    <3> QED
      BY <2>4, <2>6, <3>1, <3>2 DEF Auditing, Followers
  <2> QED
    BY <2>2, <2>3, <2>5, <2>6 DEF Shaped
<1>7. ASSUME NEW i \in made \ ids, NEW f \in Suggestion,
             At(p, Write("expired", i, f), <<Unlink("proposed", i)>> \o (<<Audit(ids)>> \o then)),
             Lands("proposed", i, f, "expired")
      PROVE  Shaped(p)' /\ Puts("expired", i, f)
  <2>1. DoWrite(p)
    BY <1>7, Dos, WhichStep DEF At
  <2>2. /\ call'[p] = <<Unlink("proposed", i)>> \o (<<Audit(ids)>> \o then)
        /\ Puts("expired", i, f) /\ Leaves("proposed", i, "expired")'
    BY <1>2, <1>7, <2>1, LandStep
  <2>3. At(p, Unlink("proposed", i), <<Audit(ids)>> \o then)'
    BY <1>3, <1>4, <2>2, AtGiven
  <2>4. ids \in SUBSET Listing("proposed")' /\ i \in made' \ ids
    <3>1. \A j \in Ids : home'["proposed"][j] = home["proposed"][j]
      BY <1>2, <2>2 DEF Puts, Basics, TypeOK
    <3> QED
      BY <2>2, <3>1, <1>7 DEF Listing, Holds, Puts
  <2> QED
    BY <2>2, <2>3, <2>4 DEF Auditing, Followers, Shaped
<1>8. ASSUME NEW i \in made \ ids,
             At(p, Unlink("proposed", i), <<Audit(ids)>> \o then), Leaves("proposed", i, "expired")
      PROVE  Shaped(p)' /\ Drops("proposed", i, "expired")
  <2>1. DoUnlink(p)
    BY <1>8, Dos, WhichStep DEF At
  <2>2. call'[p] = <<Audit(ids)>> \o then /\ Drops("proposed", i, "expired")
    BY <1>2, <1>8, <2>1, UnlinkStep
  <2>3. At(p, Audit(ids), then)'
    BY <1>2, <1>3, <2>2, AtGiven
  <2>4. ids \in SUBSET Listing("proposed")'
    <3>1. \A j \in Ids : j # i => home'["proposed"][j] = home["proposed"][j]
      BY <1>2, <2>2 DEF Drops, Basics, TypeOK
    <3> QED
      BY <3>1, <1>8 DEF Listing, Holds
  <2> QED
    BY <2>2, <2>3, <2>4 DEF Auditing, Followers, Shaped
<1> QED
  BY <1>1, <1>5, <1>6, <1>7, <1>8

LEMMA PurgingStep ==
    ASSUME Basics, NEW p \in Procs, Purging(p), DoStep(p)
    PROVE  Shaped(p)' /\ (Untouched \/ \E i : Clears(i))
<1>1. \A ids \in SUBSET Ids : Purge(ids) \in Step
  BY StepKinds
<1>2. call'[p] = <<>> => Shaped(p)'
  BY Resting DEF Shaped
<1>3. ASSUME NEW ids \in SUBSET Ids, GoOn(p, <<Purge(ids)>>), ~AtRest(p), Tail(call[p]) = <<>>
      PROVE  Shaped(p)'
  <2>1. At(p, Purge(ids), <<>>)'
    BY <1>1, <1>3, AtNext DEF Basics
  <2> QED
    BY <2>1 DEF Purging, Shaped
<1>4. CASE At(p, ListExpired, <<>>)
  <2>1. ~AtRest(p) /\ Tail(call[p]) = <<>> /\ DoList(p)
    BY <1>4, Dos, WhichStep DEF At
  <2>2. Untouched
    BY <2>1 DEF DoList, Untouched, history
  <2>3. PICK ids \in SUBSET Ids : ids = Listing("expired")
    BY DEF Listing
  <2>4. GoOn(p, <<Purge(ids)>>) \/ GoOn(p, <<>>)
    BY <2>1, <2>3 DEF DoList
  <2> QED
    BY <1>2, <1>3, <2>1, <2>2, <2>4, AtNext DEF Basics
<1>5. ASSUME NEW ids \in SUBSET Ids, At(p, Purge(ids), <<>>)
      PROVE  Shaped(p)' /\ (Untouched \/ \E i : Clears(i))
  <2>1. ~AtRest(p) /\ Tail(call[p]) = <<>> /\ call[p][1].ids = ids /\ DoPurge(p)
    BY <1>5, Dos, WhichStep DEF At, Purge
  <2>2. UNCHANGED made
    BY <2>1 DEF DoPurge
  <2>3. CASE GoOn(p, <<>>) /\ UNCHANGED <<home, purged>>
    BY <1>2, <2>1, <2>2, <2>3, AtNext DEF Basics, Untouched
  <2>4. ASSUME NEW i \in ids, GoOn(p, <<Purge(ids \ {i})>>),
               home' = [home EXCEPT !["expired"][i] = None],
               purged' = purged \cup ({i} \cap Listing("expired"))
        PROVE  Shaped(p)' /\ Clears(i)
    <3>1. PICK js \in SUBSET Ids : js = ids \ {i}
      OBVIOUS
    <3> QED
      BY <1>3, <2>1, <2>2, <2>4, <3>1 DEF Clears
  <2> QED
    BY <2>1, <2>3, <2>4 DEF DoPurge
<1> QED
  BY <1>4, <1>5 DEF Purging

LEMMA DetectingStep ==
    ASSUME Basics, NEW p \in Procs, Detects(call[p]), DoStep(p), Passed(p)
    PROVE  Shaped(p)' /\ UNCHANGED skills /\ (Untouched \/ \E i, c : Proposes(i, c))
<1>1. ~AtRest(p)
  BY NewSteps
<1>2. call[p] \in Seq(Step) /\ call[p] # <<>>
  BY <1>1 DEF Basics, TypeOK, AtRest
<1>3. call[p][1].do \in DetectDos
  BY <1>2, OnlyDoSplit, Sides
<1>4. Shaped(p)'
  BY SidesKept DEF Shaped
<1>5. CASE call[p][1].do # "make"
  <2>1. DoRecord(p) \/ DoArchive(p) \/ DoScan(p) \/ DoCover(p)
    BY <1>3, <1>5, WhichStep DEF DetectDos
  <2>2. Untouched /\ UNCHANGED skills
    BY <2>1 DEF DoRecord, DoArchive, DoScan, DoCover, Untouched, history
  <2> QED
    BY <1>4, <2>2
<1>6. CASE call[p][1].do = "make"
  <2>1. DoMake(p) /\ Does(p, "make")
    BY <1>6, WhichStep DEF DoMake
  <2>2. call[p][1].todo \in SUBSET Clusters
    BY <1>1, <1>6, HeadIs, StepFields DEF Basics
  <2>3. UNCHANGED <<skills, purged>>
    BY <2>1 DEF DoMake
  <2>4. CASE UNCHANGED <<home, made>>
    BY <1>4, <2>3, <2>4 DEF Untouched
  <2>5. ASSUME NEW c \in call[p][1].todo, NEW i \in Ids \ made,
               home' = [home EXCEPT !["proposed"][i] = [key |-> c, path |-> NoPath]],
               made' = made \cup {i}
        PROVE  Proposes(i, c)
    BY <2>1, <2>2, <2>3, <2>5 DEF Proposes, Passed
  <2>6. \/ UNCHANGED <<home, made>>
        \/ \E c \in call[p][1].todo : \E i \in Ids \ made :
             /\ home' = [home EXCEPT !["proposed"][i] = [key |-> c, path |-> NoPath]]
             /\ made' = made \cup {i}
    BY <2>1 DEF DoMake
  <2> QED
    BY <1>4, <2>3, <2>4, <2>5, <2>6
<1> QED
  BY <1>4, <1>5, <1>6


(* A decision is none the wiser for new suggestions. *)
LEMMA DecidingKept ==
    ASSUME NEW q \in Procs, Deciding(q), call'[q] = call[q], made \subseteq made', skills \subseteq skills',
           \A j \in made, su \in Statuses : home'[su][j] = home[su][j]
    PROVE  Deciding(q)'
<1>1. \A x, then : At(q, x, then) => At(q, x, then)'
  BY DEF At, AtRest
<1>2. PICK st \in Statuses, i \in made, f \in Suggestion, to \in {"promoted", "rejected"} :
        \/ /\ At(q, OpenSkill(Chosen(f)), <<Write(st, i, f), Move(i, to)>>)
           /\ Recorded(st, i, f, to) /\ f.path \in Targets
        \/ /\ At(q, FillSkill(Chosen(f)), <<Write(st, i, f), Move(i, to)>>)
           /\ Recorded(st, i, f, to) /\ f.path \in Targets
        \/ /\ At(q, Write(st, i, f), <<Move(i, to)>>)
           /\ Recorded(st, i, f, to) /\ (to = "promoted" => Named(f))
        \/ At(q, Move(i, to), <<>>) /\ Moves(i, to)
        \/ At(q, Write(to, i, f), <<Unlink(st, i)>>) /\ Lands(st, i, f, to)
        \/ At(q, Unlink(st, i), <<>>) /\ Leaves(st, i, to)
  BY DEF Deciding
<1>3. i \in made' /\ to \in Statuses
  BY StatusNames
<1>4. /\ Recorded(st, i, f, to) => Recorded(st, i, f, to)'
      /\ Moves(i, to) => Moves(i, to)'
      /\ Lands(st, i, f, to) => Lands(st, i, f, to)'
      /\ Leaves(st, i, to) => Leaves(st, i, to)'
  BY <1>3, FactsKept
<1>6. Named(f) => Named(f)'
  BY DEF Named, Chosen
<1>5. \/ /\ At(q, OpenSkill(Chosen(f)), <<Write(st, i, f), Move(i, to)>>)'
         /\ Recorded(st, i, f, to)' /\ f.path \in Targets
      \/ /\ At(q, FillSkill(Chosen(f)), <<Write(st, i, f), Move(i, to)>>)'
         /\ Recorded(st, i, f, to)' /\ f.path \in Targets
      \/ /\ At(q, Write(st, i, f), <<Move(i, to)>>)'
         /\ Recorded(st, i, f, to)' /\ (to = "promoted" => Named(f)')
      \/ At(q, Move(i, to), <<>>)' /\ Moves(i, to)'
      \/ At(q, Write(to, i, f), <<Unlink(st, i)>>)' /\ Lands(st, i, f, to)'
      \/ At(q, Unlink(st, i), <<>>)' /\ Leaves(st, i, to)'
  BY <1>1, <1>2, <1>4, <1>6 DEF Chosen
<1> QED
  BY <1>3, <1>5 DEF Deciding

LEMMA ProposesNew ==
    ASSUME Basics, NEW i, NEW c, Proposes(i, c)
    PROVE  \A j \in made, su \in Statuses : home'[su][j] = home[su][j]
BY HomeExcept, StatusNames DEF Proposes, Basics, TypeOK

LEMMA OthersKept ==
    ASSUME Basics, Calm, NEW p \in Procs, DoStep(p), NEW q \in Procs, q # p
    PROVE  Shaped(q)'
<1>1. call'[q] = call[q] /\ ~AtRest(p)
  BY SidesKept, NewSteps
<1>2. CASE Detects(call[q])
  BY <1>1, <1>2 DEF Shaped
<1>3. CASE ~Detects(call[q])
  <2>1. ~AtRest(q)
    BY <1>3, Resting DEF AtRest
  <2>2. Detects(call[p]) /\ Decides(call[q])
    BY <1>1, <1>3, <2>1, Opposite DEF Calm
  <2>3. Deciding(q)
    BY <1>3, <2>2, AuditingSide, PurgingSide DEF Calm, Shaped
  <2>4. (Untouched \/ \E i, c : Proposes(i, c)) /\ UNCHANGED skills
    BY <2>2, DetectingStep DEF Calm
  <2>5. \A j \in made, su \in Statuses : home'[su][j] = home[su][j]
    BY <2>4, ProposesNew DEF Untouched
  <2>6. made \subseteq made'
    BY <2>4 DEF Untouched, Proposes
  <2> QED
    BY <1>1, <2>3, <2>4, <2>5, <2>6, DecidingKept DEF Shaped
<1> QED
  BY <1>2, <1>3

(* What a step does to the store. *)
Deeds ==
    \/ Untouched
    \/ \E i, c : Proposes(i, c)
    \/ \E st, i, f : Puts(st, i, f)
    \/ \E st, i, to : Drops(st, i, to)
    \/ \E i : Clears(i)

LEMMA StepDeeds ==
    ASSUME Basics, Calm, NEW p \in Procs, DoStep(p)
    PROVE  Deeds /\ Shaped(p)'
<1>1. Shaped(p) /\ Passed(p)
  BY DEF Calm
<1>2. CASE Detects(call[p])
  BY <1>1, <1>2, DetectingStep DEF Deeds
<1>3. CASE Deciding(p)
  <2>1. Shaped(p)' /\ Effects
    BY <1>3, DecidingStep
  <2> QED
    BY <2>1 DEF Effects, Deeds
<1>4. CASE Auditing(p)
  BY <1>4, AuditingStep DEF Deeds
<1>5. CASE Purging(p)
  BY <1>5, PurgingStep DEF Deeds
<1> QED
  BY <1>1, <1>2, <1>3, <1>4, <1>5 DEF Shaped

LEMMA StoreNext ==
    ASSUME Basics, Calm, NEW p \in Procs, DoStep(p)
    PROVE  Store'
<1>1. Deeds /\ Store
  BY StepDeeds DEF Calm
<1> QED
  BY <1>1, StoreUntouched, StoreProposes, StorePuts, StoreDrops, StoreClears DEF Deeds


---------------------------------------------------------------------------
(* What a detection has listed. *)
KeysLess ==
    /\ Keys("proposed")' \subseteq Keys("proposed")
    /\ Keys("rejected")' \subseteq Keys("rejected") \cup Keys("proposed")

LEMMA KeysFrom ==
    ASSUME \A j \in Ids : Holds("proposed", j)' =>
             /\ Holds("proposed", j)
             /\ home'["proposed"][j].key = home["proposed"][j].key,
           \A j \in Ids : Holds("rejected", j)' =>
             \E st \in Open : Holds(st, j) /\ home'["rejected"][j].key = home[st][j].key
    PROVE  KeysLess
<1>1. ASSUME NEW j \in Ids, Holds("proposed", j)'
      PROVE  home'["proposed"][j].key \in Keys("proposed")
  BY <1>1 DEF Keys, Listing
<1>2. ASSUME NEW j \in Ids, Holds("rejected", j)'
      PROVE  home'["rejected"][j].key \in Keys("rejected") \cup Keys("proposed")
  BY <1>2 DEF Keys, Listing, Open
<1>3. Keys("proposed")' = {home'["proposed"][j].key : j \in {k \in Ids : Holds("proposed", k)'}}
  BY DEF Keys, Listing
<1>4. Keys("rejected")' = {home'["rejected"][j].key : j \in {k \in Ids : Holds("rejected", k)'}}
  BY DEF Keys, Listing
<1> QED
  BY <1>1, <1>2, <1>3, <1>4 DEF KeysLess

(* Decisions, audits and purges bring no pattern to what was listed.       *)
LEMMA KeysKept ==
    ASSUME Basics, Store,
           \/ Untouched
           \/ \E st, i, f : Puts(st, i, f)
           \/ \E st, i, to : Drops(st, i, to)
           \/ \E i : Clears(i)
    PROVE  KeysLess
<1>1. "proposed" \in Statuses /\ "rejected" \in Statuses /\ "expired" \in Statuses
  BY StatusNames
<1>2. CASE Untouched
  BY <1>2, KeysFrom DEF Untouched, Holds, Open
<1>3. ASSUME NEW st, NEW i, NEW f, Puts(st, i, f) PROVE KeysLess
  <2>1. st \in Statuses /\ i \in Ids
    BY <1>3 DEF Puts, Basics, TypeOK
  <2>2. /\ home'[st][i] = f
        /\ \A su \in Statuses, j \in Ids : ~(su = st /\ j = i) =>
             home'[su][j] = home[su][j] /\ (Holds(su, j)' <=> Holds(su, j))
    <3>1. home' = [home EXCEPT ![st][i] = f] /\ TypeOK
      BY <1>3 DEF Puts, Basics
    <3>2. home'[st][i] = f
      BY <2>1, <3>1 DEF TypeOK
    <3> QED
      BY <2>1, <3>1, <3>2, HomeExcept
  <2>3. \A su \in Statuses : Holds(su, i) => f.key = home[su][i].key
    BY <1>3, <2>1 DEF Puts, Store, Agree
  <2>4. ASSUME NEW j \in Ids, Holds("proposed", j)'
        PROVE  Holds("proposed", j) /\ home'["proposed"][j].key = home["proposed"][j].key
    BY <1>1, <1>3, <2>2, <2>3, <2>4 DEF Puts
  <2>5. ASSUME NEW j \in Ids, Holds("rejected", j)'
        PROVE  \E su \in Open : Holds(su, j) /\ home'["rejected"][j].key = home[su][j].key
    BY <1>1, <1>3, <2>2, <2>3, <2>5 DEF Puts, Open
  <2> QED
    BY <2>4, <2>5, KeysFrom
<1>4. ASSUME \A su \in Statuses, j \in Ids : Holds(su, j)' =>
               Holds(su, j) /\ home'[su][j] = home[su][j]
      PROVE  KeysLess
  BY <1>1, <1>4, KeysFrom DEF Open
<1>5. ASSUME NEW st \in Statuses, NEW i \in Ids, home' = [home EXCEPT ![st][i] = None]
      PROVE  KeysLess
  <2>1. \A su \in Statuses, j \in Ids : Holds(su, j)' =>
          Holds(su, j) /\ home'[su][j] = home[su][j]
    <3>1. TypeOK /\ home' = [home EXCEPT ![st][i] = None]
      BY <1>5 DEF Basics
    <3>2. /\ home'[st][i] = None
          /\ \A su \in Statuses, j \in Ids : ~(su = st /\ j = i) =>
               home'[su][j] = home[su][j] /\ (Holds(su, j)' <=> Holds(su, j))
      BY <3>1, HomeExcept
    <3>3. ~Holds(st, i)'
      BY <3>2 DEF Holds
    <3> QED
      BY <3>2, <3>3
  <2> QED
    BY <2>1, <1>4
<1>6. ASSUME NEW st, NEW i, NEW to, Drops(st, i, to) PROVE KeysLess
  BY <1>5, <1>6 DEF Drops, Basics, TypeOK
<1>7. ASSUME NEW i, Clears(i) PROVE KeysLess
  BY <1>1, <1>5, <1>7 DEF Clears
<1> QED
  BY <1>2, <1>3, <1>6, <1>7

LEMMA PassedKept ==
    ASSUME NEW q \in Procs, Passed(q), KeysLess, call'[q] = call[q]
    PROVE  Passed(q)'
<1>1. \A do : Does(q, do)' <=> Does(q, do)
  BY DEF Does
<1> QED
  BY <1>1 DEF Passed, KeysLess

LEMMA NotLooking ==
    ASSUME NEW q \in Procs, ~Does(q, "cover")', ~Does(q, "make")'
    PROVE  Passed(q)' /\ Accounted(q)'
BY DEF Passed, Accounted

(* The head of a call after a step. *)
LEMMA HeadNext ==
    ASSUME Basics, AtHand, NEW p \in Procs, ~AtRest(p)
    PROVE  /\ GoOn(p, <<>>) => ~Does(p, "cover")' /\ ~Does(p, "make")'
           /\ \A x \in Step : GoOn(p, <<x>>) => call'[p] # <<>> /\ call'[p][1] = x
           /\ \A x, y \in Step : GoOn(p, <<x, y>>) => call'[p] # <<>> /\ call'[p][1] = x
<1>1. \A x \in Step : GoOn(p, <<x>>) => call'[p] # <<>> /\ call'[p][1] = x
  BY AtNext DEF At, AtRest, Basics
<1>2. \A x, y \in Step : GoOn(p, <<x, y>>) => call'[p] # <<>> /\ call'[p][1] = x
  BY AtNext DEF At, AtRest, Basics
<1>3. ASSUME GoOn(p, <<>>), call'[p] # <<>>
      PROVE  call'[p][1].do \notin {"cover", "make"}
  <2>1. /\ <<>> \in Seq(Step)
        /\ call[p] \in Seq(Step)
    BY FewSteps, HeadIs DEF Basics
  <2>2. /\ call' \in [Procs -> Seq(Step)]
        /\ \A n \in DOMAIN call'[p] :
             \/ n \in DOMAIN <<>> /\ call'[p][n] = <<>>[n]
             \/ \E m \in DOMAIN call[p] : m > 1 /\ call'[p][n] = call[p][m]
    BY <1>3, <2>1, GoesOn DEF Basics
  <2>3. call'[p] \in Seq(Step) /\ 1 \in DOMAIN call'[p]
    BY <1>3, <2>2, LenProperties, EmptySeq
  <2>4. \E m \in DOMAIN call[p] : m > 1 /\ call'[p][1] = call[p][m]
    BY <2>2, <2>3
  <2> QED
    BY <2>4 DEF AtHand
<1> QED
  BY <1>1, <1>2, <1>3 DEF Does


---------------------------------------------------------------------------
(* What stands for a pattern. *)
Stands(c) == CoveredBySkill(c) \/ Filling(c) \/ Suggested(c)

LEMMA DetectHead ==
    ASSUME Basics, NEW p \in Procs, ~AtRest(p)
    PROVE  /\ Detects(call[p]) => call[p][1].do \in DetectDos
           /\ Decides(call[p]) => call[p][1].do \in DecideDos
<1>1. call[p] \in Seq(Step) /\ call[p] # <<>>
  BY HeadIs DEF Basics, AtRest
<1> QED
  BY <1>1, OnlyDoSplit, Sides

LEMMA SuggestedAt ==
    ASSUME NEW c, NEW st \in Statuses \ {"expired"}, NEW i \in Ids, Holds(st, i)',
           home'[st][i].key = c
    PROVE  Suggested(c)'
BY DEF Suggested, Listing, Holds

(* A detection takes nothing away. *)
LEMMA StandsOn ==
    ASSUME Basics, NEW p \in Procs, Detects(call[p]), DoStep(p), Passed(p), NEW c, Stands(c)
    PROVE  Stands(c)'
<1>1. ~AtRest(p) /\ \A q \in Procs : q # p => call'[q] = call[q]
  BY NewSteps, SidesKept
<1>2. call[p][1].do \in DetectDos
  BY <1>1, DetectHead
<1>3. UNCHANGED skills
  <2>1. DoRecord(p) \/ DoArchive(p) \/ DoScan(p) \/ DoCover(p) \/ DoMake(p)
    BY <1>2, WhichStep DEF DetectDos
  <2> QED
    BY <2>1 DEF DoRecord, DoArchive, DoScan, DoCover, DoMake
<1>4. CASE CoveredBySkill(c)
  BY <1>3, <1>4 DEF Stands, CoveredBySkill
<1>5. CASE Filling(c)
  <2>1. PICK q \in Procs : Does(q, "fill") /\ call[q][1].skill[2][1] = c[1]
    BY <1>5 DEF Filling
  <2>2. q # p
    BY <1>2, <2>1 DEF Does, DetectDos
  <2>3. call'[q] = call[q]
    BY <1>1, <2>2
  <2> QED
    BY <2>1, <2>3 DEF Does, Filling, Stands
<1>6. CASE Suggested(c)
  <2>1. PICK st \in Statuses \ {"expired"}, i \in Ids : Holds(st, i) /\ home[st][i].key = c
    BY <1>6 DEF Suggested, Listing
  <2>2. i \in made
    BY <2>1 DEF Basics, Known
  <2>3. Untouched \/ \E j, k : Proposes(j, k)
    BY DetectingStep
  <2>4. home'[st][i] = home[st][i]
    BY <2>2, <2>3, ProposesNew DEF Untouched
  <2>5. Suggested(c)'
    BY <2>1, <2>4, SuggestedAt DEF Holds
  <2> QED
    BY <2>5 DEF Stands
<1> QED
  BY <1>4, <1>5, <1>6 DEF Stands

(* A decision gives for what it takes. *)
LEMMA StandsStill ==
    ASSUME Basics, Store, NEW p \in Procs, Deciding(p), DoStep(p), NEW c, Stands(c)
    PROVE  Stands(c)' /\ UNCHANGED evidence
<1>1. /\ ~AtRest(p) /\ Decides(call[p])
      /\ \A q \in Procs : q # p => call'[q] = call[q]
  BY NewSteps, SidesKept, DecidingSide
<1>2. call[p][1].do \in DecideDos
  BY <1>1, DetectHead
<1>3. DoOpen(p) \/ DoFill(p) \/ DoWrite(p) \/ DoMove(p) \/ DoUnlink(p)
  BY <1>2, WhichStep DEF DecideDos
<1>4. UNCHANGED evidence
  BY <1>3 DEF DoOpen, DoFill, DoWrite, DoMove, DoUnlink
<1> SUFFICES Stands(c)'
  BY <1>4
<1>5. ASSUME NEW q \in Procs, q # p, Does(q, "fill"), call[q][1].skill[2][1] = c[1]
      PROVE  Filling(c)'
  BY <1>1, <1>5 DEF Does, Filling
<1>6. CASE CoveredBySkill(c)
  <2>1. PICK k \in skills : k[2][1] = c[1]
    BY <1>6 DEF CoveredBySkill
  <2>2. CASE k \in skills'
    BY <2>1, <2>2 DEF CoveredBySkill, Stands
  <2>3. CASE k \notin skills'
    <3>1. DoOpen(p) /\ k = call[p][1].skill /\ GoOn(p, <<FillSkill(k)>>)
      BY <1>3, <2>1, <2>3 DEF DoOpen, DoFill, DoWrite, DoMove, DoUnlink
    <3>2. k \in Skill
      BY <2>1 DEF Basics, TypeOK
    <3>3. FillSkill(k) \in Step
      BY <3>2, StepKinds
    <3>4. call'[p] # <<>> /\ call'[p][1] = FillSkill(k)
      BY <1>1, <3>1, <3>3, AtNext DEF At, AtRest, Basics
    <3>5. FillSkill(k).do = "fill" /\ FillSkill(k).skill = k
      BY DEF FillSkill
    <3>6. Filling(c)'
      BY <2>1, <3>4, <3>5 DEF Filling, Does
    <3> QED
      BY <3>6 DEF Stands
  <2> QED
    BY <2>2, <2>3
<1>7. CASE Filling(c)
  <2>1. PICK q \in Procs : Does(q, "fill") /\ call[q][1].skill[2][1] = c[1]
    BY <1>7 DEF Filling
  <2>2. CASE q # p
    BY <1>5, <2>1, <2>2 DEF Stands
  <2>3. CASE q = p
    <3>1. DoFill(p)
      BY <2>1, <2>3, WhichStep DEF Does
    <3>2. call[p][1].skill \in skills'
      BY <3>1 DEF DoFill
    <3>3. CoveredBySkill(c)'
      BY <2>1, <2>3, <3>2 DEF CoveredBySkill
    <3> QED
      BY <3>3 DEF Stands
  <2> QED
    BY <2>2, <2>3
<1>8. CASE Suggested(c)
  <2>1. PICK st \in Statuses \ {"expired"}, i \in Ids : Holds(st, i) /\ home[st][i].key = c
    BY <1>8 DEF Suggested, Listing
  <2>2. Effects
    BY DecidingStep
  <2>3. CASE Untouched
    <3>1. home'[st][i] = home[st][i]
      BY <2>3 DEF Untouched
    <3>2. Suggested(c)'
      BY <2>1, <3>1, SuggestedAt DEF Holds
    <3> QED
      BY <3>2 DEF Stands
  <2>4. ASSUME NEW su, NEW j, NEW f, Puts(su, j, f) PROVE Suggested(c)'
    <3>1. su \in Statuses /\ j \in Ids /\ f # None /\ TypeOK
      BY <2>4, SuggestionIs DEF Puts, Basics, TypeOK
    <3>2. home' = [home EXCEPT ![su][j] = f]
      BY <2>4 DEF Puts
    <3>3. CASE su = st /\ j = i
      <4>1. home'[st][i] = f
        BY <3>1, <3>2, <3>3 DEF TypeOK
      <4>2. f.key = c
        BY <2>1, <2>4, <3>3 DEF Puts, Store, Agree
      <4> QED
        BY <3>1, <4>1, <4>2, SuggestedAt DEF Holds
    <3>4. CASE ~(su = st /\ j = i)
      <4>1. home'[st][i] = home[st][i]
        BY <3>1, <3>2, <3>4 DEF TypeOK
      <4> QED
        BY <2>1, <4>1, SuggestedAt DEF Holds
    <3> QED
      BY <3>3, <3>4
  <2>5. ASSUME NEW su, NEW j, NEW to \in {"promoted", "rejected"}, Drops(su, j, to)
        PROVE  Suggested(c)'
    <3>1. su \in Statuses /\ j \in Ids /\ to \in Statuses \ {"expired"} /\ su # to /\ TypeOK
      BY <2>5, StatusNames DEF Drops, Basics, TypeOK
    <3>2. home' = [home EXCEPT ![su][j] = None]
      BY <2>5 DEF Drops
    <3>3. CASE su = st /\ j = i
      <4>1. home'[to][i] = home[to][i]
        BY <3>1, <3>2, <3>3 DEF TypeOK
      <4>2. Holds(to, i) /\ home[to][i].key = c
        BY <2>1, <2>5, <3>1, <3>3 DEF Drops, Store, Agree
      <4> QED
        BY <3>1, <4>1, <4>2, SuggestedAt DEF Holds
    <3>4. CASE ~(su = st /\ j = i)
      <4>1. home'[st][i] = home[st][i]
        BY <3>1, <3>2, <3>4 DEF TypeOK
      <4> QED
        BY <2>1, <4>1, SuggestedAt DEF Holds
    <3> QED
      BY <3>3, <3>4
  <2> QED
    BY <2>2, <2>3, <2>4, <2>5 DEF Effects, Stands
<1> QED
  BY <1>6, <1>7, <1>8 DEF Stands


(* A detection through the directories and the patterns. *)
LEMMA ScanStep ==
    ASSUME Basics, AtHand, NEW p \in Procs, DoScan(p)
    PROVE  Passed(p)' /\ Accounted(p)'
<1>1. ~AtRest(p) /\ UNCHANGED evidence
  BY DEF DoScan, Does, AtRest
<1>2. CASE GoOn(p, <<>>)
  BY <1>1, <1>2, HeadNext, NotLooking
<1>3. PICK t \in SUBSET Clusters : t = {c \in Clusters : Ripe(c)}
  OBVIOUS
<1>4. CASE GoOn(p, <<Cover(t, 1)>>)
  <2>1. Cover(t, 1) \in Step
    BY StepKinds
  <2>2. call'[p] # <<>> /\ call'[p][1] = Cover(t, 1)
    BY <1>1, <1>4, <2>1, HeadNext
  <2>3. call'[p][1].do = "cover" /\ call'[p][1].todo = t /\ call'[p][1].next = 1
    BY <2>2 DEF Cover
  <2>4. \A c \in Clusters : Ripe(c)' => c \in t
    BY <1>1, <1>3 DEF Ripe
  <2> QED
    BY <2>3, <2>4 DEF Passed, Accounted, Does
<1> QED
  BY <1>2, <1>3, <1>4 DEF DoScan

LEMMA CoverStep ==
    ASSUME Basics, AtHand, NEW p \in Procs, DoCover(p), Passed(p), Accounted(p),
           \A c \in Clusters : Stands(c) => Stands(c)'
    PROVE  Passed(p)' /\ Accounted(p)'
<1>1. ~AtRest(p) /\ call[p][1].do = "cover" /\ Does(p, "cover") /\ UNCHANGED <<evidence, home>>
  BY DEF DoCover, Does, AtRest
<1>2. PICK t \in SUBSET Clusters, n \in 1 .. 4 : t = call[p][1].todo /\ n = call[p][1].next
  BY <1>1, HeadIs, StepFields DEF Basics
<1>3. PICK left \in SUBSET Clusters : left = t \ Keys(Covering[n])
  OBVIOUS
<1>4. /\ Covering[1] = "proposed" /\ Covering[4] = "rejected" /\ Len(Covering) = 4
      /\ Covering[n] \in Statuses \ {"expired"}
  <2>1. /\ Covering[1] = "proposed" /\ Covering[2] = "accepted"
        /\ Covering[3] = "promoted" /\ Covering[4] = "rejected" /\ Len(Covering) = 4
    BY DEF Covering
  <2>2. n = 1 \/ n = 2 \/ n = 3 \/ n = 4
    BY <1>2
  <2> QED
    BY <2>1, <2>2, StatusNames
<1>5. Keys("proposed")' = Keys("proposed") /\ Keys("rejected")' = Keys("rejected")
  BY <1>1 DEF Keys, Listing, Holds
<1>6. GoOn(p, IF n = 4 THEN <<Make(left)>> ELSE <<Cover(left, n + 1)>>)
  BY <1>2, <1>3, <1>4 DEF DoCover, Keys, Last
<1>7. \A c \in Clusters : Ripe(c)' => c \in left \/ Stands(c)'
  <2>1. ASSUME NEW c \in Clusters, Ripe(c)', c \notin left PROVE Stands(c)
    <3>1. c \in t \/ Stands(c)
      BY <1>1, <1>2, <2>1 DEF Accounted, Ripe, Stands
    <3>2. CASE c \in t
      <4>1. c \in Keys(Covering[n])
        BY <1>3, <2>1, <3>2
      <4> QED
        BY <1>4, <4>1 DEF Keys, Stands, Suggested
    <3> QED
      BY <3>1, <3>2
  <2> QED
    BY <2>1
<1>8. CASE n = 4
  <2>1. Make(left) \in Step
    BY StepKinds
  <2>2. call'[p] # <<>> /\ call'[p][1] = Make(left)
    BY <1>1, <1>6, <1>8, <2>1, HeadNext
  <2>3. call'[p][1].do = "make" /\ call'[p][1].todo = left
    BY <2>2 DEF Make
  <2>4. left \cap (Keys("proposed") \cup Keys("rejected")) = {}
    <3>1. t \cap Keys("proposed") = {}
      BY <1>1, <1>2, <1>8 DEF Passed
    <3> QED
      BY <3>1, <1>3, <1>4, <1>8
  <2> QED
    BY <1>5, <1>7, <2>3, <2>4 DEF Passed, Accounted, Does, Stands
<1>9. CASE n # 4
  <2>0. n + 1 \in 1 .. 4
    BY <1>2, <1>9
  <2>1. Cover(left, n + 1) \in Step
    BY <2>0, StepKinds
  <2>2. call'[p] # <<>> /\ call'[p][1] = Cover(left, n + 1)
    BY <1>1, <1>6, <1>9, <2>1, HeadNext
  <2>3. call'[p][1].do = "cover" /\ call'[p][1].todo = left
    BY <2>2 DEF Cover
  <2>4. left \cap Keys("proposed") = {}
    <3>1. CASE n = 1
      BY <1>3, <1>4, <3>1
    <3>2. CASE n # 1
      <4>1. n > 1
        BY <1>2, <3>2
      <4> QED
        BY <1>1, <1>2, <1>3, <4>1 DEF Passed
    <3> QED
      BY <3>1, <3>2
  <2> QED
    BY <1>5, <1>7, <2>3, <2>4 DEF Passed, Accounted, Does, Stands
<1> QED
  BY <1>8, <1>9

LEMMA ProposedKeys ==
    ASSUME Basics, NEW i, NEW c, Proposes(i, c)
    PROVE  /\ Keys("proposed")' \subseteq Keys("proposed") \cup {c}
           /\ Keys("rejected")' \subseteq Keys("rejected")
           /\ Suggested(c)'
<1>1. /\ TypeOK /\ i \in Ids /\ "proposed" \in Statuses /\ "rejected" \in Statuses
      /\ "proposed" # "expired"
      /\ home' = [home EXCEPT !["proposed"][i] = [key |-> c, path |-> NoPath]]
  BY StatusNames DEF Proposes, Basics
<1>2. home'["proposed"][i] = [key |-> c, path |-> NoPath]
  BY <1>1 DEF TypeOK
<1>3. /\ \A j \in Ids : j # i => home'["proposed"][j] = home["proposed"][j]
      /\ \A j \in Ids : home'["rejected"][j] = home["rejected"][j]
  BY <1>1 DEF TypeOK
<1>4. [key |-> c, path |-> NoPath] \in Suggestion
  BY DEF Proposes, Suggestion
<1>5. Holds("proposed", i)' /\ home'["proposed"][i].key = c
  <2>1. [key |-> c, path |-> NoPath] # None
    BY <1>4, SuggestionIs
  <2>2. [key |-> c, path |-> NoPath].key = c
    OBVIOUS
  <2> QED
    BY <1>2, <2>1, <2>2 DEF Holds
<1>6. Suggested(c)'
  BY <1>1, <1>5, SuggestedAt
<1>7. Keys("proposed")' \subseteq Keys("proposed") \cup {c}
  BY <1>3, <1>5 DEF Keys, Listing, Holds
<1>8. Keys("rejected")' \subseteq Keys("rejected")
  BY <1>3 DEF Keys, Listing, Holds
<1> QED
  BY <1>6, <1>7, <1>8

LEMMA MakeStep ==
    ASSUME Basics, AtHand, NEW p \in Procs, DoMake(p), Passed(p), Accounted(p),
           \A c \in Clusters : Stands(c) => Stands(c)'
    PROVE  Passed(p)' /\ Accounted(p)'
<1>1. ~AtRest(p) /\ call[p][1].do = "make" /\ Does(p, "make")
      /\ UNCHANGED <<evidence, skills, purged>>
  BY DEF DoMake, Does, AtRest
<1>2. PICK t \in SUBSET Clusters : t = call[p][1].todo
  BY <1>1, HeadIs, StepFields DEF Basics
<1>3. CASE GoOn(p, <<>>)
  BY <1>1, <1>3, HeadNext, NotLooking
<1>4. ASSUME NEW c \in t, GoOn(p, <<Make(t \ {c})>>), Stands(c)',
             (Keys("proposed") \cup Keys("rejected"))' \subseteq
                 Keys("proposed") \cup Keys("rejected") \cup {c}
      PROVE  Passed(p)' /\ Accounted(p)'
  <2>1. PICK left \in SUBSET Clusters : left = t \ {c}
    OBVIOUS
  <2>2. Make(left) \in Step
    BY StepKinds
  <2>3. call'[p] # <<>> /\ call'[p][1] = Make(left)
    BY <1>1, <1>4, <2>1, <2>2, HeadNext
  <2>4. call'[p][1].do = "make" /\ call'[p][1].todo = left
    BY <2>3 DEF Make
  <2>5. t \cap (Keys("proposed") \cup Keys("rejected")) = {}
    BY <1>1, <1>2 DEF Passed
  <2>6. left \cap (Keys("proposed") \cup Keys("rejected"))' = {}
    BY <1>4, <2>1, <2>5
  <2>7. \A k \in Clusters : Ripe(k)' => k \in left \/ Stands(k)'
    <3>1. \A k \in Clusters : Ripe(k)' => k \in t \/ Stands(k)
      BY <1>1, <1>2 DEF Accounted, Ripe, Stands
    <3> QED
      BY <1>4, <2>1, <3>1
  <2> QED
    BY <2>4, <2>6, <2>7 DEF Passed, Accounted, Does, Stands
<1>5. ASSUME NEW c \in t, GoOn(p, <<Make(t \ {c})>>), CoveredBySkill(c), UNCHANGED <<home, made>>
      PROVE  Passed(p)' /\ Accounted(p)'
  <2>1. Stands(c)'
    BY <1>1, <1>5 DEF CoveredBySkill, Stands
  <2>2. (Keys("proposed") \cup Keys("rejected"))' = Keys("proposed") \cup Keys("rejected")
    BY <1>5 DEF Keys, Listing, Holds
  <2> QED
    BY <1>4, <1>5, <2>1, <2>2
<1>6. ASSUME NEW c \in t, GoOn(p, <<Make(t \ {c})>>), NEW i \in Ids \ made,
             home' = [home EXCEPT !["proposed"][i] = [key |-> c, path |-> NoPath]],
             made' = made \cup {i}
      PROVE  Passed(p)' /\ Accounted(p)'
  <2>1. c \notin Keys("proposed") \cup Keys("rejected")
    BY <1>1, <1>2 DEF Passed
  <2>2. Proposes(i, c)
    BY <1>1, <1>2, <1>6, <2>1 DEF Proposes
  <2>3. /\ Keys("proposed")' \subseteq Keys("proposed") \cup {c}
        /\ Keys("rejected")' \subseteq Keys("rejected")
        /\ Suggested(c)'
    BY <2>2, ProposedKeys
  <2>4. Stands(c)'
    BY <2>3 DEF Stands
  <2> QED
    BY <1>4, <1>6, <2>3, <2>4
<1>7. \/ GoOn(p, <<>>)
      \/ \E c \in t :
           /\ GoOn(p, <<Make(t \ {c})>>)
           /\ \/ CoveredBySkill(c) /\ UNCHANGED <<home, made>>
              \/ \E i \in Ids \ made :
                   /\ home' = [home EXCEPT !["proposed"][i] = [key |-> c, path |-> NoPath]]
                   /\ made' = made \cup {i}
  BY <1>2 DEF DoMake
<1> QED
  BY <1>3, <1>5, <1>6, <1>7


LEMMA SearchGoesOn ==
    ASSUME Basics, AtHand, NEW p \in Procs, DoStep(p),
           call[p][1].do \notin {"scan", "cover", "make"}
    PROVE  ~Does(p, "cover")' /\ ~Does(p, "make")'
<1>1. ~AtRest(p)
  BY NewSteps
<1>2. CASE call' = [call EXCEPT ![p] = <<>>]
  <2>1. call'[p] = <<>>
    BY <1>2 DEF Basics, TypeOK
  <2> QED
    BY <2>1 DEF Does
<1>3. CASE GoOn(p, <<>>)
  BY <1>1, <1>3, HeadNext
<1>4. ASSUME NEW x \in Step, Alike(call[p][1], x),
             GoOn(p, <<x>>) \/ \E y \in Step : GoOn(p, <<x, y>>)
      PROVE  ~Does(p, "cover")' /\ ~Does(p, "make")'
  <2>1. call'[p][1] = x
    BY <1>1, <1>4, HeadNext
  <2>2. x.do \notin {"cover", "make"}
    BY <1>4 DEF Alike
  <2> QED
    BY <2>1, <2>2 DEF Does
<1> QED
  BY <1>2, <1>3, <1>4, NewSteps

LEMMA SearchDetects ==
    ASSUME Basics, NEW p \in Procs, Shaped(p), ~AtRest(p),
           call[p][1].do \in {"scan", "cover", "make"}
    PROVE  Detects(call[p])
<1>1. ~Decides(call[p])
  BY DetectHead DEF DecideDos
<1>2. ~Deciding(p)
  BY <1>1, DecidingSide
<1>3. ~Auditing(p)
  BY Dos DEF Auditing, At
<1>4. ~Purging(p)
  BY Dos DEF Purging, At
<1> QED
  BY <1>2, <1>3, <1>4 DEF Shaped

LEMMA SearchNext ==
    ASSUME Basics, AtHand, Calm, NEW p \in Procs, DoStep(p)
    PROVE  Passed(p)' /\ Accounted(p)'
<1>1. ~AtRest(p) /\ Shaped(p) /\ Passed(p) /\ Accounted(p)
  BY NewSteps DEF Calm
<1>2. CASE call[p][1].do \notin {"scan", "cover", "make"}
  BY <1>2, SearchGoesOn, NotLooking
<1>3. CASE call[p][1].do \in {"scan", "cover", "make"}
  <2>1. Detects(call[p])
    BY <1>1, <1>3, SearchDetects
  <2>2. \A c \in Clusters : Stands(c) => Stands(c)'
    BY <1>1, <2>1, StandsOn
  <2> QED
    BY <1>1, <1>3, <2>2, WhichStep, ScanStep, CoverStep, MakeStep
<1> QED
  BY <1>2, <1>3

LEMMA SearchBeside ==
    ASSUME Basics, Calm, NEW p \in Procs, DoStep(p), NEW q \in Procs, q # p
    PROVE  Passed(q)' /\ Accounted(q)'
<1>1. call'[q] = call[q] /\ ~AtRest(p)
  BY SidesKept, NewSteps
<1>2. \A do : Does(q, do)' <=> Does(q, do)
  BY <1>1 DEF Does
<1>3. CASE ~Does(q, "cover") /\ ~Does(q, "make")
  BY <1>2, <1>3, NotLooking
<1>4. CASE Does(q, "cover") \/ Does(q, "make")
  <2>1. ~AtRest(q) /\ call[q][1].do \in {"scan", "cover", "make"}
    BY <1>4 DEF Does, AtRest
  <2>2. Detects(call[q])
    BY <2>1, SearchDetects DEF Calm
  <2>3. Decides(call[p])
    BY <1>1, <2>1, <2>2, Opposite DEF Calm
  <2>4. Deciding(p)
    BY <1>1, <2>3, OneSide, AuditingSide, PurgingSide DEF Calm, Shaped
  <2>5. Store /\ Passed(q) /\ Accounted(q)
    BY DEF Calm
  <2>6. KeysLess
    <3>1. Effects
      BY <2>4, DecidingStep
    <3> QED
      BY <2>5, <3>1, KeysKept DEF Effects
  <2>7. Passed(q)'
    BY <1>1, <2>5, <2>6, PassedKept
  <2>8. \A c \in Clusters : Stands(c) => Stands(c)' /\ UNCHANGED evidence
    BY <2>4, <2>5, StandsStill
  <2>9. ASSUME NEW c \in Clusters, Ripe(c)'
        PROVE  c \in call'[q][1].todo \/ Stands(c)'
    <3>1. UNCHANGED evidence
      BY <2>4, DecidingSide, <1>1, DetectHead, WhichStep
         DEF DecideDos, DoOpen, DoFill, DoWrite, DoMove, DoUnlink
    <3>2. Ripe(c)
      BY <2>9, <3>1 DEF Ripe
    <3>3. c \in call[q][1].todo \/ Stands(c)
      BY <1>4, <2>5, <3>2 DEF Accounted, Stands
    <3> QED
      BY <1>1, <2>8, <3>3
  <2>10. Accounted(q)'
    BY <2>9 DEF Accounted, Stands
  <2> QED
    BY <2>7, <2>10
<1> QED
  BY <1>3, <1>4

LEMMA CalmStep ==
    ASSUME Basics, AtHand, Calm, NEW p \in Procs, DoStep(p)
    PROVE  Calm'
<1>1. Apart'
  BY ApartStep DEF Calm
<1>2. Store'
  BY StoreNext
<1>3. \A q \in Procs : Shaped(q)'
  BY StepDeeds, OthersKept
<1>4. \A q \in Procs : Passed(q)' /\ Accounted(q)'
  BY SearchNext, SearchBeside
<1> QED
  BY <1>1, <1>2, <1>3, <1>4 DEF Calm


---------------------------------------------------------------------------
(* Commands that begin or end, and the world around. *)
LEMMA RestingCalm ==
    ASSUME NEW q \in Procs, AtRest(q)'
    PROVE  Shaped(q)' /\ Passed(q)' /\ Accounted(q)'
<1>1. call'[q] = <<>>
  BY DEF AtRest
<1>2. Shaped(q)'
  BY <1>1, Resting DEF Shaped
<1>3. ~Does(q, "cover")' /\ ~Does(q, "make")'
  BY <1>1 DEF Does
<1> QED
  BY <1>2, <1>3, NotLooking

LEMMA AuditingKept ==
    ASSUME NEW q \in Procs, Auditing(q), call'[q] = call[q], UNCHANGED <<home, made>>
    PROVE  Auditing(q)'
<1>1. \A x, then : At(q, x, then) => At(q, x, then)'
  BY DEF At, AtRest
<1>2. PICK ids \in SUBSET Listing("proposed"), then \in Followers :
        \/ At(q, Audit(ids), then)
        \/ \E i \in made \ ids, f \in Suggestion :
             \/ At(q, Move(i, "expired"), <<Audit(ids)>> \o then) /\ Moves(i, "expired")
             \/ /\ At(q, Write("expired", i, f),
                      <<Unlink("proposed", i)>> \o (<<Audit(ids)>> \o then))
                /\ Lands("proposed", i, f, "expired")
             \/ /\ At(q, Unlink("proposed", i), <<Audit(ids)>> \o then)
                /\ Leaves("proposed", i, "expired")
  BY DEF Auditing, Followers
<1>3. ids \in SUBSET Listing("proposed")' /\ made' = made
  BY DEF Listing, Holds
<1>4. CASE At(q, Audit(ids), then)
  BY <1>1, <1>3, <1>4 DEF Auditing, Followers
<1>5. ASSUME NEW i \in made \ ids
      PROVE  /\ Moves(i, "expired") => Moves(i, "expired")'
             /\ \A f : Lands("proposed", i, f, "expired") => Lands("proposed", i, f, "expired")'
             /\ Leaves("proposed", i, "expired") => Leaves("proposed", i, "expired")'
  BY StatusNames, FactsKept
<1>6. ASSUME NEW i \in made \ ids, NEW f \in Suggestion,
             \/ At(q, Move(i, "expired"), <<Audit(ids)>> \o then) /\ Moves(i, "expired")
             \/ /\ At(q, Write("expired", i, f),
                      <<Unlink("proposed", i)>> \o (<<Audit(ids)>> \o then))
                /\ Lands("proposed", i, f, "expired")
             \/ /\ At(q, Unlink("proposed", i), <<Audit(ids)>> \o then)
                /\ Leaves("proposed", i, "expired")
      PROVE  Auditing(q)'
  <2>1. i \in made' \ ids
    BY <1>3
  <2>2. \/ At(q, Move(i, "expired"), <<Audit(ids)>> \o then)' /\ Moves(i, "expired")'
        \/ /\ At(q, Write("expired", i, f),
                 <<Unlink("proposed", i)>> \o (<<Audit(ids)>> \o then))'
           /\ Lands("proposed", i, f, "expired")'
        \/ /\ At(q, Unlink("proposed", i), <<Audit(ids)>> \o then)'
           /\ Leaves("proposed", i, "expired")'
    BY <1>1, <1>5, <1>6
  <2> QED
    BY <1>3, <2>1, <2>2 DEF Auditing, Followers
<1> QED
  BY <1>2, <1>4, <1>6

LEMMA BesideCalm ==
    ASSUME Basics, Calm, NEW q \in Procs, call'[q] = call[q],
           UNCHANGED <<evidence, home, skills, made, purged>>,
           \A r \in Procs : Does(r, "fill") => call'[r] = call[r]
    PROVE  Shaped(q)' /\ Passed(q)' /\ Accounted(q)'
<1>1. Shaped(q) /\ Passed(q) /\ Accounted(q)
  BY DEF Calm
<1>2. Shaped(q)'
  <2>1. CASE Detects(call[q])
    BY <2>1 DEF Shaped
  <2>2. CASE Deciding(q)
    BY <2>2, DecidingKept DEF Shaped
  <2>3. CASE Auditing(q)
    BY <2>3, AuditingKept DEF Shaped
  <2>4. CASE Purging(q)
    BY <2>4 DEF Shaped, Purging, At, AtRest
  <2> QED
    BY <1>1, <2>1, <2>2, <2>3, <2>4 DEF Shaped
<1>3. Keys("proposed")' = Keys("proposed") /\ Keys("rejected")' = Keys("rejected")
  BY DEF Keys, Listing, Holds
<1>4. Passed(q)'
  BY <1>1, <1>3, PassedKept DEF KeysLess
<1>5. ASSUME NEW c, Stands(c) PROVE Stands(c)'
  <2>1. Suggested(c) => Suggested(c)'
    BY DEF Suggested, Listing, Holds
  <2>2. Filling(c) => Filling(c)'
    BY DEF Filling, Does
  <2>3. CoveredBySkill(c) => CoveredBySkill(c)'
    BY DEF CoveredBySkill
  <2> QED
    BY <1>5, <2>1, <2>2, <2>3 DEF Stands
<1>6. Accounted(q)'
  <2>1. \A c \in Clusters : Ripe(c)' <=> Ripe(c)
    BY DEF Ripe
  <2>2. \A do : Does(q, do)' <=> Does(q, do)
    BY DEF Does
  <2> QED
    BY <1>1, <1>5, <2>1, <2>2 DEF Accounted, Stands
<1> QED
  BY <1>2, <1>4, <1>6

(* What a command sets out to do. *)
LEMMA CommandShape ==
    ASSUME Basics, NEW p \in Procs, Command(p)
    PROVE  Shaped(p)'
<1>1. ASSUME NEW then \in Followers, Suggest(p, then) PROVE Shaped(p)'
  <2>1. PICK ids \in SUBSET Listing("proposed") : ids = Listing("proposed") \cap due
    OBVIOUS
  <2>2. ids \in SUBSET Ids
    BY DEF Listing
  <2>3. Audit(ids) \in Step /\ then \in Seq(Step)
    BY <2>2, StepKinds, FollowerIs
  <2>4. call'[p] = <<Audit(ids)>> \o then
    BY <1>1, <2>1 DEF Suggest, Enter, Basics, TypeOK
  <2>5. At(p, Audit(ids), then)'
    BY <2>3, <2>4, AtGiven
  <2>6. ids \in SUBSET Listing("proposed")'
    BY <1>1 DEF Suggest, Listing, Holds
  <2> QED
    BY <2>5, <2>6 DEF Auditing, Followers, Shaped
<1>2. ASSUME NEW i \in Ids, Homes(i) # {}, UNCHANGED <<home, made>>,
             NEW f \in Suggestion, NEW to \in {"promoted", "rejected"},
             Recorded(Found(i), i, f, to),
             \/ to # "promoted" /\ call'[p] = <<Write(Found(i), i, f), Move(i, to)>>
             \/ /\ f.path \in Targets
                /\ call'[p] = <<OpenSkill(Chosen(f)), Write(Found(i), i, f), Move(i, to)>>
      PROVE  Shaped(p)'
  <2>1. PICK st \in Statuses : st = Found(i)
    BY <1>2, FoundIs
  <2>2. i \in made
    BY <1>2, FoundFile
  <2>3. Write(st, i, f) \in Step /\ Move(i, to) \in Step
    BY <1>2, StepKinds, StatusNames
  <2>4. Recorded(st, i, f, to)'
    BY <1>2, <2>1, FactsKept
  <2>5. CASE to # "promoted" /\ call'[p] = <<Write(st, i, f), Move(i, to)>>
    <3>1. At(p, Write(st, i, f), <<Move(i, to)>>)'
      BY <2>3, <2>5, AtGiven
    <3> QED
      BY <1>2, <2>2, <2>4, <2>5, <3>1 DEF Deciding, Shaped
  <2>6. CASE /\ f.path \in Targets
             /\ call'[p] = <<OpenSkill(Chosen(f)), Write(st, i, f), Move(i, to)>>
    <3>1. PICK k \in Skill : k = Chosen(f)
      BY <2>6, SuggestionIs DEF Skill, Chosen
    <3>2. OpenSkill(k) \in Step
      BY StepKinds
    <3>3. At(p, OpenSkill(k), <<Write(st, i, f), Move(i, to)>>)'
      BY <2>3, <2>6, <3>1, <3>2, AtGiven
    <3>4. At(p, OpenSkill(Chosen(f)), <<Write(st, i, f), Move(i, to)>>)'
      BY <3>1, <3>3 DEF Chosen
    <3> QED
      BY <1>2, <2>2, <2>4, <2>6, <3>4 DEF Deciding, Shaped
  <2> QED
    BY <1>2, <2>1, <2>5, <2>6
<1>3. ASSUME NEW i \in Ids, Reject(p, i) PROVE Shaped(p)'
  <2>1. Homes(i) # {} /\ UNCHANGED <<home, made>>
    BY <1>3 DEF Reject
  <2>2. Found(i) = "proposed" /\ home[Found(i)][i] \in Suggestion
        /\ home[Found(i)][i].key \in Clusters
    BY <1>3, <2>1, FoundFile DEF Reject
  <2>3. call'[p] = <<Write(Found(i), i, home[Found(i)][i]), Move(i, "rejected")>>
    BY <1>3 DEF Reject, Enter, Basics, TypeOK
  <2>4. Recorded(Found(i), i, home[Found(i)][i], "rejected")
    BY <2>1, <2>2 DEF Recorded
  <2> QED
    BY <1>2, <2>1, <2>2, <2>3, <2>4
<1>4. ASSUME NEW i \in Ids, NEW to \in Targets, Promote(p, i, to) PROVE Shaped(p)'
  <2>1. Homes(i) # {} /\ UNCHANGED <<home, made>>
    BY <1>4 DEF Promote
  <2>2. PICK g \in Suggestion : g = home[Found(i)][i] /\ g.key \in Clusters
    BY <2>1, FoundFile
  <2>3. PICK f \in Suggestion : f = [g EXCEPT !.path = to]
    BY <2>1, <2>2, FoundFile
  <2>4. f.path = to /\ f.key = g.key
    BY <2>2, <2>3 DEF Suggestion
  <2>5. call'[p] = <<OpenSkill(Chosen(f)), Write(Found(i), i, f), Move(i, "promoted")>>
    BY <1>4, <2>2, <2>3, <2>4 DEF Promote, Promotion, Enter, Basics, TypeOK, Chosen
  <2>6. Recorded(Found(i), i, f, "promoted")
    BY <2>1, <2>2, <2>4 DEF Recorded
  <2> QED
    BY <1>2, <2>1, <2>2, <2>4, <2>5, <2>6
<1>5. ASSUME NEW s \in Sessions, Import(p, s) PROVE Shaped(p)'
  <2>1. call'[p] = <<Archive(s), Scan>>
    BY <1>5 DEF Import, Start, Enter, Basics, TypeOK
  <2>2. \A n \in DOMAIN <<Archive(s), Scan>> : n = 1 \/ n = 2
    OBVIOUS
  <2>3. Detects(<<Archive(s), Scan>>)
    BY <2>2, Dos DEF Detects, OnlyDo
  <2> QED
    BY <2>1, <2>3 DEF Shaped
<1>6. ASSUME NEW s \in Sessions, NEW d \in Domains, Run(p, s, d) PROVE Shaped(p)'
  <2>1. call'[p] = <<Record(<<d, NoTags>>, s), Archive(s)>>
    BY <1>6 DEF Run, Start, Enter, Basics, TypeOK
  <2> DEFINE r == Record(<<d, NoTags>>, s)
  <2>0. r.do = "record"
    BY Dos
  <2> HIDE DEF r
  <2>2. \A n \in DOMAIN <<r, Archive(s)>> : n = 1 \/ n = 2
    OBVIOUS
  <2>3. Detects(<<r, Archive(s)>>)
    BY <2>0, <2>2, Dos DEF Detects, OnlyDo
  <2> QED
    BY <2>1, <2>3 DEF Shaped, r
<1> QED
  BY <1>1, <1>3, <1>4, <1>5, <1>6 DEF Command, Followers


LEMMA CalmCommand ==
    ASSUME Basics, Calm, NEW p \in Procs, Command(p), ~disturbed'
    PROVE  Calm'
<1>1. PICK steps \in Seq(Step) :
        /\ Enter(p, steps)
        /\ \A n \in DOMAIN steps : steps[n].do \notin {"cover", "make"}
        /\ UNCHANGED <<evidence, home, due, skills, made, purged>>
  BY Entered
<1>2. Apart'
  BY <1>1, ApartEnter DEF Calm
<1>3. Store'
  BY <1>1, StoreUntouched DEF Calm, Untouched
<1>4. AtRest(p) /\ call' = [call EXCEPT ![p] = steps]
  BY <1>1 DEF Enter
<1>5. call'[p] = steps /\ \A q \in Procs : q # p => call'[q] = call[q]
  BY <1>4 DEF Basics, TypeOK
<1>6. Shaped(p)' /\ Passed(p)' /\ Accounted(p)'
  <2>1. steps # <<>> => 1 \in DOMAIN steps
    BY LenProperties, EmptySeq
  <2>2. ~Does(p, "cover")' /\ ~Does(p, "make")'
    BY <1>1, <1>5, <2>1 DEF Does
  <2> QED
    BY <2>2, CommandShape, NotLooking
<1>7. \A r \in Procs : Does(r, "fill") => call'[r] = call[r]
  BY <1>4, <1>5 DEF Does, AtRest
<1>8. \A q \in Procs : q # p => Shaped(q)' /\ Passed(q)' /\ Accounted(q)'
  BY <1>1, <1>5, <1>7, BesideCalm
<1> QED
  BY <1>2, <1>3, <1>6, <1>8 DEF Calm

(* A kill beside another command counts as a disturbance. *)
LEMMA CalmKill ==
    ASSUME Basics, Calm, NEW p \in Procs, Kill(p), ~disturbed'
    PROVE  Calm'
<1>1. /\ call' = [call EXCEPT ![p] = <<>>]
      /\ \A q \in Procs \ {p} : AtRest(q)
      /\ Untouched
  BY DEF Kill, Untouched
<1>2. \A q \in Procs : AtRest(q)'
  BY <1>1 DEF AtRest, Basics, TypeOK
<1>3. Apart'
  BY <1>1, ApartCleared DEF Calm
<1>4. Store'
  BY <1>1, StoreUntouched DEF Calm
<1> QED
  BY <1>2, <1>3, <1>4, RestingCalm DEF Calm

LEMMA CalmAround ==
    ASSUME Basics, Calm, Environment \/ UNCHANGED vars, ~disturbed'
    PROVE  Calm'
<1>1. UNCHANGED <<home, made, purged, call>>
  BY DEF Environment, Publish, Forget, Packs, Expire, Meanwhile, vars, history
<1>2. Apart'
  BY <1>1 DEF Calm, Apart, AtRest
<1>3. Store'
  BY <1>1, StoreUntouched DEF Calm, Untouched
<1>4. CASE Meanwhile
  <2>1. \A q \in Procs : AtRest(q)'
    BY <1>1, <1>4 DEF Meanwhile, AtRest
  <2> QED
    BY <1>2, <1>3, <2>1, RestingCalm DEF Calm
<1>5. CASE UNCHANGED <<evidence, skills>>
  <2>1. \A q \in Procs : Shaped(q)' /\ Passed(q)' /\ Accounted(q)'
    BY <1>1, <1>5, BesideCalm
  <2> QED
    BY <1>2, <1>3, <2>1 DEF Calm
<1>6. Meanwhile \/ UNCHANGED <<evidence, skills>>
  BY DEF Environment, Publish, Forget, Packs, Expire, vars
<1> QED
  BY <1>4, <1>5, <1>6

LEMMA CalmInit == Init => Calm
<1> SUFFICES ASSUME Init PROVE Calm
  OBVIOUS
<1>1. \A q \in Procs : AtRest(q) /\ call[q] = <<>>
  BY DEF Init, AtRest
<1>2. \A st \in Statuses, i \in Ids : ~Holds(st, i)
  BY DEF Init, Holds
<1>3. made = {} /\ purged = {}
  BY DEF Init
<1>4. Apart
  BY <1>1 DEF Apart
<1>5. Store
  BY <1>2, <1>3, StatusNames DEF Store, Agree, Kept, Once, Open
<1>6. \A q \in Procs : Shaped(q) /\ Passed(q) /\ Accounted(q)
  BY <1>1, Resting DEF Shaped, Passed, Accounted, Does
<1> QED
  BY <1>4, <1>5, <1>6 DEF Calm

(* What has been disturbed stays so. *)
LEMMA DisturbedStays ==
    ASSUME Basics, [Next]_vars, disturbed
    PROVE  disturbed'
<1>1. ASSUME NEW p \in Procs, Command(p) PROVE disturbed'
  BY <1>1, Entered DEF Enter
<1>2. ASSUME NEW p \in Procs, DoStep(p) PROVE disturbed'
  BY <1>2 DEF DoStep, DoRecord, DoArchive, DoScan, DoCover, DoMake, DoAudit, DoList, DoPurge,
     DoOpen, DoFill, DoWrite, DoMove, DoUnlink, history
<1>3. ASSUME NEW p \in Procs, Kill(p) PROVE disturbed'
  BY <1>3 DEF Kill
<1>4. CASE Environment
  BY <1>4 DEF Environment, Publish, Forget, Packs, Expire, Meanwhile, history
<1>5. CASE UNCHANGED vars
  BY <1>5 DEF vars, history
<1> QED
  BY <1>1, <1>2, <1>3, <1>4, <1>5 DEF Next

LEMMA InvInit == Init => IInv
BY BasicsInit, AtHandInit, CalmInit DEF IInv

LEMMA InvNext == IInv /\ [Next]_vars => IInv'
<1> SUFFICES ASSUME IInv, [Next]_vars PROVE IInv'
  OBVIOUS
<1>1. Basics /\ AtHand
  BY DEF IInv
<1>2. Basics' /\ AtHand'
  BY <1>1, BasicsNext, AtHandNext
<1>3. ASSUME ~disturbed' PROVE Calm'
  <2>1. Calm
    BY <1>1, <1>3, DisturbedStays DEF IInv
  <2>2. ASSUME NEW p \in Procs, Command(p) \/ DoStep(p) \/ Kill(p) PROVE Calm'
    BY <1>1, <1>3, <2>1, <2>2, CalmCommand, CalmStep, CalmKill
  <2>3. CASE Environment \/ UNCHANGED vars
    BY <1>1, <1>3, <2>1, <2>3, CalmAround
  <2> QED
    BY <2>2, <2>3 DEF Next
<1> QED
  BY <1>2, <1>3 DEF IInv

LEMMA InvAlways == Spec => []IInv
BY InvInit, InvNext, PTL DEF Spec


---------------------------------------------------------------------------
(* Every command leaves the calls, files and records well formed, whatever *)
(* runs beside it, is killed or is changed around it.                      *)
THEOREM AlwaysTyped == Spec => []TypeOK
<1>1. IInv => TypeOK
  BY DEF IInv, Basics
<1> QED
  BY <1>1, InvAlways, PTL

(* move_to_status writes the new file before it unlinks the old one: killed *)
(* in between or not, a suggestion is in some directory until it is purged. *)
THEOREM NeverLostAlways == Spec => []NeverLost
<1>1. IInv => NeverLost
  BY DEF IInv, Calm, Store, Kept, NeverLost
<1> QED
  BY <1>1, InvAlways, PTL

(* detect_and_write proposes no pattern that is proposed or was rejected,   *)
(* though it lists one directory after the other while a decision moves     *)
(* the file between them.                                                   *)
THEOREM OneOpenAlways == Spec => []OneOpen
<1>1. IInv => OneOpen
  <2>1. "proposed" \in Open /\ "rejected" \in Open /\ Open = {"proposed", "rejected"}
    BY DEF Open
  <2>2. \A i : i \in Listing("proposed") \cup Listing("rejected") => i \in Ids
    BY DEF Listing
  <2> QED
    BY <2>1, <2>2 DEF IInv, Calm, Store, Once, OneOpen
<1> QED
  BY <1>1, InvAlways, PTL

LEMMA PromotedKept ==
    ASSUME IInv, [Next]_vars, ~disturbed', NEW i \in Ids
    PROVE  /\ Holds("promoted", i) => home'["promoted"][i] # None
           /\ home'["promoted"][i] # home["promoted"][i] => Named(home'["promoted"][i])
<1> DEFINE Good == \/ home'["promoted"][i] = home["promoted"][i]
                   \/ home'["promoted"][i] # None /\ Named(home'["promoted"][i])
<1>1. Basics /\ AtHand /\ Calm /\ TypeOK
  BY DisturbedStays DEF IInv, Calm, Basics
<1>2. "promoted" \in Statuses
  BY StatusNames
<1>3. ASSUME NEW st \in Statuses, NEW j \in Ids, NEW f, home' = [home EXCEPT ![st][j] = f],
             st = "promoted" => f # None /\ Named(f)
      PROVE  Good
  <2>1. CASE st = "promoted" /\ j = i
    <3>1. home'["promoted"][i] = f
      BY <1>1, <1>2, <1>3, <2>1 DEF TypeOK
    <3> QED
      BY <1>3, <2>1, <3>1 DEF Named, Chosen
  <2>2. CASE ~(st = "promoted" /\ j = i)
    BY <1>1, <1>2, <1>3, <2>2 DEF TypeOK
  <2> QED
    BY <2>1, <2>2
<1>4. ASSUME NEW p \in Procs, DoStep(p) PROVE Good
  <2>1. Deeds
    BY <1>1, <1>4, StepDeeds
  <2>2. ASSUME NEW j, NEW c, Proposes(j, c) PROVE Good
    <3>1. /\ "proposed" \in Statuses /\ j \in Ids
          /\ home' = [home EXCEPT !["proposed"][j] = [key |-> c, path |-> NoPath]]
      BY <2>2, StatusNames DEF Proposes
    <3> HIDE DEF Good
    <3> QED
      BY <1>3, <3>1
  <2>3. ASSUME NEW st, NEW j, NEW f, Puts(st, j, f) PROVE Good
    <3>1. /\ st \in Statuses /\ j \in Ids /\ home' = [home EXCEPT ![st][j] = f]
          /\ st = "promoted" => Named(f)
      BY <1>1, <2>3 DEF Puts, TypeOK
    <3>2. f # None
      BY <2>3, SuggestionIs DEF Puts
    <3> HIDE DEF Good
    <3> QED
      BY <1>3, <3>1, <3>2
  <2>4. ASSUME NEW st, NEW j, NEW to, Drops(st, j, to) PROVE Good
    <3>1. /\ st \in Statuses /\ j \in Ids /\ st # "promoted"
          /\ home' = [home EXCEPT ![st][j] = None]
      BY <1>1, <2>4 DEF Drops, TypeOK
    <3> HIDE DEF Good
    <3> QED
      BY <1>3, <3>1
  <2>5. ASSUME NEW j, Clears(j) PROVE Good
    <3>1. "expired" \in Statuses /\ j \in Ids /\ home' = [home EXCEPT !["expired"][j] = None]
      BY <2>5, StatusNames DEF Clears
    <3> HIDE DEF Good
    <3> QED
      BY <1>3, <3>1
  <2> QED
    BY <2>1, <2>2, <2>3, <2>4, <2>5 DEF Deeds, Untouched
<1>5. UNCHANGED home \/ \E p \in Procs : DoStep(p)
  <2>1. ASSUME NEW p \in Procs, Command(p) PROVE UNCHANGED home
    BY <1>1, <2>1, Entered
  <2>2. ASSUME NEW p \in Procs, Kill(p) PROVE UNCHANGED home
    BY <2>2 DEF Kill
  <2>3. Environment \/ UNCHANGED vars => UNCHANGED home
    BY DEF Environment, Publish, Forget, Packs, Expire, vars
  <2> QED
    BY <2>1, <2>2, <2>3 DEF Next
<1>6. Good
  BY <1>4, <1>5
<1> QED
  BY <1>6 DEF Holds

(* promote names a SKILL.md in the suggestion once it is written, and moves *)
(* the file then: no later write, move, audit or purge takes a promoted     *)
(* suggestion away, and what is written in its place - a promotion to       *)
(* another pack - names a SKILL.md that is there.                           *)
THEOREM PromotionStandsAlways == Spec => PromotionStands
<1> DEFINE Stand == ~disturbed' => \A i \in Ids :
         /\ Holds("promoted", i) => home'["promoted"][i] # None
         /\ home'["promoted"][i] # home["promoted"][i] =>
               <<home'["promoted"][i].path, home'["promoted"][i].key>> \in skills
<1>1. IInv /\ [Next]_vars => Stand
  BY PromotedKept DEF Named, Chosen
<1>2. Spec => [][Stand]_vars
  BY <1>1, InvAlways, PTL DEF Spec
<1> QED
  BY <1>2, PTL DEF PromotionStands, Stand

(* A detection through the directories and patterns passes over no pattern  *)
(* that enough sessions show and that nothing stands for, though a decision *)
(* beside it moves the suggestions and rewrites the skills it looks at.     *)
THEOREM NothingRipeIsMissedEver == Spec => NothingRipeIsMissed
<1> DEFINE Missed == \A p \in Procs :
         ~disturbed' /\ Does(p, "make") /\ call[p][1].todo = {} /\ DoMake(p) =>
             \A c \in Clusters :
               Cardinality({s \in Sessions : <<c, s>> \in evidence}) >= Threshold =>
                 \/ CoveredBySkill(c) \/ \E q \in Procs : Does(q, "fill")
                 \/ \E st \in Statuses \ {"expired"} : \E i \in Listing(st) : home[st][i].key = c
<1>1. IInv /\ [Next]_vars => Missed
  <2> SUFFICES ASSUME IInv, [Next]_vars, NEW p \in Procs, ~disturbed', Does(p, "make"),
                      call[p][1].todo = {}, NEW c \in Clusters, Ripe(c)
               PROVE  \/ CoveredBySkill(c) \/ \E q \in Procs : Does(q, "fill")
                      \/ \E st \in Statuses \ {"expired"} : \E i \in Listing(st) : home[st][i].key = c
    BY DEF Ripe
  <2>1. Accounted(p)
    BY DisturbedStays DEF IInv, Calm
  <2>2. CoveredBySkill(c) \/ Filling(c) \/ Suggested(c)
    BY <2>1 DEF Accounted
  <2> QED
    BY <2>2 DEF Filling, Suggested
<1>2. Spec => [][Missed]_vars
  BY <1>1, InvAlways, PTL DEF Spec
<1> QED
  BY <1>2, PTL DEF NothingRipeIsMissed, Missed
=============================================================================
