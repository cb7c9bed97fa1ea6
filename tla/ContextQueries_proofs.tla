------------------------ MODULE ContextQueries_proofs ------------------------
(***************************************************************************)
(* Proofs about ContextQueries, for any base of entries and records, any   *)
(* kinds, budget and limits: the compiled items keep their budget by       *)
(* rank, garage recommend never needs its fallback, and what is            *)
(* recommended, advised, told of the board and extracted is what should be.*)
(***************************************************************************)
EXTENDS ContextQueries, FiniteSetTheorems, WellFoundedInduction, TLAPS

(* A section while it is compiled, and when it is. *)
SectionAsk ==
    [about : {"section"}, at : Nat \ {0}, left : SUBSET Items, bytes : 0 .. Budget,
     taken : SUBSET Items, truncated : SUBSET Items]

(* What is out, neither taken nor to come, ranks no higher than what is to *)
(* come: so the next item ranks highest of those not yet taken.            *)
LeftIsNext ==
    \A x \in Items \ (ask.taken \cup ask.left), z \in ask.left :
        SameSection(x, z) => Rank(z) >= Rank(x)

IInv ==
    /\ base \in Bases
    /\ ask.about = "section" => ask \in SectionAsk /\ LeftIsNext /\ RankKept

---------------------------------------------------------------------------
(* Sums.  SizeOf takes the elements of a set in the order CHOOSE gives     *)
(* them.  That its recursion has a solution, and that the order does not   *)
(* matter, follows from what a smallest counterexample would be.           *)

Chosen(s) == CHOOSE x \in s : TRUE

Sums(f, S) ==
    f = [s \in SUBSET S |-> IF s = {} THEN 0 ELSE Chosen(s).size + f[s \ {Chosen(s)}]]

LEMMA SizeIsSum == \A S : SizeOf(S) = (CHOOSE f : Sums(f, S))[S]
BY DEF SizeOf, MapThenSumSet, MapThenFoldSet, Sums, Chosen

LEMMA ChosenIsIn == \A s : s # {} => Chosen(s) \in s
BY DEF Chosen

(* A set of numbers has a least one. *)
LEMMA LeastNumber ==
    ASSUME NEW T, T \subseteq Nat, T # {}
    PROVE  \E n \in T : \A m \in T : n <= m
<1> DEFINE R == {mn \in Nat \X Nat : mn[1] < mn[2]}
<1>1. IsWellFoundedOn(R, Nat)
  BY NatLessThanWellFounded DEF OpToRel
<1> HIDE DEF R
<1>2. PICK n \in T : \A m \in T : ~ (<<m, n>> \in R)
  BY <1>1, WFMin
<1>3. \A m \in T : ~ (m < n)
  BY <1>2 DEF R
<1> QED
  BY <1>2, <1>3

(* Induction on the subsets of a finite set: of those that are bad one is  *)
(* of the least size.                                                      *)
LEMMA LeastSet ==
    ASSUME NEW W, IsFiniteSet(W), NEW Bad, Bad \subseteq SUBSET W, Bad # {}
    PROVE  \E S \in Bad : \A x \in S : \A U \in SUBSET (S \ {x}) : U \notin Bad
<1> DEFINE Sizes == {Cardinality(U) : U \in Bad}
<1>1. \A U \in SUBSET W : IsFiniteSet(U) /\ Cardinality(U) \in Nat
  BY FS_Subset, FS_CardinalityType
<1>2. Sizes \subseteq Nat /\ Sizes # {}
  BY <1>1
<1>3. PICK n \in Sizes : \A m \in Sizes : n <= m
  <2> HIDE DEF Sizes
  <2> QED BY <1>2, LeastNumber
<1>4. PICK S \in Bad : n = Cardinality(S)
  BY <1>3
<1>5. ASSUME NEW x \in S, NEW U \in SUBSET (S \ {x}), U \in Bad PROVE FALSE
  <2>1. IsFiniteSet(S \ {x}) /\ Cardinality(S \ {x}) = Cardinality(S) - 1
    BY <1>1, FS_RemoveElement
  <2>2. Cardinality(U) <= Cardinality(S \ {x})
    BY <2>1, FS_Subset
  <2>3. Cardinality(U) \in Sizes /\ Cardinality(U) \in Nat /\ Cardinality(S) \in Nat
    BY <1>1, <1>5
  <2>4. n <= Cardinality(U)
    BY <1>3, <2>3
  <2> QED BY <1>4, <2>1, <2>2, <2>3, <2>4
<1> QED BY <1>5

LEMMA SumsAgree ==
    ASSUME NEW S, NEW T, IsFiniteSet(S), NEW f, NEW g, Sums(f, S), Sums(g, T),
           NEW U \in SUBSET S, U \in SUBSET T
    PROVE  f[U] = g[U]
<1> DEFINE Bad == {V \in SUBSET S : V \in SUBSET T /\ f[V] # g[V]}
<1>1. ASSUME U \in Bad PROVE FALSE
  <2>1. PICK V \in Bad : \A x \in V : \A X \in SUBSET (V \ {x}) : X \notin Bad
    <3>1. Bad \subseteq SUBSET S /\ Bad # {}
      BY <1>1
    <3> HIDE DEF Bad
    <3> QED BY <3>1, LeastSet
  <2>2. V \in SUBSET S /\ V \in SUBSET T /\ f[V] # g[V]
    BY <2>1
  <2>3. /\ f[V] = IF V = {} THEN 0 ELSE Chosen(V).size + f[V \ {Chosen(V)}]
        /\ g[V] = IF V = {} THEN 0 ELSE Chosen(V).size + g[V \ {Chosen(V)}]
    BY <2>2 DEF Sums
  <2>4. CASE V = {}
    BY <2>2, <2>3, <2>4
  <2>5. CASE V # {}
    <3>1. Chosen(V) \in V
      BY <2>5, ChosenIsIn
    <3>2. f[V \ {Chosen(V)}] = g[V \ {Chosen(V)}]
      BY <2>1, <2>2, <3>1
    <3> QED BY <2>2, <2>3, <2>5, <3>2
  <2> QED BY <2>4, <2>5
<1> QED BY <1>1

LEMMA SumsExist ==
    ASSUME NEW W, IsFiniteSet(W)
    PROVE  \E f : Sums(f, W)
<1> DEFINE Bad == {V \in SUBSET W : \A f : ~Sums(f, V)}
<1>1. ASSUME W \in Bad PROVE FALSE
  <2>1. PICK S \in Bad : \A x \in S : \A X \in SUBSET (S \ {x}) : X \notin Bad
    <3>1. Bad \subseteq SUBSET W /\ Bad # {}
      BY <1>1
    <3> HIDE DEF Bad
    <3> QED BY <3>1, LeastSet
  <2> DEFINE f == [s \in SUBSET S |-> IF s = {} THEN 0
                                      ELSE Chosen(s).size + SizeOf(s \ {Chosen(s)})]
  <2>2. \A s \in SUBSET S :
           f[s] = IF s = {} THEN 0 ELSE Chosen(s).size + SizeOf(s \ {Chosen(s)})
    OBVIOUS
  <2>3. ASSUME NEW s \in SUBSET S, s # {}
        PROVE  f[s \ {Chosen(s)}] = SizeOf(s \ {Chosen(s)})
    <3> DEFINE U == s \ {Chosen(s)}
    <3>1. Chosen(s) \in s /\ U \in SUBSET (S \ {Chosen(s)}) /\ U \in SUBSET S
      BY <2>3, ChosenIsIn
    <3>2. U \notin Bad /\ U \in SUBSET W
      BY <2>1, <3>1
    <3>3. PICK g : g = (CHOOSE h : Sums(h, U)) /\ Sums(g, U)
      BY <3>2
    <3>4. SizeOf(U) = g[U] /\ g[U] = IF U = {} THEN 0 ELSE Chosen(U).size + g[U \ {Chosen(U)}]
      BY <3>3, SizeIsSum DEF Sums
    <3>5. f[U] = IF U = {} THEN 0 ELSE Chosen(U).size + SizeOf(U \ {Chosen(U)})
      BY <2>2, <3>1
    <3>6. CASE U # {}
      <4> DEFINE V == U \ {Chosen(U)}
      <4>1. V \in SUBSET (S \ {Chosen(s)}) /\ V \in SUBSET U /\ V \in SUBSET W
        BY <3>1
      <4>2. V \notin Bad
        BY <2>1, <3>1, <4>1
      <4>3. PICK h : h = (CHOOSE j : Sums(j, V)) /\ Sums(h, V)
        BY <4>1, <4>2
      <4>4. IsFiniteSet(U)
        BY <3>2, FS_Subset
      <4> HIDE DEF V, U, f
      <4>5. g[V] = h[V]
        BY <3>3, <4>1, <4>3, <4>4, SumsAgree
      <4>6. SizeOf(V) = g[V]
        BY <4>3, <4>5, SizeIsSum
      <4> QED BY <3>4, <3>5, <3>6, <4>6 DEF V, U
    <3> QED BY <3>4, <3>5, <3>6
  <2>4. \A s \in SUBSET S :
           f[s] = IF s = {} THEN 0 ELSE Chosen(s).size + f[s \ {Chosen(s)}]
    <3> HIDE DEF f
    <3> QED BY <2>2, <2>3
  <2>5. f = [s \in SUBSET S |-> f[s]]
    OBVIOUS
  <2> HIDE DEF f
  <2>6. Sums(f, S)
    BY <2>4, <2>5 DEF Sums
  <2> QED BY <2>1, <2>6
<1> QED BY <1>1

(* The definition of the sum, unfolded once.                               *)
LEMMA SizeStep ==
    ASSUME NEW S, IsFiniteSet(S)
    PROVE  SizeOf(S) = IF S = {} THEN 0 ELSE Chosen(S).size + SizeOf(S \ {Chosen(S)})
<1>1. PICK f : f = (CHOOSE h : Sums(h, S)) /\ Sums(f, S)
  BY SumsExist
<1>2. SizeOf(S) = f[S] /\ f[S] = IF S = {} THEN 0 ELSE Chosen(S).size + f[S \ {Chosen(S)}]
  BY <1>1, SizeIsSum DEF Sums
<1>3. CASE S # {}
  <2> DEFINE U == S \ {Chosen(S)}
  <2>1. IsFiniteSet(U) /\ U \in SUBSET S
    BY FS_Subset
  <2>2. PICK g : g = (CHOOSE h : Sums(h, U)) /\ Sums(g, U)
    BY <2>1, SumsExist
  <2> HIDE DEF U
  <2>3. g[U] = f[U]
    BY <1>1, <2>1, <2>2, SumsAgree
  <2>4. SizeOf(U) = f[U]
    BY <2>2, <2>3, SizeIsSum
  <2> QED BY <1>2, <1>3, <2>4 DEF U
<1> QED BY <1>2, <1>3

LEMMA SizeIsNumber ==
    ASSUME NEW W, IsFiniteSet(W), \A x \in W : x.size \in Nat
    PROVE  SizeOf(W) \in Nat
<1> DEFINE Bad == {V \in SUBSET W : SizeOf(V) \notin Nat}
<1>1. ASSUME W \in Bad PROVE FALSE
  <2>1. PICK S \in Bad : \A x \in S : \A X \in SUBSET (S \ {x}) : X \notin Bad
    <3>1. Bad \subseteq SUBSET W /\ Bad # {}
      BY <1>1
    <3> HIDE DEF Bad
    <3> QED BY <3>1, LeastSet
  <2>2. SizeOf(S) = IF S = {} THEN 0 ELSE Chosen(S).size + SizeOf(S \ {Chosen(S)})
    BY FS_Subset, SizeStep
  <2>3. CASE S # {}
    <3>1. Chosen(S) \in S
      BY <2>3, ChosenIsIn
    <3>2. SizeOf(S \ {Chosen(S)}) \in Nat
      BY <2>1, <3>1
    <3>3. Chosen(S).size \in Nat
      BY <3>1
    <3> QED BY <2>1, <2>2, <2>3, <3>2, <3>3
  <2> QED BY <2>1, <2>2, <2>3
<1> QED BY <1>1

(* The order in which a sum is taken does not matter. *)
LEMMA SizeWithout ==
    ASSUME NEW W, IsFiniteSet(W), \A x \in W : x.size \in Nat, NEW x \in W
    PROVE  SizeOf(W) = x.size + SizeOf(W \ {x})
<1> DEFINE Bad == {V \in SUBSET W : \E y \in V : SizeOf(V) # y.size + SizeOf(V \ {y})}
<1>1. ASSUME W \in Bad PROVE FALSE
  <2>1. PICK S \in Bad : \A y \in S : \A X \in SUBSET (S \ {y}) : X \notin Bad
    <3>1. Bad \subseteq SUBSET W /\ Bad # {}
      BY <1>1
    <3> HIDE DEF Bad
    <3> QED BY <3>1, LeastSet
  <2>2. PICK y \in S : SizeOf(S) # y.size + SizeOf(S \ {y})
    BY <2>1
  <2> DEFINE c == Chosen(S)
  <2>3. c \in S /\ SizeOf(S) = c.size + SizeOf(S \ {c})
    <3>1. IsFiniteSet(S) /\ S # {}
      BY <2>2, FS_Subset
    <3> QED BY <3>1, SizeStep, ChosenIsIn
  <2> HIDE DEF c
  <2>4. c # y
    BY <2>2, <2>3
  <2>5. S \ {c} \notin Bad /\ S \ {y} \notin Bad
    BY <2>1, <2>2, <2>3
  <2>6. /\ SizeOf(S \ {c}) = y.size + SizeOf((S \ {c}) \ {y})
        /\ SizeOf(S \ {y}) = c.size + SizeOf((S \ {y}) \ {c})
    BY <2>2, <2>3, <2>4, <2>5
  <2>7. (S \ {c}) \ {y} = (S \ {y}) \ {c}
    OBVIOUS
  <2>8. SizeOf((S \ {c}) \ {y}) \in Nat
    <3>1. (S \ {c}) \ {y} \in SUBSET W
      OBVIOUS
    <3> QED BY <3>1, FS_Subset, SizeIsNumber
  <2>9. c.size \in Nat /\ y.size \in Nat
    BY <2>2, <2>3
  <2> DEFINE n == SizeOf((S \ {c}) \ {y})
  <2>10. \A i, j, m \in Nat : i + (j + m) = j + (i + m)
    OBVIOUS
  <2>11. c.size + (y.size + n) = y.size + (c.size + n)
    <3> HIDE DEF n
    <3> QED BY <2>8, <2>9, <2>10 DEF n
  <2>12. SizeOf(S) = c.size + (y.size + n) /\ y.size + SizeOf(S \ {y}) = y.size + (c.size + n)
    BY <2>3, <2>6, <2>7
  <2> QED BY <2>2, <2>11, <2>12
<1> QED BY <1>1

LEMMA SizeOfMore ==
    ASSUME NEW S, IsFiniteSet(S), \A y \in S : y.size \in Nat, NEW x, x \notin S, x.size \in Nat
    PROVE  SizeOf(S \cup {x}) = SizeOf(S) + x.size
<1>1. IsFiniteSet(S \cup {x}) /\ (S \cup {x}) \ {x} = S
  BY FS_AddElement
<1>2. SizeOf(S \cup {x}) = x.size + SizeOf((S \cup {x}) \ {x})
  BY <1>1, SizeWithout
<1>3. SizeOf(S) \in Nat
  BY SizeIsNumber
<1> HIDE DEF SizeOf
<1>4. SizeOf(S \cup {x}) = x.size + SizeOf(S)
  BY <1>1, <1>2
<1>5. \A m, n \in Nat : m + n = n + m
  OBVIOUS
<1> QED BY <1>3, <1>4, <1>5
---------------------------------------------------------------------------
(* Items and sections. *)

LEMMA EntryFields ==
    ASSUME base \in Bases, NEW e \in base.entries
    PROVE  /\ "kind" \in DOMAIN e /\ "date" \in DOMAIN e
           /\ e.size \in Nat /\ e.date \in Nat
           /\ Rank(e) = e.date
<1>1. e \in Entry
  BY BaseAssumption
<1> QED BY <1>1 DEF Entry, Rank

LEMMA RecordFields ==
    ASSUME base \in Bases, NEW r \in base.records
    PROVE  /\ "kind" \notin DOMAIN r
           /\ r.size \in Nat /\ r.id \in Nat
           /\ Rank(r) = r.id
<1>1. r \in Record
  BY BaseAssumption
<1> QED BY <1>1 DEF Record, Rank

(* What is selected for a section leaves out nothing that ranks higher.    *)
LEMMA SectionIsBest ==
    ASSUME base \in Bases, NEW n \in Nat \ {0}, NEW T \in Section(n)
    PROVE  /\ T \subseteq Items
           /\ \A x \in Items \ T, z \in T :
                SameSection(x, z) => Rank(z) >= Rank(x)
<1>1. CASE n <= Len(Kinds)
  <2>1. T \in SUBSET {e \in base.entries : e.kind = Kinds[n]}
    BY <1>1 DEF Section, Selected, Best
  <2>2. \A z \in T, y \in {e \in base.entries : e.kind = Kinds[n]} \ T : z.date >= y.date
    BY <1>1 DEF Section, Selected, Best
  <2>3. ASSUME NEW x \in Items \ T, NEW z \in T, SameSection(x, z)
        PROVE  Rank(z) >= Rank(x)
    <3>1. z \in base.entries /\ z.kind = Kinds[n]
      BY <2>1
    <3>2. "kind" \in DOMAIN x /\ x.kind = Kinds[n]
      BY <2>3, <3>1, EntryFields DEF SameSection
    <3>3. x \in base.entries
      BY <3>2, RecordFields DEF Items
    <3>4. z.date >= x.date
      BY <2>2, <3>2, <3>3
    <3> QED BY <3>1, <3>3, <3>4, EntryFields
  <2> QED BY <2>1, <2>3 DEF Items
<1>2. CASE ~(n <= Len(Kinds))
  <2>1. T \in SUBSET base.records
    BY <1>2 DEF Section, SelectedRecords, Best
  <2>2. \A z \in T, y \in base.records \ T : z.id >= y.id
    BY <1>2 DEF Section, SelectedRecords, Best
  <2>3. ASSUME NEW x \in Items \ T, NEW z \in T, SameSection(x, z)
        PROVE  Rank(z) >= Rank(x)
    <3>1. x \in base.records
      BY <2>1, <2>3, EntryFields, RecordFields DEF SameSection, Items
    <3> QED BY <2>1, <2>2, <3>1, RecordFields
  <2> QED BY <2>1, <2>3 DEF Items
<1> QED BY <1>1, <1>2

---------------------------------------------------------------------------
(* The invariant. *)

LEMMA InitHolds == Init => IInv
BY DEF Init, IInv, Nothing

LEMMA CompileKeeps == IInv /\ Compile => IInv'
<1> SUFFICES ASSUME IInv, Compile PROVE IInv'
  OBVIOUS
<1>1. PICK first \in Section(1) :
        ask' = [about |-> "section", at |-> 1, left |-> first, bytes |-> 0,
                taken |-> {}, truncated |-> {}]
  BY DEF Compile
<1>2. base' = base /\ base \in Bases
  BY DEF Compile, IInv
<1>3. Items' = Items
  BY <1>2 DEF Items
<1>4. /\ first \subseteq Items
      /\ \A x \in Items \ first, z \in first : SameSection(x, z) => Rank(z) >= Rank(x)
  BY <1>2, SectionIsBest
<1>5. SectionAsk' = [about : {"section"}, at : Nat \ {0}, left : SUBSET Items,
                     bytes : 0 .. Budget, taken : SUBSET Items, truncated : SUBSET Items]
  BY <1>3 DEF SectionAsk
<1>6. ask' \in SectionAsk'
  BY <1>1, <1>4, <1>5, QueryAssumption
<1>7. LeftIsNext'
  BY <1>1, <1>3, <1>4 DEF LeftIsNext
<1>8. RankKept'
  BY <1>1 DEF RankKept
<1> QED BY <1>2, <1>6, <1>7, <1>8 DEF IInv

LEMMA AddItemKeeps == IInv /\ AddItem => IInv'
<1> SUFFICES ASSUME IInv, AddItem PROVE IInv'
  OBVIOUS
<1>1. base' = base /\ base \in Bases /\ ask \in SectionAsk /\ LeftIsNext /\ RankKept
  BY DEF AddItem, Compiling, IInv
<1>2. PICK x \in ask.left :
        /\ NextItem(x) /\ Fits(x)
        /\ ask' = [ask EXCEPT !.left = @ \ {x}, !.bytes = @ + x.size, !.taken = @ \cup {x}]
  BY DEF AddItem
<1>3. Items' = Items /\ SectionAsk' = SectionAsk
  BY <1>1 DEF Items, SectionAsk
<1>4. x \in Items /\ x.size \in Nat
  BY <1>1, <1>2, EntryFields, RecordFields DEF SectionAsk, Items
<1>5. ask.bytes + x.size \in 0 .. Budget
  BY <1>1, <1>2, <1>4, QueryAssumption DEF Fits, SectionAsk
<1>6. ask' \in SectionAsk
  BY <1>1, <1>2, <1>4, <1>5 DEF SectionAsk
<1>7. ask'.left = ask.left \ {x} /\ ask'.taken = ask.taken \cup {x}
  BY <1>1, <1>2 DEF SectionAsk
<1>8. LeftIsNext'
  BY <1>1, <1>3, <1>7 DEF LeftIsNext
<1>9. ASSUME NEW y \in Items \ ask'.taken, SameSection(y, x)
      PROVE  Rank(x) >= Rank(y)
  <2>1. CASE y \in ask.left
    BY <1>2, <2>1 DEF NextItem
  <2>2. CASE y \notin ask.left
    BY <1>1, <1>2, <1>7, <1>9, <2>2 DEF LeftIsNext
  <2> QED BY <2>1, <2>2
<1>10. RankKept'
  BY <1>1, <1>3, <1>7, <1>9 DEF RankKept
<1> QED BY <1>1, <1>3, <1>6, <1>8, <1>10 DEF IInv

LEMMA TruncateKeeps == IInv /\ Truncate => IInv'
<1> SUFFICES ASSUME IInv, Truncate PROVE IInv'
  OBVIOUS
<1>1. base' = base /\ base \in Bases /\ ask \in SectionAsk /\ RankKept
  BY DEF Truncate, Compiling, IInv
<1>2. ask' = [ask EXCEPT !.left = {}, !.truncated = @ \cup ask.left]
  BY DEF Truncate
<1>3. Items' = Items /\ SectionAsk' = SectionAsk
  BY <1>1 DEF Items, SectionAsk
<1>4. ask' \in SectionAsk /\ ask'.left = {} /\ ask'.taken = ask.taken
  BY <1>1, <1>2 DEF SectionAsk
<1>5. LeftIsNext'
  BY <1>4 DEF LeftIsNext
<1>6. RankKept'
  BY <1>1, <1>3, <1>4 DEF RankKept
<1> QED BY <1>1, <1>3, <1>4, <1>5, <1>6 DEF IInv

LEMMA NextSectionKeeps == IInv /\ NextSection => IInv'
<1> SUFFICES ASSUME IInv, NextSection PROVE IInv'
  OBVIOUS
<1>1. base' = base /\ base \in Bases /\ ask \in SectionAsk /\ RankKept
  BY DEF NextSection, Compiling, IInv
<1>2. PICK more \in IF ask.at <= Len(Kinds) THEN Section(ask.at + 1) ELSE {{}} :
        ask' = [ask EXCEPT !.at = @ + 1, !.left = more]
  BY DEF NextSection
<1>3. Items' = Items /\ SectionAsk' = SectionAsk
  BY <1>1 DEF Items, SectionAsk
<1>4. ask.at + 1 \in Nat \ {0}
  BY <1>1 DEF SectionAsk
<1>5. /\ more \subseteq Items
      /\ \A x \in Items \ more, z \in more : SameSection(x, z) => Rank(z) >= Rank(x)
  <2>1. CASE ask.at <= Len(Kinds)
    BY <1>1, <1>2, <1>4, <2>1, SectionIsBest
  <2>2. CASE ~(ask.at <= Len(Kinds))
    BY <1>2, <2>2
  <2> QED BY <2>1, <2>2
<1>6. ask' \in SectionAsk /\ ask'.left = more /\ ask'.taken = ask.taken
  BY <1>1, <1>2, <1>4, <1>5 DEF SectionAsk
<1>7. LeftIsNext'
  BY <1>3, <1>5, <1>6 DEF LeftIsNext
<1>8. RankKept'
  BY <1>1, <1>3, <1>6 DEF RankKept
<1> QED BY <1>1, <1>3, <1>6, <1>7, <1>8 DEF IInv

LEMMA OthersKeep ==
    ASSUME IInv, base' = base, ask'.about # "section"
    PROVE  IInv'
BY DEF IInv

LEMMA StepHolds == IInv /\ [Next]_vars => IInv'
<1> SUFFICES ASSUME IInv, [Next]_vars PROVE IInv'
  OBVIOUS
<1>1. CASE Compile
  BY <1>1, CompileKeeps
<1>2. CASE AddItem
  BY <1>2, AddItemKeeps
<1>3. CASE Truncate
  BY <1>3, TruncateKeeps
<1>4. CASE NextSection
  BY <1>4, NextSectionKeeps
<1>5. ASSUME NEW q \in Queries, NEW top \in Limits, Recommend(q, top) PROVE IInv'
  BY <1>5, OthersKeep DEF Recommend
<1>6. ASSUME NEW t \in Terms \ {Empty}, RecommendRun(t) PROVE IInv'
  BY <1>6, OthersKeep DEF RecommendRun
<1>7. ASSUME NEW h \in Hints, NEW top \in Limits, Recall(h, top) PROVE IInv'
  BY <1>7, OthersKeep DEF Recall
<1>8. ASSUME NEW r \in base.records, FindRelated(r) PROVE IInv'
  BY <1>8, OthersKeep DEF FindRelated
<1>9. CASE SyncBoard
  BY <1>9, OthersKeep DEF SyncBoard
<1>10. ASSUME NEW s \in base.sessions, Extract(s) PROVE IInv'
  BY <1>10, OthersKeep DEF Extract
<1>11. CASE Answered
  BY <1>11, OthersKeep DEF Answered, Nothing
<1>12. CASE UNCHANGED vars
  BY <1>12 DEF vars, IInv, SectionAsk, LeftIsNext, RankKept, Items
<1> QED BY <1>1, <1>2, <1>3, <1>4, <1>5, <1>6, <1>7, <1>8, <1>9, <1>10, <1>11, <1>12
    DEF Next

LEMMA Invariance == Spec => []IInv
BY InitHolds, StepHolds, PTL DEF Spec

---------------------------------------------------------------------------
(* The compiled section. *)

InSection(x, n) ==
    IF n <= Len(Kinds) THEN x \in base.entries /\ x.kind = Kinds[n] ELSE x \in base.records

(* With x the budget would have been exceeded. *)
OverBudget(x) ==
    \E S \in SUBSET (ask.taken \cup ask.truncated) :
        /\ \A y \in S : y \in ask.taken \/ (SameSection(x, y) /\ Rank(y) >= Rank(x))
        /\ SizeOf(S) > Budget

(* The counted bytes are the sizes of what was taken, each item counts     *)
(* once, and what was cut was cut for the budget.                          *)
Summed ==
    ask.about = "section" =>
        /\ IsFiniteSet(ask.taken) /\ ask.bytes = SizeOf(ask.taken)
        /\ ask.left \cap (ask.taken \cup ask.truncated) = {}
        /\ ask.taken \cap ask.truncated = {}
        /\ \A x \in ask.left : InSection(x, ask.at)
        /\ \A x \in ask.taken \cup ask.truncated : \E n \in 1 .. ask.at : InSection(x, n)
        /\ \A x \in ask.truncated : OverBudget(x)

(* Two items of a section have the same kind, or are records. *)
LEMMA SectionIsSame ==
    ASSUME base \in Bases, NEW n, NEW x, NEW y, InSection(x, n), InSection(y, n)
    PROVE  SameSection(x, y)
<1>1. CASE n <= Len(Kinds)
  BY <1>1, EntryFields DEF InSection, SameSection
<1>2. CASE ~(n <= Len(Kinds))
  BY <1>2, RecordFields DEF InSection, SameSection
<1> QED BY <1>1, <1>2

(* No item is of two sections. *)
LEMMA SectionsApart ==
    ASSUME base \in Bases, NEW m \in Nat \ {0}, NEW n \in Nat \ {0},
           m < n, m <= Len(Kinds), NEW x, InSection(x, m)
    PROVE  ~InSection(x, n)
<1>1. x \in base.entries /\ x.kind = Kinds[m] /\ x \notin base.records
  BY EntryFields, RecordFields DEF InSection
<1>2. CASE n <= Len(Kinds)
  <2>1. m \in DOMAIN Kinds /\ n \in DOMAIN Kinds /\ m # n
    BY <1>2, QueryAssumption
  <2>2. Kinds[m] # Kinds[n]
    BY <2>1, QueryAssumption
  <2> QED BY <1>1, <1>2, <2>2 DEF InSection
<1>3. CASE ~(n <= Len(Kinds))
  BY <1>1, <1>3 DEF InSection
<1> QED BY <1>2, <1>3

LEMMA SectionItems ==
    ASSUME NEW n \in Nat \ {0}, NEW T \in Section(n), NEW x \in T
    PROVE  InSection(x, n)
<1>1. CASE n <= Len(Kinds)
  <2>1. T \in SUBSET {e \in base.entries : e.kind = Kinds[n]}
    BY <1>1 DEF Section, Selected, Best
  <2> QED BY <1>1, <2>1 DEF InSection
<1>2. CASE ~(n <= Len(Kinds))
  BY <1>2 DEF Section, SelectedRecords, Best, InSection
<1> QED BY <1>1, <1>2

LEMMA CompileSums == IInv /\ Compile => Summed'
<1> SUFFICES ASSUME IInv, Compile PROVE Summed'
  OBVIOUS
<1>1. PICK first \in Section(1) :
        ask' = [about |-> "section", at |-> 1, left |-> first, bytes |-> 0,
                taken |-> {}, truncated |-> {}]
  BY DEF Compile
<1>2. base' = base /\ \A x \in first : InSection(x, 1)
  BY SectionItems DEF Compile
<1>3. IsFiniteSet({}) /\ SizeOf({}) = 0
  BY FS_EmptySet, SizeStep
<1> QED BY <1>1, <1>2, <1>3 DEF Summed, InSection

LEMMA AddItemSums == IInv /\ Summed /\ AddItem => Summed'
<1> SUFFICES ASSUME IInv, Summed, AddItem PROVE Summed'
  OBVIOUS
<1>1. base' = base /\ base \in Bases /\ ask \in SectionAsk /\ ask.about = "section"
  BY DEF AddItem, Compiling, IInv
<1>2. PICK x \in ask.left :
        ask' = [ask EXCEPT !.left = @ \ {x}, !.bytes = @ + x.size, !.taken = @ \cup {x}]
  BY DEF AddItem
<1>3. /\ ask'.left = ask.left \ {x} /\ ask'.taken = ask.taken \cup {x}
      /\ ask'.bytes = ask.bytes + x.size /\ ask'.truncated = ask.truncated /\ ask'.at = ask.at
  BY <1>1, <1>2 DEF SectionAsk
<1>4. x \notin ask.taken /\ x \notin ask.truncated
  BY <1>1 DEF Summed
<1>5. \A y \in ask.taken \cup {x} : y.size \in Nat
  BY <1>1, EntryFields, RecordFields DEF SectionAsk, Items
<1>6. IsFiniteSet(ask'.taken) /\ ask'.bytes = SizeOf(ask'.taken)
  <2>1. IsFiniteSet(ask.taken) /\ ask.bytes = SizeOf(ask.taken)
    BY <1>1 DEF Summed
  <2>2. IsFiniteSet(ask.taken \cup {x})
    BY <2>1, FS_AddElement
  <2>3. SizeOf(ask.taken \cup {x}) = SizeOf(ask.taken) + x.size
    BY <1>4, <1>5, <2>1, SizeOfMore
  <2> QED BY <1>3, <2>1, <2>2, <2>3
<1>7. ask'.left \cap (ask'.taken \cup ask'.truncated) = {} /\ ask'.taken \cap ask'.truncated = {}
  BY <1>1, <1>3, <1>4 DEF Summed
<1>8. /\ \A y \in ask'.left : InSection(y, ask'.at)
      /\ \A y \in ask'.taken \cup ask'.truncated : \E n \in 1 .. ask'.at : InSection(y, n)
  <2>1. InSection(x, ask.at) /\ ask.at \in 1 .. ask.at
    BY <1>1 DEF Summed, SectionAsk
  <2> QED BY <1>1, <1>3, <2>1 DEF Summed
<1>9. ASSUME NEW y \in ask'.truncated PROVE OverBudget(y)'
  <2>1. PICK S \in SUBSET (ask.taken \cup ask.truncated) :
          /\ \A z \in S : z \in ask.taken \/ (SameSection(y, z) /\ Rank(z) >= Rank(y))
          /\ SizeOf(S) > Budget
    BY <1>1, <1>3, <1>9 DEF Summed, OverBudget
  <2> QED BY <1>3, <2>1 DEF OverBudget
<1> QED BY <1>1, <1>6, <1>7, <1>8, <1>9 DEF Summed, InSection

LEMMA TruncateSums == IInv /\ Summed /\ Truncate => Summed'
<1> SUFFICES ASSUME IInv, Summed, Truncate PROVE Summed'
  OBVIOUS
<1>1. base' = base /\ base \in Bases /\ ask \in SectionAsk /\ ask.about = "section"
  BY DEF Truncate, Compiling, IInv
<1>2. PICK z \in ask.left : NextItem(z) /\ ~Fits(z)
  BY DEF Truncate
<1>3. /\ ask'.left = {} /\ ask'.taken = ask.taken /\ ask'.bytes = ask.bytes
      /\ ask'.truncated = ask.truncated \cup ask.left /\ ask'.at = ask.at
  BY <1>1 DEF Truncate, SectionAsk
<1>4. IsFiniteSet(ask.taken) /\ ask.bytes = SizeOf(ask.taken) /\ z \notin ask.taken
  BY <1>1 DEF Summed
<1>5. \A y \in ask.taken \cup {z} : y.size \in Nat
  BY <1>1, EntryFields, RecordFields DEF SectionAsk, Items
<1>6. SizeOf(ask.taken \cup {z}) > Budget
  <2>1. SizeOf(ask.taken \cup {z}) = SizeOf(ask.taken) + z.size
    BY <1>4, <1>5, SizeOfMore
  <2>2. ~(ask.bytes + z.size <= Budget) /\ ask.bytes \in Nat /\ z.size \in Nat
    BY <1>1, <1>2, <1>5, QueryAssumption DEF Fits, SectionAsk
  <2> QED BY <1>4, <2>1, <2>2, QueryAssumption
<1>7. /\ \A y \in ask'.taken \cup ask'.truncated : \E n \in 1 .. ask'.at : InSection(y, n)
      /\ ask'.taken \cap ask'.truncated = {}
  <2>1. ask.at \in 1 .. ask.at
    BY <1>1 DEF SectionAsk
  <2> QED BY <1>1, <1>3, <2>1 DEF Summed
<1>8. ASSUME NEW y \in ask'.truncated PROVE OverBudget(y)'
  <2>1. CASE y \in ask.left
    <3>1. SameSection(y, z) /\ Rank(z) >= Rank(y)
      BY <1>1, <1>2, <2>1, SectionIsSame DEF Summed, NextItem
    <3>2. ask.taken \cup {z} \in SUBSET (ask.taken \cup ask.truncated)'
      BY <1>3
    <3> QED BY <1>3, <1>6, <3>1, <3>2 DEF OverBudget
  <2>2. CASE y \in ask.truncated
    <3>1. PICK S \in SUBSET (ask.taken \cup ask.truncated) :
            /\ \A w \in S : w \in ask.taken \/ (SameSection(y, w) /\ Rank(w) >= Rank(y))
            /\ SizeOf(S) > Budget
      BY <1>1, <2>2 DEF Summed, OverBudget
    <3> QED BY <1>3, <3>1 DEF OverBudget
  <2> QED BY <1>3, <2>1, <2>2
<1> QED BY <1>1, <1>3, <1>4, <1>7, <1>8 DEF Summed, InSection

LEMMA NextSectionSums == IInv /\ Summed /\ NextSection => Summed'
<1> SUFFICES ASSUME IInv, Summed, NextSection PROVE Summed'
  OBVIOUS
<1>1. /\ base' = base /\ base \in Bases /\ ask \in SectionAsk /\ ask.about = "section"
      /\ ask.left = {}
  BY DEF NextSection, Compiling, IInv
<1>2. PICK more \in IF ask.at <= Len(Kinds) THEN Section(ask.at + 1) ELSE {{}} :
        ask' = [ask EXCEPT !.at = @ + 1, !.left = more]
  BY DEF NextSection
<1>3. /\ ask'.left = more /\ ask'.taken = ask.taken /\ ask'.bytes = ask.bytes
      /\ ask'.truncated = ask.truncated /\ ask'.at = ask.at + 1 /\ ask.at \in Nat \ {0}
  BY <1>1, <1>2 DEF SectionAsk
<1>4. ASSUME NEW x \in more
      PROVE  InSection(x, ask.at + 1) /\ x \notin ask.taken \cup ask.truncated
  <2>1. ask.at <= Len(Kinds) /\ more \in Section(ask.at + 1)
    BY <1>2, <1>4
  <2>2. InSection(x, ask.at + 1)
    BY <1>3, <2>1, SectionItems
  <2>3. ASSUME NEW n \in 1 .. ask.at PROVE ~InSection(x, n)
    <3>1. n \in Nat \ {0} /\ n < ask.at + 1 /\ n <= Len(Kinds) /\ ask.at + 1 \in Nat \ {0}
      BY <1>3, <2>1, QueryAssumption
    <3> QED BY <1>1, <2>2, <3>1, SectionsApart
  <2> QED BY <1>1, <2>2, <2>3 DEF Summed
<1>5. 1 .. ask.at \subseteq 1 .. ask.at + 1
  BY <1>3
<1>6. /\ \A y \in ask'.left : InSection(y, ask'.at)
      /\ \A y \in ask'.taken \cup ask'.truncated : \E n \in 1 .. ask'.at : InSection(y, n)
  BY <1>1, <1>3, <1>4, <1>5 DEF Summed
<1>7. \A y \in ask'.truncated : OverBudget(y)'
  BY <1>1, <1>3 DEF Summed, OverBudget
<1>8. ask'.left \cap (ask'.taken \cup ask'.truncated) = {} /\ ask'.taken \cap ask'.truncated = {}
  BY <1>1, <1>3, <1>4 DEF Summed
<1> QED BY <1>1, <1>3, <1>6, <1>7, <1>8 DEF Summed, InSection

LEMMA StepSums == IInv /\ Summed /\ [Next]_vars => Summed'
<1> SUFFICES ASSUME IInv, Summed, [Next]_vars PROVE Summed'
  OBVIOUS
<1>1. CASE Compile \/ AddItem \/ Truncate \/ NextSection
  BY <1>1, CompileSums, AddItemSums, TruncateSums, NextSectionSums
<1>2. CASE ask'.about # "section"
  BY <1>2 DEF Summed
<1>3. CASE UNCHANGED vars
  BY <1>3 DEF vars, Summed, InSection, OverBudget
<1>4. ASSUME NEW q \in Queries, NEW top \in Limits, Recommend(q, top) PROVE ask'.about # "section"
  BY <1>4 DEF Recommend
<1>5. ASSUME NEW t \in Terms \ {Empty}, RecommendRun(t) PROVE ask'.about # "section"
  BY <1>5 DEF RecommendRun
<1>6. ASSUME NEW h \in Hints, NEW top \in Limits, Recall(h, top) PROVE ask'.about # "section"
  BY <1>6 DEF Recall
<1>7. ASSUME NEW r \in base.records, FindRelated(r) PROVE ask'.about # "section"
  BY <1>7 DEF FindRelated
<1>8. ASSUME NEW s \in base.sessions, Extract(s) PROVE ask'.about # "section"
  BY <1>8 DEF Extract
<1>9. SyncBoard \/ Answered => ask'.about # "section"
  BY DEF SyncBoard, Answered, Nothing
<1> QED BY <1>1, <1>2, <1>3, <1>4, <1>5, <1>6, <1>7, <1>8, <1>9 DEF Next

(* compile_garage_section: the bullets of all kinds sum up to no more than *)
(* the budget (header, headings and footer come on top), nothing is left   *)
(* out for what its sort ranks lower, dates of entries and record_ids of   *)
(* records, and what was cut would have exceeded the budget.               *)
THEOREM SectionByRank == Spec => []CompiledByRank
<1>1. Init => Summed
  BY DEF Init, Nothing, Summed
<1>2. IInv /\ Summed => CompiledByRank
  BY QueryAssumption DEF IInv, Summed, OverBudget, CompiledByRank, Compiled, SectionAsk
<1> QED BY <1>1, <1>2, InitHolds, StepHolds, StepSums, PTL DEF Spec

---------------------------------------------------------------------------
(* The fallback. *)

LEMMA CountIsNumber ==
    ASSUME NEW tags \in Seq(Terms), NEW S
    PROVE  Count(tags, S) \in Nat
<1>1. IsFiniteSet(1 .. Len(tags))
  BY FS_Interval
<1>2. {n \in DOMAIN tags : tags[n] \in S} \in SUBSET (1 .. Len(tags))
  OBVIOUS
<1> QED BY <1>1, <1>2, FS_Subset, FS_CardinalityType DEF Count

(* When no entry scores, the fallback finds none either: an entry whose    *)
(* topic or tags name the skill has scored already, as the text that is    *)
(* searched holds the topic.  So recommend's second pass is never needed.  *)
THEOREM FallbackFindsNothing ==
    ASSUME base \in Bases, NEW c \in Context, KnowledgeResults(c) = {}
    PROVE  Fallback(c) = {}
<1> SUFFICES ASSUME NEW e \in base.entries,
                    Named(c.skill, e.topic) \/ Named(c.skill, e.tags)
             PROVE  FALSE
  BY DEF Fallback
<1>1. e.topic \subseteq e.text
  BY BaseAssumption
<1>2. EntryScore(e, c) \in {5, 10}
  BY <1>1 DEF EntryScore, Named, Points
<1>3. Count(c.tags, e.tags) \in Nat
  BY CountIsNumber DEF Context
<1>4. Points(8, Named(c.domain, e.tags)) \in {0, 8} /\ Points(8, Named(c.problem, e.tags)) \in {0, 8}
  BY DEF Points
<1>5. EntryPoints(e, c) > 0
  BY <1>2, <1>3, <1>4 DEF EntryPoints
<1>6. [item |-> e, score |-> EntryPoints(e, c)] \in KnowledgeResults(c)
  BY <1>5, Zenon DEF KnowledgeResults, Scored
<1> QED BY <1>6

---------------------------------------------------------------------------
(* The candidates of a session. *)

Signal == {"artifact", "problem_domain", "metadata_tags", "pack_id", "current_node", "topic"}

Never(q, k) == \A n \in DOMAIN q : q[n] # k
AtMostOnce(q, k) == \A m, n \in DOMAIN q : q[m] = k /\ q[n] = k => m = n

LEMMA Joined ==
    ASSUME NEW a \in Seq(Signal), NEW b \in Seq(Signal), NEW k
    PROVE  /\ a \o b \in Seq(Signal)
           /\ Never(a, k) /\ Never(b, k) => Never(a \o b, k)
           /\ Never(a, k) /\ AtMostOnce(b, k) => AtMostOnce(a \o b, k)
           /\ AtMostOnce(a, k) /\ Never(b, k) => AtMostOnce(a \o b, k)
<1>1. /\ a \o b \in Seq(Signal) /\ Len(a) \in Nat /\ Len(b) \in Nat
      /\ DOMAIN a = 1 .. Len(a) /\ DOMAIN b = 1 .. Len(b)
      /\ DOMAIN (a \o b) = 1 .. Len(a) + Len(b)
  OBVIOUS
<1>2. ASSUME NEW n \in DOMAIN (a \o b)
      PROVE  \/ n \in DOMAIN a /\ (a \o b)[n] = a[n]
             \/ n \notin DOMAIN a /\ n - Len(a) \in DOMAIN b /\ (a \o b)[n] = b[n - Len(a)]
  BY <1>1
<1>3. \A m, n \in DOMAIN (a \o b) : m - Len(a) = n - Len(a) => m = n
  BY <1>1
<1> HIDE DEF Signal
<1>4. Never(a, k) /\ Never(b, k) => Never(a \o b, k)
  BY <1>2 DEF Never
<1>5. Never(a, k) /\ AtMostOnce(b, k) => AtMostOnce(a \o b, k)
  BY <1>2, <1>3 DEF Never, AtMostOnce
<1>6. AtMostOnce(a, k) /\ Never(b, k) => AtMostOnce(a \o b, k)
  BY <1>2, <1>3 DEF Never, AtMostOnce
<1> QED BY <1>1, <1>4, <1>5, <1>6

LEMMA WhenIs ==
    ASSUME NEW k \in Signal, NEW holds
    PROVE  /\ When(holds, k) \in Seq(Signal)
           /\ AtMostOnce(When(holds, k), k)
           /\ \A j : j # k => Never(When(holds, k), j)
<1>1. CASE holds
  <2>1. When(holds, k) = <<k>>
    BY <1>1 DEF When
  <2> QED BY <2>1 DEF AtMostOnce, Never
<1>2. CASE ~holds
  <2>1. When(holds, k) = <<>>
    BY <1>2 DEF When
  <2> QED BY <2>1 DEF AtMostOnce, Never
<1> QED BY <1>1, <1>2

(* A session's signals have one problem domain at most, and every signal   *)
(* has a score.                                                            *)
LEMMA SignalsAre ==
    ASSUME NEW s \in Archived
    PROVE  /\ Signals(s) \in Seq(Signal)
           /\ AtMostOnce(Signals(s), "problem_domain")
<1> DEFINE pd == "problem_domain"
           tags == When(s.tags = "list", "metadata_tags")
           domain == When(s.problem_domain, "problem_domain")
           arts == [n \in 1 .. s.artifacts |-> "artifact"]
<1>1. tags \in Seq(Signal) /\ Never(tags, pd)
  BY WhenIs DEF Signal
<1>2. domain \in Seq(Signal) /\ AtMostOnce(domain, pd)
  BY WhenIs DEF Signal
<1>3. arts \in Seq(Signal) /\ Never(arts, pd)
  BY DEF Archived, Signal, Never
<1>4. \A holds : /\ When(holds, "pack_id") \in Seq(Signal) /\ Never(When(holds, "pack_id"), pd)
                 /\ When(holds, "topic") \in Seq(Signal) /\ Never(When(holds, "topic"), pd)
                 /\ When(holds, "current_node") \in Seq(Signal)
                 /\ Never(When(holds, "current_node"), pd)
  BY WhenIs DEF Signal
<1>5. Evidence(s) = tags \o domain \o arts
  BY DEF Evidence
<1> HIDE DEF tags, domain, arts, pd
<1>6. Evidence(s) \in Seq(Signal) /\ AtMostOnce(Evidence(s), pd)
  <2>1. tags \o domain \in Seq(Signal) /\ AtMostOnce(tags \o domain, pd)
    BY <1>1, <1>2, Joined
  <2> QED BY <1>3, <1>5, <2>1, Joined
<1>7. CASE Evidence(s) = <<>>
  BY <1>7 DEF Signals, AtMostOnce
<1>8. CASE Evidence(s) # <<>>
  <2>1. Signals(s) = Evidence(s) \o When(s.pack_id, "pack_id") \o When(s.topic, "topic")
                         \o When(s.node, "current_node")
    BY <1>8 DEF Signals
  <2> DEFINE a == Evidence(s) \o When(s.pack_id, "pack_id")
             b == a \o When(s.topic, "topic")
  <2>2. a \in Seq(Signal) /\ AtMostOnce(a, pd)
    BY <1>4, <1>6, Joined
  <2> HIDE DEF a
  <2>3. b \in Seq(Signal) /\ AtMostOnce(b, pd)
    BY <1>4, <2>2, Joined
  <2> HIDE DEF b
  <2>4. b \o When(s.node, "current_node") \in Seq(Signal)
        /\ AtMostOnce(b \o When(s.node, "current_node"), pd)
    BY <1>4, <2>3, Joined
  <2> QED BY <2>1, <2>4 DEF a, b, pd
<1> QED BY <1>7, <1>8 DEF pd

Place(s, n) == Cardinality({m \in Generated(s) : Before(s, m, n)})

LEMMA Places ==
    ASSUME NEW s \in Archived
    PROVE  /\ IsFiniteSet(Generated(s))
           /\ \A n \in DOMAIN Signals(s) : SignalScore(s, n) \in Nat /\ n \in Nat
           /\ Generated(s) \subseteq DOMAIN Signals(s)
           /\ \A n \in Generated(s) : Place(s, n) \in Nat
<1>1. Signals(s) \in Seq(Signal)
  BY SignalsAre
<1>2. /\ DOMAIN Signals(s) = 1 .. Len(Signals(s)) /\ Len(Signals(s)) \in Nat
      /\ \A n \in DOMAIN Signals(s) : Signals(s)[n] \in Signal
  BY <1>1
<1>3. IsFiniteSet(DOMAIN Signals(s))
  BY <1>2, FS_Interval
<1>4. \A n \in DOMAIN Signals(s) : SignalScore(s, n) \in Nat
  <2> SUFFICES ASSUME NEW n \in DOMAIN Signals(s) PROVE SignalScore(s, n) \in Nat
    OBVIOUS
  <2>1. Signals(s)[n] \in Signal
    BY <1>2
  <2> QED BY <2>1 DEF SignalScore, priority_score, Signal
<1>5. Generated(s) \in SUBSET DOMAIN Signals(s)
  BY DEF Generated
<1>6. IsFiniteSet(Generated(s))
  BY <1>3, <1>5, FS_Subset
<1>7. ASSUME NEW n PROVE Place(s, n) \in Nat
  <2>1. {m \in Generated(s) : Before(s, m, n)} \in SUBSET Generated(s)
    OBVIOUS
  <2> QED BY <1>6, <2>1, FS_Subset, FS_CardinalityType DEF Place
<1> QED BY <1>2, <1>4, <1>5, <1>6, <1>7

(* Before orders the signals, and an earlier one has the lower rank.       *)
LEMMA RankOrders ==
    ASSUME NEW s \in Archived, NEW m \in Generated(s), NEW n \in Generated(s)
    PROVE  /\ Before(s, m, n) \/ Before(s, n, m) \/ m = n
           /\ Before(s, m, n) => Place(s, m) < Place(s, n)
<1>1. SignalScore(s, m) \in Nat /\ SignalScore(s, n) \in Nat /\ m \in Nat /\ n \in Nat
  BY Places
<1>2. Before(s, m, n) \/ Before(s, n, m) \/ m = n
  BY <1>1 DEF Before
<1>3. ASSUME Before(s, m, n) PROVE Place(s, m) < Place(s, n)
  <2> DEFINE A == {k \in Generated(s) : Before(s, k, m)}
             B == {k \in Generated(s) : Before(s, k, n)}
  <2>1. A \cup {m} \subseteq B
    <3> SUFFICES ASSUME NEW k \in Generated(s), Before(s, k, m) PROVE Before(s, k, n)
      BY <1>3
    <3>1. SignalScore(s, k) \in Nat /\ k \in Nat
      BY Places
    <3> QED BY <1>1, <1>3, <3>1 DEF Before
  <2>2. m \notin A
    BY <1>1 DEF Before
  <2>3. IsFiniteSet(A) /\ IsFiniteSet(B)
    <3>1. A \in SUBSET Generated(s) /\ B \in SUBSET Generated(s)
      OBVIOUS
    <3> QED BY <3>1, Places, FS_Subset
  <2> HIDE DEF A, B
  <2>4. Cardinality(A \cup {m}) = Cardinality(A) + 1
    BY <2>2, <2>3, FS_AddElement
  <2>5. Cardinality(A \cup {m}) <= Cardinality(B)
    BY <2>1, <2>3, FS_Subset
  <2>6. Cardinality(A) \in Nat /\ Cardinality(B) \in Nat
    BY <2>3, FS_CardinalityType
  <2> QED BY <2>4, <2>5, <2>6 DEF Place, A, B
<1> QED BY <1>2, <1>3

(* As many are kept as there is room for, if any is cut. *)
LEMMA KeptCount ==
    ASSUME NEW s \in Archived
    PROVE  /\ Cardinality(Kept(s)) <= MaxPending
           /\ Generated(s) \ Kept(s) # {} => Cardinality(Kept(s)) = MaxPending
<1>1. Kept(s) = {n \in Generated(s) : Place(s, n) < MaxPending} /\ MaxPending \in Nat
  BY ExtractionAssumption DEF Kept, Place
<1>2. IsFiniteSet(Kept(s)) /\ Cardinality(Kept(s)) \in Nat
  BY <1>1, Places, FS_Subset, FS_CardinalityType
<1>3. Cardinality(Kept(s)) <= MaxPending
  <2>1. CASE Kept(s) = {}
    BY <1>1, <2>1, FS_EmptySet
  <2>2. CASE Kept(s) # {}
    <3> DEFINE Left(n) == MaxPending - Place(s, n)
               Lefts == {Left(n) : n \in Kept(s)}
    <3>1. Lefts \subseteq Nat /\ Lefts # {}
      BY <1>1, <2>2, Places
    <3>2. PICK l \in Lefts : \A j \in Lefts : l <= j
      <4> HIDE DEF Lefts
      <4> QED BY <3>1, LeastNumber
    <3>3. PICK n \in Kept(s) : l = Left(n)
      BY <3>2
    <3>4. \A k \in Kept(s) : Place(s, k) <= Place(s, n)
      <4> SUFFICES ASSUME NEW k \in Kept(s) PROVE Place(s, k) <= Place(s, n)
        OBVIOUS
      <4>1. Left(n) <= Left(k)
        BY <3>2, <3>3
      <4>2. Place(s, k) \in Nat /\ Place(s, n) \in Nat
        BY <1>1, Places
      <4> QED BY <1>1, <4>1, <4>2
    <3> DEFINE A == {k \in Generated(s) : Before(s, k, n)}
    <3>5. Kept(s) \subseteq A \cup {n}
      <4> SUFFICES ASSUME NEW k \in Kept(s), k # n PROVE Before(s, k, n)
        BY <1>1
      <4>1. k \in Generated(s) /\ n \in Generated(s)
        BY <1>1
      <4>2. Place(s, k) \in Nat /\ Place(s, n) \in Nat /\ Place(s, k) <= Place(s, n)
        BY <3>4, <4>1, Places
      <4> QED BY <4>1, <4>2, RankOrders
    <3>6. IsFiniteSet(A)
      BY Places, FS_Subset
    <3>7. Cardinality(A) = Place(s, n) /\ Place(s, n) \in Nat /\ Place(s, n) < MaxPending
      BY <1>1, Places DEF Place
    <3> HIDE DEF A
    <3>8. IsFiniteSet(A \cup {n}) /\ Cardinality(A \cup {n}) <= Cardinality(A) + 1
      <4>1. /\ IsFiniteSet(A \cup {n})
            /\ Cardinality(A \cup {n}) = IF n \in A THEN Cardinality(A) ELSE Cardinality(A) + 1
        BY <3>6, FS_AddElement
      <4>2. Cardinality(A) \in Nat
        BY <3>7
      <4> QED BY <4>1, <4>2
    <3>9. Cardinality(Kept(s)) <= Cardinality(A \cup {n}) /\ Cardinality(A \cup {n}) \in Nat
      BY <3>5, <3>8, FS_Subset, FS_CardinalityType
    <3> QED BY <1>1, <1>2, <3>7, <3>8, <3>9
  <2> QED BY <2>1, <2>2
<1>4. ASSUME Generated(s) \ Kept(s) # {} PROVE Cardinality(Kept(s)) >= MaxPending
  <2> DEFINE Cut == {Place(s, n) : n \in Generated(s) \ Kept(s)}
  <2>1. Cut \subseteq Nat /\ Cut # {}
    BY <1>4, Places
  <2>2. PICK l \in Cut : \A j \in Cut : l <= j
    <3> HIDE DEF Cut
    <3> QED BY <2>1, LeastNumber
  <2>3. PICK m \in Generated(s) \ Kept(s) : l = Place(s, m)
    BY <2>2
  <2>4. l \in Nat /\ l >= MaxPending
    BY <1>1, <2>3, Places
  <2> DEFINE A == {k \in Generated(s) : Before(s, k, m)}
  <2>5. A \subseteq Kept(s)
    <3> SUFFICES ASSUME NEW k \in Generated(s), Before(s, k, m), k \notin Kept(s) PROVE FALSE
      OBVIOUS
    <3>1. Place(s, k) < Place(s, m) /\ Place(s, k) \in Cut
      BY RankOrders
    <3>2. l <= Place(s, k) /\ Place(s, k) \in Nat
      BY <2>1, <2>2, <3>1
    <3> QED BY <2>3, <2>4, <3>1, <3>2
  <2>6. Cardinality(A) = l
    BY <2>3 DEF Place
  <2> HIDE DEF A
  <2>7. Cardinality(A) <= Cardinality(Kept(s))
    BY <1>2, <2>5, FS_Subset
  <2> QED BY <1>1, <1>2, <2>4, <2>6, <2>7
<1> QED BY <1>1, <1>2, <1>3, <1>4

(* What StrongestKept says, of what is computed. *)
LEMMA ExtractedStrongest ==
    ASSUME NEW s \in Archived, Extracted(s).candidates # {}
    PROVE  LET kept == {c.id : c \in Extracted(s).candidates}
               cut  == {n \in DOMAIN Signals(s) \ kept : SignalScore(s, n) >= MinPriority}
           IN /\ \A n \in kept, m \in cut : SignalScore(s, n) >= SignalScore(s, m)
              /\ cut # {} => Cardinality(kept) = MaxPending
              /\ Cardinality(kept) <= MaxPending
              /\ Cardinality(cut) = Extracted(s).truncated
              /\ Cardinality({c \in Extracted(s).candidates : c.type = "experience_summary"}) <= 1
<1> DEFINE batch == Extracted(s).candidates
           kept == {c.id : c \in batch}
           cut  == {n \in DOMAIN Signals(s) \ kept : SignalScore(s, n) >= MinPriority}
<1>1. /\ batch = {[id |-> n, type |-> candidate_type(Signals(s)[n])] : n \in Kept(s)}
      /\ Extracted(s).truncated = Cardinality(Generated(s)) - Cardinality(Kept(s))
      /\ Kept(s) # {}
  BY DEF Extracted
<1>2. kept = Kept(s)
  <2>1. \A c \in batch : c.id \in Kept(s)
    BY <1>1
  <2>2. ASSUME NEW n \in Kept(s) PROVE n \in kept
    <3>1. [id |-> n, type |-> candidate_type(Signals(s)[n])] \in batch
      BY <1>1
    <3> QED BY <3>1
  <2> HIDE DEF batch
  <2> QED BY <2>1, <2>2
<1>3. cut = Generated(s) \ Kept(s)
  BY <1>2 DEF Generated
<1>4. Kept(s) = {n \in Generated(s) : Place(s, n) < MaxPending} /\ MaxPending \in Nat
  BY ExtractionAssumption DEF Kept, Place
<1>5. ASSUME NEW n \in Kept(s), NEW m \in Generated(s) \ Kept(s)
      PROVE  SignalScore(s, n) >= SignalScore(s, m)
  <2>1. n \in Generated(s) /\ ~(Place(s, m) < MaxPending) /\ Place(s, n) < MaxPending
    BY <1>4
  <2>2. Place(s, m) \in Nat /\ Place(s, n) \in Nat
    BY <2>1, Places
  <2>3. ~Before(s, m, n)
    BY <1>4, <2>1, <2>2, RankOrders
  <2>4. SignalScore(s, m) \in Nat /\ SignalScore(s, n) \in Nat
    BY <2>1, Places
  <2> QED BY <2>3, <2>4 DEF Before
<1>6. Cardinality(Generated(s) \ Kept(s)) = Cardinality(Generated(s)) - Cardinality(Kept(s))
  <2>1. Kept(s) \subseteq Generated(s) /\ IsFiniteSet(Generated(s))
    BY <1>4, Places
  <2>2. IsFiniteSet(Kept(s)) /\ IsFiniteSet(Generated(s) \ Kept(s))
    BY <2>1, FS_Subset
  <2>3. /\ Kept(s) \cup (Generated(s) \ Kept(s)) = Generated(s)
        /\ Kept(s) \cap (Generated(s) \ Kept(s)) = {}
    BY <2>1
  <2>4. /\ Cardinality(Generated(s)) \in Nat /\ Cardinality(Kept(s)) \in Nat
        /\ Cardinality(Generated(s) \ Kept(s)) \in Nat
    BY <2>1, <2>2, FS_CardinalityType
  <2>5. Cardinality(Generated(s)) =
            Cardinality(Kept(s)) + Cardinality(Generated(s) \ Kept(s)) - Cardinality({})
    BY <2>2, <2>3, FS_Union
  <2> QED BY <2>4, <2>5, FS_EmptySet
<1>7. Cardinality({c \in batch : c.type = "experience_summary"}) <= 1
  <2>1. ASSUME NEW c \in batch, NEW d \in batch,
               c.type = "experience_summary", d.type = "experience_summary"
        PROVE  c = d
    <3>1. PICK m \in Kept(s) : c = [id |-> m, type |-> candidate_type(Signals(s)[m])]
      BY <1>1
    <3>2. PICK n \in Kept(s) : d = [id |-> n, type |-> candidate_type(Signals(s)[n])]
      BY <1>1
    <3>3. m \in DOMAIN Signals(s) /\ n \in DOMAIN Signals(s)
      BY <1>4 DEF Generated
    <3>4. Signals(s)[m] \in Signal /\ Signals(s)[n] \in Signal
      BY <3>3, SignalsAre
    <3>5. Signals(s)[m] = "problem_domain" /\ Signals(s)[n] = "problem_domain"
      BY <2>1, <3>1, <3>2, <3>4 DEF candidate_type
    <3>6. m = n
      BY <3>3, <3>5, SignalsAre DEF AtMostOnce
    <3> QED BY <3>1, <3>2, <3>6
  <2> DEFINE X == {c \in batch : c.type = "experience_summary"}
  <2>2. CASE X = {}
    BY <2>2, FS_EmptySet
  <2>3. CASE X # {}
    <3>1. PICK c \in X : TRUE
      BY <2>3
    <3>2. X = {c}
      BY <2>1, <3>1
    <3> QED BY <3>2, FS_Singleton
  <2> QED BY <2>2, <2>3
<1> HIDE DEF batch
<1> QED BY <1>1, <1>2, <1>3, <1>5, <1>6, <1>7, KeptCount DEF batch

---------------------------------------------------------------------------
(* Recommendations. *)

LEMMA CountPositive ==
    ASSUME NEW tags \in Seq(Terms), NEW S
    PROVE  Count(tags, S) > 0 <=> \E n \in DOMAIN tags : tags[n] \in S
<1> DEFINE N == {n \in DOMAIN tags : tags[n] \in S}
<1>1. IsFiniteSet(1 .. Len(tags)) /\ DOMAIN tags = 1 .. Len(tags)
  BY FS_Interval
<1>2. IsFiniteSet(N)
  BY <1>1, FS_Subset
<1>3. (Cardinality(N) = 0 <=> N = {}) /\ Cardinality(N) \in Nat
  BY <1>2, FS_EmptySet, FS_CardinalityType
<1>4. Count(tags, S) = Cardinality(N)
  BY DEF Count
<1>5. Cardinality(N) > 0 <=> N # {}
  <2> HIDE DEF N
  <2> QED BY <1>3
<1> QED BY <1>4, <1>5

LEMMA EntryScored ==
    ASSUME base \in Bases, NEW e \in base.entries, NEW c \in Context
    PROVE  /\ "tags" \in DOMAIN e
           /\ EntryPoints(e, c) \in Nat
           /\ EntryPoints(e, c) > 0 <=> Shares(e, c)
<1>1. e \in Entry
  BY BaseAssumption
<1>2. "tags" \in DOMAIN e
  BY <1>1 DEF Entry
<1>3. c.tags \in Seq(Terms)
  BY DEF Context
<1> DEFINE A == EntryScore(e, c)
           B == Points(8, Named(c.domain, e.tags))
           D == Points(8, Named(c.problem, e.tags))
           K == Count(c.tags, e.tags)
<1>4. A \in Nat /\ (A > 0 <=> Named(c.skill, e.tags) \/ Named(c.skill, e.text))
  BY DEF EntryScore, Points
<1>5. B \in Nat /\ (B > 0 <=> Named(c.domain, e.tags))
  BY DEF Points
<1>6. D \in Nat /\ (D > 0 <=> Named(c.problem, e.tags))
  BY DEF Points
<1>7. K \in Nat /\ (K > 0 <=> \E n \in DOMAIN c.tags : c.tags[n] \in e.tags)
  BY <1>3, CountIsNumber, CountPositive
<1>8. Shares(e, c) <=> \/ \E n \in DOMAIN c.tags : c.tags[n] \in e.tags
                       \/ Named(c.skill, e.tags) \/ Named(c.domain, e.tags)
                       \/ Named(c.problem, e.tags) \/ Named(c.skill, e.text)
  BY <1>2 DEF Shares
<1>9. EntryPoints(e, c) = A + B + D + 6 * K
  BY DEF EntryPoints
<1> HIDE DEF A, B, D, K
<1>10. /\ A + B + D + 6 * K \in Nat
       /\ A + B + D + 6 * K > 0 <=> A > 0 \/ B > 0 \/ D > 0 \/ K > 0
  BY <1>4, <1>5, <1>6, <1>7
<1> QED BY <1>2, <1>4, <1>5, <1>6, <1>7, <1>8, <1>9, <1>10

LEMMA RecordScored ==
    ASSUME base \in Bases, NEW r \in base.records, NEW c \in Context
    PROVE  /\ "tags" \notin DOMAIN r
           /\ RecordPoints(r, c) \in Nat
           /\ RecordPoints(r, c) > 0 <=> Shares(r, c)
<1>1. r \in Record
  BY BaseAssumption
<1>2. "tags" \notin DOMAIN r
  BY <1>1 DEF Record
<1>3. c.tags \in Seq(Terms)
  BY DEF Context
<1> DEFINE A == Points(8, Named(c.domain, {r.domain}))
           B == Points(8, Named(c.problem, {r.problem}))
           D == Points(6, \E t \in Listed(c) : <<t, r.type>> \in Inside)
           K == Count(c.tags, r.tech \ {Empty})
           L == Count(c.tags, r.patterns \ {Empty})
           M == Count(c.tags, r.lessons \ {Empty})
<1>4. A \in Nat /\ (A > 0 <=> Named(c.domain, {r.domain}))
  BY DEF Points
<1>5. B \in Nat /\ (B > 0 <=> Named(c.problem, {r.problem}))
  BY DEF Points
<1>6. D \in Nat /\ (D > 0 <=> \E t \in Listed(c) : <<t, r.type>> \in Inside)
  BY DEF Points
<1>7. /\ K \in Nat /\ (K > 0 <=> \E n \in DOMAIN c.tags : c.tags[n] \in r.tech \ {Empty})
      /\ L \in Nat /\ (L > 0 <=> \E n \in DOMAIN c.tags : c.tags[n] \in r.patterns \ {Empty})
      /\ M \in Nat /\ (M > 0 <=> \E n \in DOMAIN c.tags : c.tags[n] \in r.lessons \ {Empty})
  BY <1>3, CountIsNumber, CountPositive
<1>8. Shares(r, c) <=> \/ \E n \in DOMAIN c.tags : c.tags[n] \in r.tech \ {Empty}
                       \/ \E n \in DOMAIN c.tags : c.tags[n] \in r.patterns \ {Empty}
                       \/ \E n \in DOMAIN c.tags : c.tags[n] \in r.lessons \ {Empty}
                       \/ \E t \in Listed(c) : <<t, r.type>> \in Inside
                       \/ Named(c.domain, {r.domain}) \/ Named(c.problem, {r.problem})
  BY <1>2 DEF Shares, Listed
<1>9. RecordPoints(r, c) = A + B + D + 6 * K + 6 * L + 4 * M
  BY DEF RecordPoints
<1> HIDE DEF A, B, D, K, L, M
<1>10. /\ A + B + D + 6 * K + 6 * L + 4 * M \in Nat
       /\ A + B + D + 6 * K + 6 * L + 4 * M > 0 <=>
            A > 0 \/ B > 0 \/ D > 0 \/ K > 0 \/ L > 0 \/ M > 0
  BY <1>4, <1>5, <1>6, <1>7
<1> QED BY <1>2, <1>4, <1>5, <1>6, <1>7, <1>8, <1>9, <1>10

Worth(x, c) == IF "tags" \in DOMAIN x THEN EntryPoints(x, c) ELSE RecordPoints(x, c)

(* All there is to recommend among A. *)
Worthy(A, c) == {[item |-> x, score |-> Worth(x, c)] : x \in {x \in A : Shares(x, c)}}

LEMMA KnowledgeIsWorthy ==
    ASSUME base \in Bases, NEW c \in Context
    PROVE  RecommendKnowledge(c) = Worthy(base.entries, c)
<1>1. ASSUME NEW e \in base.entries
      PROVE  Worth(e, c) = EntryPoints(e, c) /\ (EntryPoints(e, c) > 0 <=> Shares(e, c))
  BY EntryScored DEF Worth
<1>2. KnowledgeResults(c) \subseteq Worthy(base.entries, c)
  <2> SUFFICES ASSUME NEW e \in base.entries, EntryPoints(e, c) > 0
               PROVE  [item |-> e, score |-> EntryPoints(e, c)] \in Worthy(base.entries, c)
    BY DEF KnowledgeResults, Scored
  <2> QED BY <1>1 DEF Worthy
<1>3. Worthy(base.entries, c) \subseteq KnowledgeResults(c)
  <2> SUFFICES ASSUME NEW e \in base.entries, Shares(e, c)
               PROVE  [item |-> e, score |-> Worth(e, c)] \in KnowledgeResults(c)
    BY DEF Worthy
  <2>1. Worth(e, c) = EntryPoints(e, c) /\ EntryPoints(e, c) > 0
    BY <1>1
  <2>2. [item |-> e, score |-> EntryPoints(e, c)].score > 0
    BY <2>1
  <2> QED BY <2>1, <2>2, Zenon DEF KnowledgeResults, Scored
<1> QED BY <1>2, <1>3, FallbackFindsNothing DEF RecommendKnowledge

LEMMA ExperienceIsWorthy ==
    ASSUME base \in Bases, NEW c \in Context
    PROVE  RecommendExperience(c) = Worthy(base.records, c)
<1>1. ASSUME NEW r \in base.records
      PROVE  Worth(r, c) = RecordPoints(r, c) /\ (RecordPoints(r, c) > 0 <=> Shares(r, c))
  BY RecordScored DEF Worth
<1>2. RecommendExperience(c) \subseteq Worthy(base.records, c)
  <2> SUFFICES ASSUME NEW r \in base.records, RecordPoints(r, c) > 0
               PROVE  [item |-> r, score |-> RecordPoints(r, c)] \in Worthy(base.records, c)
    BY DEF RecommendExperience, Scored
  <2> QED BY <1>1 DEF Worthy
<1>3. Worthy(base.records, c) \subseteq RecommendExperience(c)
  <2> SUFFICES ASSUME NEW r \in base.records, Shares(r, c)
               PROVE  [item |-> r, score |-> Worth(r, c)] \in RecommendExperience(c)
    BY DEF Worthy
  <2>1. Worth(r, c) = RecordPoints(r, c) /\ RecordPoints(r, c) > 0
    BY <1>1
  <2>2. [item |-> r, score |-> RecordPoints(r, c)].score > 0
    BY <2>1
  <2> QED BY <2>1, <2>2, Zenon DEF RecommendExperience, Scored
<1> QED BY <1>2, <1>3

(* A set of results is as large as the set of what they are about. *)
LEMMA ItemsCount ==
    ASSUME NEW T, IsFiniteSet(T), \A x, y \in T : x.item = y.item => x = y
    PROVE  Cardinality({x.item : x \in T}) = Cardinality(T)
<1> DEFINE I == {x.item : x \in T}
           f == [x \in T |-> x.item]
<1>1. f \in Bijection(T, I)
  BY DEF Bijection, Injection, Surjection, IsInjective
<1> HIDE DEF f, I
<1>2. ExistsBijection(T, I)
  BY <1>1 DEF ExistsBijection
<1> QED BY <1>2, FS_Bijection DEF I

LEMMA WorthyFinite ==
    ASSUME NEW A, IsFiniteSet(A), NEW c
    PROVE  IsFiniteSet(Worthy(A, c))
<1> DEFINE B == {x \in A : Shares(x, c)}
           f == [x \in B |-> [item |-> x, score |-> Worth(x, c)]]
<1>1. IsFiniteSet(B)
  BY FS_Subset
<1>2. f \in Surjection(B, Worthy(A, c))
  BY DEF Surjection, Worthy
<1> HIDE DEF B, f
<1> QED BY <1>1, <1>2, FS_Surjection

(* The best of what there is, or all of it. *)
LEMMA BestOfWorthy ==
    ASSUME base \in Bases, NEW A \in SUBSET Items, NEW c \in Context, NEW top \in Nat, NEW found,
           \/ top > 0 /\ found \in Best(Worthy(A, c), top, LAMBDA x : x.score)
           \/ top = 0 /\ found = Worthy(A, c)
    PROVE  LET given == {x.item : x \in found}
               rest  == {x \in A \ given : Shares(x, c)}
           IN /\ \A x \in given : Shares(x, c)
              /\ rest # {} => top > 0 /\ Cardinality(given) = top
              /\ top > 0 => Cardinality(given) <= top
              /\ \A x \in found, y \in rest : x.score >= Worth(y, c)
<1> DEFINE W == Worthy(A, c)
           given == {x.item : x \in found}
           rest  == {x \in A \ given : Shares(x, c)}
<1>1. IsFiniteSet(A)
  <2>1. IsFiniteSet(base.entries) /\ IsFiniteSet(base.records)
    BY BaseAssumption
  <2> QED BY <2>1, FS_Union, FS_Subset DEF Items
<1>2. IsFiniteSet(W) /\ found \subseteq W
  BY <1>1, WorthyFinite DEF Best
<1>3. \A x \in W : x.item \in A /\ Shares(x.item, c) /\ x = [item |-> x.item, score |-> Worth(x.item, c)]
  BY DEF Worthy
<1>4. IsFiniteSet(found) /\ Cardinality(given) = Cardinality(found)
  <2>1. IsFiniteSet(found)
    BY <1>2, FS_Subset
  <2>2. \A x, y \in found : x.item = y.item => x = y
    BY <1>2, <1>3
  <2> QED BY <2>1, <2>2, ItemsCount
<1>5. ASSUME NEW y \in rest
      PROVE  [item |-> y, score |-> Worth(y, c)] \in W \ found
  <2>1. [item |-> y, score |-> Worth(y, c)] \in W
    BY DEF Worthy
  <2>2. ASSUME [item |-> y, score |-> Worth(y, c)] \in found PROVE y \in given
    <3>1. [item |-> y, score |-> Worth(y, c)].item = y
      OBVIOUS
    <3> QED BY <2>2, <3>1, Zenon
  <2> QED BY <2>1, <2>2
<1>6. \A x \in given : Shares(x, c)
  BY <1>2, <1>3
<1> HIDE DEF W, given
<1>7. CASE top = 0 /\ found = W
  <2>1. rest = {}
    BY <1>5, <1>7
  <2> QED BY <1>6, <1>7, <2>1 DEF given
<1>8. CASE top > 0 /\ found \in Best(W, top, LAMBDA x : x.score)
  <2>1. /\ Cardinality(found) = IF Cardinality(W) < top THEN Cardinality(W) ELSE top
        /\ \A x \in found, y \in W \ found : x.score >= y.score
    BY <1>8 DEF Best
  <2>2. Cardinality(W) \in Nat /\ Cardinality(found) <= top
    BY <1>2, <2>1, FS_CardinalityType
  <2>3. ASSUME rest # {} PROVE Cardinality(found) = top
    <3>1. found # W
      BY <1>5, <2>3
    <3>2. Cardinality(found) # Cardinality(W)
      BY <1>2, <3>1, FS_Subset
    <3> QED BY <2>1, <3>2
  <2>4. ASSUME NEW x \in found, NEW y \in rest PROVE x.score >= Worth(y, c)
    <3>1. x.score >= [item |-> y, score |-> Worth(y, c)].score
      BY <1>5, <2>1
    <3> QED BY <3>1
  <2> QED BY <1>4, <1>6, <1>8, <2>2, <2>3, <2>4 DEF given
<1> QED BY <1>7, <1>8 DEF W

(* RecommendationsFound, of an answer about A. *)
FoundWell(A, c, top, found) ==
    LET given == {x.item : x \in found}
        rest  == {x \in A \ given : Shares(x, c)}
    IN /\ \A x \in given : Shares(x, c)
       /\ rest # {} => top > 0 /\ Cardinality(given) = top
       /\ top > 0 => Cardinality(given) <= top
       /\ \A x \in found, y \in rest : x.score >= Worth(y, c)

LEMMA FoundWellIs ==
    /\ ask.about = "query" =>
         (RecommendationsFound <=> FoundWell(Items, ask.context, ask.top, ask.found))
    /\ ask.about = "run" =>
         (RecommendationsFound <=> FoundWell(base.entries, ask.context, ask.top, ask.found))
BY DEF RecommendationsFound, FoundWell, Worth, Items

LEMMA RecommendAnswer ==
    ASSUME base \in Bases, NEW q \in Queries, NEW top \in Limits, Recommend(q, top)
    PROVE  RecommendationsFound'
<1> DEFINE c == QueryContext(q.words, q.tags, q.domain)
<1>1. PICK found \in Merged(c, top) :
        ask' = [about |-> "query", context |-> c, top |-> top, found |-> found]
  BY DEF Recommend
<1>2. c \in Context /\ top \in Nat
  <2>1. q \in [words : Seq(Terms), tags : Seq(Terms), domain : Terms]
    BY QueryAssumption
  <2>2. q.words # <<>> => q.words[1] \in Terms
    BY <2>1
  <2>3. q.words \o q.tags \in Seq(Terms)
    BY <2>1
  <2> QED BY <2>1, <2>2, <2>3, QueryAssumption DEF QueryContext, Context
<1> HIDE DEF c
<1>3. RecommendKnowledge(c) \cup RecommendExperience(c) = Worthy(Items, c)
  BY <1>2, KnowledgeIsWorthy, ExperienceIsWorthy DEF Worthy, Items
<1>4. \/ top > 0 /\ found \in Best(Worthy(Items, c), top, LAMBDA x : x.score)
      \/ top = 0 /\ found = Worthy(Items, c)
  BY <1>1, <1>2, <1>3 DEF Merged
<1>5. FoundWell(Items, c, top, found)
  BY <1>2, <1>4, BestOfWorthy DEF FoundWell
<1>6. /\ ask'.about = "query" /\ ask'.context = c /\ ask'.top = top /\ ask'.found = found
      /\ base' = base
  BY <1>1 DEF Recommend
<1>7. (ask.about = "query" =>
         (RecommendationsFound <=> FoundWell(Items, ask.context, ask.top, ask.found)))'
  BY FoundWellIs, PTL
<1>8. Items' = Items
  BY <1>6 DEF Items
<1> QED BY <1>5, <1>6, <1>7, <1>8

LEMMA RunAnswer ==
    ASSUME base \in Bases, NEW t \in Terms \ {Empty}, RecommendRun(t)
    PROVE  RecommendationsFound'
<1> DEFINE c == RunContext(t)
<1>1. PICK found \in Best(RecommendKnowledge(c), 3, LAMBDA x : x.score) :
        ask' = [about |-> "run", context |-> c, top |-> 3, found |-> found]
  BY DEF RecommendRun
<1>2. c \in Context
  BY QueryAssumption DEF RunContext, Context
<1> HIDE DEF c
<1>3. RecommendKnowledge(c) = Worthy(base.entries, c)
  BY <1>2, KnowledgeIsWorthy
<1>4. FoundWell(base.entries, c, 3, found)
  <2>1. base.entries \in SUBSET Items /\ 3 \in Nat /\ 3 > 0
    BY DEF Items
  <2>2. found \in Best(Worthy(base.entries, c), 3, LAMBDA x : x.score)
    BY <1>1, <1>3
  <2> DEFINE A == base.entries
             n == 3
  <2> HIDE DEF A, n
  <2>3. A \in SUBSET Items /\ n \in Nat /\ n > 0 /\ found \in Best(Worthy(A, c), n, LAMBDA x : x.score)
    BY <2>1, <2>2 DEF A, n
  <2>4. FoundWell(A, c, n, found)
    BY <1>2, <2>3, BestOfWorthy DEF FoundWell
  <2> QED BY <2>4 DEF A, n
<1>5. /\ ask'.about = "run" /\ ask'.context = c /\ ask'.top = 3 /\ ask'.found = found
      /\ base' = base
  BY <1>1 DEF RecommendRun
<1>6. (ask.about = "run" =>
         (RecommendationsFound <=> FoundWell(base.entries, ask.context, ask.top, ask.found)))'
  BY FoundWellIs, PTL
<1> QED BY <1>4, <1>5, <1>6

---------------------------------------------------------------------------
(* Advisories. *)

(* A record goes on in one way from the first use of a skill, if it does.  *)
LEMMA AfterOnce ==
    ASSUME NEW r \in Record, NEW h, NEW s \in After(r, h), NEW t \in After(r, h)
    PROVE  s = t
<1>1. CASE h.skill = Empty
  BY <1>1 DEF After
<1>2. CASE h.skill # Empty
  <2> DEFINE First == {n \in 1 .. Len(r.skills) - 1 :
                          /\ r.skills[n] = h.skill
                          /\ \A m \in 1 .. n - 1 : r.skills[m] # h.skill}
  <2>1. PICK m \in First : s = SubSeq(r.skills, m + 1, Len(r.skills))
    BY <1>2 DEF After
  <2>2. PICK n \in First : t = SubSeq(r.skills, n + 1, Len(r.skills))
    BY <1>2 DEF After
  <2>3. Len(r.skills) \in Nat
    BY DEF Record
  <2>4. m \in Nat \ {0} /\ n \in Nat \ {0}
    BY <2>3
  <2>5. ~(m \in 1 .. n - 1) /\ ~(n \in 1 .. m - 1)
    OBVIOUS
  <2>6. m = n
    BY <2>4, <2>5
  <2> QED BY <2>1, <2>2, <2>6
<1> QED BY <1>1, <1>2

LEMMA BucketIs ==
    ASSUME base \in Bases, NEW h
    PROVE  /\ Bucket(h) \subseteq Record /\ IsFiniteSet(Bucket(h))
           /\ Cardinality(Bucket(h)) \in Nat
           /\ \A r \in Bucket(h) : r.created \in Nat
<1>1. base.records \subseteq Record /\ IsFiniteSet(base.records)
  BY BaseAssumption
<1>2. Bucket(h) \in SUBSET base.records
  BY DEF Bucket
<1>3. IsFiniteSet(Bucket(h)) /\ Cardinality(Bucket(h)) \in Nat
  BY <1>1, <1>2, FS_Subset, FS_CardinalityType
<1> QED BY <1>1, <1>2, <1>3 DEF Record

(* Alike who went on in one of the ways of a set of hits. *)
Goers(W, h, X) == {r \in W : \E a \in X : a.skills \in After(r, h)}

Sized(X) == {[of |-> a, size |-> a.count] : a \in X}

LEMMA HitsAre ==
    ASSUME NEW W, IsFiniteSet(W), W \subseteq Record, NEW h
    PROVE  /\ IsFiniteSet(Hits(W, h))
           /\ \A a \in Hits(W, h) :
                /\ a.count = Cardinality(Goers(W, h, {a})) /\ a.count \in Nat \ {0}
                /\ a = [skills |-> a.skills, count |-> a.count]
           /\ \A a, b \in Hits(W, h) : a.skills = b.skills => a = b
<1> DEFINE hit(s) == [skills |-> s, count |-> Cardinality({r \in W : s \in After(r, h)})]
           Goes == {r \in W : After(r, h) # {}}
           f == [r \in Goes |-> hit(CHOOSE s \in After(r, h) : TRUE)]
<1>1. Hits(W, h) = {hit(s) : s \in UNION {After(r, h) : r \in W}}
  BY DEF Hits
<1>2. \A r \in Goes : \A s \in After(r, h) : f[r] = hit(s) /\ f[r] \in Hits(W, h)
  <2> SUFFICES ASSUME NEW r \in Goes, NEW s \in After(r, h)
               PROVE  f[r] = hit(s) /\ f[r] \in Hits(W, h)
    OBVIOUS
  <2>1. (CHOOSE t \in After(r, h) : TRUE) \in After(r, h)
    OBVIOUS
  <2>2. (CHOOSE t \in After(r, h) : TRUE) = s
    BY <2>1, AfterOnce
  <2> QED BY <1>1, <2>2
<1>3. f \in Surjection(Goes, Hits(W, h))
  <2>1. ASSUME NEW a \in Hits(W, h) PROVE \E r \in Goes : f[r] = a
    <3>1. PICK r \in W : \E s \in After(r, h) : a = hit(s)
      BY <1>1
    <3> QED BY <1>2, <3>1
  <2>2. \A r \in Goes : f[r] \in Hits(W, h)
    BY <1>2
  <2>3. f = [r \in Goes |-> f[r]]
    OBVIOUS
  <2> HIDE DEF f, Goes
  <2> QED BY <2>1, <2>2, <2>3 DEF Surjection
<1>4. IsFiniteSet(Hits(W, h))
  <2>1. IsFiniteSet(Goes)
    BY FS_Subset
  <2> HIDE DEF f, Goes
  <2> QED BY <1>3, <2>1, FS_Surjection
<1>5. ASSUME NEW a \in Hits(W, h)
      PROVE  /\ a.count = Cardinality(Goers(W, h, {a})) /\ a.count \in Nat \ {0}
             /\ a = [skills |-> a.skills, count |-> a.count]
  <2>1. PICK r \in W : \E s \in After(r, h) : a = hit(s)
    BY <1>1
  <2>2. a = [skills |-> a.skills, count |-> a.count] /\ a.skills \in After(r, h)
    BY <2>1
  <2>3. Goers(W, h, {a}) = {q \in W : a.skills \in After(q, h)}
    BY DEF Goers
  <2>4. a.count = Cardinality(Goers(W, h, {a}))
    BY <2>1, <2>3
  <2>5. IsFiniteSet(Goers(W, h, {a})) /\ Goers(W, h, {a}) # {}
    BY <2>2, FS_Subset DEF Goers
  <2>6. Cardinality(Goers(W, h, {a})) \in Nat \ {0}
    BY <2>5, FS_CardinalityType, FS_EmptySet
  <2> QED BY <2>2, <2>4, <2>6
<1>6. \A a, b \in Hits(W, h) : a.skills = b.skills => a = b
  <2>1. ASSUME NEW a \in Hits(W, h) PROVE a = hit(a.skills)
    <3>1. PICK s : a = hit(s)
      BY <1>1
    <3>2. a.skills = s
      BY <3>1
    <3> QED BY <3>1, <3>2
  <2> HIDE DEF hit
  <2> QED BY <2>1
<1> QED BY <1>4, <1>5, <1>6

LEMMA SizedIs ==
    ASSUME NEW W, IsFiniteSet(W), W \subseteq Record, NEW h, NEW F \in SUBSET Hits(W, h)
    PROVE  /\ IsFiniteSet(F) /\ IsFiniteSet(Sized(F))
           /\ \A y \in Sized(F) : y.size \in Nat
           /\ SizeOf(Sized(F)) \in Nat
<1>1. IsFiniteSet(F) /\ \A b \in F : b.count \in Nat
  BY HitsAre, FS_Subset
<1>2. \A y \in Sized(F) : y.size \in Nat
  BY <1>1 DEF Sized
<1> DEFINE g == [b \in F |-> [of |-> b, size |-> b.count]]
<1>3. g \in Surjection(F, Sized(F))
  BY DEF Surjection, Sized
<1> HIDE DEF g
<1>4. IsFiniteSet(Sized(F))
  BY <1>1, <1>3, FS_Surjection
<1> QED BY <1>1, <1>2, <1>4, SizeIsNumber

(* Every record is counted in one hit at most. *)
LEMMA HitsWithin ==
    ASSUME NEW W, IsFiniteSet(W), W \subseteq Record, NEW h, NEW F \in SUBSET Hits(W, h)
    PROVE  SizeOf(Sized(F)) <= Cardinality(W)
<1> DEFINE U(X) == Goers(W, h, X)
           Bad == {X \in SUBSET F : ~(SizeOf(Sized(X)) <= Cardinality(U(X)))}
<1>1. \A X : IsFiniteSet(U(X)) /\ Cardinality(U(X)) \in Nat /\ Cardinality(U(X)) <= Cardinality(W)
  <2> TAKE X
  <2>1. U(X) \in SUBSET W
    BY DEF Goers
  <2> QED BY <2>1, FS_Subset, FS_CardinalityType
<1>2. IsFiniteSet(F)
  BY HitsAre, FS_Subset
<1>3. ASSUME F \in Bad PROVE FALSE
  <2>1. PICK S \in Bad : \A x \in S : \A X \in SUBSET (S \ {x}) : X \notin Bad
    <3>1. Bad \subseteq SUBSET F /\ Bad # {}
      BY <1>3
    <3> HIDE DEF Bad
    <3> QED BY <1>2, <3>1, LeastSet
  <2>2. CASE S = {}
    <3>1. Sized(S) = {} /\ SizeOf({}) = 0
      BY <2>2, SizeStep, FS_EmptySet DEF Sized
    <3> QED BY <1>1, <2>1, <3>1
  <2>3. CASE S # {}
    <3>1. PICK a \in S : TRUE
      BY <2>3
    <3> DEFINE R == S \ {a}
               z == [of |-> a, size |-> a.count]
    <3>2. R \in SUBSET F /\ R \notin Bad /\ S \in SUBSET F
      BY <2>1, <3>1
    <3>3. SizeOf(Sized(R)) <= Cardinality(U(R))
      BY <3>2
    <3>4. Sized(S) = Sized(R) \cup {z} /\ z \notin Sized(R)
      BY <3>1 DEF Sized
    <3>5. /\ \A y \in Sized(R) : y.size \in Nat
          /\ IsFiniteSet(Sized(R)) /\ SizeOf(Sized(R)) \in Nat
      <4>1. R \in SUBSET Hits(W, h)
        BY <3>2
      <4> HIDE DEF R
      <4> QED BY <4>1, SizedIs
    <3>6. a.count \in Nat /\ a.count = Cardinality(U({a}))
      BY <3>1, <3>2, HitsAre
    <3>7. SizeOf(Sized(S)) = SizeOf(Sized(R)) + a.count
      <4>1. z.size = a.count
        OBVIOUS
      <4> HIDE DEF z, R
      <4> QED BY <3>4, <3>5, <3>6, <4>1, SizeOfMore
    <3>8. U(S) = U(R) \cup U({a}) /\ U(R) \cap U({a}) = {}
      <4>1. U(S) = U(R) \cup U({a})
        BY <3>1 DEF Goers
      <4>2. ASSUME NEW r \in U(R), r \in U({a}) PROVE FALSE
        <5>1. PICK b \in R : b.skills \in After(r, h)
          BY DEF Goers
        <5>2. a.skills \in After(r, h) /\ r \in Record
          BY <4>2 DEF Goers
        <5>3. a.skills = b.skills
          BY <5>1, <5>2, AfterOnce
        <5> QED BY <3>1, <3>2, <5>1, <5>3, HitsAre
      <4> QED BY <4>1, <4>2
    <3>9. Cardinality(U(S)) = Cardinality(U(R)) + Cardinality(U({a}))
      <4> HIDE DEF U
      <4>1. Cardinality(U(S)) = Cardinality(U(R)) + Cardinality(U({a})) - Cardinality({})
        BY <1>1, <3>8, FS_Union
      <4> QED BY <1>1, <4>1, FS_EmptySet
    <3>10. SizeOf(Sized(S)) <= Cardinality(U(S))
      <4> HIDE DEF U, R
      <4> QED BY <1>1, <3>3, <3>5, <3>6, <3>7, <3>9
    <3> QED BY <2>1, <3>10
  <2> QED BY <2>2, <2>3
<1>4. SizeOf(Sized(F)) <= Cardinality(U(F))
  BY <1>3
<1>5. SizeOf(Sized(F)) \in Nat
  BY SizedIs
<1>6. Cardinality(W) \in Nat
  BY FS_CardinalityType
<1> HIDE DEF U
<1> QED BY <1>1, <1>4, <1>5, <1>6

(* A record with fewer than Window as new is in every window. *)
LEMMA NewestWithin ==
    ASSUME base \in Bases, NEW h, NEW W \in Windowed(h), NEW r \in Bucket(h),
           Cardinality({q \in Bucket(h) : q.created >= r.created}) <= Window
    PROVE  r \in W
<1> DEFINE N == {q \in Bucket(h) : q.created >= r.created}
<1> SUFFICES ASSUME r \notin W PROVE FALSE
  OBVIOUS
<1>1. /\ W \subseteq Bucket(h)
      /\ Cardinality(W) = IF Cardinality(Bucket(h)) < Window THEN Cardinality(Bucket(h)) ELSE Window
      /\ \A x \in W, y \in Bucket(h) \ W : x.created >= y.created
  BY DEF Windowed, Best
<1>2. IsFiniteSet(Bucket(h)) /\ Cardinality(Bucket(h)) \in Nat /\ Window \in Nat
  BY BucketIs, QueryAssumption
<1>3. IsFiniteSet(W) /\ Cardinality(W) \in Nat
  BY <1>1, <1>2, FS_Subset, FS_CardinalityType
<1>4. W \cup {r} \subseteq N
  <2>1. r.created \in Nat
    BY BucketIs
  <2> QED BY <1>1, <2>1
<1>5. IsFiniteSet(N) /\ Cardinality(N) \in Nat
  BY <1>2, FS_Subset, FS_CardinalityType
<1> HIDE DEF N
<1>6. Cardinality(W \cup {r}) = Cardinality(W) + 1
  BY <1>3, FS_AddElement
<1>7. Cardinality(W \cup {r}) <= Cardinality(N)
  BY <1>4, <1>5, FS_Subset
<1>8. Cardinality(N) <= Window
  BY DEF N
<1>9. Cardinality(W) # Cardinality(Bucket(h))
  BY <1>1, <1>2, FS_Subset
<1> QED BY <1>1, <1>2, <1>3, <1>5, <1>6, <1>7, <1>8, <1>9

(* AdvisoriesFound, of the advisories told of a bucket. *)
AdvisedWell(B, h, top, found) ==
    LET Went(s) == {r \in B : s \in After(r, h)}
        Newest == {r \in B : Cardinality({q \in B : q.created >= r.created}) <= Window}
    IN /\ \A a \in found : a.count \in 1 .. Cardinality(Went(a.skills))
       /\ SizeOf({[of |-> a, size |-> a.count] : a \in found}) <= Window
       /\ Cardinality(B) < Threshold => found = {}
       /\ Cardinality(B) >= Threshold =>
            \A s \in UNION {After(r, h) : r \in Newest} :
                \/ \E a \in found : a.skills = s
                \/ /\ Cardinality(found) = top
                   /\ \A a \in found : a.count >= Cardinality(Newest \cap Went(s))

LEMMA AdvisedWellIs ==
    ask.about = "recall" =>
        (AdvisoriesFound <=> AdvisedWell(Bucket(ask.hint), ask.hint, ask.top, ask.found))
BY DEF AdvisoriesFound, AdvisedWell

LEMMA NothingAdvised ==
    ASSUME base \in Bases, NEW h, NEW top, Cardinality(Bucket(h)) < Threshold
    PROVE  AdvisedWell(Bucket(h), h, top, {})
<1>1. {[of |-> a, size |-> a.count] : a \in {}} = {} /\ SizeOf({}) = 0
  BY SizeStep, FS_EmptySet
<1>2. Cardinality(Bucket(h)) \in Nat /\ Threshold \in Nat /\ Window \in Nat
  BY BucketIs, QueryAssumption
<1>3. ~(Cardinality(Bucket(h)) >= Threshold)
  BY <1>2
<1> QED BY <1>1, <1>2, <1>3 DEF AdvisedWell

LEMMA HitsAdvised ==
    ASSUME base \in Bases, NEW h, NEW top \in Nat, ~(Cardinality(Bucket(h)) < Threshold),
           NEW W \in Windowed(h), NEW found \in Best(Hits(W, h), top, LAMBDA x : x.count)
    PROVE  AdvisedWell(Bucket(h), h, top, found)
<1> DEFINE B == Bucket(h)
           H == Hits(W, h)
           Went(s) == {r \in B : s \in After(r, h)}
           Newest == {r \in B : Cardinality({q \in B : q.created >= r.created}) <= Window}
<1>1. /\ W \subseteq B /\ W \subseteq Record
      /\ Cardinality(W) = IF Cardinality(B) < Window THEN Cardinality(B) ELSE Window
  BY BucketIs DEF Windowed, Best
<1>2. IsFiniteSet(W) /\ Cardinality(W) \in Nat /\ IsFiniteSet(B)
  BY <1>1, BucketIs, FS_Subset, FS_CardinalityType
<1>3. /\ found \subseteq H
      /\ Cardinality(found) = IF Cardinality(H) < top THEN Cardinality(H) ELSE top
      /\ \A x \in found, y \in H \ found : x.count >= y.count
  BY DEF Best
<1>4. Newest \subseteq W
  BY NewestWithin
<1>5. ASSUME NEW a \in found PROVE a.count \in 1 .. Cardinality(Went(a.skills))
  <2>1. a \in H /\ a.count = Cardinality(Goers(W, h, {a})) /\ a.count \in Nat \ {0}
    BY <1>1, <1>2, <1>3, HitsAre
  <2>2. Goers(W, h, {a}) \subseteq Went(a.skills) /\ Went(a.skills) \subseteq B
    BY <1>1 DEF Goers
  <2>3. IsFiniteSet(Went(a.skills))
    BY <1>2, <2>2, FS_Subset
  <2> HIDE DEF Went
  <2>4. Cardinality(Goers(W, h, {a})) <= Cardinality(Went(a.skills))
        /\ Cardinality(Went(a.skills)) \in Nat
    BY <2>2, <2>3, FS_Subset, FS_CardinalityType
  <2> QED BY <2>1, <2>4
<1>6. SizeOf({[of |-> a, size |-> a.count] : a \in found}) <= Window
  <2>1. SizeOf(Sized(found)) <= Cardinality(W)
    BY <1>1, <1>2, <1>3, HitsWithin
  <2>2. Cardinality(W) <= Window /\ Window \in Nat /\ Cardinality(B) \in Nat
    BY <1>1, BucketIs, QueryAssumption
  <2>3. SizeOf(Sized(found)) \in Nat
    BY <1>1, <1>2, <1>3, SizedIs
  <2> QED BY <1>2, <2>1, <2>2, <2>3 DEF Sized
<1>7. ASSUME NEW s \in UNION {After(r, h) : r \in Newest}, ~ \E a \in found : a.skills = s
      PROVE  /\ Cardinality(found) = top
             /\ \A a \in found : a.count >= Cardinality(Newest \cap Went(s))
  <2> DEFINE Alike == {r \in W : s \in After(r, h)}
             b == [skills |-> s, count |-> Cardinality(Alike)]
  <2>1. s \in UNION {After(r, h) : r \in W}
    BY <1>4
  <2>2. b \in H
    BY <2>1 DEF Hits
  <2>3. b \notin found
    <3>1. b.skills = s
      OBVIOUS
    <3> HIDE DEF b
    <3> QED BY <1>7, <3>1
  <2>4. IsFiniteSet(H)
    BY <1>1, <1>2, HitsAre
  <2> HIDE DEF H
  <2>5. Cardinality(found) # Cardinality(H)
    BY <1>3, <2>2, <2>3, <2>4, FS_Subset
  <2>6. Cardinality(Newest \cap Went(s)) <= Cardinality(Alike)
    <3>1. Newest \cap Went(s) \subseteq Alike
      BY <1>4
    <3>2. IsFiniteSet(Alike)
      BY <1>2, FS_Subset
    <3> HIDE DEF Alike, Newest, Went
    <3> QED BY <3>1, <3>2, FS_Subset
  <2>7. Cardinality(Newest \cap Went(s)) \in Nat /\ Cardinality(Alike) \in Nat
    <3>1. IsFiniteSet(Alike) /\ IsFiniteSet(Newest \cap Went(s))
      BY <1>2, FS_Subset
    <3> HIDE DEF Alike, Newest, Went
    <3> QED BY <3>1, FS_CardinalityType
  <2>8. ASSUME NEW a \in found PROVE a.count >= Cardinality(Newest \cap Went(s))
    <3>1. a.count \in Nat
      BY <1>1, <1>2, <1>3, HitsAre DEF H
    <3>2. a.count >= b.count /\ b.count = Cardinality(Alike)
      BY <1>3, <2>2, <2>3
    <3> HIDE DEF Alike, Newest, Went, b
    <3> QED BY <2>6, <2>7, <3>1, <3>2
  <2> QED BY <1>3, <2>5, <2>8
<1>8. ~(Cardinality(B) < Threshold)
  OBVIOUS
<1> QED BY <1>5, <1>6, <1>7, <1>8 DEF AdvisedWell

LEMMA RecallAnswer ==
    ASSUME base \in Bases, NEW h \in Hints, NEW top \in Limits, Recall(h, top)
    PROVE  AdvisoriesFound'
<1>1. PICK found \in IF Cardinality(Bucket(h)) < Threshold THEN {{}}
                     ELSE UNION {Best(Hits(W, h), top, LAMBDA x : x.count) : W \in Windowed(h)} :
        ask' = [about |-> "recall", hint |-> h, top |-> top, found |-> found]
  BY DEF Recall
<1>2. top \in Nat
  BY QueryAssumption
<1>3. AdvisedWell(Bucket(h), h, top, found)
  <2>1. CASE Cardinality(Bucket(h)) < Threshold
    BY <1>1, <2>1, NothingAdvised
  <2>2. CASE ~(Cardinality(Bucket(h)) < Threshold)
    <3>1. PICK W \in Windowed(h) : found \in Best(Hits(W, h), top, LAMBDA x : x.count)
      BY <1>1, <2>2
    <3> QED BY <1>2, <2>2, <3>1, HitsAdvised
  <2> QED BY <2>1, <2>2
<1>4. /\ ask'.about = "recall" /\ ask'.hint = h /\ ask'.top = top /\ ask'.found = found
      /\ base' = base
  BY <1>1 DEF Recall
<1>5. (ask.about = "recall" =>
        (AdvisoriesFound <=> AdvisedWell(Bucket(ask.hint), ask.hint, ask.top, ask.found)))'
  BY AdvisedWellIs, PTL
<1>6. Bucket(ask.hint)' = Bucket(h)
  BY <1>4 DEF Bucket
<1> QED BY <1>3, <1>4, <1>5, <1>6

---------------------------------------------------------------------------
(* The board. *)

(* The lists of a verdict while sync goes through the board. *)
ListsOf(f, v, board, disk) ==
    f = [n \in 0 .. Len(board) |->
            IF n = 0 THEN <<>>
            ELSE IF Verdict(board[n], disk) = v THEN Append(f[n - 1], board[n])
            ELSE f[n - 1]]

LEMMA ListsExist ==
    ASSUME NEW board \in Seq(Reference), NEW disk, NEW v
    PROVE  \E f : ListsOf(f, v, board, disk)
<1> DEFINE Upto(f, l) ==
        f = [n \in 0 .. l |->
               IF n = 0 THEN <<>>
               ELSE IF Verdict(board[n], disk) = v THEN Append(f[n - 1], board[n])
               ELSE f[n - 1]]
           Missing == {l \in Nat : ~\E f : Upto(f, l)}
<1>1. Missing = {}
  <2> SUFFICES ASSUME Missing # {} PROVE FALSE
    OBVIOUS
  <2>1. PICK l \in Missing : \A j \in Missing : l <= j
    <3> HIDE DEF Missing
    <3>1. Missing \subseteq Nat
      BY DEF Missing
    <3> QED BY <3>1, LeastNumber
  <2>2. l # 0
    <3>1. Upto([n \in 0 .. 0 |-> <<>>], 0)
      OBVIOUS
    <3> QED BY <2>1, <3>1
  <2>3. l \in Nat /\ l - 1 \in Nat /\ l - 1 \notin Missing
    <3>1. l \in Nat
      BY <2>1
    <3> HIDE DEF Missing
    <3>2. l - 1 \in Nat
      BY <2>2, <3>1
    <3>3. ~(l <= l - 1)
      BY <3>1
    <3> QED BY <2>1, <3>1, <3>2, <3>3
  <2>4. PICK g : Upto(g, l - 1)
    BY <2>3
  <2> DEFINE last == IF Verdict(board[l], disk) = v THEN Append(g[l - 1], board[l]) ELSE g[l - 1]
             f == [n \in 0 .. l |-> IF n = l THEN last ELSE g[n]]
  <2>5. \A n \in 0 .. l :
          f[n] = IF n = 0 THEN <<>>
                 ELSE IF Verdict(board[n], disk) = v THEN Append(f[n - 1], board[n])
                 ELSE f[n - 1]
    <3> SUFFICES ASSUME NEW n \in 0 .. l
        PROVE f[n] = IF n = 0 THEN <<>>
                     ELSE IF Verdict(board[n], disk) = v THEN Append(f[n - 1], board[n])
                     ELSE f[n - 1]
      OBVIOUS
    <3>1. CASE n = 0
      BY <2>2, <2>3, <2>4, <3>1
    <3>2. CASE n = l
      <4>1. f[n] = last /\ f[n - 1] = g[l - 1] /\ n # 0
        BY <2>2, <2>3, <3>2
      <4> HIDE DEF f
      <4> QED BY <3>2, <4>1
    <3>3. CASE n # 0 /\ n # l
      <4>1. n \in 0 .. l - 1 /\ n - 1 \in 0 .. l - 1
        BY <2>3, <3>3
      <4>2. f[n] = g[n] /\ f[n - 1] = g[n - 1]
        BY <2>3, <3>3, <4>1
      <4> HIDE DEF f
      <4> QED BY <2>4, <3>3, <4>1, <4>2
    <3> QED BY <3>1, <3>2, <3>3
  <2>6. Upto(f, l)
    <3>1. DOMAIN f = 0 .. l /\ f = [n \in 0 .. l |-> f[n]]
      OBVIOUS
    <3> HIDE DEF f
    <3> QED BY <2>5, <3>1
  <2> HIDE DEF f
  <2> QED BY <2>1, <2>6
<1>2. Len(board) \in Nat
  OBVIOUS
<1> HIDE DEF Upto
<1>3. \E f : Upto(f, Len(board))
  BY <1>1, <1>2
<1> QED BY <1>3 DEF Upto, ListsOf

LEMMA Lists ==
    ASSUME NEW board \in Seq(Reference), NEW disk, NEW v
    PROVE  \E f : /\ Those(v, board, disk) = f[Len(board)]
                  /\ f[0] = <<>>
                  /\ \A n \in 1 .. Len(board) :
                       f[n] = IF Verdict(board[n], disk) = v
                              THEN Append(f[n - 1], board[n]) ELSE f[n - 1]
<1> DEFINE f == CHOOSE f : ListsOf(f, v, board, disk)
<1>1. ListsOf(f, v, board, disk)
  BY ListsExist
<1>2. Those(v, board, disk) = f[Len(board)]
  BY DEF Those, ListsOf
<1> HIDE DEF f
<1>3. Len(board) \in Nat
  OBVIOUS
<1>4. f[0] = <<>>
  BY <1>1, <1>3 DEF ListsOf
<1>5. ASSUME NEW n \in 1 .. Len(board)
      PROVE  f[n] = IF Verdict(board[n], disk) = v THEN Append(f[n - 1], board[n]) ELSE f[n - 1]
  <2>1. n \in 0 .. Len(board) /\ n # 0
    BY <1>3
  <2> QED BY <1>1, <2>1 DEF ListsOf
<1> QED BY <1>2, <1>4, <1>5

(* What holds at first and goes on from each to the next holds to the end. *)
LEMMA Onward ==
    ASSUME NEW l \in Nat, NEW S, 0 \in S, \A n \in 1 .. l : n - 1 \in S => n \in S
    PROVE  l \in S
<1> DEFINE Rest == (0 .. l) \ S
<1>1. SUFFICES ASSUME l \notin S PROVE FALSE
  OBVIOUS
<1>2. Rest \subseteq Nat /\ Rest # {}
  BY <1>1
<1>3. PICK n \in Rest : \A j \in Rest : n <= j
  <2> HIDE DEF Rest
  <2> QED BY <1>2, LeastNumber
<1>4. n \in 1 .. l /\ n - 1 \in 0 .. l
  BY <1>3
<1>5. n - 1 \in S
  <2>1. ~(n <= n - 1)
    BY <1>4
  <2> QED BY <1>3, <1>4, <2>1
<1> QED BY <1>3, <1>4, <1>5

(* A list holds just the references of the board with its verdict.         *)
LEMMA ThoseAre ==
    ASSUME NEW board \in Seq(Reference), NEW disk, NEW v
    PROVE  LET those == Those(v, board, disk) IN
           /\ those \in Seq(Reference)
           /\ \A k \in DOMAIN those : Verdict(those[k], disk) = v
           /\ \A m \in DOMAIN board :
                Verdict(board[m], disk) = v => \E k \in DOMAIN those : those[k] = board[m]
<1>1. PICK f : /\ Those(v, board, disk) = f[Len(board)]
               /\ f[0] = <<>>
               /\ \A n \in 1 .. Len(board) :
                    f[n] = IF Verdict(board[n], disk) = v
                           THEN Append(f[n - 1], board[n]) ELSE f[n - 1]
  BY Lists
<1> DEFINE Holds(n) ==
             /\ f[n] \in Seq(Reference)
             /\ \A k \in DOMAIN f[n] : Verdict(f[n][k], disk) = v
             /\ \A m \in 1 .. n :
                  Verdict(board[m], disk) = v => \E k \in DOMAIN f[n] : f[n][k] = board[m]
           S == {n \in Nat : Holds(n)}
<1>2. 0 \in S
  <2>1. f[0] = <<>> /\ <<>> \in Seq(Reference) /\ DOMAIN <<>> = {} /\ 1 .. 0 = {}
    BY <1>1
  <2> QED BY <2>1
<1>3. ASSUME NEW n \in 1 .. Len(board), n - 1 \in S
      PROVE  n \in S
  <2>1. n \in Nat /\ board[n] \in Reference /\ \A m \in 1 .. n : m = n \/ m \in 1 .. n - 1
    OBVIOUS
  <2>2. Holds(n - 1)
    BY <1>3
  <2>3. CASE Verdict(board[n], disk) = v
    <3> DEFINE g == f[n - 1]
    <3>1. f[n] = Append(g, board[n])
      BY <1>1, <2>3
    <3> HIDE DEF g
    <3>2. g \in Seq(Reference)
      BY <2>2 DEF g
    <3>3. /\ Append(g, board[n]) \in Seq(Reference)
          /\ DOMAIN Append(g, board[n]) = DOMAIN g \cup {Len(g) + 1}
          /\ \A k \in DOMAIN g : Append(g, board[n])[k] = g[k]
          /\ Append(g, board[n])[Len(g) + 1] = board[n]
      <4> HIDE DEF Reference
      <4> QED BY <2>1, <3>2
    <3>4. \A k \in DOMAIN f[n] : Verdict(f[n][k], disk) = v
      BY <2>2, <2>3, <3>1, <3>3 DEF g
    <3>5. \A m \in 1 .. n :
            Verdict(board[m], disk) = v => \E k \in DOMAIN f[n] : f[n][k] = board[m]
      BY <2>1, <2>2, <3>1, <3>3 DEF g
    <3> QED BY <2>1, <3>1, <3>3, <3>4, <3>5
  <2>4. CASE Verdict(board[n], disk) # v
    <3>1. f[n] = f[n - 1]
      BY <1>1, <2>4
    <3> QED BY <2>1, <2>2, <2>4, <3>1
  <2> QED BY <2>3, <2>4
<1>4. Len(board) \in Nat /\ DOMAIN board = 1 .. Len(board)
  OBVIOUS
<1> HIDE DEF S
<1>5. Len(board) \in S
  BY <1>2, <1>3, <1>4, Onward
<1> QED BY <1>1, <1>4, <1>5 DEF S

(* Each reference is told once. *)
LEMMA ToldOnce ==
    ASSUME NEW board \in Seq(Reference), NEW disk, ~Raises(board, disk)
    PROVE  Len(Those("consistent", board, disk)) + Len(Those("board_updated", board, disk))
             + Len(Those("orphaned", board, disk)) = Len(board)
<1>1. PICK f : /\ Those("consistent", board, disk) = f[Len(board)]
               /\ f[0] = <<>>
               /\ \A n \in 1 .. Len(board) :
                    f[n] = IF Verdict(board[n], disk) = "consistent"
                           THEN Append(f[n - 1], board[n]) ELSE f[n - 1]
  BY Lists
<1>2. PICK g : /\ Those("board_updated", board, disk) = g[Len(board)]
               /\ g[0] = <<>>
               /\ \A n \in 1 .. Len(board) :
                    g[n] = IF Verdict(board[n], disk) = "board_updated"
                           THEN Append(g[n - 1], board[n]) ELSE g[n - 1]
  BY Lists
<1>3. PICK h : /\ Those("orphaned", board, disk) = h[Len(board)]
               /\ h[0] = <<>>
               /\ \A n \in 1 .. Len(board) :
                    h[n] = IF Verdict(board[n], disk) = "orphaned"
                           THEN Append(h[n - 1], board[n]) ELSE h[n - 1]
  BY Lists
<1> DEFINE Holds(n) == /\ f[n] \in Seq(Reference) /\ g[n] \in Seq(Reference)
                        /\ h[n] \in Seq(Reference)
                        /\ Len(f[n]) + Len(g[n]) + Len(h[n]) = n
           S == {n \in Nat : Holds(n)}
<1>4. 0 \in S
  <2>1. f[0] = <<>> /\ g[0] = <<>> /\ h[0] = <<>>
    BY <1>1, <1>2, <1>3
  <2>2. <<>> \in Seq(Reference) /\ Len(<<>>) = 0
    OBVIOUS
  <2>3. Len(f[0]) + Len(g[0]) + Len(h[0]) = 0
    <3>1. Len(f[0]) = 0 /\ Len(g[0]) = 0 /\ Len(h[0]) = 0
      BY <2>1, <2>2
    <3> QED BY <3>1
  <2>4. Holds(0)
    BY <2>1, <2>2, <2>3
  <2> HIDE DEF Holds
  <2> QED BY <2>4
<1>5. ASSUME NEW n \in 1 .. Len(board), n - 1 \in S
      PROVE  n \in S
  <2>1. n \in Nat /\ Holds(n - 1)
    <3> HIDE DEF Holds
    <3> QED BY <1>5
  <2>2. board[n] \in Reference /\ n \in DOMAIN board
    OBVIOUS
  <2>3. \A q \in Seq(Reference) : /\ Append(q, board[n]) \in Seq(Reference)
                                  /\ Len(Append(q, board[n])) = Len(q) + 1
                                  /\ Len(q) \in Nat
    <3> HIDE DEF Reference
    <3> QED BY <2>2
  <2>4. Verdict(board[n], disk) \in {"orphaned", "consistent", "board_updated"}
    BY <2>2 DEF Raises, Verdict
  <2>8. PICK a \in Nat, b \in Nat, c \in Nat :
          a = Len(f[n - 1]) /\ b = Len(g[n - 1]) /\ c = Len(h[n - 1])
    BY <2>1, <2>3
  <2>9. a + b + c = n - 1
    BY <2>1, <2>8
  <2>10. (a + 1) + b + c = n /\ a + (b + 1) + c = n /\ a + b + (c + 1) = n
    BY <2>1, <2>9
  <2>5. CASE Verdict(board[n], disk) = "consistent"
    <3>1. f[n] = Append(f[n - 1], board[n]) /\ g[n] = g[n - 1] /\ h[n] = h[n - 1]
      BY <1>1, <1>2, <1>3, <2>5
    <3>2. /\ f[n] \in Seq(Reference) /\ Len(f[n]) = Len(f[n - 1]) + 1
          /\ Len(f[n - 1]) \in Nat /\ Len(g[n - 1]) \in Nat /\ Len(h[n - 1]) \in Nat
      BY <2>1, <2>3, <3>1
    <3>3. Len(g[n]) = Len(g[n - 1]) /\ Len(h[n]) = Len(h[n - 1])
      BY <3>1
    <3>4. Len(f[n]) = a + 1 /\ Len(g[n]) = b /\ Len(h[n]) = c
      BY <2>8, <3>2, <3>3
    <3>6. Len(f[n]) + Len(g[n]) + Len(h[n]) = n
      BY <2>10, <3>4
    <3>5. Holds(n)
      BY <2>1, <3>1, <3>2, <3>6
    <3> HIDE DEF Holds
    <3> QED BY <2>1, <3>5
  <2>6. CASE Verdict(board[n], disk) = "board_updated"
    <3>1. g[n] = Append(g[n - 1], board[n]) /\ f[n] = f[n - 1] /\ h[n] = h[n - 1]
      BY <1>1, <1>2, <1>3, <2>6
    <3>2. /\ g[n] \in Seq(Reference) /\ Len(g[n]) = Len(g[n - 1]) + 1
          /\ Len(f[n - 1]) \in Nat /\ Len(g[n - 1]) \in Nat /\ Len(h[n - 1]) \in Nat
      BY <2>1, <2>3, <3>1
    <3>3. Len(f[n]) = Len(f[n - 1]) /\ Len(h[n]) = Len(h[n - 1])
      BY <3>1
    <3>4. Len(f[n]) = a /\ Len(g[n]) = b + 1 /\ Len(h[n]) = c
      BY <2>8, <3>2, <3>3
    <3>6. Len(f[n]) + Len(g[n]) + Len(h[n]) = n
      BY <2>10, <3>4
    <3>5. Holds(n)
      BY <2>1, <3>1, <3>2, <3>6
    <3> HIDE DEF Holds
    <3> QED BY <2>1, <3>5
  <2>7. CASE Verdict(board[n], disk) = "orphaned"
    <3>1. h[n] = Append(h[n - 1], board[n]) /\ f[n] = f[n - 1] /\ g[n] = g[n - 1]
      BY <1>1, <1>2, <1>3, <2>7
    <3>2. /\ h[n] \in Seq(Reference) /\ Len(h[n]) = Len(h[n - 1]) + 1
          /\ Len(f[n - 1]) \in Nat /\ Len(g[n - 1]) \in Nat /\ Len(h[n - 1]) \in Nat
      BY <2>1, <2>3, <3>1
    <3>3. Len(f[n]) = Len(f[n - 1]) /\ Len(g[n]) = Len(g[n - 1])
      BY <3>1
    <3>4. Len(f[n]) = a /\ Len(g[n]) = b /\ Len(h[n]) = c + 1
      BY <2>8, <3>2, <3>3
    <3>6. Len(f[n]) + Len(g[n]) + Len(h[n]) = n
      BY <2>10, <3>4
    <3>5. Holds(n)
      BY <2>1, <3>1, <3>2, <3>6
    <3> HIDE DEF Holds
    <3> QED BY <2>1, <3>5
  <2> QED BY <2>4, <2>5, <2>6, <2>7
<1>6. Len(board) \in Nat
  OBVIOUS
<1> HIDE DEF S
<1>7. Len(board) \in S
  BY <1>4, <1>5, <1>6, Onward
<1> QED BY <1>1, <1>2, <1>3, <1>7 DEF S

(* What is taken over from a file that can be read is what the file says.  *)
LEMMA TakenOver ==
    ASSUME NEW a \in Reference, NEW f \in Artifact,
           f.status \in ArtifactStatus, f.date.form = "utc"
    PROVE  FromFile(a, f).path = a.path /\ SameHash(FromFile(a, f), f)
<1>1. a = [path |-> a.path, status |-> a.status, date |-> a.date]
  BY DEF Reference
<1> DEFINE b == FromFile(a, f)
<1>2. b.path = a.path /\ b.status = f.status /\ b.date = f.date.figures
  BY <1>1 DEF FromFile
<1>3. f.date \in DateText
  BY DEF Artifact
<1>4. f.date.figures # 0 /\ f.date = [figures |-> f.date.figures, form |-> "utc"]
  BY <1>3 DEF DateText, NoDate
<1> HIDE DEF b
<1>5. Shown(b.date) = f.date
  BY <1>2, <1>4 DEF Shown
<1> QED BY <1>2, <1>5 DEF SameHash, b

(* What BoardFollows says, of what sync tells. *)
LEMMA SyncFollows ==
    ASSUME NEW board \in Seq(Reference), NEW disk \in Disk, ~Raises(board, disk)
    PROVE  LET told == Synced(board, disk)
               after == told.consistent \o told.updated
           IN /\ \A n \in DOMAIN after :
                   LET f == disk[after[n].path] IN
                   f.status \in ArtifactStatus /\ f.date.form = "utc" => SameHash(after[n], f)
              /\ \A p \in Documents : disk[p] \in Artifact =>
                   p \in PathsOf(after) \cup told.untracked
              /\ Len(after) + Len(told.orphaned) = Len(board)
<1> DEFINE kept == Those("consistent", board, disk)
           changed == Those("board_updated", board, disk)
           orphaned == Those("orphaned", board, disk)
           updated == [n \in DOMAIN changed |-> FromFile(changed[n], disk[changed[n].path])]
           untracked == {p \in Documents \ PathsOf(board) : disk[p] # Absent}
           told == Synced(board, disk)
           after == told.consistent \o told.updated
<1>1. /\ told.consistent = kept /\ told.updated = updated
      /\ told.orphaned = orphaned /\ told.untracked = untracked
  BY DEF Synced
<1>2. /\ kept \in Seq(Reference) /\ changed \in Seq(Reference)
      /\ \A k \in DOMAIN kept : Verdict(kept[k], disk) = "consistent"
      /\ \A k \in DOMAIN changed : Verdict(changed[k], disk) = "board_updated"
  BY ThoseAre
<1>3. \A m \in DOMAIN board :
        \/ Verdict(board[m], disk) = "orphaned"
        \/ \E k \in DOMAIN kept : kept[k] = board[m]
        \/ \E k \in DOMAIN changed : changed[k] = board[m]
  <2> SUFFICES ASSUME NEW m \in DOMAIN board
      PROVE \/ Verdict(board[m], disk) = "orphaned"
            \/ \E k \in DOMAIN kept : kept[k] = board[m]
            \/ \E k \in DOMAIN changed : changed[k] = board[m]
    OBVIOUS
  <2>1. Verdict(board[m], disk) \in {"orphaned", "consistent", "board_updated"}
    BY DEF Raises, Verdict
  <2> HIDE DEF kept, changed
  <2> QED BY <2>1, ThoseAre DEF kept, changed
<1>4. Len(kept) + Len(changed) + Len(orphaned) = Len(board)
  BY ToldOnce
<1>5. Len(orphaned) \in Nat /\ orphaned \in Seq(Reference)
  <2>1. orphaned \in Seq(Reference)
    BY ThoseAre
  <2> HIDE DEF orphaned
  <2> QED BY <2>1
<1> HIDE DEF kept, changed, orphaned, untracked
<1>6. \A k \in DOMAIN changed : /\ changed[k] \in Reference
                                /\ disk[changed[k].path] \in Artifact
  <2> SUFFICES ASSUME NEW k \in DOMAIN changed
      PROVE changed[k] \in Reference /\ disk[changed[k].path] \in Artifact
    OBVIOUS
  <2>1. changed[k] \in Reference
    BY <1>2
  <2>2. disk[changed[k].path] \in Artifact \cup {Absent, Garbled}
    BY <2>1 DEF Reference, Disk
  <2>3. disk[changed[k].path] \notin {Absent, Garbled}
    BY <1>2 DEF Verdict
  <2> QED BY <2>1, <2>2, <2>3
<1>7. \A k \in DOMAIN changed : FromFile(changed[k], disk[changed[k].path]).path = changed[k].path
  BY <1>6 DEF FromFile, Reference
<1>8. /\ DOMAIN updated = DOMAIN changed /\ Len(changed) \in Nat
      /\ DOMAIN changed = 1 .. Len(changed) /\ DOMAIN kept = 1 .. Len(kept) /\ Len(kept) \in Nat
  BY <1>2
<1>9. \A k \in DOMAIN changed : updated[k] = FromFile(changed[k], disk[changed[k].path])
  OBVIOUS
<1> DEFINE V == Reference \cup {FromFile(changed[k], disk[changed[k].path]) : k \in DOMAIN changed}
<1>10. Len(updated) = Len(changed) /\ updated \in Seq(V) /\ kept \in Seq(V)
  <2>1. updated \in [1 .. Len(changed) -> V]
    BY <1>8
  <2>2. kept \in [1 .. Len(kept) -> V]
    BY <1>2, <1>8
  <2> HIDE DEF updated, V
  <2>3. updated \in Seq(V) /\ kept \in Seq(V)
    BY <1>8, <2>1, <2>2
  <2>4. Len(updated) = Len(changed)
    BY <1>8, <2>3
  <2> QED BY <2>3, <2>4
<1> HIDE DEF V
<1> HIDE DEF updated, told
<1>11. after = kept \o updated
  BY <1>1
<1> HIDE DEF after
<1>12. /\ DOMAIN after = 1 .. Len(kept) + Len(changed)
       /\ Len(after) = Len(kept) + Len(changed)
       /\ \A k \in DOMAIN kept : k \in DOMAIN after /\ after[k] = kept[k]
       /\ \A k \in DOMAIN changed : Len(kept) + k \in DOMAIN after /\ after[Len(kept) + k] = updated[k]
  <2>1. DOMAIN updated = 1 .. Len(updated)
    BY <1>8, <1>10
  <2>2. /\ Len(kept \o updated) = Len(kept) + Len(updated)
        /\ DOMAIN (kept \o updated) = 1 .. Len(kept) + Len(updated)
        /\ \A k \in 1 .. Len(kept) : (kept \o updated)[k] = kept[k]
        /\ \A k \in 1 .. Len(updated) : (kept \o updated)[Len(kept) + k] = updated[k]
    BY <1>8, <1>10
  <2> QED BY <1>8, <1>10, <1>11, <2>1, <2>2
<1>13. \A n \in DOMAIN after : \/ n \in DOMAIN kept
                               \/ \E k \in DOMAIN changed : n = Len(kept) + k
  <2> SUFFICES ASSUME NEW n \in DOMAIN after, n \notin DOMAIN kept
      PROVE \E k \in DOMAIN changed : n = Len(kept) + k
    OBVIOUS
  <2>1. n - Len(kept) \in DOMAIN changed /\ n = Len(kept) + (n - Len(kept))
    BY <1>8, <1>12
  <2> QED BY <2>1
<1>14. ASSUME NEW n \in DOMAIN after,
              disk[after[n].path].status \in ArtifactStatus, disk[after[n].path].date.form = "utc"
       PROVE  SameHash(after[n], disk[after[n].path])
  <2>1. CASE n \in DOMAIN kept
    <3>1. after[n] = kept[n] /\ Verdict(kept[n], disk) = "consistent"
      BY <1>2, <1>12, <2>1
    <3> QED BY <3>1 DEF Verdict
  <2>2. ASSUME NEW k \in DOMAIN changed, n = Len(kept) + k
        PROVE  SameHash(after[n], disk[after[n].path])
    <3> DEFINE f == disk[changed[k].path]
    <3>1. after[n] = FromFile(changed[k], f) /\ after[n].path = changed[k].path
      BY <1>7, <1>9, <1>12, <2>2
    <3>2. changed[k] \in Reference /\ f \in Artifact
      BY <1>6
    <3>3. f.status \in ArtifactStatus /\ f.date.form = "utc"
      BY <1>14, <3>1
    <3> HIDE DEF f
    <3>4. SameHash(FromFile(changed[k], f), f)
      BY <3>2, <3>3, TakenOver
    <3> QED BY <3>1, <3>4 DEF f
  <2> QED BY <1>13, <2>1, <2>2
<1>15. ASSUME NEW p \in Documents, disk[p] \in Artifact
       PROVE  p \in PathsOf(after) \cup untracked
  <2>1. disk[p] # Absent /\ disk[p] # Garbled
    <3>1. DOMAIN disk[p] = {"status", "date"}
      BY <1>15 DEF Artifact
    <3>2. DOMAIN Absent = {"absent"} /\ DOMAIN Garbled = {"garbled"}
      BY DEF Absent, Garbled
    <3> QED BY <3>1, <3>2
  <2>2. CASE p \notin PathsOf(board)
    BY <2>1, <2>2 DEF untracked
  <2>3. CASE p \in PathsOf(board)
    <3>1. PICK m \in DOMAIN board : board[m].path = p
      BY <2>3 DEF PathsOf
    <3>2. Verdict(board[m], disk) # "orphaned"
      BY <2>1, <3>1 DEF Verdict
    <3>3. CASE \E k \in DOMAIN kept : kept[k] = board[m]
      <4>1. PICK k \in DOMAIN kept : kept[k] = board[m]
        BY <3>3
      <4>2. k \in DOMAIN after /\ after[k].path = p
        BY <1>12, <3>1, <4>1
      <4> QED BY <4>2 DEF PathsOf
    <3>4. CASE \E k \in DOMAIN changed : changed[k] = board[m]
      <4>1. PICK k \in DOMAIN changed : changed[k] = board[m]
        BY <3>4
      <4>2. Len(kept) + k \in DOMAIN after /\ after[Len(kept) + k].path = p
        BY <1>7, <1>9, <1>12, <3>1, <4>1
      <4> QED BY <4>2 DEF PathsOf
    <3> QED BY <1>3, <3>1, <3>2, <3>3, <3>4
  <2> QED BY <2>2, <2>3
<1>16. Len(after) + Len(orphaned) = Len(board)
  BY <1>4, <1>12
<1> QED BY <1>1, <1>14, <1>15, <1>16 DEF after, told

---------------------------------------------------------------------------
(* Every answer. *)

LEMMA SyncAnswer ==
    ASSUME base \in Bases, SyncBoard
    PROVE  BoardFollows'
<1>1. /\ ask'.about = "board" /\ base' = base
      /\ ask'.told = IF Raises(base.board, base.disk) THEN Nothing
                     ELSE Synced(base.board, base.disk)
  BY DEF SyncBoard
<1>2. CASE Raises(base.board, base.disk)
  BY <1>1, <1>2 DEF BoardFollows
<1>3. CASE ~Raises(base.board, base.disk)
  <2> DEFINE board == base.board
             disk == base.disk
  <2>1. board \in Seq(Reference) /\ disk \in Disk
    BY BaseAssumption
  <2>2. ask'.told = Synced(board, disk) /\ base'.board = board /\ base'.disk = disk
    BY <1>1, <1>3
  <2> HIDE DEF board, disk
  <2>3. ~Raises(board, disk)
    BY <1>3 DEF board, disk
  <2> DEFINE told == Synced(board, disk)
             after == told.consistent \o told.updated
  <2>4. /\ \A n \in DOMAIN after :
             LET f == disk[after[n].path] IN
             f.status \in ArtifactStatus /\ f.date.form = "utc" => SameHash(after[n], f)
        /\ \A p \in Documents : disk[p] \in Artifact =>
             p \in PathsOf(after) \cup told.untracked
        /\ Len(after) + Len(told.orphaned) = Len(board)
    BY <2>1, <2>3, SyncFollows
  <2>5. ask'.told = told
    BY <2>2
  <2> HIDE DEF told
  <2> QED BY <1>1, <2>2, <2>4, <2>5 DEF BoardFollows
<1> QED BY <1>2, <1>3

LEMMA ExtractAnswer ==
    ASSUME base \in Bases, NEW s \in base.sessions, Extract(s)
    PROVE  StrongestKept'
<1>1. s \in Archived
  BY BaseAssumption
<1>2. ask'.session = s /\ ask'.batch = Extracted(s)
  BY DEF Extract
<1>3. CASE Extracted(s).candidates = {}
  BY <1>2, <1>3 DEF StrongestKept
<1>4. CASE Extracted(s).candidates # {}
  BY <1>1, <1>2, <1>4, ExtractedStrongest DEF StrongestKept
<1> QED BY <1>3, <1>4

LEMMA StepAnswers == IInv /\ AnswersHold /\ [Next]_vars => AnswersHold'
<1> SUFFICES ASSUME IInv, AnswersHold, [Next]_vars PROVE AnswersHold'
  OBVIOUS
<1>1. base \in Bases
  BY DEF IInv
<1>2. ask'.about \notin {"query", "run"} => RecommendationsFound'
  BY DEF RecommendationsFound
<1>3. ask'.about # "recall" => AdvisoriesFound'
  BY DEF AdvisoriesFound
<1>4. ask'.about # "board" => BoardFollows'
  BY DEF BoardFollows
<1>5. ask'.about # "session" => StrongestKept'
  BY DEF StrongestKept
<1>6. ask'.about \in {"nothing", "section", "related"} => AnswersHold'
  BY <1>2, <1>3, <1>4, <1>5 DEF AnswersHold
<1>7. ASSUME NEW q \in Queries, NEW top \in Limits, Recommend(q, top) PROVE AnswersHold'
  <2>1. ask'.about = "query"
    BY <1>7 DEF Recommend
  <2> QED BY <1>1, <1>3, <1>4, <1>5, <1>7, <2>1, RecommendAnswer DEF AnswersHold
<1>8. ASSUME NEW t \in Terms \ {Empty}, RecommendRun(t) PROVE AnswersHold'
  <2>1. ask'.about = "run"
    BY <1>8 DEF RecommendRun
  <2> QED BY <1>1, <1>3, <1>4, <1>5, <1>8, <2>1, RunAnswer DEF AnswersHold
<1>9. ASSUME NEW h \in Hints, NEW top \in Limits, Recall(h, top) PROVE AnswersHold'
  <2>1. ask'.about = "recall"
    BY <1>9 DEF Recall
  <2> QED BY <1>1, <1>2, <1>4, <1>5, <1>9, <2>1, RecallAnswer DEF AnswersHold
<1>10. CASE SyncBoard
  <2>1. ask'.about = "board"
    BY <1>10 DEF SyncBoard
  <2> QED BY <1>1, <1>2, <1>3, <1>5, <1>10, <2>1, SyncAnswer DEF AnswersHold
<1>11. ASSUME NEW s \in base.sessions, Extract(s) PROVE AnswersHold'
  <2>1. ask'.about = "session"
    BY <1>11 DEF Extract
  <2> QED BY <1>1, <1>2, <1>3, <1>4, <1>11, <2>1, ExtractAnswer DEF AnswersHold
<1>12. CASE Compile
  <2>1. ask'.about = "section"
    BY <1>12 DEF Compile
  <2> QED BY <1>6, <2>1
<1>13. CASE AddItem \/ Truncate \/ NextSection
  <2>1. ask \in SectionAsk
    BY <1>13 DEF AddItem, Truncate, NextSection, Compiling, IInv
  <2>2. ask'.about = "section"
    BY <1>13, <2>1 DEF AddItem, Truncate, NextSection, SectionAsk
  <2> QED BY <1>6, <2>2
<1>14. ASSUME NEW r \in base.records, FindRelated(r) PROVE AnswersHold'
  BY <1>6, <1>14 DEF FindRelated
<1>15. CASE Answered
  BY <1>6, <1>15 DEF Answered, Nothing
<1>16. CASE UNCHANGED vars
  <2>1. base' = base /\ ask' = ask
    BY <1>16 DEF vars
  <2>2. RecommendationsFound'
    BY <2>1 DEF AnswersHold, RecommendationsFound
  <2>3. AdvisoriesFound'
    <3>1. CASE ask.about # "recall"
      BY <1>3, <2>1, <3>1
    <3>2. CASE ask.about = "recall"
      <4>1. AdvisedWell(Bucket(ask.hint), ask.hint, ask.top, ask.found)
        BY <3>2, AdvisedWellIs DEF AnswersHold
      <4>2. (ask.about = "recall" =>
              (AdvisoriesFound <=> AdvisedWell(Bucket(ask.hint), ask.hint, ask.top, ask.found)))'
        BY AdvisedWellIs, PTL
      <4>3. Bucket(ask.hint)' = Bucket(ask.hint)
        BY <2>1 DEF Bucket
      <4> QED BY <2>1, <3>2, <4>1, <4>2, <4>3
    <3> QED BY <3>1, <3>2
  <2>4. BoardFollows' /\ StrongestKept'
    BY <2>1 DEF AnswersHold, BoardFollows, StrongestKept
  <2> QED BY <2>2, <2>3, <2>4 DEF AnswersHold
<1> QED BY <1>7, <1>8, <1>9, <1>10, <1>11, <1>12, <1>13, <1>14, <1>15, <1>16 DEF Next

(* garage recommend and garage run tell nothing that shares no term with   *)
(* the question, and pass nothing that does over for a lower score or      *)
(* while there is room.  garage recall workflow tells of each way how      *)
(* often records of the bucket went it at most, all the newest of the      *)
(* bucket count, and a way of these is left out only for as many that are  *)
(* as frequent.  ArtifactBoardSync.sync tells of each reference once, what *)
(* it takes over from a file it can read leaves nothing for another sync   *)
(* to change, and no document goes unmentioned.  Extraction cuts nothing   *)
(* of a session that scores higher than what it keeps, only when the batch *)
(* is full, and counts it; and it makes one experience at most.            *)
THEOREM AnswersAlways == Spec => []AnswersHold
<1>1. Init => AnswersHold
  <2>1. Init => ask.about = "nothing"
    BY DEF Init, Nothing
  <2>2. ask.about = "nothing" => RecommendationsFound
    BY DEF RecommendationsFound
  <2>3. ask.about = "nothing" => AdvisoriesFound
    BY DEF AdvisoriesFound
  <2>4. ask.about = "nothing" => BoardFollows /\ StrongestKept
    BY DEF BoardFollows, StrongestKept
  <2> QED BY <2>1, <2>2, <2>3, <2>4 DEF AnswersHold
<1> QED BY <1>1, InitHolds, StepHolds, StepAnswers, PTL DEF Spec
=============================================================================
