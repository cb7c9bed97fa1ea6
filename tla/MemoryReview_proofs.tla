------------------------ MODULE MemoryReview_proofs ------------------------
(***************************************************************************)
(* Proofs about MemoryReview for any sessions, candidates and topics.      *)
(*                                                                         *)
(* A batch is complete because its candidates are stored before it and     *)
(* nothing removes them; that holds for any number of reviewers.  What the *)
(* publisher promises about versions, superseded entries, confirmations    *)
(* and conflicts rests on its reads still being true when it writes, which *)
(* one reviewer at a time guarantees and two do not.                       *)
(***************************************************************************)
EXTENDS MemoryReview, TLAPS

HasItem(c) == item[c] # NoItem

(* What a review that is under way knows.                                  *)
Knows(p) ==
    LET r == proc[p] IN
    /\ r.pc = "mark_all" =>
         /\ r.to \in {"deferred", "rejected"}
         /\ \A c \in r.todo \cup r.ids : HasItem(c)
    /\ r.pc \in {"confirm", "publish", "store", "mark"} => r.c \in Candidates
    /\ r.pc \in {"confirm", "publish"} /\ r.action \in Accepts => HasItem(r.c)
    /\ r.pc = "publish" => r.action \in Accepts
    /\ r.pc = "store" => r.new \in Entry /\ r.new.ref = r.b

(* The candidates an extraction has taken from its list are stored.        *)
Drafted ==
    \A s \in Sessions : extractor[s].pc = "drafting" =>
        \A c \in RangeOf(Drafts[s]) :
            c \in RangeOf(extractor[s].left) \/ HasItem(c)

IInv ==
    /\ TypeOK
    /\ \A p \in Reviewers : Knows(p)
    /\ Drafted
    /\ BatchIsComplete

---------------------------------------------------------------------------
LEMMA Parts ==
    /\ NoItem \notin Item
    /\ NoEntry \notin Entry
    /\ Idle \notin Busy
    /\ \A x \in Item, st \in Status : [x EXCEPT !.status = st] \in Item
    /\ NoEntry.supersedes = {} /\ NoEntry.version = 0
    /\ NoBatch.ids = {}
    /\ Idle.pc = "idle"
BY ReviewAssumption
   DEF NoItem, Item, NoEntry, Entry, Idle, Busy, PC, NoBatch

LEMMA BusyProc ==
    ASSUME TypeOK, NEW p \in Reviewers, proc[p].pc # "idle"
    PROVE  proc[p] \in Busy
BY DEF TypeOK, Idle

LEMMA IndexTypes ==
    ASSUME TypeOK
    PROVE  /\ Indexed \in [Candidates -> Topics \cup {None}]
           /\ NotIndexed \in [Candidates -> Topics \cup {None}]
<1>1. \A x \in Entry \cup {NoEntry} : x.topic \in Topics \cup {None}
  BY DEF Entry, NoEntry
<1> QED BY <1>1 DEF TypeOK, Indexed, NotIndexed

LEMMA RangeOfTail ==
    ASSUME NEW s \in Seq(Candidates), s # <<>>
    PROVE  /\ Head(s) \in Candidates
           /\ Tail(s) \in Seq(Candidates)
           /\ RangeOf(s) \subseteq {Head(s)} \cup RangeOf(Tail(s))
<1>1. Head(s) \in Candidates /\ Tail(s) \in Seq(Candidates) OBVIOUS
<1>2. ASSUME NEW i \in DOMAIN s PROVE s[i] \in {Head(s)} \cup RangeOf(Tail(s))
  <2>1. CASE i = 1 BY <2>1
  <2>2. CASE i # 1
    <3>1. i - 1 \in DOMAIN Tail(s) /\ Tail(s)[i - 1] = s[i] BY <2>2
    <3> QED BY <3>1 DEF RangeOf
  <2> QED BY <2>1, <2>2
<1> QED BY <1>1, <1>2 DEF RangeOf

LEMMA DraftTypes ==
    \A s \in Sessions : Drafts[s] \in Seq(Candidates)
                        /\ RangeOf(Drafts[s]) \subseteq Candidates
BY ReviewAssumption DEF RangeOf

(* Items are only ever added or marked. *)
LEMMA Items ==
    ASSUME IInv, NEW c \in Candidates, NEW x \in Item, item' = [item EXCEPT ![c] = x]
    PROVE  /\ item' \in [Candidates -> Item \cup {NoItem}]
           /\ \A d \in Candidates : HasItem(d) => HasItem(d)'
           /\ HasItem(c)'
BY Parts DEF IInv, TypeOK, HasItem

(* A step of reviewer p that changes neither items nor batches. *)
LEMMA ReviewerStep ==
    ASSUME IInv, NEW p \in Reviewers, NEW n \in Busy \cup {Idle},
           proc' = [proc EXCEPT ![p] = n], Knows(p)',
           UNCHANGED <<item, batch, extractor>>,
           confirm' \in [Batches -> Confirm \cup {NoConfirm}],
           entry' \in [Candidates -> Entry \cup {NoEntry}]
    PROVE  IInv'
<1>1. TypeOK' BY DEF IInv, TypeOK
<1>2. \A q \in Reviewers : Knows(q)'
  BY DEF IInv, TypeOK, Knows, HasItem
<1>3. Drafted' /\ BatchIsComplete' BY DEF IInv, Drafted, BatchIsComplete, HasItem
<1> QED BY <1>1, <1>2, <1>3 DEF IInv

LEMMA ReturnStep ==
    ASSUME IInv, NEW p \in Reviewers, Return(p),
           UNCHANGED <<item, batch, confirm, entry, extractor>>
    PROVE  IInv'
<1>1. proc' = [proc EXCEPT ![p] = Idle] BY DEF Return
<1>2. Knows(p)' BY <1>1, Parts DEF Knows, IInv, TypeOK
<1> QED BY <1>1, <1>2, ReviewerStep, Idle \in Busy \cup {Idle} DEF IInv, TypeOK

---------------------------------------------------------------------------
(* Extraction. *)

LEMMA ExtractCallKeeps ==
    ASSUME IInv, NEW s \in Sessions, ExtractCall(s)
    PROVE  IInv'
<1> PICK second \in 1 .. extractor[s].passes + 1 :
        extractor' = [extractor EXCEPT ![s] =
             [pc |-> "drafting", left |-> Drafts[s], b |-> <<s, second>>,
              passes |-> @.passes + 1]]
  BY DEF ExtractCall
<1> DEFINE e == [pc |-> "drafting", left |-> Drafts[s], b |-> <<s, second>>,
                 passes |-> extractor[s].passes + 1]
<1>1. extractor[s] \in Extractor /\ extractor[s].passes < Passes /\ Passes \in Nat
  BY ReviewAssumption DEF IInv, TypeOK, ExtractCall
<1>2. extractor[s].passes \in Nat /\ extractor[s].passes + 1 \in 0 .. Passes
  BY <1>1 DEF Extractor
<1>3. second \in 1 .. Passes BY <1>1, <1>2
<1>4. e \in Extractor BY <1>2, <1>3, DraftTypes DEF Extractor, Batches
<1>5. e.pc = "drafting" /\ e.left = Drafts[s] OBVIOUS
<1>6. extractor' = [extractor EXCEPT ![s] = e] OBVIOUS
<1> HIDE DEF e
<1>7. TypeOK' BY <1>4, <1>6 DEF IInv, TypeOK, ExtractCall
<1>8. Drafted'
  BY <1>5, <1>6 DEF IInv, TypeOK, Drafted, ExtractCall, HasItem
<1>9. (\A p \in Reviewers : Knows(p)') /\ BatchIsComplete'
  BY DEF ExtractCall, IInv, Knows, BatchIsComplete, HasItem
<1> QED BY <1>7, <1>8, <1>9 DEF IInv

LEMMA StoreDraftKeeps ==
    ASSUME IInv, NEW s \in Sessions, StoreDraft(s)
    PROVE  IInv'
<1> DEFINE l == extractor[s].left
           e == [extractor[s] EXCEPT !.left = Tail(l)]
<1>1. extractor[s] \in Extractor BY DEF IInv, TypeOK
<1>2. l \in Seq(Candidates) /\ l # <<>> BY <1>1 DEF Extractor, StoreDraft
<1> PICK c \in Candidates : c = Head(l) BY <1>2, RangeOfTail
<1> DEFINE x == [status |-> "pending_review", topic |-> TopicOf[c]]
<1>3. Tail(l) \in Seq(Candidates) /\ RangeOf(l) \subseteq {c} \cup RangeOf(Tail(l))
  BY <1>2, RangeOfTail
<1>4. x \in Item BY ReviewAssumption DEF Item, Status
<1>5. e \in Extractor /\ e.left = Tail(l) /\ e.pc = "drafting"
  BY <1>1, <1>3 DEF Extractor, StoreDraft
<1>6. /\ item' = [item EXCEPT ![c] = x]
      /\ extractor' = [extractor EXCEPT ![s] = e]
      /\ UNCHANGED <<batch, confirm, entry, proc>>
  BY DEF StoreDraft
<1> HIDE DEF e, x
<1>7. /\ item' \in [Candidates -> Item \cup {NoItem}]
      /\ \A d \in Candidates : HasItem(d) => HasItem(d)'
      /\ HasItem(c)'
  BY <1>4, <1>6, Items
<1>8. TypeOK' BY <1>5, <1>6, <1>7 DEF IInv, TypeOK
<1>9. Drafted'
  <2> SUFFICES ASSUME NEW t \in Sessions, extractor'[t].pc = "drafting",
                      NEW d \in RangeOf(Drafts[t])
               PROVE  d \in RangeOf(extractor'[t].left) \/ HasItem(d)'
    BY DEF Drafted
  <2>1. d \in Candidates BY DraftTypes
  <2>2. CASE t = s
    <3>1. extractor'[s].left = Tail(l) BY <1>5, <1>6 DEF IInv, TypeOK
    <3>2. extractor[s].pc = "drafting" BY DEF StoreDraft
    <3>3. d \in RangeOf(l) \/ HasItem(d) BY <2>2, <3>2 DEF IInv, Drafted
    <3> QED BY <1>3, <1>7, <2>1, <2>2, <3>1, <3>3
  <2>3. CASE t # s
    <3>1. extractor'[t] = extractor[t] BY <1>6, <2>3 DEF IInv, TypeOK
    <3>2. d \in RangeOf(extractor[t].left) \/ HasItem(d) BY <3>1 DEF IInv, Drafted
    <3> QED BY <1>7, <2>1, <3>1, <3>2
  <2> QED BY <2>2, <2>3
<1>10. BatchIsComplete'
  <2>1. \A b \in Batches : batch[b].ids \subseteq Candidates
    BY Parts DEF IInv, TypeOK, Batch
  <2> QED BY <1>6, <1>7, <2>1 DEF IInv, BatchIsComplete, HasItem
<1>11. \A p \in Reviewers : Knows(p)'
  <2> TAKE p \in Reviewers
  <2>1. proc[p].pc = "mark_all" => proc[p].todo \cup proc[p].ids \subseteq Candidates
    BY BusyProc DEF IInv, Busy
  <2>2. Knows(p) BY DEF IInv
  <2> QED BY <1>6, <1>7, <2>1, <2>2 DEF Knows
<1> QED BY <1>8, <1>9, <1>10, <1>11 DEF IInv

LEMMA StoreBatchKeeps ==
    ASSUME IInv, NEW s \in Sessions, StoreBatch(s) \/ ExtractCrash(s)
    PROVE  IInv'
<1> DEFINE e == [extractor[s] EXCEPT !.pc = "idle"]
           b == extractor[s].b
<1>1. extractor[s] \in Extractor /\ extractor[s].pc = "drafting"
  BY DEF IInv, TypeOK, StoreBatch, ExtractCrash
<1>2. e \in Extractor /\ e.pc = "idle" /\ b \in Batches BY <1>1 DEF Extractor
<1>3. extractor' = [extractor EXCEPT ![s] = e] /\ UNCHANGED <<item, confirm, entry, proc>>
  BY DEF StoreBatch, ExtractCrash
<1> HIDE DEF e, b
<1>4. Drafted' BY <1>2, <1>3 DEF IInv, TypeOK, Drafted, HasItem
<1>5. \A p \in Reviewers : Knows(p)' BY <1>3 DEF IInv, Knows, HasItem
<1>6. extractor' \in [Sessions -> Extractor] BY <1>2, <1>3 DEF IInv, TypeOK
<1>7. CASE ExtractCrash(s)
  <2>1. UNCHANGED batch BY <1>7 DEF ExtractCrash
  <2> QED BY <1>3, <1>4, <1>5, <1>6, <2>1
          DEF IInv, TypeOK, BatchIsComplete
<1>8. CASE StoreBatch(s)
  <2> DEFINE n == [status |-> "pending_review", ids |-> RangeOf(Drafts[s])]
  <2>1. n \in Batch BY DraftTypes DEF Batch
  <2>2. batch' = [batch EXCEPT ![b] = n] BY <1>8 DEF StoreBatch, b
  <2>3. \A c \in n.ids : HasItem(c)
    <3>1. extractor[s].left = <<>> BY <1>8 DEF StoreBatch
    <3>2. RangeOf(<<>>) = {} BY DEF RangeOf
    <3> QED BY <1>1, <3>1, <3>2 DEF IInv, Drafted
  <2> HIDE DEF n
  <2>4. TypeOK' BY <1>2, <1>3, <1>6, <2>1, <2>2 DEF IInv, TypeOK
  <2>5. BatchIsComplete'
    BY <1>2, <1>3, <2>2, <2>3 DEF IInv, TypeOK, BatchIsComplete, HasItem
  <2> QED BY <1>4, <1>5, <2>4, <2>5 DEF IInv
<1> QED BY <1>7, <1>8

---------------------------------------------------------------------------
(* Reviews. *)

LEMMA BatchCallKeeps ==
    ASSUME IInv, NEW p \in Reviewers, NEW b \in Batches,
           NEW action \in BatchActions, BatchCall(p, b, action)
    PROVE  IInv'
<1> DEFINE n ==
         [pc |-> "mark_all", b |-> b, c |-> None, action |-> action,
          strategy |-> None, edit |-> None, todo |-> batch[b].ids,
          ids |-> batch[b].ids,
          to |-> IF action = "defer" THEN "deferred" ELSE "rejected",
          seen |-> NotIndexed, new |-> NoEntry]
           f == [resolution |-> action, cand |-> None, strategy |-> None]
<1>1. batch[b] \in Batch BY DEF BatchCall, IInv, TypeOK
<1>2. batch[b].ids \subseteq Candidates BY <1>1 DEF Batch
<1>3. n \in Busy
  BY <1>2, IndexTypes DEF Busy, PC, AllActions, Status, IInv
<1>4. f \in Confirm BY DEF Confirm, AllActions
<1>5. /\ proc' = [proc EXCEPT ![p] = n]
      /\ confirm' = [confirm EXCEPT ![b] = f]
      /\ UNCHANGED <<item, batch, entry, extractor>>
  BY DEF BatchCall
<1>6. Knows(p)'
  <2>1. \A c \in batch[b].ids : HasItem(c) BY DEF IInv, BatchIsComplete, HasItem
  <2>2. proc'[p] = n BY <1>5 DEF IInv, TypeOK
  <2>3. \A c \in Candidates : HasItem(c)' <=> HasItem(c) BY <1>5 DEF HasItem
  <2> QED BY <1>2, <2>1, <2>2, <2>3 DEF Knows
<1> HIDE DEF n, f
<1> QED BY <1>3, <1>4, <1>5, <1>6, ReviewerStep DEF IInv, TypeOK

LEMMA ReviewCallKeeps ==
    ASSUME IInv, NEW p \in Reviewers, NEW b \in Batches, NEW c \in Candidates,
           NEW action \in AllActions \ BatchActions,
           NEW strategy \in Strategies \cup {None}, NEW edit \in Topics \cup {None},
           ReviewCall(p, b, c, action, strategy, edit)
    PROVE  IInv'
<1> DEFINE n ==
         [pc |-> "confirm", b |-> b, c |-> c, action |-> action,
          strategy |-> strategy, edit |-> edit, todo |-> {}, ids |-> {},
          to |-> StatusAfter(action),
          seen |-> IF action \in Accepts THEN Indexed ELSE NotIndexed,
          new |-> NoEntry]
<1>1. StatusAfter(action) \in Status
  BY DEF StatusAfter, AllActions, BatchActions, Accepts, Status
<1>2. n \in Busy BY <1>1, IndexTypes DEF Busy, PC, IInv
<1>3. /\ proc' = [proc EXCEPT ![p] = n]
      /\ UNCHANGED <<item, batch, confirm, entry, extractor>>
  BY DEF ReviewCall
<1>4. Knows(p)'
  <2>1. proc'[p] = n BY <1>3 DEF IInv, TypeOK
  <2>2. action \in Accepts => HasItem(c) BY DEF ReviewCall, HasItem
  <2>3. HasItem(c)' <=> HasItem(c) BY <1>3 DEF HasItem
  <2> QED BY <2>1, <2>2, <2>3 DEF Knows
<1> HIDE DEF n
<1> QED BY <1>2, <1>3, <1>4, ReviewerStep DEF IInv, TypeOK

LEMMA MarkNextKeeps ==
    ASSUME IInv, NEW p \in Reviewers, MarkNext(p)
    PROVE  IInv'
<1>0. proc[p] \in Busy /\ proc[p].pc = "mark_all" BY BusyProc DEF IInv, MarkNext
<1> PICK c \in proc[p].todo :
        /\ item' = [item EXCEPT ![c].status = proc[p].to]
        /\ proc' = [proc EXCEPT ![p].todo = @ \ {c}]
  BY DEF MarkNext
<1> DEFINE x == [item[c] EXCEPT !.status = proc[p].to]
           n == [proc[p] EXCEPT !.todo = @ \ {c}]
<1>1. c \in Candidates /\ HasItem(c) /\ proc[p].to \in Status
  BY <1>0 DEF Busy, IInv, Knows
<1>2. item[c] \in Item BY <1>1 DEF IInv, TypeOK, HasItem
<1>3. x \in Item BY <1>1, <1>2, Parts
<1>4. n \in Busy /\ n.pc = "mark_all" /\ n.to = proc[p].to
      /\ n.todo \subseteq proc[p].todo /\ n.ids = proc[p].ids
  BY <1>0 DEF Busy
<1>5. item' = [item EXCEPT ![c] = x] /\ proc' = [proc EXCEPT ![p] = n] OBVIOUS
<1>6. UNCHANGED <<batch, confirm, entry, extractor>> BY DEF MarkNext
<1> HIDE DEF x, n
<1>7. /\ item' \in [Candidates -> Item \cup {NoItem}]
      /\ \A d \in Candidates : HasItem(d) => HasItem(d)'
  BY <1>1, <1>3, <1>5, Items
<1>8. TypeOK' BY <1>4, <1>5, <1>6, <1>7 DEF IInv, TypeOK
<1>9. Drafted' BY <1>6, <1>7, DraftTypes DEF IInv, Drafted
<1>10. BatchIsComplete'
  <2>1. \A b \in Batches : batch[b].ids \subseteq Candidates
    BY Parts DEF IInv, TypeOK, Batch
  <2> QED BY <1>6, <1>7, <2>1 DEF IInv, BatchIsComplete, HasItem
<1>11. ASSUME NEW q \in Reviewers PROVE Knows(q)'
  <2>1. proc[q].pc = "mark_all" => proc[q].todo \cup proc[q].ids \subseteq Candidates
    BY BusyProc DEF IInv, Busy
  <2>2. Knows(q) BY DEF IInv
  <2>3. CASE q = p
    <3>1. proc'[p] = n BY <1>5 DEF IInv, TypeOK
    <3> QED BY <1>0, <1>4, <1>7, <2>1, <2>2, <2>3, <3>1 DEF Knows
  <2>4. CASE q # p
    <3>1. proc'[q] = proc[q] BY <1>5, <2>4 DEF IInv, TypeOK
    <3> QED BY <1>7, <2>1, <2>2, <3>1 DEF Knows
  <2> QED BY <2>3, <2>4
<1> QED BY <1>8, <1>9, <1>10, <1>11 DEF IInv

LEMMA CloseBatchKeeps ==
    ASSUME IInv, NEW p \in Reviewers, CloseBatch(p)
    PROVE  IInv'
<1>0. proc[p] \in Busy /\ proc[p].pc = "mark_all" BY BusyProc DEF IInv, CloseBatch
<1> DEFINE n == [status |-> proc[p].to, ids |-> proc[p].ids]
           b == proc[p].b
<1>1. proc[p].to \in {"deferred", "rejected"} /\ \A c \in proc[p].ids : HasItem(c)
  BY <1>0 DEF IInv, Knows
<1>2. n \in Batch /\ b \in Batches BY <1>0, <1>1 DEF Busy, Batch
<1>3. /\ batch' = [batch EXCEPT ![b] = n]
      /\ proc' = [proc EXCEPT ![p] = Idle]
      /\ UNCHANGED <<item, confirm, entry, extractor>>
  BY DEF CloseBatch, Return
<1>4. \A c \in n.ids : HasItem(c) BY <1>1
<1> HIDE DEF n, b
<1>5. TypeOK' BY <1>2, <1>3 DEF IInv, TypeOK
<1>6. BatchIsComplete'
  BY <1>2, <1>3, <1>4 DEF IInv, TypeOK, BatchIsComplete, HasItem
<1>7. \A q \in Reviewers : Knows(q)'
  BY <1>3, Parts DEF IInv, TypeOK, Knows, HasItem
<1>8. Drafted' BY <1>3 DEF IInv, Drafted, HasItem
<1> QED BY <1>5, <1>6, <1>7, <1>8 DEF IInv

LEMMA WriteConfirmKeeps ==
    ASSUME IInv, NEW p \in Reviewers, WriteConfirm(p)
    PROVE  IInv'
<1>0. proc[p] \in Busy /\ proc[p].pc = "confirm" BY BusyProc DEF IInv, WriteConfirm
<1> DEFINE to == IF proc[p].action \in Accepts THEN "publish" ELSE "mark"
           n == [proc[p] EXCEPT !.pc = to]
           f == [resolution |-> proc[p].action, cand |-> proc[p].c,
                 strategy |-> proc[p].strategy]
<1>1. f \in Confirm /\ proc[p].b \in Batches BY <1>0 DEF Busy, Confirm
<1>2. n \in Busy /\ n.pc = to /\ n.c = proc[p].c /\ n.action = proc[p].action
  BY <1>0 DEF Busy, PC
<1>3. /\ proc' = [proc EXCEPT ![p] = n]
      /\ confirm' = [confirm EXCEPT ![proc[p].b] = f]
      /\ UNCHANGED <<item, batch, entry, extractor>>
  BY DEF WriteConfirm
<1>4. Knows(p)'
  <2>1. proc'[p] = n BY <1>3 DEF IInv, TypeOK
  <2>2. Knows(p) BY DEF IInv
  <2>3. \A c \in Candidates : HasItem(c)' <=> HasItem(c) BY <1>3 DEF HasItem
  <2> HIDE DEF n
  <2> QED BY <1>0, <1>2, <2>1, <2>2, <2>3 DEF Knows
<1> HIDE DEF n, f
<1> QED BY <1>1, <1>2, <1>3, <1>4, ReviewerStep DEF IInv, TypeOK

(* The entry a review is about to store is one. *)
LEMMA PayloadType ==
    ASSUME IInv, NEW p \in Reviewers, proc[p].pc = "publish"
    PROVE  /\ proc[p] \in Busy /\ proc[p].c \in Candidates
           /\ Payload(p) \in Topics
           /\ Similar(p) \subseteq Candidates
           /\ Merged(p) \in Entry /\ Merged(p).ref = proc[p].b
           /\ Recorded(p) \in Entry /\ Recorded(p).ref = proc[p].b
<1>1. proc[p] \in Busy BY BusyProc DEF IInv
<1>2. proc[p].c \in Candidates /\ HasItem(proc[p].c)
  BY DEF IInv, Knows
<1>3. item[proc[p].c] \in Item BY <1>2 DEF IInv, TypeOK, HasItem
<1>4. Payload(p) \in Topics BY <1>1, <1>3 DEF Payload, Item, Busy
<1>5. Similar(p) \subseteq Candidates BY DEF Similar, Alike
<1>6. entry[proc[p].c] \in Entry \cup {NoEntry} BY <1>2 DEF IInv, TypeOK
<1>7. /\ entry[proc[p].c].version \in Nat
      /\ entry[proc[p].c].supersedes \subseteq Candidates
  BY <1>6, Parts DEF Entry
<1>8. VersionAfter(entry[proc[p].c]) \in Nat \ {0} BY <1>7 DEF VersionAfter
<1>9. proc[p].b \in Batches BY <1>1 DEF Busy
<1>10. Merged(p) \in Entry /\ Merged(p).ref = proc[p].b
  BY <1>4, <1>5, <1>7, <1>8, <1>9 DEF Merged, Entry
<1>11. Recorded(p) \in Entry /\ Recorded(p).ref = proc[p].b
  BY <1>4, <1>9 DEF Recorded, Entry
<1> QED BY <1>1, <1>2, <1>4, <1>5, <1>10, <1>11

(* What publish_candidate does with the review it is in. *)
LEMMA PublishCases ==
    ASSUME IInv, NEW p \in Reviewers, Publish(p)
    PROVE  \/ Return(p)
           \/ proc' = [proc EXCEPT ![p] =
                 [proc[p] EXCEPT !.pc = "mark", !.to = "abandoned"]]
           \/ /\ proc[p].c \in Experience
              /\ proc' = [proc EXCEPT ![p] =
                    [proc[p] EXCEPT !.pc = "store", !.new = Recorded(p)]]
           \/ /\ proc[p].c \notin Experience
              /\ proc[p].strategy = None => Similar(p) = {}
              /\ proc' = [proc EXCEPT ![p] =
                    [proc[p] EXCEPT !.pc = "store", !.new = Merged(p)]]
BY DEF Publish

LEMMA PublishKeeps ==
    ASSUME IInv, NEW p \in Reviewers, Publish(p)
    PROVE  IInv'
<1>0. /\ proc[p].pc = "publish"
      /\ UNCHANGED <<item, batch, confirm, entry, extractor>>
  BY DEF Publish
<1>1. CASE Return(p) BY <1>0, <1>1, ReturnStep
<1>2. ASSUME NEW n \in Busy, proc' = [proc EXCEPT ![p] = n],
             \/ n.pc = "mark" /\ n.c = proc[p].c
             \/ n.pc = "store" /\ n.new \in Entry /\ n.new.ref = n.b /\ n.c = proc[p].c
      PROVE  IInv'
  <2>1. proc'[p] = n BY <1>2 DEF IInv, TypeOK
  <2>2. proc[p].c \in Candidates BY <1>0, PayloadType
  <2>3. Knows(p)' BY <1>2, <2>1, <2>2 DEF Knows
  <2> QED BY <1>0, <1>2, <2>3, ReviewerStep DEF IInv, TypeOK
<1>3. CASE proc' = [proc EXCEPT ![p] =
                 [proc[p] EXCEPT !.pc = "mark", !.to = "abandoned"]]
  <2> DEFINE n == [proc[p] EXCEPT !.pc = "mark", !.to = "abandoned"]
  <2>1. n \in Busy /\ n.pc = "mark" /\ n.c = proc[p].c
    BY <1>0, PayloadType, ZenonT(60) DEF Busy, PC, Status
  <2> HIDE DEF n
  <2> QED BY <1>2, <1>3, <2>1 DEF n
<1>4. ASSUME NEW e \in Entry, e.ref = proc[p].b,
             proc' = [proc EXCEPT ![p] = [proc[p] EXCEPT !.pc = "store", !.new = e]]
      PROVE  IInv'
  <2> DEFINE n == [proc[p] EXCEPT !.pc = "store", !.new = e]
  <2>1. n \in Busy /\ n.pc = "store" /\ n.c = proc[p].c /\ n.new = e /\ n.b = proc[p].b
    BY <1>0, PayloadType, ZenonT(60) DEF Busy, PC
  <2>2. proc' = [proc EXCEPT ![p] = n] BY <1>4
  <2> HIDE DEF n
  <2> QED BY <1>2, <1>4, <2>1, <2>2
<1> QED BY <1>0, <1>1, <1>3, <1>4, PublishCases, PayloadType

LEMMA StoreKeeps ==
    ASSUME IInv, NEW p \in Reviewers, Store(p)
    PROVE  IInv'
<1>0. proc[p] \in Busy /\ proc[p].pc = "store" BY BusyProc DEF IInv, Store
<1> DEFINE n == [proc[p] EXCEPT !.pc = "mark"]
<1>1. n \in Busy /\ n.pc = "mark" /\ n.c = proc[p].c BY <1>0 DEF Busy, PC
<1>2. proc[p].c \in Candidates /\ proc[p].new \in Entry
  BY <1>0 DEF IInv, Knows
<1>3. /\ proc' = [proc EXCEPT ![p] = n]
      /\ entry' = [entry EXCEPT ![proc[p].c] = proc[p].new]
      /\ UNCHANGED <<item, batch, confirm, extractor>>
  BY DEF Store
<1>4. Knows(p)'
  <2>1. proc'[p] = n BY <1>3 DEF IInv, TypeOK
  <2> HIDE DEF n
  <2> QED BY <1>1, <1>2, <2>1 DEF Knows
<1>5. entry' \in [Candidates -> Entry \cup {NoEntry}]
  BY <1>2, <1>3 DEF IInv, TypeOK
<1> HIDE DEF n
<1> QED BY <1>1, <1>3, <1>4, <1>5, ReviewerStep DEF IInv, TypeOK

LEMMA MarkKeeps ==
    ASSUME IInv, NEW p \in Reviewers, Mark(p)
    PROVE  IInv'
<1>0. proc[p] \in Busy /\ proc[p].pc = "mark" BY BusyProc DEF IInv, Mark
<1> DEFINE c == proc[p].c
<1>1. c \in Candidates BY <1>0 DEF IInv, Knows
<1>2. Return(p) /\ UNCHANGED <<batch, confirm, entry, extractor>> BY DEF Mark
<1>3. CASE item[c] = NoItem
  BY <1>2, <1>3, ReturnStep DEF Mark
<1>4. CASE item[c] # NoItem
  <2> DEFINE x == [item[c] EXCEPT !.status = proc[p].to]
  <2>1. x \in Item BY <1>0, <1>1, <1>4, Parts DEF IInv, TypeOK, Busy
  <2>2. item' = [item EXCEPT ![c] = x] BY <1>4 DEF Mark
  <2> HIDE DEF x
  <2>3. /\ item' \in [Candidates -> Item \cup {NoItem}]
        /\ \A d \in Candidates : HasItem(d) => HasItem(d)'
    BY <1>1, <2>1, <2>2, Items
  <2>4. proc' = [proc EXCEPT ![p] = Idle] BY <1>2 DEF Return
  <2>5. TypeOK' BY <1>2, <2>3, <2>4 DEF IInv, TypeOK
  <2>6. Drafted' BY <1>2, <2>3, DraftTypes DEF IInv, Drafted
  <2>7. BatchIsComplete'
    <3>1. \A b \in Batches : batch[b].ids \subseteq Candidates
      BY Parts DEF IInv, TypeOK, Batch
    <3> QED BY <1>2, <2>3, <3>1 DEF IInv, BatchIsComplete, HasItem
  <2>8. ASSUME NEW q \in Reviewers PROVE Knows(q)'
    <3>1. proc[q].pc = "mark_all" => proc[q].todo \cup proc[q].ids \subseteq Candidates
      BY BusyProc DEF IInv, Busy
    <3>2. Knows(q) BY DEF IInv
    <3>3. CASE q = p BY <2>4, <3>3, Parts DEF Knows, IInv, TypeOK
    <3>4. CASE q # p
      <4>1. proc'[q] = proc[q] BY <2>4, <3>4 DEF IInv, TypeOK
      <4> QED BY <2>3, <3>1, <3>2, <4>1 DEF Knows
    <3> QED BY <3>3, <3>4
  <2> QED BY <2>5, <2>6, <2>7, <2>8 DEF IInv
<1> QED BY <1>3, <1>4

---------------------------------------------------------------------------
LEMMA InitIInv == Init => IInv
<1> SUFFICES ASSUME Init PROVE IInv OBVIOUS
<1>1. \A s \in Sessions : <<s, 1>> \in Batches BY ReviewAssumption DEF Batches
<1>2. TypeOK
  BY <1>1, ReviewAssumption DEF Init, TypeOK, Extractor
<1>3. \A p \in Reviewers : Knows(p) BY Parts DEF Init, Knows
<1>4. Drafted BY DEF Init, Drafted
<1>5. BatchIsComplete BY DEF Init, BatchIsComplete, NoBatch
<1> QED BY <1>2, <1>3, <1>4, <1>5 DEF IInv

LEMMA NextIInv == IInv /\ [Next]_vars => IInv'
<1> SUFFICES ASSUME IInv, [Next]_vars PROVE IInv' OBVIOUS
<1>1. CASE UNCHANGED vars
  BY <1>1 DEF vars, IInv, TypeOK, Knows, Drafted, BatchIsComplete, HasItem
<1>2. ASSUME NEW p \in Reviewers, ReviewBegins(p) PROVE IInv'
  BY <1>2, BatchCallKeeps, ReviewCallKeeps DEF ReviewBegins, Filed
<1>3. ASSUME NEW p \in Reviewers, ReviewStep(p) PROVE IInv'
  BY <1>3, MarkNextKeeps, CloseBatchKeeps, WriteConfirmKeeps, PublishKeeps,
     StoreKeeps, MarkKeeps DEF ReviewStep
<1>4. ASSUME NEW p \in Reviewers, Crash(p) PROVE IInv'
  BY <1>4, ReturnStep DEF Crash
<1> QED BY <1>1, <1>2, <1>3, <1>4, ExtractCallKeeps, StoreDraftKeeps,
           StoreBatchKeeps DEF Next

LEMMA Inductive == Spec => []IInv
BY InitIInv, NextIInv, PTL DEF Spec

(* Every file and every review keeps its type.                             *)
THEOREM TypeCorrect == Spec => []TypeOK
<1>1. IInv => TypeOK BY DEF IInv
<1> QED BY <1>1, Inductive, PTL

(* No batch ever lists a candidate that is not stored, for any number of   *)
(* extractions, reviewers and crashes.                                     *)
THEOREM BatchesComplete == Spec => []BatchIsComplete
<1>1. IInv => BatchIsComplete BY DEF IInv
<1> QED BY <1>1, Inductive, PTL

---------------------------------------------------------------------------
(* One reviewer: what the publisher read is still true when it writes.     *)

OneReviewer == \A p, q \in Reviewers : p = q

ReadsHold ==
    /\ \A c \in Experience : entry[c].supersedes = {}
    /\ \A p \in Reviewers :
         LET r == proc[p] IN
         /\ r.pc \in {"confirm", "publish"} /\ r.action \in Accepts =>
              r.seen = Indexed
         /\ r.pc \in {"publish", "store"} =>
              confirm[r.b].cand = r.c /\ confirm[r.b].resolution \in Accepts
         /\ r.pc = "store" =>
              /\ entry[r.c].supersedes \subseteq r.new.supersedes
              /\ r.c \in Experience => r.new.supersedes = {}
              /\ r.c \notin Experience =>
                    /\ r.new.version = entry[r.c].version + 1
                    /\ r.strategy = None => SimilarTo(r.new.topic) \subseteq {r.c}

LEMMA InitReads == Init => ReadsHold
BY Parts, ReviewAssumption DEF Init, ReadsHold

LEMMA NextReads ==
    ASSUME OneReviewer, IInv, ReadsHold, [Next]_vars
    PROVE  ReadsHold'
<1>1. CASE UNCHANGED <<entry, confirm, proc>>
  BY <1>1 DEF ReadsHold, SimilarTo, Alike, Indexed
<1>2. ASSUME NEW p \in Reviewers, UNCHANGED entry,
             NEW n \in Busy \cup {Idle}, n.pc \notin {"confirm", "publish", "store"},
             proc' = [proc EXCEPT ![p] = n]
      PROVE  ReadsHold'
  BY <1>2 DEF ReadsHold, OneReviewer, IInv, TypeOK
<1>3. ASSUME NEW p \in Reviewers, UNCHANGED entry, Return(p) PROVE ReadsHold'
  BY <1>2, <1>3, Parts, Idle \in Busy \cup {Idle} DEF Return
<1>4. ASSUME NEW p \in Reviewers, ReviewBegins(p) PROVE ReadsHold'
  <2>1. UNCHANGED entry /\ proc'[p].pc \notin {"publish", "store"}
    BY <1>4 DEF ReviewBegins, Filed, BatchCall, ReviewCall, IInv, TypeOK
  <2>2. proc'[p].pc = "confirm" /\ proc'[p].action \in Accepts => proc'[p].seen = Indexed
    <3>1. ASSUME NEW b \in Batches, NEW action \in BatchActions, BatchCall(p, b, action)
          PROVE  proc'[p].pc = "mark_all"
      BY <3>1 DEF BatchCall, IInv, TypeOK
    <3>2. ASSUME NEW b \in Batches, NEW c \in Candidates,
                 NEW action \in AllActions \ BatchActions,
                 NEW strategy \in Strategies \cup {None}, NEW edit \in Topics \cup {None},
                 ReviewCall(p, b, c, action, strategy, edit)
          PROVE  proc'[p].action \in Accepts => proc'[p].seen = Indexed
      BY <3>2 DEF ReviewCall, IInv, TypeOK
    <3> QED BY <1>4, <3>1, <3>2 DEF ReviewBegins, Filed
  <2>3. Indexed' = Indexed BY <2>1 DEF Indexed
  <2> QED BY <2>1, <2>2, <2>3 DEF ReadsHold, OneReviewer
<1>5. ASSUME NEW p \in Reviewers, MarkNext(p) PROVE ReadsHold'
  <2>1. UNCHANGED entry /\ proc'[p].pc = "mark_all"
    BY <1>5, BusyProc DEF MarkNext, IInv, TypeOK, Busy
  <2> QED BY <2>1 DEF ReadsHold, OneReviewer
<1>6. ASSUME NEW p \in Reviewers, CloseBatch(p) \/ Mark(p) \/ Crash(p)
      PROVE  ReadsHold'
  BY <1>3, <1>6 DEF CloseBatch, Mark, Crash
<1>7. ASSUME NEW p \in Reviewers, WriteConfirm(p) PROVE ReadsHold'
  <2>0. proc[p] \in Busy /\ proc[p].b \in Batches
    BY <1>7, BusyProc DEF WriteConfirm, IInv, Busy
  <2>1. /\ UNCHANGED entry
        /\ proc'[p].pc \in {"publish", "mark"}
        /\ proc'[p].c = proc[p].c /\ proc'[p].b = proc[p].b
        /\ proc'[p].action = proc[p].action /\ proc'[p].seen = proc[p].seen
        /\ proc'[p].pc = "publish" => proc[p].action \in Accepts
    BY <1>7, <2>0 DEF WriteConfirm, IInv, TypeOK, Busy
  <2>2. /\ confirm'[proc[p].b].cand = proc[p].c
        /\ confirm'[proc[p].b].resolution = proc[p].action
    BY <1>7, <2>0 DEF WriteConfirm, IInv, TypeOK
  <2>3. proc[p].action \in Accepts => proc[p].seen = Indexed
    BY <1>7, Zenon DEF WriteConfirm, ReadsHold
  <2>4. Indexed' = Indexed BY <2>1 DEF Indexed
  <2> QED BY <2>1, <2>2, <2>3, <2>4 DEF ReadsHold, OneReviewer
<1>8. ASSUME NEW p \in Reviewers, Publish(p) PROVE ReadsHold'
  <2>0. /\ proc[p].pc = "publish" /\ UNCHANGED <<confirm, entry>>
        /\ proc[p] \in Busy /\ proc[p].c \in Candidates
    BY <1>8, PayloadType DEF Publish
  <2>1. CASE Return(p) BY <1>3, <2>0, <2>1
  <2>2. CASE proc' = [proc EXCEPT ![p] =
                 [proc[p] EXCEPT !.pc = "mark", !.to = "abandoned"]]
    <3>1. proc'[p].pc = "mark" BY <2>0, <2>2 DEF IInv, TypeOK, Busy
    <3> QED BY <2>0, <3>1 DEF ReadsHold, OneReviewer
  <2>3. ASSUME NEW e, proc' = [proc EXCEPT ![p] =
                 [proc[p] EXCEPT !.pc = "store", !.new = e]]
        PROVE  /\ proc'[p].pc = "store" /\ proc'[p].new = e
               /\ proc'[p].c = proc[p].c /\ proc'[p].b = proc[p].b
               /\ proc'[p].strategy = proc[p].strategy
    BY <2>0, <2>3 DEF IInv, TypeOK, Busy
  <2>4. CASE /\ proc[p].c \in Experience
             /\ proc' = [proc EXCEPT ![p] =
                    [proc[p] EXCEPT !.pc = "store", !.new = Recorded(p)]]
    <3>1. Recorded(p).supersedes = {} BY DEF Recorded
    <3> HIDE DEF Recorded
    <3>2. /\ proc'[p].pc = "store" /\ proc'[p].new = Recorded(p)
          /\ proc'[p].c = proc[p].c /\ proc'[p].b = proc[p].b
      BY <2>3, <2>4
    <3>3. /\ \A c \in Experience : entry'[c].supersedes = {}
          /\ confirm'[proc'[p].b].cand = proc'[p].c
          /\ confirm'[proc'[p].b].resolution \in Accepts
          /\ proc'[p].pc = "store"
      BY <2>0, <3>2 DEF ReadsHold
    <3>4. /\ entry'[proc'[p].c].supersedes = {}
          /\ proc'[p].new.supersedes = {} /\ proc'[p].c \in Experience
      BY <2>0, <2>4, <3>1, <3>2, <3>3
    <3>5. \A q \in Reviewers : q = p BY DEF OneReviewer
    <3> QED BY <3>3, <3>4, <3>5 DEF ReadsHold
  <2>5. CASE /\ proc[p].c \notin Experience
             /\ proc[p].strategy = None => Similar(p) = {}
             /\ proc' = [proc EXCEPT ![p] =
                    [proc[p] EXCEPT !.pc = "store", !.new = Merged(p)]]
    <3>1. /\ Merged(p).topic = Payload(p)
          /\ Merged(p).version = entry[proc[p].c].version + 1
          /\ entry[proc[p].c].supersedes \subseteq Merged(p).supersedes
      BY DEF Merged, VersionAfter
    <3>2. proc[p].strategy = None => SimilarTo(Merged(p).topic) \subseteq {proc[p].c}
      <4>1. proc[p].seen = Indexed BY <1>8, <2>0 DEF ReadsHold, IInv, Knows
      <4> QED BY <2>5, <3>1, <4>1 DEF Similar, SimilarTo
    <3> HIDE DEF Merged
    <3> DEFINE e == Merged(p)
    <3>5. /\ proc'[p].pc = "store" /\ proc'[p].new = e
          /\ proc'[p].c = proc[p].c /\ proc'[p].b = proc[p].b
          /\ proc'[p].strategy = proc[p].strategy
      BY <2>3, <2>5
    <3>6. SimilarTo(proc[p].new.topic)' = SimilarTo(e.topic)
      BY <2>0, <3>5 DEF SimilarTo, Alike, Indexed
    <3> HIDE DEF SimilarTo
    <3>7. \A q \in Reviewers : q = p BY DEF OneReviewer
    <3>8. /\ \A c \in Experience : entry'[c].supersedes = {}
          /\ confirm'[proc'[p].b].cand = proc'[p].c
          /\ confirm'[proc'[p].b].resolution \in Accepts
          /\ proc'[p].pc = "store"
      BY <2>0, <3>5 DEF ReadsHold
    <3>9. /\ proc'[p].c \notin Experience
          /\ entry'[proc'[p].c].supersedes \subseteq proc'[p].new.supersedes
          /\ proc'[p].new.version = entry'[proc'[p].c].version + 1
      BY <2>0, <2>5, <3>1, <3>5
    <3>10. proc'[p].strategy = None =>
             SimilarTo(proc[p].new.topic)' \subseteq {proc'[p].c}
      BY <3>2, <3>5, <3>6
    <3> QED BY <3>7, <3>8, <3>9, <3>10 DEF ReadsHold
  <2> QED BY <2>1, <2>2, <2>4, <2>5, PublishCases, <1>8
<1>9. ASSUME NEW p \in Reviewers, Store(p) PROVE ReadsHold'
  <2>0. proc[p] \in Busy /\ proc[p].pc = "store" /\ proc[p].c \in Candidates
    BY <1>9, BusyProc DEF Store, IInv, Knows
  <2>1. proc'[p].pc = "mark" BY <1>9, <2>0 DEF Store, IInv, TypeOK, Busy
  <2>2. \A c \in Experience : entry'[c].supersedes = {}
    BY <1>9, <2>0, ReviewAssumption DEF Store, IInv, TypeOK, ReadsHold
  <2> QED BY <2>1, <2>2 DEF ReadsHold, OneReviewer
<1>10. ASSUME NEW s \in Sessions,
              ExtractCall(s) \/ StoreDraft(s) \/ StoreBatch(s) \/ ExtractCrash(s)
       PROVE  ReadsHold'
  BY <1>1, <1>10 DEF ExtractCall, StoreDraft, StoreBatch, ExtractCrash
<1> QED BY <1>1, <1>4, <1>5, <1>6, <1>7, <1>8, <1>9, <1>10
        DEF Next, vars, ReviewStep

LEMMA ReadsInductive == OneReviewer => (Spec => [](IInv /\ ReadsHold))
<1> SUFFICES ASSUME OneReviewer PROVE Spec => [](IInv /\ ReadsHold) OBVIOUS
<1>1. Init => IInv /\ ReadsHold BY InitIInv, InitReads
<1>2. IInv /\ ReadsHold /\ [Next]_vars => (IInv /\ ReadsHold)'
  BY NextIInv, NextReads
<1> QED BY <1>1, <1>2, PTL DEF Spec

(* Entries change in Store only.                                           *)
LEMMA EntryChange ==
    ASSUME IInv, [Next]_vars, entry' # entry
    PROVE  \E p \in Reviewers : Store(p)
<1>1. \A s \in Sessions :
        ExtractCall(s) \/ StoreDraft(s) \/ StoreBatch(s) \/ ExtractCrash(s)
          => UNCHANGED entry
  BY DEF ExtractCall, StoreDraft, StoreBatch, ExtractCrash
<1>2. \A p \in Reviewers : ReviewBegins(p) => UNCHANGED entry
  BY DEF ReviewBegins, Filed, BatchCall, ReviewCall
<1>3. \A p \in Reviewers :
        MarkNext(p) \/ CloseBatch(p) \/ WriteConfirm(p) => UNCHANGED entry
  BY DEF MarkNext, CloseBatch, WriteConfirm
<1>4. \A p \in Reviewers : Publish(p) \/ Mark(p) \/ Crash(p) => UNCHANGED entry
  BY DEF Publish, Mark, Crash
<1> QED BY <1>1, <1>2, <1>3, <1>4 DEF Next, vars, ReviewStep

LEMMA StoreChanges ==
    ASSUME IInv, NEW p \in Reviewers, Store(p)
    PROVE  /\ proc[p].pc = "store" /\ proc[p].c \in Candidates
           /\ proc[p].new.ref = proc[p].b
           /\ entry'[proc[p].c] = proc[p].new
           /\ \A c \in Candidates : c # proc[p].c => entry'[c] = entry[c]
<1>1. proc[p].pc = "store" BY DEF Store
<1>2. proc[p].c \in Candidates /\ proc[p].new.ref = proc[p].b
  BY <1>1 DEF IInv, Knows
<1> QED BY <1>1, <1>2 DEF Store, IInv, TypeOK

(* With one reviewer at a time, each publication of a knowledge candidate  *)
(* counts its version up by one, whatever is killed or extracted again.    *)
THEOREM PublicationsCount == OneReviewer => (Spec => VersionsCount)
<1> SUFFICES ASSUME OneReviewer PROVE Spec => VersionsCount OBVIOUS
<1> DEFINE Step == \A c \in Candidates \ Experience : entry'[c] # entry[c] =>
                      entry'[c].version = entry[c].version + 1
<1>1. IInv /\ ReadsHold /\ [Next]_vars => [Step]_vars
  BY EntryChange, StoreChanges DEF ReadsHold
<1>2. Spec => [](IInv /\ ReadsHold) BY ReadsInductive
<1> QED BY <1>1, <1>2, PTL DEF Spec, VersionsCount

(* ... what an entry superseded stays on record ...                        *)
THEOREM SupersededStays == OneReviewer => (Spec => SupersedesKept)
<1> SUFFICES ASSUME OneReviewer PROVE Spec => SupersedesKept OBVIOUS
<1> DEFINE Step == \A c \in Candidates : entry[c].supersedes \subseteq entry'[c].supersedes
<1>1. IInv /\ ReadsHold /\ [Next]_vars => [Step]_vars
  BY EntryChange, StoreChanges DEF ReadsHold
<1>2. Spec => [](IInv /\ ReadsHold) BY ReadsInductive
<1> QED BY <1>1, <1>2, PTL DEF Spec, SupersedesKept

(* ... it is confirmed before it is written ...                            *)
THEOREM ConfirmationComesFirst == OneReviewer => (Spec => ConfirmedFirst)
<1> SUFFICES ASSUME OneReviewer PROVE Spec => ConfirmedFirst OBVIOUS
<1> DEFINE Step == \A c \in Candidates : entry'[c] # entry[c] =>
                      LET told == confirm[entry'[c].ref] IN
                      told.cand = c /\ told.resolution \in Accepts
<1>1. IInv /\ ReadsHold /\ [Next]_vars => [Step]_vars
  BY EntryChange, StoreChanges DEF ReadsHold
<1>2. Spec => [](IInv /\ ReadsHold) BY ReadsInductive
<1> QED BY <1>1, <1>2, PTL DEF Spec, ConfirmedFirst

(* ... and never silently next to a similar entry.                         *)
THEOREM ConflictsAreChosen == OneReviewer => (Spec => ConflictIsChosen)
<1> SUFFICES ASSUME OneReviewer PROVE Spec => ConflictIsChosen OBVIOUS
<1> DEFINE Step == \A p \in Reviewers : Store(p) /\ proc[p].c \notin Experience =>
                      \/ proc[p].strategy # None
                      \/ SimilarTo(proc[p].new.topic) \subseteq {proc[p].c}
<1>1. IInv /\ ReadsHold /\ [Next]_vars => [Step]_vars
  BY StoreChanges DEF ReadsHold
<1>2. Spec => [](IInv /\ ReadsHold) BY ReadsInductive
<1> QED BY <1>1, <1>2, PTL DEF Spec, ConflictIsChosen
=============================================================================
