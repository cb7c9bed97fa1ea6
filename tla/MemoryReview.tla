---------------------------- MODULE MemoryReview ----------------------------
(***************************************************************************)
(* From archived sessions to published knowledge.                          *)
(*                                                                         *)
(* MemoryExtractionOrchestrator drafts candidates from an archived session *)
(* and files them in a batch; `garage memory review` lets a user accept,   *)
(* edit, reject, abandon or defer them; KnowledgePublisher turns accepted  *)
(* ones into knowledge entries or experience records, after asking what to *)
(* do about similar entries.  All of it is files: candidates, batches, one *)
(* confirmation per batch, entries.  A review is a sequence of reads and   *)
(* atomic writes of those files; extractions and reviews of several        *)
(* terminals overlap, and each can be killed between two writes.           *)
(*                                                                         *)
(* Title and tags, which decide what is similar, are one `topic`.          *)
(***************************************************************************)
EXTENDS Naturals, Sequences, FiniteSets

CONSTANTS
    Reviewers,   \* processes running `garage memory review`
    Sessions,    \* archived sessions
    Candidates,  \* candidate ids
    Experience,  \* the candidates of type experience_summary
    Drafts,      \* the candidates extraction finds in a session, best first
    Topics,
    TopicOf,     \* the topic extraction gives a candidate
    None,
    Passes,      \* bound: extractions of a session, at most 2
    MaxVersion,  \* bound: versions of an entry
    Actions,     \* review actions the users of an instance take
    Faults       \* which of "crash" happen

BatchActions == {"batch_reject", "defer"}
Accepts      == {"accept", "edit_accept"}
AllActions   == BatchActions \cup Accepts \cup {"reject", "abandon"}
Strategies   == {"coexist", "supersede", "abandon"}

RangeOf(s) == {s[i] : i \in DOMAIN s}

ASSUME ReviewAssumption ==
    /\ Experience \subseteq Candidates
    /\ Drafts \in [Sessions -> Seq(Candidates)]
    /\ TopicOf \in [Candidates -> Topics]
    /\ \A s \in Sessions : Len(Drafts[s]) <= 5       \* MAX_PENDING_CANDIDATES
    /\ None \notin Candidates \cup Topics \cup Strategies
    /\ Passes \in {1, 2}
    /\ MaxVersion \in Nat
    /\ Actions \subseteq AllActions
    /\ Faults \subseteq {"crash"}

VARIABLES
    item,      \* memory/candidates/items/<candidate>.md
    batch,     \* memory/candidates/batches/<batch>.json
    confirm,   \* memory/confirmations/<batch>.json
    entry,     \* published entries and records, by publication id
    extractor, \* the extraction of every session
    proc       \* the review every process is in

vars == <<item, batch, confirm, entry, extractor, proc>>

(* A session is extracted on archiving and, when a conversation is         *)
(* imported, a second time; the batch id has the second of the day in it.  *)
Batches == Sessions \X (1 .. Passes)

Status == {"pending_review", "deferred", "rejected", "abandoned", "published"}
NoItem == [status |-> None, topic |-> None]
Item   == [status : Status, topic : Topics]

NoBatch == [status |-> None, ids |-> {}]
Batch   == [status : {"pending_review", "deferred", "rejected"}, ids : SUBSET Candidates]

NoConfirm == [resolution |-> None, cand |-> None, strategy |-> None]
Confirm   == [resolution : AllActions, cand : Candidates \cup {None},
              strategy : Strategies \cup {None}]

(* PublicationIdentityGenerator: an entry has the id of its candidate.     *)
NoEntry == [version |-> 0, topic |-> None, supersedes |-> {}, ref |-> None]
Entry   == [version : Nat \ {0}, topic : Topics, supersedes : SUBSET Candidates,
            ref : Batches]

Extractor == [pc : {"idle", "drafting"}, left : Seq(Candidates),
              b : Batches, passes : 0 .. Passes]

(* A review knows its batch and candidate, the action and its options, the *)
(* batch as read, the candidates left to mark, the status to give, the     *)
(* topics of the published knowledge as it indexed them, and the entry it  *)
(* is going to store.                                                      *)
PC == {"confirm", "publish", "store", "mark", "mark_all"}
Busy == [pc : PC, b : Batches, c : Candidates \cup {None}, action : AllActions,
         strategy : Strategies \cup {None}, edit : Topics \cup {None},
         todo : SUBSET Candidates, ids : SUBSET Candidates, to : Status,
         seen : [Candidates -> Topics \cup {None}], new : Entry \cup {NoEntry}]
Idle == [pc |-> "idle"]

TypeOK ==
    /\ item \in [Candidates -> Item \cup {NoItem}]
    /\ batch \in [Batches -> Batch \cup {NoBatch}]
    /\ confirm \in [Batches -> Confirm \cup {NoConfirm}]
    /\ entry \in [Candidates -> Entry \cup {NoEntry}]
    /\ extractor \in [Sessions -> Extractor]
    /\ proc \in [Reviewers -> Busy \cup {Idle}]

Init ==
    /\ item = [c \in Candidates |-> NoItem]
    /\ batch = [b \in Batches |-> NoBatch]
    /\ confirm = [b \in Batches |-> NoConfirm]
    /\ entry = [c \in Candidates |-> NoEntry]
    /\ extractor = [s \in Sessions |->
         [pc |-> "idle", left |-> <<>>, b |-> <<s, 1>>, passes |-> 0]]
    /\ proc = [p \in Reviewers |-> Idle]

---------------------------------------------------------------------------
(* Extraction.  Without evidence, or below the threshold, Drafts[s] is     *)
(* empty and only a batch is stored.                                       *)

ExtractCall(s) ==
    /\ extractor[s].pc = "idle"
    /\ extractor[s].passes < Passes
    /\ \E second \in 1 .. extractor[s].passes + 1 :
         extractor' = [extractor EXCEPT ![s] =
             [pc |-> "drafting", left |-> Drafts[s], b |-> <<s, second>>,
              passes |-> @.passes + 1]]
    /\ UNCHANGED <<item, batch, confirm, entry, proc>>

(* A candidate that was there is overwritten, whatever became of it.       *)
StoreDraft(s) ==
    /\ extractor[s].pc = "drafting"
    /\ extractor[s].left # <<>>
    /\ LET c == Head(extractor[s].left) IN
       item' = [item EXCEPT ![c] =
                  [status |-> "pending_review", topic |-> TopicOf[c]]]
    /\ extractor' = [extractor EXCEPT ![s].left = Tail(@)]
    /\ UNCHANGED <<batch, confirm, entry, proc>>

(* Seeded fault: the batch is filed before its candidates.                 *)
StoreBatch_Early(s) ==
    /\ extractor[s].pc = "drafting"
    /\ batch' = [batch EXCEPT ![extractor[s].b] =
                   [status |-> "pending_review", ids |-> RangeOf(Drafts[s])]]
    /\ extractor' = [extractor EXCEPT ![s].pc = "idle"]
    /\ UNCHANGED <<item, confirm, entry, proc>>

StoreBatch(s) ==
    /\ extractor[s].pc = "drafting"
    /\ extractor[s].left = <<>>
    /\ batch' = [batch EXCEPT ![extractor[s].b] =
                   [status |-> "pending_review", ids |-> RangeOf(Drafts[s])]]
    /\ extractor' = [extractor EXCEPT ![s].pc = "idle"]
    /\ UNCHANGED <<item, confirm, entry, proc>>

ExtractCrash(s) ==
    /\ "crash" \in Faults
    /\ extractor[s].pc = "drafting"
    /\ extractor' = [extractor EXCEPT ![s].pc = "idle"]
    /\ UNCHANGED <<item, batch, confirm, entry, proc>>

---------------------------------------------------------------------------
(* `garage memory review`. *)

Return(p) == proc' = [proc EXCEPT ![p] = Idle]

(* KnowledgeStore loads all entries when it is first searched and never    *)
(* again: a review looks for conflicts in what it saw when it began.       *)
(* Experience records are not looked at.                                   *)
NotIndexed == [x \in Candidates |-> None]
Indexed == [x \in Candidates |-> IF x \in Experience THEN None ELSE entry[x].topic]

(* ConflictDetector: published knowledge on a topic, the candidate's own   *)
(* entry included.                                                         *)
Alike(seen, topic) == {x \in Candidates : seen[x] = topic}
SimilarTo(topic) == Alike(Indexed, topic)

(* A decision for the whole batch. *)
BatchCall(p, b, action) ==
    /\ action \in Actions \cap BatchActions
    /\ proc[p].pc = "idle"
    /\ batch[b] # NoBatch
    /\ confirm' = [confirm EXCEPT ![b] =
                     [resolution |-> action, cand |-> None, strategy |-> None]]
    /\ proc' = [proc EXCEPT ![p] =
         [pc |-> "mark_all", b |-> b, c |-> None, action |-> action,
          strategy |-> None, edit |-> None, todo |-> batch[b].ids,
          ids |-> batch[b].ids,
          to |-> IF action = "defer" THEN "deferred" ELSE "rejected",
          seen |-> NotIndexed, new |-> NoEntry]]
    /\ UNCHANGED <<item, batch, entry, extractor>>

(* update_candidate, one by one (the order does not matter). *)
MarkNext(p) ==
    /\ proc[p].pc = "mark_all"
    /\ \E c \in proc[p].todo :
         /\ item' = [item EXCEPT ![c].status = proc[p].to]
         /\ proc' = [proc EXCEPT ![p].todo = @ \ {c}]
    /\ UNCHANGED <<batch, confirm, entry, extractor>>

CloseBatch(p) ==
    /\ proc[p].pc = "mark_all"
    /\ proc[p].todo = {}
    /\ batch' = [batch EXCEPT ![proc[p].b] =
                   [status |-> proc[p].to, ids |-> proc[p].ids]]
    /\ Return(p)
    /\ UNCHANGED <<item, confirm, entry, extractor>>

(* The status a decision ends in, unless a conflict abandons it.  The      *)
(* seeded fault stores the action.                                         *)
StatusAfter_Action(action) == action
StatusAfter(action) ==
    CASE action \in Accepts   -> "published"
      [] action = "reject"    -> "rejected"
      [] action = "abandon"   -> "abandoned"

(* A decision on one candidate.  Its id is free text: it must exist to be  *)
(* accepted but need not belong to the batch.  The user is sent back when  *)
(* a similar entry exists (the unedited candidate is looked at) and no     *)
(* strategy was given.  (An edit that leaves the topic alone is one to the *)
(* same topic; a strategy matters to an accept only.)                      *)
ReviewCall(p, b, c, action, strategy, edit) ==
    /\ action \in Actions \ BatchActions
    /\ proc[p].pc = "idle"
    /\ batch[b] # NoBatch
    /\ edit # None <=> action = "edit_accept"
    /\ action \notin Accepts => strategy = None
    /\ action \in Accepts =>
         /\ item[c] # NoItem
         /\ entry[c].version < MaxVersion
         /\ SimilarTo(item[c].topic) # {} => strategy # None
    /\ proc' = [proc EXCEPT ![p] =
         [pc |-> "confirm", b |-> b, c |-> c, action |-> action,
          strategy |-> strategy, edit |-> edit, todo |-> {}, ids |-> {},
          to |-> StatusAfter(action),
          seen |-> IF action \in Accepts THEN Indexed ELSE NotIndexed,
          new |-> NoEntry]]
    /\ UNCHANGED <<item, batch, confirm, entry, extractor>>

(* Seeded fault: only decisions that publish nothing are recorded.         *)
WriteConfirm_RejectsOnly(p) ==
    /\ proc[p].pc = "confirm"
    /\ confirm' = IF proc[p].action \in Accepts THEN confirm
                  ELSE [confirm EXCEPT ![proc[p].b] =
                     [resolution |-> proc[p].action, cand |-> proc[p].c,
                      strategy |-> proc[p].strategy]]
    /\ proc' = [proc EXCEPT ![p].pc =
                  IF proc[p].action \in Accepts THEN "publish" ELSE "mark"]
    /\ UNCHANGED <<item, batch, entry, extractor>>

(* One confirmation file per batch: it replaces the one before.            *)
WriteConfirm(p) ==
    /\ proc[p].pc = "confirm"
    /\ confirm' = [confirm EXCEPT ![proc[p].b] =
                     [resolution |-> proc[p].action, cand |-> proc[p].c,
                      strategy |-> proc[p].strategy]]
    /\ proc' = [proc EXCEPT ![p].pc =
                  IF proc[p].action \in Accepts THEN "publish" ELSE "mark"]
    /\ UNCHANGED <<item, batch, entry, extractor>>

(* The topic that is published.  The seeded fault forgets the edit.        *)
Payload(p) == IF proc[p].edit # None THEN proc[p].edit ELSE item[proc[p].c].topic

(* What the publisher finds alike, its own entry apart.                    *)
Similar_Unedited(p) == Alike(proc[p].seen, item[proc[p].c].topic) \ {proc[p].c}
Similar(p) == Alike(proc[p].seen, Payload(p)) \ {proc[p].c}

(* update() counts on from the entry it replaces; the seeded fault stores. *)
VersionAfter_Stored(old) == 1
VersionAfter(old) == old.version + 1

(* The entry to be stored, from the one that is there.  The seeded fault   *)
(* forgets which entries earlier versions superseded.                      *)
Merged_Fresh(p) ==
    [version |-> VersionAfter(entry[proc[p].c]), topic |-> Payload(p),
     supersedes |-> IF proc[p].strategy = "supersede" THEN Similar(p) ELSE {},
     ref |-> proc[p].b]

Merged(p) ==
    LET old == entry[proc[p].c] IN
    [version |-> VersionAfter(old), topic |-> Payload(p),
     supersedes |-> old.supersedes \cup
                      (IF proc[p].strategy = "supersede" THEN Similar(p) ELSE {}),
     ref |-> proc[p].b]

(* An experience record is replaced; it has no versions and no conflicts.  *)
Recorded(p) ==
    [version |-> 1, topic |-> Payload(p), supersedes |-> {}, ref |-> proc[p].b]

(* publish_candidate up to the write: a ValueError ends the command, the   *)
(* abandon strategy leaves the candidate unpublished.                      *)
Publish(p) ==
    /\ proc[p].pc = "publish"
    /\ LET c == proc[p].c IN
       IF c \in Experience
       THEN proc' = [proc EXCEPT ![p].pc = "store", ![p].new = Recorded(p)]
       ELSE IF Similar(p) # {} /\ proc[p].strategy = None THEN Return(p)
       ELSE IF Similar(p) # {} /\ proc[p].strategy = "abandon"
       THEN proc' = [proc EXCEPT ![p].pc = "mark", ![p].to = "abandoned"]
       ELSE proc' = [proc EXCEPT ![p].pc = "store", ![p].new = Merged(p)]
    /\ UNCHANGED <<item, batch, confirm, entry, extractor>>

Store(p) ==
    /\ proc[p].pc = "store"
    /\ entry' = [entry EXCEPT ![proc[p].c] = proc[p].new]
    /\ proc' = [proc EXCEPT ![p].pc = "mark"]
    /\ UNCHANGED <<item, batch, confirm, extractor>>

(* update_candidate; a candidate that does not exist ends the command.     *)
Mark(p) ==
    /\ proc[p].pc = "mark"
    /\ item' = IF item[proc[p].c] = NoItem THEN item
               ELSE [item EXCEPT ![proc[p].c].status = proc[p].to]
    /\ Return(p)
    /\ UNCHANGED <<batch, confirm, entry, extractor>>

Crash(p) ==
    /\ "crash" \in Faults
    /\ proc[p].pc # "idle"
    /\ Return(p)
    /\ UNCHANGED <<item, batch, confirm, entry, extractor>>

(* The batches that retrieve_batch finds. *)
Filed == {b \in Batches : batch[b] # NoBatch}

ReviewBegins(p) ==
    \E b \in Filed :
        \/ \E action \in BatchActions : BatchCall(p, b, action)
        \/ \E c \in Candidates, action \in AllActions \ BatchActions,
              strategy \in Strategies \cup {None}, edit \in Topics \cup {None} :
             ReviewCall(p, b, c, action, strategy, edit)

ReviewStep(p) ==
    \/ MarkNext(p) \/ CloseBatch(p)
    \/ WriteConfirm(p) \/ Publish(p) \/ Store(p) \/ Mark(p)

Next ==
    \/ \E s \in Sessions : ExtractCall(s) \/ StoreDraft(s) \/ StoreBatch(s)
                           \/ ExtractCrash(s)
    \/ \E p \in Reviewers : ReviewBegins(p) \/ ReviewStep(p) \/ Crash(p)

Spec == Init /\ [][Next]_vars

---------------------------------------------------------------------------
(* Correctness. *)

(* A batch never lists a candidate that is not stored, wherever an         *)
(* extraction is killed: candidates first, batch last.                     *)
BatchIsComplete == \A b \in Batches : \A c \in batch[b].ids : item[c] # NoItem

(* An entry is written only while the confirmation it refers to says that  *)
(* this candidate is accepted (FR-303; one reviewer).                      *)
ConfirmedFirst ==
    [][\A c \in Candidates : entry'[c] # entry[c] =>
          LET told == confirm[entry'[c].ref] IN
          told.cand = c /\ told.resolution \in Accepts]_vars

(* F004 FR-401: the N-th publication of a candidate is version N of one    *)
(* entry (one reviewer).                                                   *)
VersionsCount ==
    [][\A c \in Candidates \ Experience : entry'[c] # entry[c] =>
          entry'[c].version = entry[c].version + 1]_vars

(* F004 FR-405: what an entry ever superseded stays on record (one         *)
(* reviewer).                                                              *)
SupersedesKept ==
    [][\A c \in Candidates : entry[c].supersedes \subseteq entry'[c].supersedes]_vars

(* FR-304: nothing is published next to a similar entry of another         *)
(* candidate unless the user chose a strategy.                             *)
ConflictIsChosen ==
    [][\A p \in Reviewers : Store(p) /\ proc[p].c \notin Experience =>
          \/ proc[p].strategy # None
          \/ SimilarTo(proc[p].new.topic) \subseteq {proc[p].c}]_vars
=============================================================================
