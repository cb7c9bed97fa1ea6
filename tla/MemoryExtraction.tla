--------------------------- MODULE MemoryExtraction ---------------------------
(***************************************************************************)
(* extract_for_archived_session as a function of the session: which of its *)
(* evidence becomes candidates, and how the batch is summarised.  What is  *)
(* then stored, and when, is in MemoryReview, whose Drafts this computes.  *)
(***************************************************************************)
EXTENDS Naturals, Sequences, FiniteSets

CONSTANTS
    MaxPending,     \* MAX_PENDING_CANDIDATES
    MinPriority     \* min_priority_score, in hundredths

ASSUME ExtractionAssumption == MaxPending \in Nat /\ MinPriority \in Nat

(* tags: a list with something in it, an empty one or none, or what is     *)
(* there and cannot be gone through, such as null.                         *)
Archived ==
    [tags : {"list", "none", "no_list"}, artifacts : Nat,
     problem_domain : BOOLEAN, pack_id : BOOLEAN, topic : BOOLEAN, node : BOOLEAN]

priority_score(kind) ==
    CASE kind = "artifact"       -> 81
      [] kind = "problem_domain" -> 72
      [] kind = "metadata_tags"  -> 62
      [] kind = "pack_id"        -> 58
      [] kind = "current_node"   -> 57
      [] kind = "topic"          -> 56

When(holds, kind) == IF holds THEN <<kind>> ELSE <<>>

Evidence(s) ==
    When(s.tags = "list", "metadata_tags") \o When(s.problem_domain, "problem_domain")
        \o [n \in 1 .. s.artifacts |-> "artifact"]

(* _build_signals: what every session has supplements evidence. *)
Signals(s) ==
    IF Evidence(s) = <<>> THEN <<>>
    ELSE Evidence(s) \o When(s.pack_id, "pack_id") \o When(s.topic, "topic")
                     \o When(s.node, "current_node")

candidate_type(kind) ==
    CASE kind = "metadata_tags"  -> "pattern"
      [] kind = "problem_domain" -> "experience_summary"
      [] OTHER                   -> "decision"

SignalScore(s, n) == priority_score(Signals(s)[n])

(* A candidate's id is made of the place of its signal. *)
Generated(s) == {n \in DOMAIN Signals(s) : SignalScore(s, n) >= MinPriority}

(* The sort is stable. *)
Before(s, m, n) == SignalScore(s, m) > SignalScore(s, n) \/ (SignalScore(s, m) = SignalScore(s, n) /\ m < n)

(* Seeded fault: the first ones as they were found are kept. *)
Kept_First(s) == {n \in Generated(s) : Cardinality({m \in Generated(s) : m < n}) < MaxPending}

Kept(s) ==
    {n \in Generated(s) :
        Cardinality({m \in Generated(s) : Before(s, m, n)}) < MaxPending}

evaluation_summary(s) ==
    CASE Signals(s) = <<>>      -> "no_evidence"
      [] s.tags = "no_list"     -> "extraction_failed"
      [] Generated(s) = {}      -> "evaluated_no_candidate"
      [] OTHER                  -> "evaluated_with_candidates"

(* What is stored of a session: its candidates and the batch. *)
Extracted(s) ==
    LET kept == IF evaluation_summary(s) = "evaluated_with_candidates" THEN Kept(s) ELSE {} IN
    [evaluation |-> evaluation_summary(s),
     candidates |-> {[id |-> n, type |-> candidate_type(Signals(s)[n])] : n \in kept},
     truncated  |-> IF kept = {} THEN 0 ELSE Cardinality(Generated(s)) - Cardinality(kept)]
=============================================================================
