--------------------------- MODULE MCMemoryReview ---------------------------
(* Instances of MemoryReview for TLC; see README.md for what they ask.     *)
(* Two instances in one run, chosen at the start: every decision on the    *)
(* candidates of one extraction of a first session; or some decisions on   *)
(* those of a second session, an experience summary among them, that is    *)
(* extracted twice.                                                        *)
EXTENDS MemoryReview, TLC

CONSTANTS s1, s2, c1, c2, c3, t1, t2

TwoSessions   == s1 :> <<c1, c2>> @@ s2 :> <<c1, c3>>
TopicsDrafted == [c \in Candidates |-> IF c = c2 THEN t2 ELSE t1]

VARIABLE instance

(* Bound: the session, the extractions and the decisions of the instance;  *)
(* of two candidates the second is accepted as it is or left alone, of a   *)
(* topic the first can be edited to.                                       *)
Within ==
    \/ /\ instance = "one"
       /\ extractor[s1].passes <= 1
       /\ extractor[s2].passes = 0
       /\ \A p \in Reviewers :
            \/ proc[p] = Idle \/ proc[p].c \in {c1, None}
            \/ proc[p].c = c2 /\ proc[p].action = "accept"
    \/ /\ instance = "again"
       /\ extractor[s1].passes = 0
       /\ \A p \in Reviewers :
            proc[p] = Idle \/ proc[p].action \in {"accept", "reject"}

MCInit == Init /\ instance \in {"one", "again"}
MCNext == Next /\ UNCHANGED instance
MCSpec == MCInit /\ [][MCNext]_<<vars, instance>>
=============================================================================
