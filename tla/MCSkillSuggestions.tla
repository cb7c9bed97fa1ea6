-------------------------- MODULE MCSkillSuggestions --------------------------
(* Instances of SkillSuggestions for TLC; see README.md for what they ask. *)
(* Three instances in one run, chosen at the start: two processes that     *)
(* share one pattern; one at a time with patterns that share their domain; *)
(* one at a time with one suggestion and two packs to promote it to.       *)
EXTENDS SkillSuggestions, TLC

Symmetry == Permutations(Procs) \cup Permutations(Ids) \cup Permutations(Sessions)

VARIABLE instance

MCInit == Init /\ instance \in {"pair", "tags", "targets"}
MCNext == Next /\ UNCHANGED instance
MCSpec == MCInit /\ [][MCNext]_<<vars, instance>>

OneAtATime == Cardinality({p \in Procs : ~AtRest(p)}) < 2
OnePattern ==
    /\ \A e \in evidence : e[1][2] = NoTags
    /\ \A k \in skills : k[2][2] = NoTags
HomeTarget == CHOOSE to \in Targets : TRUE
OneTarget ==
    /\ \A k \in skills : k[1] = HomeTarget
    /\ \A p \in Procs : \A n \in DOMAIN call[p] :
         call[p][n].do = "open" => call[p][n].skill[1] = HomeTarget

(* Bound: the patterns, packs, skills, processes and suggestions of the    *)
(* instance; a disturbed state is outside of what the properties speak of. *)
Within ==
    /\ ~disturbed
    /\ instance = "pair" => OnePattern /\ OneTarget
    /\ instance = "tags" =>
         due = {} /\ OneTarget /\ OneAtATime /\ Cardinality(skills) < 2
    /\ instance = "targets" => due = {} /\ OnePattern /\ OneAtATime /\ Cardinality(made) < 2
=============================================================================
