--------------------------- MODULE MCKnowledgeBase ---------------------------
(* Instances of KnowledgeBase for TLC; see README.md for what they ask.    *)
(* Two instances in one run, chosen at the start: one process at a time *)
(* with all the files, or processes that share one entry and one record.   *)
EXTENDS KnowledgeBase, TLC

CONSTANTS decision, r1

Symmetry == Permutations(Procs)

VARIABLE instance

MCInit == Init /\ instance \in {"alone", "shared"}
MCNext == Next /\ UNCHANGED instance
MCSpec == MCInit /\ [][MCNext]_<<vars, instance>>

(* Bound: the files and processes of the instance. *)
Within ==
    \/ /\ instance = "alone"
       /\ Cardinality({p \in Procs : call[p] # <<>> \/ index[p].clean}) < 2
       /\ \A p \in Procs : foreign[p] = {}
    \/ /\ instance = "shared"
       /\ \A f \in Files : There(f) => f[1] = decision /\ entry[f].version < 3
       /\ \A p \in Procs : \A n \in DOMAIN call[p] :
            /\ call[p][n].do = "store" => call[p][n].file[1] = decision
            /\ call[p][n].do \in {"write", "load"} => call[p][n].rec = r1
=============================================================================
