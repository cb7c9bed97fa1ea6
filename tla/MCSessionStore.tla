---------------------------- MODULE MCSessionStore ----------------------------
(* Instances of SessionStore for TLC; see README.md for what they ask. *)
EXTENDS SessionStore, TLC

Symmetry == Permutations(Procs)

(* Bound: a checkpoint is damaged while at most one process is in a call.  *)
DamagedAlone ==
    \/ \A i \in Ids : \A n \in DOMAIN active[i].points : active[i].points[n] # "invalid"
    \/ Cardinality({p \in Procs : proc[p].pc # "idle"}) < 2
=============================================================================
