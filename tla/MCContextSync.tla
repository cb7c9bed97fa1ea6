--------------------------- MODULE MCContextSync ---------------------------
(* Instances of ContextSync for TLC; see README.md for what each one asks. *)
EXTENDS ContextSync, TLC, SequencesExt

\* Hosts are numbered in the order sorted() visits them; a request names the
\* hosts of H, each at one scope.
At(H, scope) == LET order == SetToSortSeq(H, <) IN
                [i \in 1 .. Cardinality(H) |-> <<order[i], scope>>]

\* Every command line names all hosts at project scope.
AllProject == {At(Hosts, "project")}

\* `--hosts` selects any non-empty set of hosts at project scope.
AnyProject == {At(H, "project") : H \in SUBSET Hosts \ {{}}}

\* Every host at user scope: the workspaces share the files.
AllUser == {At(Hosts, "user")}

Symmetry == Permutations(Contents) \cup Permutations(Workspaces) \cup Permutations(Runs)
=============================================================================
