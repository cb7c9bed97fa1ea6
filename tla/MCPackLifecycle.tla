-------------------------- MODULE MCPackLifecycle --------------------------
(* Instances of PackLifecycle for TLC; see README.md for what each asks. *)
EXTENDS PackLifecycle, TLC

CONSTANTS a, b  \* two packs

\* Every version of both packs ships all skills: they conflict.
ShipAll == [k \in Packs |-> [v \in Versions |-> Skills]]
\* Pack a ships one skill, pack b the others.
ShipApart ==
    LET s == CHOOSE s \in Skills : TRUE IN
    [k \in Packs |-> [v \in Versions |-> IF k = a THEN {s} ELSE Skills \ {s}]]

\* All hosts at one scope, either one.
OneScope == {[h \in Hosts |-> scope] : scope \in Scopes}
\* All hosts in the project.
InProject == {[h \in Hosts |-> "project"]}

\* The second version of pack a has a skill that cannot be installed.
BadText == {<<a, 2, s>> : s \in Skills}

\* The second version of pack a is not published without --force.
SecondOfA == {<<a, 2>>}

Nothing == {}
Symmetry == Permutations(Procs)
=============================================================================
