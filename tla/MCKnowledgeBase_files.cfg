\* One process with two types and two records, two with one of each; kills.
SPECIFICATION MCSpec
CONSTANTS
    decision = decision
    r1 = r1
    Procs = {p1, p2}
    Types = {decision, pattern}
    Ids = {k}
    Records = {r1, r2}
    Tags = {t}
    Targets = {x}
    MaxVersion = 3
    Faults = {"kill"}
SYMMETRY Symmetry
CONSTRAINT Within
INVARIANTS
    TypeOK
    SearchAgrees
    RestIsConsistent
PROPERTIES
    ChangesAccumulate
