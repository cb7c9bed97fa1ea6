\* Two processes and one pattern, one process and two patterns, or one process
\* and two packs to promote to; kills.
SPECIFICATION MCSpec
CONSTANTS
    Procs = {p1, p2}
    Domains = {d}
    NoTags = none
    Buckets = {none, tagged}
    Targets = {a, b}
    NoPath = nopath
    Sessions = {s1, s2}
    Ids = {i1, i2}
    Threshold = 2
    Faults = {"kill"}
SYMMETRY Symmetry
CONSTRAINT Within
INVARIANTS
    TypeOK
    NeverLost
    OneOpen
PROPERTIES
    PromotionStands
    NothingRipeIsMissed
