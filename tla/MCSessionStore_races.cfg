\* Two processes inside any calls on the same ids, killed anywhere, files damaged.
SPECIFICATION Spec
CONSTANTS
    Procs = {p1, p2}
    MaxId = 1
    MaxPoints = 1
    States = {"running"}
    Calls = {"create", "update", "archive", "sweep", "checkpoint"}
    Faults = {"crash", "tamper"}
SYMMETRY Symmetry
INVARIANTS
    TypeOK
    ExtractOnce
PROPERTIES
    ArchivedIsFinal
CONSTRAINT DamagedAlone
