\* Created and updated by one process, nothing goes wrong.
SPECIFICATION Spec
CONSTANTS
    Procs = {p1}
    MaxId = 1
    MaxPoints = 0
    States = {"running"}
    Calls = {"create", "update"}
    Faults = {}
INVARIANTS
    IntactRecovers
