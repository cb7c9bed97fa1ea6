\* One process, every call, killed anywhere, sweeping again and again.
SPECIFICATION FairSpec
CONSTANTS
    Procs = {p1}
    MaxId = 2
    MaxPoints = 1
    States = {"idle"}
    Calls = {"create", "update", "archive", "sweep", "checkpoint"}
    Faults = {"crash"}
INVARIANTS
    OnePlace
PROPERTIES
    StaleIsSwept
