\* One terminal, one workspace, two hosts, complete host lists; the user edits
\* anything, below the footer as well, but no run fails.
SPECIFICATION FairSpec
CONSTANTS
    Runs = {r1}
    Workspaces = {w1}
    Hosts = {1, 2}
    Requests <- AllProject
    Contents = {k1, k2}
    UserTexts = {edit}
    None = None
    Faults = {"footer"}
INVARIANTS
    TypeOK
    ConflictIsAnEdit
PROPERTIES
    OutsideKept
    Converges
