\* Two terminals in any of two workspaces, one host at the shared
\*  user scope, runs that abort anywhere.
SPECIFICATION Spec
CONSTANTS
    Runs = {r1, r2}
    Workspaces = {w1, w2}
    Hosts = {1}
    Requests <- AllUser
    Contents = {k1, k2}
    UserTexts = {edit}
    None = None
    Faults = {"abort"}
SYMMETRY Symmetry
INVARIANTS
    NoEditInWindow
PROPERTIES
    SectionIsOwned
