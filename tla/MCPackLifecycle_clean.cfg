\* One process, one host at either scope, two packs with a skill each, two
\* releases; users edit and delete copies; no command fails.
SPECIFICATION Spec
CONSTANTS
    a = a
    b = b
    Procs = {p}
    Packs = {a, b}
    Skills = {s1, s2}
    Hosts = {h}
    Scopes = {"project", "user"}
    Requests <- OneScope
    MaxVersion = 2
    Ships <- ShipApart
    Malformed <- Nothing
    Mismatched <- Nothing
    Sensitive <- SecondOfA
    Sidecars = {s1}
    Outgoing = {a, b}
    Local = {}
    Mine = mine
    None = none
    Faults = {}
INVARIANTS
    ManifestMatchesDisk
    SkipMeansEdit
