\* Two processes, one host, two packs with the same skill, the second release
\* of one has an unusable skill; commands fail and are killed anywhere.
SPECIFICATION Spec
CONSTANTS
    a = a
    b = b
    Procs = {p, q}
    Packs = {a, b}
    Skills = {s1}
    Hosts = {h}
    Scopes = {"project"}
    Requests <- InProject
    MaxVersion = 2
    Ships <- ShipAll
    Malformed <- BadText
    Mismatched <- Nothing
    Sensitive <- Nothing
    Sidecars = {}
    Outgoing = {}
    Local = {b}
    Mine = mine
    None = none
    Faults = {"crash", "fail"}
INVARIANTS
    TypeOK
    OneOwner
PROPERTIES
    EditKept
SYMMETRY Symmetry
