\* Small bases of entries and records, each question asked of each of them.
SPECIFICATION Spec
CONSTANTS
    none = none
    api = api
    cli = cli
    Kinds <- TwoKinds
    PerKind = 2
    TopM = 1
    Budget = 5
    Threshold = 2
    Window = 2
    Terms = {none, api, cli}
    Empty = none
    Inside <- ApiInCli
    Bases <- AllBases
    Queries <- AllQueries
    Hints <- AllHints
    Limits = {0, 1, 2}
    Paths = {"docs/a.md", "docs/c.md", "src/b.md"}
    Documents = {"docs/a.md", "docs/c.md"}
    MaxPending = 5
    MinPriority = 65
INVARIANTS
    CompiledByRank
    AnswersHold
