\* Two threads, a session and a call without one, restarts, failing writes.
SPECIFICATION FairSpec
CONSTANTS
    Threads = {t1, t2}
    Sessions = {s, none}
    Default = none
    MaxRetries = 3
    Faults = {"restart", "unwritable"}
INVARIANTS
    TypeOK
    NotStuckRunning
    OneSuccess
    PausedIsResumable
    CompletedMeansSuccess
PROPERTIES
    CallsEnd
