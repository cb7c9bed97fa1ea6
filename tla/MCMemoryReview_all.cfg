\* One reviewer, killed anywhere, while a session is extracted: once, with
\* every decision; or twice, with an experience summary.
SPECIFICATION MCSpec
CONSTANTS
    s1 = s1
    s2 = s2
    c1 = c1
    c2 = c2
    c3 = c3
    t1 = t1
    t2 = t2
    Reviewers = {p1}
    Sessions = {s1, s2}
    Candidates = {c1, c2, c3}
    Experience = {c3}
    Drafts <- TwoSessions
    Topics = {t1, t2}
    TopicOf <- TopicsDrafted
    None = None
    Passes = 2
    MaxVersion = 2
    Actions = {"accept", "edit_accept", "reject", "abandon", "batch_reject", "defer"}
    Faults = {"crash"}
CONSTRAINT
    Within
INVARIANTS
    TypeOK
    BatchIsComplete
PROPERTIES
    VersionsCount
    SupersedesKept
    ConflictIsChosen
    ConfirmedFirst
\* Killed before it filed a batch, an extraction leaves nothing to review.
CHECK_DEADLOCK FALSE
