\* One screen at a time and one request at a time, findings that only grow.
CONSTANTS
    s1 = s1
    s2 = s2
    s3 = s3
    r1 = r1
    r2 = r2
    e1 = e1
    e2 = e2
    Screens = {s1, s2, s3}
    Requests = {r1, r2}
    Signals = {e1, e2}
    Resolved = {s1, s2, s3}
    Workers = 1
    Reviewers = 1
    Outcomes = {"sent", "error"}
    CopyOutcomes = {"sent", "error"}
    Growing = TRUE
    MaxDeaths = 0
    MayDelete = FALSE
SYMMETRY Interchangeable
SPECIFICATION Spec
INVARIANTS
    ToldOnce
\* Every screen and request comes to an end.
CHECK_DEADLOCK FALSE
