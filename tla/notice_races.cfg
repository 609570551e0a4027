\* Two screens and two requests race, processes die half-way, an admin deletes runs.
CONSTANTS
    s1 = s1
    s2 = s2
    r1 = r1
    r2 = r2
    e1 = e1
    Screens = {s1, s2}
    Requests = {r1, r2}
    Signals = {e1}
    Resolved = {s1, s2}
    Workers = 2
    Reviewers = 2
    Outcomes = {"sent", "error"}
    CopyOutcomes = {"sent"}
    Growing = FALSE
    MaxDeaths = 1
    MayDelete = TRUE
SYMMETRY Interchangeable
SPECIFICATION Spec
INVARIANTS
    TypeOK
    MailIsTrue
    OnePending
PROPERTIES
    KeepsPromise
\* Every screen and request comes to an end.
CHECK_DEADLOCK FALSE
