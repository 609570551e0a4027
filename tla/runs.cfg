\* Every deployment, with threads and requests killed at any time; minutes, with limits
\* two minutes shorter than on Vercel (4, 5 and 2).
CONSTANTS
    a = a
    b = b
    Runs = {a, b}
    Backends = {"thread", "rq", "request"}
    Killable = {"thread", "request"}
    Accounts = {b}
    Limit = 2
    Unlimited = 3
    Grace = 2
    Host = 3
    Wait = 1
SPECIFICATION RunFairSpec
INVARIANTS
    RunTypeOK
    RunsAreTrue
PROPERTIES
    OutcomeStays
    NoneWaits
\* Every screen comes to an end.
CHECK_DEADLOCK FALSE
