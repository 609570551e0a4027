CONSTANTS
    l1 = l1
    a1 = a1
    a2 = a2
    acme = acme
    raised = raised
    Nobody = nobody
    Lists = {l1}
    Addresses = {a1, a2}
    Companies = {acme}
    Items = {raised}
    About <- MCAbout
    Reports <- MCReports
    Checks = {p1, p2}
    Leavers = {a2}
    Bodies <- MCBodies
    Portfolios <- MCPortfolios
    Modes = {"send"}
    AsksPerDay = 1
    MaxDeaths = 1
    Overlapping = FALSE
SPECIFICATION FairSpec
CHECK_DEADLOCK FALSE
INVARIANTS
    TypeOK
    

    

