CONSTANTS
    newcomer = newcomer
    Nobody = nobody
    Watches = {office}
    Processes = {p1, p2}
    Contractors = {newcomer}
    Queries = {1}
    MaxPages = 2
    Names <- MCNames
    Source = "fpds"
    Settings <- MCSettings
    Standard = 18
    Daylight = FALSE
    HoursPerTick = 6
    SweepHours = 20
    RunsPerDay = 2
    MaxWaiting = 1
    MaxStops = 1
    Rank <- MCRank
SPECIFICATION FairSpec
CHECK_DEADLOCK FALSE
INVARIANTS
    TypeOK
    SweptInTurn
    IndexIsTrue
PROPERTIES
    EverybodyIsScreened
