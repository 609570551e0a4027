CONSTANTS
    scope = scope
    watch = watch
    page = page
    listing = listing
    csl = csl
    sdn = sdn
    alt = alt
    treasury = treasury
    Runs = {scope, watch}
    Contractors <- MCContractors
    Budget <- MCBudget
    Margin = 1
    HostOf <- MCHostOf
    Steps <- MCSteps
    Csl = csl
    Ofac <- MCOfac
    SamListing = listing
    Attempts = 2
    BreakAfter = 2
    BreakFor = 2
    MaxWait = 1
    MaxPause = 2
    Backoff = 1
    Asks = {0, 2}
    MaxFaults = 2
SPECIFICATION Spec
CHECK_DEADLOCK FALSE
INVARIANTS
    TypeOK
    CheckedIsChecked
    Sparing
