CONSTANTS
    t1 = t1
    w1 = w1
    t2 = t2
    w2 = w2
    page = page
    release = release
    foreign = foreign
    lien = lien
    settles = settles
    Unpublished = {nothing}
    Workspaces <- MCWorkspaces
    Screens <- MCScreens
    HomeOf <- MCHomeOf
    ByWatchlist <- MCByWatchlist
    Docs <- MCDocs
    KindOfDoc <- MCKindOfDoc
    Evidence <- MCEvidence
    About <- MCAbout
    Passing = {}
    Bodies <- MCBodies
    Overrides <- MCOverrides
    MinSeverity = "low"
    Seen <- MCSeen
    MaxTogether = 3
SPECIFICATION Spec
INVARIANTS
    TypeOK
    PoliciesAgree
    
    ScoresAreSound

    
