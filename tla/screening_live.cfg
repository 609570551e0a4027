CONSTANTS
    t1 = t1
    w1 = w1
    t2 = t2
    w2 = w2
    page = page
    release = release
    foreign = foreign
    lien = lien
    settles = settles
    Unpublished = {nothing}
    Workspaces = {t1, t2}
    Screens = {w1, w2}
    HomeOf <- LiveHomeOf
    ByWatchlist <- MCByWatchlist
    Docs = {page}
    KindOfDoc <- LiveKindOfDoc
    Evidence = {foreign}
    About <- LiveAbout
    Passing <- MCPassing
    Bodies = {}
    Overrides = {}
    MinSeverity = "low"
    Seen <- MCSeen
    MaxTogether = 0
SPECIFICATION FairSpec
PROPERTY StandingIsTold
