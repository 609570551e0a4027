CONSTANTS
    main = main
    news = news
    other = other
    homePage = homePage
    newsPage = newsPage
    press = press
    investors = investors
    about = about
    feed = feed
    rss = rss
    newsFeed = newsFeed
    newsRss = newsRss
    wire = wire
    Base = main
    Newsrooms <- MCNewsrooms
    Elsewhere = other
    Home <- MCHome
    FeedPaths <- MCFeedPaths
    CandidatePaths <- MCCandidatePaths
    Links = {press, wire}
    FeedLinks = {newsFeed, wire}
    HostOf <- MCHostOf
    MaxProbes = 1
    MaxFeeds = 1
    MaxPages = 2
    Enough = 2
    Installed = TRUE
SPECIFICATION WebSpec
CHECK_DEADLOCK FALSE
INVARIANTS
    WebTypeOK
    NothingSilent
    
