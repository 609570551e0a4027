----------------------------- MODULE MCWebsite ------------------------------
(* A site with one newsroom host, that links to a page of its own and to     *)
(* somebody else's, and announces a feed of its own and somebody else's.     *)
EXTENDS Website, TLC

CONSTANTS main, news, other, homePage, newsPage, press, investors, about, feed, rss, newsFeed, newsRss, wire

MCNewsrooms == <<news>>
MCHome == main :> homePage @@ news :> newsPage
MCFeedPaths == main :> <<feed, rss>> @@ news :> <<newsFeed, newsRss>>
MCCandidatePaths == <<press, investors, about>>
MCHostOf == homePage :> main @@ press :> main @@ investors :> main @@ about :> main
            @@ feed :> main @@ rss :> main @@ newsPage :> news @@ newsFeed :> news
            @@ newsRss :> news @@ wire :> other
=============================================================================
