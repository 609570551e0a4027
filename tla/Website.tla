------------------------------- MODULE Website -------------------------------
(***************************************************************************)
(* Reading one contractor's website during a screen: its release feeds      *)
(* first (connectors/feeds.py), then its pages (connectors/webwatch.py),    *)
(* both through what the site's robots.txt allows (connectors/robots.py)    *)
(* and, where a plain request gets nothing readable, a headless browser     *)
(* (connectors/browser.py); and what the run then says it could not read    *)
(* (coverage_notes in pipeline.py).                                         *)
(*                                                                         *)
(* One thread reads a site, so a fetch is one step.  What the site answers  *)
(* is chosen at each fetch.  A page's text counts by its size: 0 nothing,   *)
(* 1 too little for a document, 2 a thin page, 3 a page (SHELL_TEXT_CHARS). *)
(***************************************************************************)
EXTENDS Naturals, Sequences, FiniteSets

CONSTANTS
    Base, Newsrooms,        \* the site's host; those a newsroom usually is on, a sequence
    Elsewhere,              \* a host of somebody else
    Home,                   \* [its hosts -> URL]
    FeedPaths,              \* [its hosts -> the feeds that are guessed at, a sequence]
    CandidatePaths,         \* the pages that are guessed at, a sequence
    Links, FeedLinks,       \* URLs its home pages may link to, and announce as feeds
    HostOf,                 \* [URL -> host]
    MaxProbes,              \* MAX_PROBES, of either connector
    MaxFeeds, MaxPages,
    Enough,                 \* pages the home page leads to that make guessing needless: 3
    Installed               \* whether Playwright is

Urls == DOMAIN HostOf
Site == {Base} \cup {Newsrooms[i] : i \in DOMAIN Newsrooms}
Hosts == Site \cup {Elsewhere}

ASSUME HostsAssumption ==
    /\ HostOf \in [Urls -> Hosts] /\ Newsrooms \in Seq(Site)
    /\ Elsewhere \notin Site
    /\ Home \in [Site -> Urls] /\ \A h \in Site : HostOf[Home[h]] = h
ASSUME PathsAssumption ==
    /\ FeedPaths \in [Site -> Seq(Urls)] /\ CandidatePaths \in Seq(Urls)
    /\ \A h \in Site : \A i \in DOMAIN FeedPaths[h] : HostOf[FeedPaths[h][i]] = h
    /\ \A i \in DOMAIN CandidatePaths : HostOf[CandidatePaths[i]] = Base
    /\ Links \cup FeedLinks \subseteq Urls /\ IsFiniteSet(Links \cup FeedLinks)
ASSUME BoundsAssumption ==
    /\ {MaxProbes, MaxFeeds, MaxPages, Enough} \subseteq Nat
    /\ Installed \in BOOLEAN

VARIABLES
    rules,          \* robots: what is known of each host's robots.txt
    at,             \* where the reading is
    host,           \* which of the site's hosts feeds are looked for on: 0 is Base
    tried,          \* the usual paths gone through there
    probes,         \* those asked for
    found,          \* the feeds, then the pages, that were found
    browser,        \* "idle", "up" or "failed"
    browserHosts,   \* _browser_hosts
    skippedJs, unreadable, skippedRobots, hostsRead,
    docs,           \* what was read
    requested,      \* history: the URLs that were asked for, and how often in all
    empty           \* history: the pages that gave nothing, and how they were answered

webVars == <<rules, at, host, tried, probes, found, browser, browserHosts, skippedJs, unreadable,
          skippedRobots, hostsRead, docs, requested, empty>>
site == <<rules, browser, browserHosts, skippedJs, unreadable, skippedRobots, requested, empty>>

Unread == [verdict |-> "unread", denied |-> {}, slow |-> FALSE]

WebInit ==
    /\ rules = [h \in Hosts |-> Unread]
    /\ at = "feeds"
    /\ host = 0
    /\ tried = 0
    /\ probes = 0
    /\ found = <<>>
    /\ browser = "idle"
    /\ browserHosts = {}
    /\ skippedJs = {} /\ unreadable = {} /\ skippedRobots = {} /\ hostsRead = {}
    /\ docs = {}
    /\ requested = [urls |-> {}, times |-> 0]
    /\ empty = {}

HostAt(i) == IF i = 0 THEN Base ELSE Newsrooms[i]

----------------------------------------------------------------------------
(* robots.txt.                                                             *)

(* _load: rules that can be read are obeyed; a 4xx allows everything; a     *)
(* name that does not resolve, or no answer, allows nothing.                *)
Rules(h) ==
    [verdict : {"parsed"}, denied : SUBSET {u \in Urls : HostOf[u] = h}, slow : BOOLEAN]
    \cup [verdict : {"allow_all", "no_such_host", "deny_all"}, denied : {{}}, slow : {FALSE}]

\* rules_for: once for each host.
RulesFor(h) == IF rules[h] = Unread THEN Rules(h) ELSE {rules[h]}

\* allowed, and why not.
Refusal(u, r) ==
    CASE r.verdict \in {"deny_all", "no_such_host"} -> r.verdict
      [] r.verdict = "parsed" /\ r.slow -> "Crawl-delay"
      [] r.verdict = "parsed" /\ ~r.slow /\ u \in r.denied -> "disallowed"
      [] OTHER -> ""

----------------------------------------------------------------------------
(* One fetch.                                                              *)

BrowserReady == Installed /\ browser # "failed"

\* What a plain request gets: no page, or a page with so much text.
Answers == [ok : {FALSE}, size : {0}] \cup [ok : {TRUE}, size : 0..3]

(* _ensure_browser, render: a browser that does not start is not started    *)
(* again, and gives nothing.                                                *)
Renders ==
    {[browser |-> "up", size |-> n] : n \in 0..3}
    \cup (IF browser = "idle" THEN {[browser |-> "failed", size |-> 0]} ELSE {})

\* What a fetch does, as one record: what it got and what it leaves in the connector.
Nothing == [how |-> "", size |-> 0, requests |-> 0, refusal |-> "", browser |-> browser,
            needs |-> FALSE, js |-> FALSE, unread |-> FALSE, blank |-> ""]

\* _render, for a host that is known to need it.
ByBrowser ==
    {[Nothing EXCEPT !.how = IF r.size > 0 THEN "browser" ELSE "", !.size = r.size,
                     !.requests = 1, !.browser = r.browser, !.needs = r.size > 0,
                     !.unread = r.size = 0, !.blank = IF r.size = 0 THEN "browser" ELSE ""] :
        r \in Renders}

\* Mutant: a page that did not answer is left out as one with nothing to say.
QuietlySkipped(a) == FALSE

\* No browser could have done better, and the site did not serve the page.
NeedsBrowser(a) == ~a.ok

Plainly(a) ==
    IF a.size = 3 THEN {[Nothing EXCEPT !.how = "http", !.size = 3, !.requests = 1]}
    ELSE IF BrowserReady
    THEN {LET better == r.size > a.size
              size == IF better THEN r.size ELSE a.size
          IN  [Nothing EXCEPT
                 !.how = IF better THEN "browser" ELSE IF size > 0 THEN "http" ELSE "",
                 !.size = size, !.requests = 2, !.browser = r.browser,
                 !.needs = r.size > 0, !.unread = size = 0,
                 !.blank = IF size = 0 THEN "browser" ELSE ""] : r \in Renders}
    ELSE {[Nothing EXCEPT
             !.how = IF a.size > 0 THEN "http" ELSE "", !.size = a.size, !.requests = 1,
             !.js = NeedsBrowser(a),
             !.blank = IF a.size > 0 THEN "" ELSE IF a.ok THEN "hollow" ELSE "none"]}

(* _fetch: what robots.txt refuses is not asked for; a host known to need   *)
(* it gets the browser; else a plain request, and the browser when that     *)
(* gives less than a page.                                                  *)
Fetched(u, r) ==
    IF Refusal(u, r) # "" THEN {[Nothing EXCEPT !.refusal = Refusal(u, r), !.blank = "robots"]}
    ELSE IF HostOf[u] \in browserHosts /\ BrowserReady THEN ByBrowser
    ELSE UNION {Plainly(a) : a \in Answers}

\* fetch_raw: a feed is not a page, and no browser is asked for it.
FetchedRaw(u, r) ==
    IF Refusal(u, r) # "" THEN {[Nothing EXCEPT !.refusal = Refusal(u, r)]}
    ELSE {[Nothing EXCEPT !.requests = 1, !.size = n] : n \in {0, 3}}

\* What the connectors remember of it.
Remember(u, r, o) ==
    LET h == HostOf[u]
    IN  /\ rules' = [rules EXCEPT ![h] = r]
        /\ browser' = o.browser
        /\ browserHosts' = IF o.needs THEN browserHosts \cup {h} ELSE browserHosts
        /\ skippedJs' = IF o.js THEN skippedJs \cup {h} ELSE skippedJs
        /\ unreadable' = IF o.unread THEN unreadable \cup {h} ELSE unreadable
        /\ skippedRobots' = IF o.refusal = "" THEN skippedRobots
                            ELSE skippedRobots \cup {[url |-> u, reason |-> o.refusal]}
        /\ requested' = [urls |-> IF o.requests > 0 THEN requested.urls \cup {u}
                                  ELSE requested.urls,
                         times |-> requested.times + o.requests]
        /\ empty' = IF o.blank = "" THEN empty ELSE empty \cup {[url |-> u, how |-> o.blank]}

----------------------------------------------------------------------------
(* Feeds.                                                                  *)

Firsts(s, n) == SubSeq(s, 1, IF Len(s) < n THEN Len(s) ELSE n)
Elements(s) == {s[i] : i \in DOMAIN s}
Orders(S) == {s \in [1..Cardinality(S) -> S] : \A x \in S : \E i \in DOMAIN s : s[i] = x}

\* Mutant: whatever a page announces.
AnyHost(u) == TRUE

\* _same_host: the registrable name is the same.
SameHost(u) == HostOf[u] \in Site

\* Mutant: guessing goes on for as long as there are paths.
NeverSpent == FALSE

Spent == probes >= MaxProbes

(* discover_feeds: the loop over the hosts a newsroom is usually on is gone *)
(* into only when the site itself has no feed, and left when there are      *)
(* enough; what was found is read.                                          *)
NextHost(list) ==
    /\ tried' = 0 /\ probes' = 0
    /\ IF host < Len(Newsrooms) /\ (host = 0 => list = <<>>) /\ Len(list) < MaxFeeds
       THEN at' = "newsroom" /\ host' = host + 1 /\ found' = list
       ELSE at' = "reading" /\ UNCHANGED host /\ found' = Firsts(list, MaxFeeds)

\* host_exists: a guess that names nothing costs one lookup.
TryNewsroom ==
    LET h == HostAt(host)
    IN  /\ at = "newsroom"
        /\ \E r \in RulesFor(h) :
              /\ rules' = [rules EXCEPT ![h] = r]
              /\ IF r.verdict = "no_such_host" THEN NextHost(found)
                 ELSE at' = "feeds" /\ UNCHANGED <<host, tried, probes, found>>
        /\ UNCHANGED <<browser, browserHosts, skippedJs, unreadable, skippedRobots, hostsRead,
                       docs, requested, empty>>

\* _feeds_on: the feeds the home page announces, or the usual paths.
FeedHome ==
    LET u == Home[HostAt(host)]
    IN  /\ at = "feeds"
        /\ \E r \in RulesFor(HostOf[u]) : \E o \in Fetched(u, r) :
              /\ Remember(u, r, o)
              /\ \E linked \in SUBSET FeedLinks :
                    LET new == {x \in linked : SameHost(x)} \ Elements(found)
                    IN  /\ o.how = "" => linked = {}
                        /\ IF {x \in linked : SameHost(x)} # {}
                           THEN \E order \in Orders(new) : NextHost(found \o order)
                           ELSE at' = "probing" /\ UNCHANGED <<host, tried, probes, found>>
        /\ UNCHANGED <<hostsRead, docs>>

ProbeFeed ==
    LET paths == FeedPaths[HostAt(host)]
        u == paths[tried + 1]
    IN  /\ at = "probing"
        /\ IF Spent \/ tried = Len(paths) THEN NextHost(found) /\ UNCHANGED site
           ELSE \E r \in RulesFor(HostOf[u]) : \E o \in FetchedRaw(u, r), releases \in BOOLEAN :
                  /\ releases => o.size > 0
                  /\ Remember(u, r, o)
                  /\ IF releases
                     THEN NextHost(IF u \in Elements(found) THEN found ELSE Append(found, u))
                     ELSE /\ tried' = tried + 1 /\ probes' = probes + 1
                          /\ UNCHANGED <<at, host, found>>
        /\ UNCHANGED <<hostsRead, docs>>

(* read_feed: one document for each release that says something; a host     *)
(* that gave one has been read.                                             *)
ReadFeed ==
    LET u == Head(found)
    IN  /\ at = "reading"
        /\ IF found = <<>> THEN at' = "home" /\ UNCHANGED <<found, docs, hostsRead, site>>
           ELSE \E r \in RulesFor(HostOf[u]) : \E o \in FetchedRaw(u, r), releases \in BOOLEAN :
                  /\ releases => o.size > 0
                  /\ Remember(u, r, o)
                  /\ found' = Tail(found)
                  /\ docs' = IF releases THEN docs \cup {u} ELSE docs
                  /\ hostsRead' = IF releases THEN hostsRead \cup {HostOf[u]} ELSE hostsRead
                  /\ UNCHANGED at
        /\ UNCHANGED <<host, tried, probes>>

----------------------------------------------------------------------------
(* Pages.                                                                  *)

\* _same_site
SameSite(u) == HostOf[u] \in Site

(* discover_pages: a home page that gives nothing ends it; where it leads   *)
(* to few pages, the usual paths are guessed at.                            *)
HomePage ==
    LET u == Home[Base]
    IN  /\ at = "home"
        /\ \E r \in RulesFor(Base) : \E o \in Fetched(u, r) :
              /\ Remember(u, r, o)
              /\ IF o.how = "" THEN at' = "done" /\ UNCHANGED found
                 ELSE \E linked \in SUBSET Links :
                        LET pages == {x \in linked : SameSite(x)}
                        IN  \E order \in Orders(pages) :
                              LET kept == Firsts(order, 2 * MaxPages)
                              IN  IF Len(kept) < Enough
                                  THEN at' = "guessing" /\ found' = kept
                                  ELSE at' = "pages" /\ found' = Firsts(kept, MaxPages)
        /\ UNCHANGED <<host, tried, probes, hostsRead, docs>>

\* A path that was linked to is no guess, and one is kept only if it gives a page.
GuessPage ==
    LET u == CandidatePaths[tried + 1]
    IN  /\ at = "guessing"
        /\ IF tried = Len(CandidatePaths) \/ Spent \/ Len(found) >= MaxPages
           THEN /\ at' = "pages" /\ found' = Firsts(found, MaxPages)
                /\ UNCHANGED <<tried, probes, site>>
           ELSE /\ tried' = tried + 1
                /\ UNCHANGED at
                /\ IF u \in Elements(found) THEN UNCHANGED <<probes, found, site>>
                   ELSE \E r \in RulesFor(Base) : \E o \in Fetched(u, r) :
                          /\ Remember(u, r, o)
                          /\ probes' = probes + 1
                          /\ found' = IF o.size = 3 THEN Append(found, u) ELSE found
        /\ UNCHANGED <<host, hostsRead, docs>>

\* fetch: a document when there is enough in it.
ReadPage ==
    LET u == Head(found)
    IN  /\ at = "pages"
        /\ IF found = <<>> THEN at' = "done" /\ UNCHANGED <<found, docs, site>>
           ELSE \E r \in RulesFor(HostOf[u]) : \E o \in Fetched(u, r) :
                  /\ Remember(u, r, o)
                  /\ found' = Tail(found)
                  /\ docs' = IF o.size >= 2 THEN docs \cup {u} ELSE docs
                  /\ UNCHANGED at
        /\ UNCHANGED <<host, tried, probes, hostsRead>>

WebNext ==
    \/ TryNewsroom \/ FeedHome \/ ProbeFeed \/ ReadFeed
    \/ HomePage \/ GuessPage \/ ReadPage

WebSpec == WebInit /\ [][WebNext]_webVars

----------------------------------------------------------------------------
(* coverage_notes: what the run says of the site.                          *)

NotedForBrowser == skippedJs
NotedUnread == unreadable \ hostsRead
NotedFeedOnly == unreadable \cap hostsRead
\* A subdomain that was only ever a guess is no gap.
NotedRefusals == {HostOf[s.url] : s \in {x \in skippedRobots : x.reason # "no_such_host"}}

Noted == NotedForBrowser \cup NotedUnread \cup NotedFeedOnly \cup NotedRefusals

----------------------------------------------------------------------------
\* Every variable has its shape, and no host is read by rules that are not its own.
WebTypeOK ==
    /\ \A h \in Hosts : rules[h] \in {Unread} \cup Rules(h)
    /\ at \in {"feeds", "newsroom", "probing", "reading", "home", "guessing", "pages", "done"}
    /\ host \in 0..Len(Newsrooms)
    /\ tried \in Nat /\ probes \in 0..MaxProbes
    /\ Elements(found) \subseteq Urls
    /\ browser \in {"idle", "up", "failed"}
    /\ browserHosts \cup skippedJs \cup unreadable \cup hostsRead \subseteq Hosts
    /\ skippedRobots \subseteq
           [url : Urls, reason : {"deny_all", "no_such_host", "Crawl-delay", "disallowed"}]
    /\ docs \subseteq Urls
    /\ requested.urls \subseteq Urls /\ requested.times \in Nat
    /\ empty \subseteq [url : Urls, how : {"robots", "browser", "hollow", "none"}]

(* "A silent gap reads as 'nothing found on their website'": when the site   *)
(* has been read, each of its hosts where a page gave nothing is in the      *)
(* run's notes, unless the host does not exist or the page was served with   *)
(* nothing in it and there is no browser to look again.                      *)
NothingSilent ==
    at = "done" =>
        \A e \in empty :
            \/ HostOf[e.url] \in Noted
            \/ rules[HostOf[e.url]].verdict = "no_such_host"
            \/ e.how = "hollow"

(* "a disallowed page is not fetched by one route after being refused by the *)
(* other": nothing is asked for that the site's robots.txt refuses, and      *)
(* nothing of anybody else's, whatever the site links to.                    *)
Behaves ==
    \A u \in requested.urls : HostOf[u] \in Site /\ Refusal(u, rules[HostOf[u]]) = ""

(* "a corporate site that will not answer must cost the run seconds": the    *)
(* requests a site can cost, and what one costs whose home page gives        *)
(* nothing.                                                                  *)
Bounded ==
    LET feeds == (2 + MaxProbes) * (1 + Len(Newsrooms)) + MaxFeeds
    IN  requested.times <= feeds + 2 * (1 + MaxProbes + MaxPages)

(* A site is read as it asks to be, and at a bounded cost to it.            *)
Polite == Behaves /\ Bounded
=============================================================================
