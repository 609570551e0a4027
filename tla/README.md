# FOCI/IP screener: verification project

TLA+ models of the screening service in `src/foci_screen`, the TLC runs that
check them on small instances, and TLAPS proofs of what matters most. Paths are
relative to the repository's `foci_screen/`; line numbers are of the commit
beside this directory.

## 1. The system

The service screens government contractors against public sources for foreign
ownership, control or influence. A *screen* (a *run*) of an agency, an office or
one contractor collects documents and contracts about each contractor, compares
them with what was seen before, lets rules emit *signals*, builds a *finding*,
and drafts a *notice* for a contracting officer. A person reviews the notice;
only then does anything leave by email. Beside the screens there are a watch on
SEC filings, email alerts about what changed, and accounts. Everything the parts
share is in one SQL database (`store.py`, SQLite or Postgres), used by web
requests, queue workers or threads, and a scheduler. One call of the store is one
transaction (or one SELECT), and nothing is held across two calls: a handler that
makes four calls can be interleaved with anything, and can die, between each two.

| component | state it keeps | operations | what is hard | what makes it correct |
|---|---|---|---|---|
| notice queue: `jobs.raise_notices`, `store` 1401–1462 and 2290–2400, `api/app.py` notices endpoints | `notices`, `notice_sends` | raise, supersede, approve, reject, deliver, delete a run | screens and reviewers interleave between transactions; a request dies between sending and recording | a decision is final, only approved text leaves, what left is on record, evidence is neither lost nor told twice |
| mail out: `notify/gmail.py`, `mailer.py`, `render.py` | none | draft, send, render | its answer may be lost; half of the recipients may be reached | the outcome recorded is what happened |
| runs and backends: `jobs.py`, `store` 961–1096, `app.py` 387–438, 1246–1421 | `runs`, threads or a Redis queue | create, claim, mark running, finish, reap at startup, close by age, delete | a process dies and nothing writes the closing row; two tabs ask at once; a sweep closes what still runs | each run is worked on once, closed only when dead, and always ends |
| screening settings: `policy.py`, `app.py` 3166–3405 | `screening_policy`, `watchlists.policy` | set, reset, override, clear; filter, decide | the two rows are changed at any time and combined at each reading | no contradiction, whatever was saved in whatever order |
| screening of a contractor: `pipeline.py`, `risk/engine.py`, `store.observe` | `snapshots` (shared by all workspaces), `findings`, `entity_screens` | gather, observe, evaluate, damp, score, record | what a document said is recorded long before what it means is; screens die between; settings change between; the order of settings, damping and compound rule | what matters is told, once, and what the settings ask; a severity means the same whatever else was found |
| watchlists and sweep: `store` 2633–2732, `scheduler.py`, `app.py` 2380–2551, `screen_times.py` | `watchlists` (last run, backlog, runs of the day) | due, claim, start, wait, run now, backlog | two sweeps at once; a crash between the claim and the run; paths that skip the claim | each list once a period, none forgotten |
| office scopes: `scopes.py`, `pipeline._run_scope`, `store` 2808–2930 | `scope_index`, `contracts`, `entity_screens` | read the award record part by part, screen until the time is up, read again | a budget that runs out; two runs; a record that grows | the index says what was read; everybody is screened in the end |
| alerts: `alerts.py`, `store` 1717–1762 and 2153–2195 | `alert_subscriptions`, `alert_sent`, `alert_deliveries` | save, follow, baseline, check, send, mark | a crash between send and mark, two checks at once, a partial send | every item once to each list |
| consent: `consent.py`, `store` 2046–2251, `notify/bounces.py` | `alert_recipients`, `mail_suppressions` | add, ask, confirm, leave, undo, suppress | a link used late; someone who left is added again; a check in the middle of a save | nobody is written to who did not agree or has left |
| identities: `store` 2530–2625, `pipeline._resolve_identity` | `entity_links` | record the name match, confirm, reject | the matcher reads, then writes, while a reviewer decides | a human decision stands |
| contracts: `store` 2749–2805, `risk/engine.py` 755–850, `connectors/usaspending.py`, `fpds.py` | `contracts`, `contract_changes` | list, detail, compare, log, overwrite | the old value is overwritten before the change is saved; two kinds of run write one row; a source that does not answer | no move is overwritten unseen, none is made up |
| accounts: `accounts.py`, `api/auth.py`, `app.py` 506–1230, `store` 1764–2044 | `users`, `user_sessions`, `account_tokens` | sign up, in and out, verify, reset, change, invite, join, remove | a link used twice, a password changed while somebody signs in, two owners remove each other | single use; sessions end with the password; somebody can always administer |
| Form ADV: `connectors/adv.py`, `alerts.py` 118–188 | `adv_snapshots`, `adv_changes` | check, read, keep the last reading, compare, tell | unreadable nights, two checks at once, reader versions | what is told is what changed, no more and no less |
| Form D and funds: `connectors/formd.py`, `vehicles.py` | `formd_snapshots`, `edgar_days`, `formd_index`, `vehicle_watches` | sync the daily index, look up, watch, alert | a sync stops half-way or overlaps another; words change | no day skipped; old filings are never news |
| websites: `connectors/webwatch.py`, `feeds.py`, `browser.py`, `robots.py` | of one run: rules, what gave nothing | find feeds, read pages, escalate to a browser | every request may fail in its own way; guesses multiply | what was not read is said; what is refused is not asked |
| other sources and the HTTP client: `pipeline` 600–760, `httpclient.py`, `sam_exclusions.py`, `screening_lists.py` | cache, a host's failures, a local index | ask, retry, rest, serve stale, download | two runs share hosts; a deadline; a source failing half-way | "checked" means checked; a host that is down costs little |
| everything else: rendering, portfolios, search, CLI, web page, database copy, configuration | | | I/O, layout, or sequential | see `PROJECT.json`, "components" |

A screen's path through them: the sweep, a page or the command line starts a run
(`Sweep`, `RunLifecycle`); the run lists awards and overwrites the register
(`Awards`), asks sources (`Gathering`, `Website`) and screens contractor after
contractor (`Screening`, under `NoticePolicy`, weighed as in `Scoring`); its
findings go to `raise_notices` (the last two steps of `Screening`, and call by
call in `NoticeReview`); reviewers' requests take it from there (`NoticeReview`).
The nightly check of SEC filings (`SecWatch`) and the findings are what `Alerts`
tells. `Accounts` and `Access` say who asks.

The hazards of this code, each at its line, are in `PROJECT.json`.

## 2. Modules

| module | models | extends |
|---|---|---|
| `NoticePromise` | abstract: a notice is decided at most once and reaches somebody only if the decision was an approval | |
| `NoticeReview` | one contractor's notices in one workspace: four calls of a screen, up to nine of a request | |
| `RunLifecycle` | a run's row, its job, and everything that closes it, on three backends | |
| `NoticePolicy` | `policy.py`, pure operators | |
| `Screening` | screening a contractor, night after night, under settings that change | `NoticePolicy` |
| `Scoring` | `risk/engine.py`: every rule's weight, scores, compound rule, caps, and the order they are applied in; pure operators | `NoticePolicy` |
| `Sweep` | watchlists, screening times, claims, an office's index and backlog | |
| `Alerts` | lists, consent, suppression, saves, clicks and checks | |
| `Access` | whose workspace a request is about (`api/auth.py`); pure operators | |
| `Accounts` | accounts, links, sessions and an organisation's people | `Access` |
| `Awards` | the register of awards, what moved, and the identities of holders | |
| `Website` | reading a contractor's own site | |
| `Gathering` | asking the other sources, the HTTP client under them, and what a run says of each | |
| `FormAdv`, `FormD` | comparing two readings of a firm's form, of a company's notices; pure operators | |
| `FormBands` | putting together a form that a PDF draws in bands; pure operators | |
| `Forms` | checks of a firm's and a company's filings | the three before it |
| `Funds` | the index of filings and the funds named after a contractor | |
| `SecWatch` | the three things watched at the SEC | `Forms`, `Funds` |
| `NoticeReviewProofs`, `SweepProofs`, `AccountsProofs`, `AwardsProofs`, `AlertsProofs`, `GatheringProofs`, `SecWatchProofs` | theorems | the module of that name, TLAPS |
| `ScreeningProofs` | theorems of a screen: its notices and settings, its scores, its run, the site it reads | `Screening`, `Scoring`, `RunLifecycle`, `Website`, TLAPS |
| `MC...` | instances for TLC | |

Where two modules meet, one has the other's steps as one:

* `Screening` takes the insert and the supersede of a notice as one step;
  `NoticeReview` has those calls one by one and takes the finding as given.
  `Screening!OneNoticePerEvidence` says therefore that no workspace has two
  screens at once; what two do is `NoticeReview`'s subject.
* `Screening` leaves which of two severities a finding takes open; `Scoring`
  computes it for facts that are given, and `screening` checks both.
* `Sweep` takes a page of awards as stored or not; `Awards` has what is written
  for each award. `Sweep` ends a run where `RunLifecycle` has the row of it.
* `Alerts` takes an item as something that becomes known; `Forms` and `Funds`
  have how a filing becomes one.

### NoticeReview

A screen is `idle → reading → creating → selecting → retiring → done`: the calls
`notified_signal_ids`, `create_notice`, and the SELECT and the UPDATE of
`supersede_pending`. A request is a program counter too: the handler's own test
(`CheckApproval`, `CheckDelivery`), `decide_notice`'s SELECT and UPDATE
(`ReadDecision`, `WriteDecision`, the compare-and-set), `_send`'s reading
(`LoadNotice`), the mail (`SendOfficer`), the log (`LogOfficer`),
`record_notice_delivery`'s two halves (`ReadDelivery`, `MarkDelivery`), and a copy
to a chosen address (`SendCopy`, `LogCopy`). `ScreenDies` and `RequestDies` may
happen between any two; `DeleteRun` takes the run's notice and its log away at any
time. `mails` is what left the service; `verdict` is a history of the decisions,
kept apart from the row so that a property can speak of rows that were deleted. A
screen has at most one finding of a contractor, so its notice goes by its name.
Body text is one of: as generated, edited, edited without the limitations
statement (`bare`, which `_send` puts back), empty.

`MailIsTrue` is four claims together: only approved notices leave
(`OnlyApprovedLeaves`), with the text decided on (`MailCarriesDecision`), and the
row and the log agree with what left (`DeliveryIsTrue`, `MailIsLogged`). `ToldOnce`
is that an officer is written to once, evidence notifies once, and a superseded
draft's evidence is carried on.

### RunLifecycle

`status` is the row; `desk` the handler that has just inserted or claimed it and
not yet passed it on; `job` the execution of `run_screen_job`; `age` time since
`started_at`, counted no further than one past the cutoff; `spent` time in the
request. `backend` is chosen once, as `JobQueue` does. Time passes only where
screens run in requests: the other backends compare nothing with a clock. What is
external is the host (`CutOff`, `Tick`) and the process (`Crash`). `RunsAreTrue`
is `RunsOnce`, `ClosedIsDead` and `RunningIsLive`; `NoneWaits` is `OpenEnds` and
`ScheduledStarts`.

### NoticePolicy, Screening and Scoring

A policy is a record of six settings; what is sent is a record of some of them
with anything in it. `FromDict` normalises, `Merge` lays an override over the
tenant's, `CleanOverride` is what is stored, `DecideNotice` says which evidence
tips a finding into a notice.

A document is the set of passages some rule fires on, each with the severity it
has as news (`fresh`) and otherwise (`standing`): two revisions are the same text
when they are the same set. A company release has a headline as well, an event
that fires once, when the document is new. `Gather` reads the settings and what
the sources serve (`reached`: any of them may fail), then each document is
`ReadSnapshot` (the SELECT of `observe`) and `Observe` (its write, and the rules),
so that two screens interleave on the shared row; `Conclude` is the rest of
`_screen_entity`: filter, damp the first screen, build the finding, keep it or
not; `Decide` reads the settings again and what has been notified; `Raise`
writes. A screen may `Die` between any two. The settings' endpoints, a reviewer's
decision and the world (`Publish`, `Revise`) are actions of their own.

`PoliciesAgree` is that what a screen works under is consistent and follows the
workspace wherever the watchlist does not say otherwise; `ToldAsSet`, that what
the settings page answers is what the next run applies (`ShownIsApplied`), that
notices are of what was looked for and want told (`NoticesAreWanted`), that a
first screen is silent where it should be (`SilentBaseline`), and that a new
release of an event somebody always wants told is told (`ReleaseIsTold`).

`Scoring` has each rule's branches on what the fact is (jurisdiction's tier, who
holds the lien, what a caveat halves), the weights as fractions and the scores as
hundredths, and `ScreenEntity`, the order: rule settings, categories, damping,
compound rule, duplicates, cap. `ScoresAreSound` is `RetiredIsGone` (a rule a
workspace has retired leaves no trace), `WeakStaysWeak` (many weak signals do not
make a strong one) and `MoreIsNoLess` (more evidence is never less severe).

### Sweep

`watch` has the rows; `waiting` the screens that wait for a screening time;
`clock` the hour of the UTC day in ticks, from which `InSlot`, `Begun` and
`RunsAllowed` are read in the site's own time; `index` how far each part of the
award record has been read; `pages` and `stored` what there is to read and what
is in `contracts`; `proc` the requests. A request is `SweepReads`, `Claim` (the
compare-and-set of `last_run_at`), `StartRun`, then the run: for each part
`PassOver`, `Reopen`, `LeavePart`, `ReadPage` or `NoAnswer`, each followed by
`SaveIndex`; then `ScreenNext` for each contractor that is due, `Summarise` and
`SetBacklog`. `RunNow` is the page's button, `SweepWaiting` a screen that waited.
`JobStops` ends a request at any of them. Times are compared as the code compares
them, in ticks; `WeeksPass` makes what was screened and read old.

### Alerts

A check, a save and a click are program counters; `lock` is the pair of locks of
`run_alerts`. A save is `SaveRow`, `Record` or `AddRecipient` for each address,
`ReadPending`, `AskRecipient`, `Baseline`; a check `FollowScope`,
`BaselineJoined`, `PendingItems`, `Recipients`, `Send`, `MarkSent`. `will` is what
a person has said of a list, from which `unasked` is kept: who was written to
without having agreed.

### Accounts and Access

A request is a sequence of steps, one for each call that reads what is used later
or writes; two are under way at a time and either may die. A password is a
number, each one chosen a new one, so that "the present password" means
something. `RequestDies`, `Minutes` (locks), `Midnight` (allowances) and
`LinkExpires` are the clock. `Access` has the questions every handler asks first:
the workspace of a session or a key, who may administer, who may sign up.

### Awards

`history` is what the award record says of each award, an action a month; `row`
the register; `log` the changes; `link` the identities. An agency's run lists
awards (`Search`), details some (one award's request may not be answered), and
for each contractor resolves the identity in three calls, compares, overwrites
and concludes; an office's run reads months and screens from the register.
`Diff` and `Write` are the SELECT and the UPSERT of `save_contract`.

### Website and Gathering

`Website` is one thread, so what is nondeterministic is the world: each host's
rules, what each request comes to, and whether the browser starts. `requested` and
`empty` are histories, of what was asked for and of what gave nothing. `Gathering`
is two runs over shared hosts: `breaker` the failures and the rest of a host,
`copies` the cache, `index` and `marker` the local copy of SAM.gov's exclusions,
`run` where each run is and what it has said of each source.

### Forms, Funds and SecWatch

A check is `Start` (read the snapshot), the request for the list of filings, the
reading of a form that has not been read, `Save`, `Tell`; two of them overlap.
`first` is the baseline of each part, against which `NothingMissed` is said.
`FormBands` is evaluated on drawings of a small form in every way a reader may
cut and repeat them. In `Funds` a day's index is `SyncList`, `ReadDay`, `MarkDay`;
a person's request is the reading of the watch, the lookup, and the writing of
it; the nightly check is `Nightly` and `Say`.

## 3. Runs

| run | module | asks | bounds |
|---|---|---|---|
| `notice_races` | `NoticeReview` | all safety of the queue, and that it implements `NoticePromise` | 2 screens, 2 requests, 1 piece of evidence, any one process dies at any point, runs are deleted; copies to a chosen address always go |
| `notice_serial` | `NoticeReview` | nothing lost, nothing told twice | 3 screens and 2 requests, one of each at a time, 2 pieces of evidence |
| `runs` | `RunLifecycle` | safety and liveness on each backend | 2 runs, limits of 2 to 3 units |
| `screening` | `Screening`, `Scoring` | settings, notices once and as asked, silent baseline, releases, scores | 1 workspace with a watchlist, 2 documents, 3 pieces of evidence, 1 settings body and 1 override, each set or cleared at any time; 15 facts, three together |
| `screening_live` | `Screening` | a passage that stays is told in the end | 2 workspaces that share the snapshots, 1 page, default settings |
| `sweep` | `Sweep` | a list swept once, in its share; the index true; everybody screened in the end | 1 office, 2 requests, 1 part of 2 pages, ticks of 6 hours, 2 runs a day, 1 stop |
| `alerts` | `Alerts` | who is written to, about what, and that news is told | 1 list, 2 addresses of which one is a visitor's, 1 item, 2 checks, 1 death |
| `accounts` | `Accounts` | links work once, sessions end, owners remain | 3 requests of any kind, two at a time, 3 founders and a newcomer, 2 links, 2 new passwords |
| `awards` | `Awards` | no move unlogged, none made up, months read are held, decisions stay | 2 primes and a subaward, 2 holders (one a person) with no SEC registrant to find, 2 months, 2 runs, 1 fault or death, 1 decision |
| `website` | `Website` | gaps are said, rules kept, requests bounded | a newsroom host, 2 feed paths a host, 3 guessed pages, 1 probe |
| `gathering` | `Gathering` | "checked" is checked, hosts at rest left alone, deadlines kept | 2 runs, one over 2 contractors with a deadline of 2 ticks, 5 steps, 2 faults |
| `sec_watch` | `SecWatch` | what is told is what changed; no day skipped; old filings no news | a firm with a fund and an owner, or a company with 2 people and 2 places, or 2 funds and 2 phrases; 2 checks at once, 3 in all, 1 filing after the first, 1 fault; 4 trading days in 2 quarters |

Why the bounds are enough to matter. Every race in the notice queue is between two
parties over one notice, or two drafts: two of each reach all of them, and two
pieces of evidence are needed only where one is old and one new (`notice_serial`).
Runs of different rows meet only in the sweeps, which close a set of rows; two
rows, one of an account that startup does not know, tell the sets apart. In
`screening` there is evidence for each way the code treats it differently: news
that raises the severity band, evidence that is critical only as news, a release
below the recording threshold; and settings that
contradict each other (notices for a category that is not screened, an event of a
release kind that is off). A passage that is taken off its page and put back is in `screening_live`, and in
the theorems about `Screening`. Its fifteen facts are one for each branch a rule's
weight takes; three together are the fewest that reach the compound rule with a
third signal beside it. In `sweep`, the second page of the office's record is
published while the first is being read, which is the case the index is kept for.
`alerts` has one list because lists share nothing but an address's suppression.
`accounts` has three requests because each race of it is between two, after one
that set the scene (an invitation, a reset link). `awards` has one agency's run
and one office's, which differ in what they know of an award; two of a kind race
only for a row, which these two do as well. A third guessed page is what tells
"the first two" from "all of them" in `website`. `gathering` needs two faults to
trip a host's breaker. In `sec_watch` a third check is the one that reads what two
that overlapped have left, and the quarter that ends on the fifth day makes a
sync cross directories; the first sync takes the newest two index days, so one
before them stays out and is not "between".

The theorems of section 6 hold for every size. What a bound leaves out is named in
section 7. Deadlock is checked in `screening` and `screening_live`. In the other
runs screens, checks and requests are finite and the system comes to rest, so they
switch it off.

## 4. Where the code and what is said of it differ

TLC finds these. Each is a counterexample to a sentence of the repository, in the
instance named: run TLC with the `.cfg`, or with the run's `.cfg` and the property
in place of the run's own.

| instance, property | what is said | what happens |
|---|---|---|
| `notice_serial.cfg` with `Workers = 2`, or `notice_lost_race.cfg`: `EvidenceCarriedOn` | `store.py:1409`: a superseded notice "was replaced by a notice that carried it on" | two screens that both read what has been notified before either inserts supersede each other's draft; nobody is left to decide on the evidence, and it counts as notified |
| `screening_replaced.cfg`: `CarriedOn` | the same sentence | fails without any race: a changed page is evaluated on its added text alone (`risk/engine.py:731`), so the draft of the second change leaves out the first, and retires the draft that had it |
| `screening_silent.cfg`: `AlwaysFires` | `pipeline.py:859` keeps weak findings so that "always notify" is not "a setting that can never fire" | whether a contractor was seen before is read from its findings, and a clean contractor has none: each new release is treated as part of a first screen, dropped, and leaves nothing behind again |
| `notice_sent_twice.cfg`: `OfficerOnce` | `app.py:3548`: "To the officer only once" | two requests both find the notice approved, and both write |
| `runs_late.cfg`: `ClosedIsDead` | `app.py:388`: a run past the cutoff "can no longer be running" | `claim_run` leaves `started_at` at the time the run was queued |
| `alerts_unasked.cfg`: `AgreedFirst` | `app.py:2215`: an address a visitor adds "is sent a request to confirm and nothing else until it does" | `save_subscription` commits the list with its addresses before it records them as pending; a check in between takes an address without a record for an old, confirmed one |
| `sweep_agency.cfg`: `IndexIsTrue` | `pipeline.py:228`: a run "keeps every one" of a scope's awards | `usaspending.search_awards_page` answers a failed request as an empty last page, so the rest of an agency's awards are not read for a week |
| `sweep_evening.cfg`: `SharedOut` | `screen_times.py:9`: daily runs "are shared out across the day's times" | `runs_today` is counted by the UTC date, shares by the site's time: west of Greenwich the count starts anew in the evening, with the whole day's share begun |
| `accounts.cfg`: `LastChosen` | a password is the one last chosen | a login that hashes an old hash anew (`app.py:841`) while the password is changed writes the old one back |
| `awards.cfg`: `ConfirmedStays` | `store.py:2570`: "Never overwrites a human decision" | `record_auto_link` reads, then upserts; a confirmation in between keeps its status and loses the registrant that was confirmed |
| `gathering.cfg`: `OldCopyIsSaid` | `httpclient._stale`: "so the run says it used an old copy" | while a host rests its old copies are served and the source still says "checked" |
| `gathering_treasury.cfg`: `TreasuryWasRead` | `screening_lists.py:386`: "checked against Treasury's sanctions lists only" | said when any of Treasury's files was read; that another failed is overwritten (`pipeline.py:720`) |

Met while modelling, and left as the model has them, without a property that
forbids them:

* Screening. A first screen's scores keep the multiplier for news after they are
  marked as no news (`pipeline.py:845`); two halves just at medium can compound
  to critical; a match on a parent's list carries a label above its score's band.
* Contracts. The flag for foreign ownership, cleared by an unanswered award and
  set by the next, is told as newly certified; an office's months are read newest
  first, so the oldest action's holder stays; a blank country filled in is told as
  a move; of two novations in one screen one is told; an award listed without an
  identifier once is filed under its holder's name and told as novated; a death
  between `mark_entity_screened` and `save_finding` costs the finding.
* SEC filings. A shorter reading replaces the last good one, so changes between
  the two go unsaid; a change's identifier carries no date, so a change made a
  second time is not told; of two filings on one day the second is never read; a
  check that began before the reader changed may put the old reading back; a
  reply of EDGAR without JSON stores an empty history, and the next tells all of
  it; a death between `save_snapshot` and `record_changes` loses the change; a
  quarter's directory that does not answer steps over its days for good
  (`vehicles.py:72–80`); a request for more funds writes back what had been ruled
  out before it started.
* Sources. One guessed page that is not there makes a host "could not be read"; a
  browser that does not start is noted as the site's refusal; an empty page with
  no browser to look again is silent; a patent step's failure is overwritten by
  "checked up to" (`pipeline.py:744`).

## 5. Fairness

`RunLifecycle`: a job that can take a step does (weak: threads and workers are
scheduled), handlers finish, time passes, a process that went down is started
again by its host, somebody looks at the screens (every open page polls). Strong
fairness for `ClaimScheduledRun` alone: the schedule comes round again and again,
and the process may be down at any one of its turns. `OpenEnds` is claimed only
where something looks after runs whose process died, or none dies (`Tended`): a
worker of the queue that is killed leaves its run at running, and nothing in the
code closes it.

`Screening`: weak fairness for each step of a screen and for a `Gather` that
reaches every source: the daily sweep starts a screen whenever none is under way.
`StandingIsTold` carries its own premise, `Steady`: from some time on documents no
longer change and screens neither die nor miss a source. It says that no death
*before* that costs a notice.

`Sweep`: hours and weeks pass, and a request that can go on does. Strong for three
things: the workflow asks every hour, and no request may be open when it does; a
source that is asked again and again answers in the end; a contractor that is
begun again and again is finished in the end, since runs out of time differ in
whom they reach. `MaxStops` makes deaths and failures finitely many.

`Alerts`: a save and a check that can go on do. Strong for the start of a check
(the daily workflow, the host's own job and every portfolio page ask, and another
check may hold the lock each time) and for a send that reaches everybody, since
the mail service may refuse any one of them. Clicks and reports have none.

The other modules state no fairness and no liveness: requests for accounts end by
themselves, a website and a run's sources are read once, and the SEC's checks are
started by a person or the sweep.

## 6. Proofs

The theorems are of the module's specification (`Spec`; `RunSpec`, `WebSpec` and
`SecSpec` where modules are put together) and hold for every value of the constants
that the modules' named assumptions admit. Two are of the scores, which are pure.
`tlapm` checks each to the last leaf. `PROJECT.json` lists them. What the
assumptions say beyond types: a website's hosts, paths and links are finitely many;
that nothing was kept (`None`) is not itself a reading of a form; facts have the
parts their rule reads (`WellFormed`).

`NoticeReviewProofs`. No property of the queue is inductive by itself: what a
request may do next depends on what it read some steps ago. The strengthening is a
set of parts, each a fact about a program counter: `Approvals` (a request past its
decision holds an approved notice, which no later step can undo, because every
write of a status tests it), `TextAgrees` and `MailCarriesDecision` (what it
loaded is what was decided), `OutcomeAgrees` and `DeliveryIsTrue`, `MailAccounted`.
From them: `TypeCorrect`, `ApprovedOnly`, `Finality`, `OneDraft`, `DecidedText`,
`TrueDelivery`, `LoggedMail`, `MailAgrees`, and `Implements`, the refinement of
`NoticePromise`: `verdict` is mapped to itself and `reached` to the roles of the
mails; every step is a step of the promise or a stutter. That no evidence
notifies twice or is lost is true only where screens take turns, and that an
officer is told once only where requests do: `EvidenceOnce`, `CarriesOn` and
`OfficerIsToldOnce` name their premises one by one, and `ToldInSeries` puts them
together as `ToldOnce`, which `notice_serial.cfg` checks.

The runs (in `ScreeningProofs`). `Owned` says who holds a run by its status (not started,
unclaimed, in hand, counted); `Down`, that nothing lives in a process that is
down; `Timed`, that a live job is no older than the wait for its request and the
time it has spent; `Settled`, that a closed run has no live job. `RunTypes` and
`WorkedOnOnce` need no premise. `SweepsAreSafe`, `LastWord` and `RunsAgree` assume
`PromptRequests`, that the wait and the host's limit fit in the cutoff, which is
what `runs_late.cfg` shows to be necessary. `StartupCloses` and `RunsAgree` assume
that no queue worker is killed.

A screen (`ScreeningProofs`). `SettingsAgree`: every reading of the settings ends in
`from_dict`, so what is effective is consistent whatever is stored. The inductive
invariant of the rest, `IInv`: types; `ScreensStand`, what a screen holds at each
place (a row it has read is of a document it still has; what fired is *genuine*,
that is, what the rules say of its evidence, news with its score; a finding's
signals are of the categories it looked for, and news on a first screen is
critical; a draft tips on what the settings read for it want); `TippedIsCovered`,
that what tips a notice is part of it; and, for a lone screen of a workspace,
`DraftIsNews` and `Apart`: nobody notifies what a screen has decided on before it
does, so no two notices share what tipped them. Nothing weaker would do: the
settings are read twice and may differ, so that a draft's evidence has to be tied
to both readings. From it: `ScreeningTypes`, `NotifiedOnce`, `ToldAsAsked`,
`BaselineIsSilent`. The severity of a finding needs a little order theory of its
own (`HighestPlace`, `SeveritiesType`).

Next the settings page. The functions of `policy.py` first: what `FromDict` reads of two
bodies laid over each other, that cleaning an override and laying it over the
workspace's settings is laying all of it over them (`SavedIsRead`, the claim the
settings page rests on), and that a watchlist has the workspace's value wherever
it sets none (`ListFollows`). The invariant is `RowsAreSent`: a watchlist's row
names only settings that somebody sent. From it `SettingsHold`. `Told` needs a
second one beside `IInv`, `ReleaseStands`: a new release that the screen's settings
always want told is in the finding (it passes the filter because consistent
settings look for its category, and is kept whatever the finding's severity), and
then covered or in the draft; and `CoveredGrows`, that no step takes evidence out
of all notices.

The scores (in `ScreeningProofs`), where `screening` tries three facts at a time and
the theorems take any number. `RetiredLeavesNoTrace`: a fact is claimed by one rule
at most (`OneClaim`), so what is left of the signals when a rule is disabled is what
the other facts give, and everything after that is the same. It is the first half of
`RetiredIsGone`, for any settings of the other rules. `WeakFindingsStayWeak` is
`WeakStaysWeak`: a finding is capped by its heaviest signal, and a second one as bad
is needed for one band more. It needs the signals to have an order, the heaviest
first (`OrderExists`: each goes to the place after all that go before it, and that
is one to one, by counting), and every score to be a number (`ClaimsFit`, rule by
rule). A rule weighed at nothing and `MoreIsNoLess` are sums over a sequence, and stay
with TLC.

The website (in `ScreeningProofs`). `SiteFit`: what is known of a host are its own
rules; what was asked for is allowed by rules that were read before, which do not
change once they are read; a page that gave nothing has its reason in one of the
sets the run speaks of, the site's own answer, or no browser to look again. It needs
all three, since a page is asked for twice, plainly and by the browser, and a reason
may be found at either. `Walk` counts: at each place of the reading, what was asked
so far is at most what the hosts gone through, the paths tried on this one and the
pages fetched can have cost. From them `SiteTypes`, `GapsAreTold` (`NothingSilent`) and
`SiteIsSpared` (`Polite`).

`SweepProofs`. `InPlace`: a place in a part of the record, stored or in the hands
of a request, is not past the part's end, and before it where there is more; the
types rest on it. `AllTaken`: a list somebody has claimed is due for nobody else,
from which two claims exclude each other (`ClaimedOnce`). `AllHeld`: what a place
says was read is stored; it needs a source that says when it did not answer, so
`ReadIsStored` assumes FPDS, and `sweep_agency.cfg` shows that it must. `InTurn`
is `SweptInTurn` under `SharedDay`: the runs of a day are counted by UTC and shared
out by the site's clock, so no screening time may lie between UTC's midnight and
the site's, and a day's times may be no further apart than a list waits. The
default (midnight and noon, Eastern) is so; noon and evening in a zone where UTC's
midnight falls between them is not, and `sweep_evening.cfg` refutes the property
there. `Shared` is its invariant: the sweeps of the site's day are among the runs
counted, which are within the share of the times gone by.

`AccountsProofs`. Ids are never given anew (`Known`); a request's step is one of
its kind and it holds what that step works on (`Fit`); a link that was used has
one request at most that has yet to do what it is for, and none once it is done
(`Once`); who is about to remove somebody is another owner, unless removed
meanwhile (`Safe`), so that a workspace keeps one (`Kept`); a session is of the
present password (`Current`). From them `AccountTypes`, `LinksWorkOnce`,
`AccountsStand`.

`AwardsProofs`. `Fit`, what a worker holds where; `Logged`, that what the award
about to be written changes in the row that was compared is on record, from which
`Kept`; `Covers`, that an office's worker on a month holds or has saved each of
its awards, from which `MonthIsHeld`. `FromRecord`: what is stored of an award, and
what a worker holds of it, was what the award said at some time, so that a move
is between two values it had; from it `RealMovesAreTold`.

`AlertsProofs`. The types need only that a check works on lists it has seen
(`WorksOnSeen`), and hold for any saves and checks at once. The rest assumes
`~Overlapping`: saves and deletions of a workspace's lists and checks of them take
turns, which nothing in the code enforces, and `alerts_unasked.cfg` shows that it
is needed. `TakesTurns` is that premise as an invariant (a check holds the locks,
and nothing is saved meanwhile). `Consented` follows an address: everybody on a
list, or read as being on it by a check or a click, has a record of consent or is
about to get one from the save under way, and whoever is confirmed has said so;
hence nobody is a stranger (`NobodyUnasked`), although `recipients` takes an
address without a record for one that agreed. `Newsworthy` follows an item: what
is known of a list's companies and not said is news, unless its companies are
just being joined; what a check is about to tell is news and not said; what was
sent is said, or about to be. A death leaves its items `lapsed`, which is the
exception `NewsOnce` makes. Together they are `WantedMail`.

`GatheringProofs`. `Heard`: what a run did not get for the contractor at hand is
noted against its source already, or the step under way has its trouble (it
raised, a host failed, the index of exclusions has a reason) and will note it when
it ends; what is noted is never taken back by a later step of the same source. It
rests on `AtWork`: a step at its end has the day's index or a reason, and lists
that were not read are read again only by a step that raised. From it
`CheckedWasChecked`. `Rested` counts: while a host rests, the attempts begun at it
and the runs that wait for it are together fewer than the runs, since the one whose
failure it was is neither and nobody goes to sleep for a host at rest (there are
finitely many runs, and one at least: `RunsAssumption`); with the
deadline kept by every wait (in `Fit`) it gives `SourcesSpared`.

`SecWatchProofs`. `FundsFit` types the rows and what each worker holds, and says that
a watch that is on starts no earlier than its words were first asked for (`Sound`),
which gives `OnlyNewFilingsAreNews`. `Unbroken` is about the days: a sync that is
still reading has the first day it has not read as its front, a list has every day
from there on that had an index when it was made (`Lists`), and among the days read and
the fronts of all syncs there is no gap (`NoGap`). To speak of the fronts is what
makes it inductive: two syncs may be at different days, and either may stop. So no
day is stepped over (`NoDayIsSteppedOver`), unless a directory did not answer, which
section 4 tells of. `FormsFit` says that every reading a row or a check holds is of a
form or a notice that was filed; `AllTold`, that what separates the first good reading
from what a row holds, or from what a check found stored when it began, is told or
about to be. The second is needed because two checks may compare with different rows,
and the later one may put an older row back. From both `NewsIsWhatChanged`.

What is model-checked only: liveness, which needs fairness and ENABLED;
`BandsReadOnce` and the rest of `ScoresAreSound`, which are evaluations of pure
operators that fold or sum over sequences, where a proof would be an induction over
data.

## 7. What is not modelled, and what that costs

* What text matches what: regular expressions, names of contractors, parsing of
  pages and of awards. Facts and evidence are constants.
* `Conclude` is one step in `Screening`. A process killed between
  `mark_entity_screened` and `save_finding` leaves a contractor screened without
  its finding; the effect on notices is that of a `Die` just before. `Awards` has
  the two calls apart.
* The insert of a notice and its supersede are one step in `Screening`.
* `notice_serial` takes findings that only grow; `screening_replaced.cfg` shows
  that they need not. The run says the notice queue by itself loses nothing.
* Snapshots are shared between workspaces by design (`README.md` of the
  repository). Under "changes only", and for releases, a change that another
  workspace's screen, or one that died, has recorded is never told. The properties
  say so in their premises: `StandingIsTold` is about "first seen".
* Notices of before `signal_ids` existed; a copy refused for its address; an
  answer of the mail service lost on the way back.
* A database that fails in the middle of a transaction: a transaction is atomic.
* Lists of a watchlist being edited while it runs; the worker that sweeps without
  a site; amounts, places and dates of an award; the words of messages; signatures
  of links; the facts shown of a fund and the managers' page.
* `sweep` has one office: two in one workspace do not occur, and offices share
  only contractors, whose screens are `Screening`'s.
* In `SecWatch` a behaviour has a firm, a company or funds as its subject: they
  share no row.
* The components marked `not_modelled` in `PROJECT.json`: they read only, convert,
  or run in order with nobody beside them.

## 8. What is left

1. An answer of the mail service that is lost, as a further outcome, with a
   property that says what a retry may then do.
2. The managers' page and the sharing of parents (`fund_managers.py`), the list of
   a watchlist's contractors, and the worker's own sweep.
3. Two offices' runs and two agencies' in `Awards`, and moves of three holders.
4. As theorems: that more evidence is no less severe (`MoreIsNoLess`), and that a band
   is read once (`BandsReadOnce`), should a prover take induction over sequences.
5. `Screening` and `Awards` composed, for findings that have both kinds of signal.
