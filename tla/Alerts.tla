------------------------------- MODULE Alerts -------------------------------
(***************************************************************************)
(* Email alerts of one workspace: who is on a list and has agreed to be    *)
(* (consent.py, alert_recipients), what each list has been told            *)
(* (alert_sent), whom the mail service reports as dead or unwilling        *)
(* (mail_suppressions), and the four parties that work on them call by     *)
(* call:                                                                   *)
(*                                                                         *)
(*   a check   run_alerts, for one workspace at a time: follow the office, *)
(*             find what is pending, read the recipients, send, mark       *)
(*   a save    save_subscription and _follow_portfolio: write the list,    *)
(*             record each address, ask those that must agree, baseline    *)
(*   a click   the links of an email: confirm, unsubscribe, undo           *)
(*   reports   bounces and complaints, and an owner clearing one           *)
(*                                                                         *)
(* An item is something alerts are about: a recorded change or a notice of *)
(* one company.  Requests to confirm are those of one day.                 *)
(***************************************************************************)
EXTENDS Naturals, FiniteSets

CONSTANTS
    Lists,          \* subscription ids
    Addresses,
    Companies,
    Items,
    About,          \* the company an item is about
    Reports,        \* what the mail service may report, of whom
    Checks,         \* requests that check, in any process
    Nobody,         \* no list, and no check
    Leavers,        \* those of the addresses that unsubscribe here
    Bodies,         \* what a save may ask for
    Portfolios,     \* what an account's portfolio may be saved as
    Modes,          \* what the mail service may be set up to do
    AsksPerDay,     \* consent.ASKS_PER_DAY
    MaxDeaths,      \* how many checks and saves are killed here
    Overlapping     \* saves and deletions may happen while a check runs

ASSUME AboutAssumption == About \in [Items -> Companies]
ASSUME NobodyAssumption == Nobody \notin Lists \cup Checks \cup Addresses
ASSUME LeaversAssumption == Leavers \subseteq Addresses
ASSUME BodiesAssumption ==
    Bodies \subseteq [emails : SUBSET Addresses, vouched : SUBSET Addresses, admin : BOOLEAN,
                      companies : SUBSET Companies, active : BOOLEAN, scope : BOOLEAN]
ASSUME PortfoliosAssumption == Portfolios \subseteq SUBSET Companies
ASSUME ReportsAssumption ==
    \A report \in Reports : /\ report.email \in Addresses
                            /\ report.provider \in {"brevo", "resend"}
                            /\ {report.event, report.type} \subseteq STRING
ASSUME ModesAssumption == Modes \subseteq {"send", "draft", "misconfigured"}
ASSUME BoundsAssumption == {AsksPerDay, MaxDeaths} \subseteq Nat
ASSUME OverlappingAssumption == Overlapping \in BOOLEAN

VARIABLES
    row,            \* alert_subscriptions
    consent,        \* alert_recipients.status; "none" is no row
    restorable,     \* alert_recipients.restorable: unsubscribing took it off
    asked,          \* alert_recipients.asked_at is of today
    suppressed,     \* mail_suppressions.kind; "none" is no row
    said,           \* alert_sent
    known,          \* the items on record
    office,         \* the companies the office's awards name now
    mode,           \* Mailer.status
    lock,           \* who holds the locks of run_alerts: this process's, the database's
    check,          \* the checks
    save,           \* of each list, the save under way: one at a time
    click,          \* of each list, the click under way: one at a time
    deaths,
    \* Histories.
    will,           \* what a person has said of a list: "no", "yes" or "left"
    news,           \* items that became known while the list had their company
    copies,         \* how often an item was sent to anybody of a list, counted to 2
    unasked,        \* who was written to without having agreed, or having left
    lapsed          \* items a death left between two calls that belong together

store == <<row, consent, restorable, asked, suppressed, said, known, office, mode>>
histories == <<will, news, copies, unasked, lapsed>>
vars == <<store, lock, check, save, click, deaths, histories>>

Absent == [state |-> "new", emails |-> {}, companies |-> {}, active |-> FALSE,
           scope |-> FALSE]
Live(l) == row[l].state = "live"
ItemsAbout(cs) == {i \in Items : About[i] \in cs}

NoCheck == [at |-> "idle", todo |-> {}, seen |-> [l \in Lists |-> Absent], list |-> Nobody,
            items |-> {}, to |-> {}, strangers |-> {}, added |-> {}, outcome |-> "none"]
NoSave == [at |-> "idle", had |-> {}, emails |-> {}, companies |-> {}, added |-> {},
           vouched |-> {}, active |-> TRUE, scope |-> FALSE, asks |-> FALSE, todo |-> {}]
NoClick == [who |-> Nobody, out |-> FALSE, listed |-> FALSE, emails |-> {},
            restorable |-> FALSE]

Init ==
    /\ row = [l \in Lists |-> Absent]
    /\ consent = [l \in Lists |-> [a \in Addresses |-> "none"]]
    /\ restorable = [l \in Lists |-> {}]
    /\ asked = [l \in Lists |-> {}]
    /\ suppressed = [a \in Addresses |-> "none"]
    /\ said = [l \in Lists |-> {}]
    /\ known = {}
    /\ office = {}
    /\ mode \in Modes
    /\ lock = Nobody
    /\ check = [p \in Checks |-> NoCheck]
    /\ save = [l \in Lists |-> NoSave]
    /\ click = [l \in Lists |-> NoClick]
    /\ deaths = 0
    /\ will = [l \in Lists |-> [a \in Addresses |-> "no"]]
    /\ news = [l \in Lists |-> {}]
    /\ copies = [l \in Lists |-> [i \in Items |-> 0]]
    /\ unasked = {}
    /\ lapsed = [l \in Lists |-> {}]

Saving == \E l \in Lists : save[l].at # "idle"
Checking == \E p \in Checks : check[p].at # "idle"

----------------------------------------------------------------------------
(* What happens outside: a change is recorded or a notice raised; the      *)
(* office's awards name another company.                                   *)
Happens(i) ==
    /\ i \notin known
    /\ known' = known \cup {i}
    /\ news' = [l \in Lists |->
                   IF Live(l) /\ About[i] \in row[l].companies
                   THEN news[l] \cup {i} ELSE news[l]]
    /\ UNCHANGED <<row, consent, restorable, asked, suppressed, said, office, mode, lock,
                   check, save, click, deaths, will, copies, unasked, lapsed>>

OfficeGrows(c) ==
    /\ c \notin office
    /\ office' = office \cup {c}
    /\ UNCHANGED <<row, consent, restorable, asked, suppressed, said, known, mode, lock,
                   check, save, click, deaths, histories>>

----------------------------------------------------------------------------
(* Saving a list.                                                          *)

\* The end of save_alert_subscription: an insert or an update of the row.
WriteRow(l, emails, companies, active, scope) ==
    row' = [row EXCEPT ![l] = [state |-> "live", emails |-> emails, companies |-> companies,
                               active |-> active, scope |-> scope]]

(* save_subscription until it writes: someone without the admin key adds to *)
(* a list rather than restating it, and whoever unsubscribed is declined.   *)
(* vouched: the addresses taken as agreed, all of them for someone holding  *)
(* a key, one's own for an account.                                         *)
SaveSubscription(l, body) ==
    LET had == IF Live(l) THEN row[l].emails ELSE {}
        gone == {a \in Addresses : consent[l][a] = "unsubscribed"}
        wanted == IF body.admin THEN body.emails ELSE had \cup body.emails
        companies == IF body.scope THEN office ELSE body.companies
    IN  /\ save[l].at = "idle"
        /\ row[l].state # "deleted"
        /\ Overlapping \/ ~Checking
        /\ wanted \ gone # {}
        /\ save' = [save EXCEPT ![l] =
                       [at |-> "writing", had |-> had, emails |-> wanted \ gone,
                        companies |-> companies,
                        added |-> companies \ row[l].companies,
                        vouched |-> body.vouched,
                        active |-> IF body.admin \/ ~Live(l) THEN body.active
                                   ELSE row[l].active,
                        scope |-> body.scope, asks |-> TRUE, todo |-> {}]]
        /\ UNCHANGED <<store, lock, check, click, deaths, histories>>

(* _follow_portfolio: the account's portfolio was saved again, and its list *)
(* follows with the addresses it had.                                       *)
FollowPortfolio(l, companies) ==
    /\ save[l].at = "idle"
    /\ Live(l)
    /\ Overlapping \/ ~Checking
    /\ save' = [save EXCEPT ![l] =
                   [NoSave EXCEPT !.at = "writing", !.had = row[l].emails,
                                  !.emails = row[l].emails, !.companies = companies,
                                  !.added = companies \ row[l].companies,
                                  !.active = row[l].active]]
    /\ UNCHANGED <<store, lock, check, click, deaths, histories>>

(* The insert, or the update; a list deleted since it was read is back.  An *)
(* address its saver vouches for has agreed, unless it has left.           *)
SaveRow(l) ==
    LET s == save[l]
        fresh == s.emails \ s.had
    IN  /\ s.at = "writing"
        /\ WriteRow(l, s.emails, s.companies, s.active, s.scope)
        /\ save' = [save EXCEPT ![l].at = IF s.asks THEN "recording" ELSE "baselining",
                                ![l].todo = IF s.asks THEN fresh ELSE {}]
        /\ will' = [will EXCEPT ![l] = [a \in Addresses |->
                       IF a \in fresh \cap s.vouched /\ @[a] = "no" THEN "yes" ELSE @[a]]]
        /\ UNCHANGED <<consent, restorable, asked, suppressed, said, known, office, mode,
                       lock, check, click, deaths, news, copies, unasked, lapsed>>

(* add_alert_recipient: a record that is there stays as it is. *)
Record(l, found, status) ==
    [consent EXCEPT ![l] = [a \in Addresses |->
        IF a \in found /\ @[a] = "none" THEN status ELSE @[a]]]

(* consent.add, for the next new address.                                  *)
AddRecipient(l, a) ==
    LET s == save[l]
    IN  /\ s.at = "recording"
        /\ a \in s.todo
        /\ consent' = Record(l, {a}, IF a \in s.vouched THEN "confirmed" ELSE "pending")
        /\ save' = [save EXCEPT ![l].todo = @ \ {a}]
        /\ UNCHANGED <<row, restorable, asked, suppressed, said, known, office, mode,
                       lock, check, click, deaths, histories>>

\* Then whoever is pending, on this list, and new to it or never asked.
ReadPending(l) ==
    LET s == save[l]
        fresh == s.emails \ s.had
    IN  /\ s.at = "recording"
        /\ s.todo = {}
        /\ save' = [save EXCEPT ![l].at = "asking",
                       ![l].todo = {a \in s.emails : /\ consent[l][a] = "pending"
                                                     /\ a \in fresh \/ a \notin asked[l]}]
        /\ UNCHANGED <<store, lock, check, click, deaths, histories>>

(* consent.ask: not twice in a day for any list, and within the site's      *)
(* allowance; remembered when the request reached them.                    *)
AskedToday(a) == \E l \in Lists : a \in asked[l]
AllowanceUsed == Cardinality({p \in Lists \X Addresses : p[2] \in asked[p[1]]}) >= AsksPerDay

AskRecipient(l, a) ==
    /\ save[l].at = "asking"
    /\ a \in save[l].todo
    /\ save' = [save EXCEPT ![l].todo = @ \ {a}]
    /\ \/ UNCHANGED asked
       \/ /\ ~AskedToday(a)
          /\ ~AllowanceUsed
          /\ mode = "send"
          /\ asked' = [asked EXCEPT ![l] = IF consent[l][a] = "none" THEN @ ELSE @ \cup {a}]
    /\ UNCHANGED <<row, consent, restorable, suppressed, said, known, office, mode, lock,
                   check, click, deaths, histories>>

(* baseline: what is known of the companies just added is not news.        *)
Mark(l, items) == said' = [said EXCEPT ![l] = @ \cup items]

Baseline(l) ==
    /\ \/ save[l].at = "baselining"
       \/ save[l].at = "asking" /\ save[l].todo = {}
    /\ Mark(l, known \cap ItemsAbout(save[l].added))
    /\ save' = [save EXCEPT ![l] = NoSave]
    /\ UNCHANGED <<row, consent, restorable, asked, suppressed, known, office, mode, lock,
                   check, click, deaths, histories>>

\* delete_alert_subscription
DeleteSubscription(l) ==
    /\ Live(l)
    /\ Overlapping \/ (~Checking /\ save[l] = NoSave /\ click[l] = NoClick)
    /\ row' = [row EXCEPT ![l] = [Absent EXCEPT !.state = "deleted"]]
    /\ said' = [said EXCEPT ![l] = {}]
    /\ consent' = [consent EXCEPT ![l] = [a \in Addresses |-> "none"]]
    /\ restorable' = [restorable EXCEPT ![l] = {}]
    /\ asked' = [asked EXCEPT ![l] = {}]
    /\ UNCHANGED <<suppressed, known, office, mode, lock, check, save, click, deaths,
                   histories>>

----------------------------------------------------------------------------
(* The links of an email.                                                  *)

(* confirm_recipient: only a pending address is confirmed.                 *)
ConfirmRecipient(l, a) ==
    /\ consent[l][a] = "pending"
    /\ consent' = [consent EXCEPT ![l][a] = "confirmed"]
    /\ will' = [will EXCEPT ![l][a] = "yes"]
    /\ UNCHANGED <<row, restorable, asked, suppressed, said, known, office, mode, lock,
                   check, save, click, deaths, news, copies, unasked, lapsed>>

(* set_opted_out reads the record and the list ...                         *)
Click(l, a, out) ==
    /\ a \in Leavers
    /\ click[l].who = Nobody
    /\ IF out THEN consent[l][a] \in {"pending", "confirmed"}
              ELSE consent[l][a] = "unsubscribed" /\ Live(l)
    /\ click' = [click EXCEPT ![l] =
                    [who |-> a, out |-> out, listed |-> a \in row[l].emails,
                     emails |-> row[l].emails, restorable |-> a \in restorable[l]]]
    /\ UNCHANGED <<store, lock, check, save, deaths, histories>>

(* ... and writes both in one transaction, the list as it was read.        *)
EmailsAfter(l, a) ==
    LET c == click[l]
    IN  IF c.out THEN (IF c.listed THEN c.emails \ {a} ELSE row[l].emails)
        ELSE IF c.restorable /\ ~c.listed THEN c.emails \cup {a} ELSE row[l].emails

SetOptedOut(l, a) ==
    LET c == click[l]
        recorded == consent[l][a] # "none"
    IN  /\ c.who = a
        /\ click' = [click EXCEPT ![l] = NoClick]
        /\ consent' = IF ~recorded THEN consent ELSE
               [consent EXCEPT ![l][a] = IF c.out THEN "unsubscribed" ELSE "confirmed"]
        /\ restorable' = IF ~recorded THEN restorable ELSE
               [restorable EXCEPT ![l] = IF c.out /\ c.listed THEN @ \cup {a} ELSE @ \ {a}]
        /\ row' = IF Live(l) THEN [row EXCEPT ![l].emails = EmailsAfter(l, a)] ELSE row
        /\ will' = [will EXCEPT ![l][a] = IF c.out THEN "left" ELSE "yes"]
        /\ UNCHANGED <<asked, suppressed, said, known, office, mode, lock, check, save,
                       deaths, news, copies, unasked, lapsed>>

----------------------------------------------------------------------------
(* Reports of the mail service (bounces.py), and clearing one.             *)

\* parse_brevo and parse_resend: which reports say an address is not to be written to.
BrevoKinds == [hard_bounce |-> "bounce", invalid_email |-> "bounce", blocked |-> "blocked",
               spam |-> "complaint", complaint |-> "complaint"]
ResendKinds == [bounced |-> "bounce", complained |-> "complaint"]
Transient == {"transient", "undetermined"}

\* Mutant: what is reported, as reported.
ReportedAs(report) == report.event

ReportedKind(report) ==
    LET kinds == IF report.provider = "brevo" THEN BrevoKinds ELSE ResendKinds
    IN  IF report.event \notin DOMAIN kinds THEN "none"
        ELSE IF /\ report.provider = "resend"
                /\ report.event = "bounced"
                /\ report.type \in Transient THEN "none"
        ELSE kinds[report.event]

(* suppress_address: a complaint is never downgraded.                      *)
Suppress(a, kind) ==
    suppressed' = [suppressed EXCEPT ![a] = IF @ = "complaint" THEN "complaint" ELSE kind]

MailReport(report) ==
    /\ ReportedKind(report) # "none"
    /\ Suppress(report.email, ReportedKind(report))
    /\ UNCHANGED <<row, consent, restorable, asked, said, known, office, mode, lock, check,
                   save, click, deaths, histories>>

(* clear_bounce: an address of a list, and no complaint.                   *)
ClearBounce(a) ==
    /\ \E l \in Lists : Live(l) /\ a \in row[l].emails
    /\ suppressed[a] \in {"bounce", "blocked"}
    /\ suppressed' = [suppressed EXCEPT ![a] = "none"]
    /\ UNCHANGED <<row, consent, restorable, asked, said, known, office, mode, lock, check,
                   save, click, deaths, histories>>

----------------------------------------------------------------------------
(* A check of the workspace's lists (run_alerts).                          *)

(* Two locks, one of the process and one of the database, let one check run *)
(* at a time.  The active lists are read once, at the start.               *)
\* Mutants: any number of checks at once; a lock that outlives its check.
AnyNumber(p) == TRUE
KeptLock(p) == lock

LockFree(p) == lock = Nobody
LockAfter(p) == IF lock = p THEN Nobody ELSE lock

StartCheck(p) ==
    /\ check[p].at = "idle"
    /\ LockFree(p)
    /\ Overlapping \/ ~Saving
    /\ \E l \in Lists : Live(l) /\ row[l].active
    /\ lock' = p
    /\ check' = [check EXCEPT ![p] =
                    [NoCheck EXCEPT !.at = "following",
                        !.seen = [l \in Lists |-> IF Live(l) /\ row[l].active
                                                  THEN row[l] ELSE Absent],
                        !.todo = {l \in Lists : Live(l) /\ row[l].active /\ row[l].scope}]]
    /\ UNCHANGED <<store, save, click, deaths, histories>>

Seen(p) == {l \in Lists : check[p].seen[l].state = "live"}

(* follow_scope: a list on an office takes the office's companies, and is   *)
(* written back as it was read.                                            *)
FollowScope(p, l) ==
    LET seen == check[p].seen[l]
    IN  /\ check[p].at = "following"
        /\ l \in check[p].todo
        /\ IF office = seen.companies
           THEN /\ check' = [check EXCEPT ![p].todo = @ \ {l}]
                /\ UNCHANGED row
           ELSE /\ WriteRow(l, seen.emails, office, seen.active, TRUE)
                /\ check' = [check EXCEPT ![p].todo = @ \ {l}, ![p].at = "joining",
                                ![p].list = l, ![p].added = office \ seen.companies,
                                ![p].seen[l].companies = office]
        /\ UNCHANGED <<consent, restorable, asked, suppressed, said, known, office, mode,
                       lock, save, click, deaths, histories>>

BaselineJoined(p) ==
    /\ check[p].at = "joining"
    /\ Mark(check[p].list, known \cap ItemsAbout(check[p].added))
    /\ check' = [check EXCEPT ![p].at = "following", ![p].list = Nobody, ![p].added = {}]
    /\ UNCHANGED <<row, consent, restorable, asked, suppressed, known, office, mode, lock,
                   save, click, deaths, histories>>

\* The refresh of what the lists are about is Happens.
Followed(p) ==
    /\ check[p].at = "following"
    /\ check[p].todo = {}
    /\ check' = [check EXCEPT ![p].at = "checking", ![p].todo = Seen(p)]
    /\ UNCHANGED <<store, lock, save, click, deaths, histories>>

\* pending_items: what is known of the list's companies and not yet said.
PendingItems(p, l) ==
    LET items == (known \cap ItemsAbout(check[p].seen[l].companies)) \ said[l]
    IN  /\ check[p].at = "checking"
        /\ l \in check[p].todo
        /\ check' = [check EXCEPT ![p].todo = @ \ {l},
                        ![p].at = IF items = {} THEN "checking" ELSE "pending",
                        ![p].list = IF items = {} THEN Nobody ELSE l,
                        ![p].items = items]
        /\ UNCHANGED <<store, lock, save, click, deaths, histories>>

(* recipients: who has agreed, less whoever bounces; an address without a  *)
(* record is from before records were kept, and is recorded as agreed.     *)
\* Mutant: whoever has not left.
NotLeft(l, a) == consent[l][a] # "unsubscribed"

Agreed(l, a) == consent[l][a] \in {"confirmed", "none"}

Recipients(p) ==
    LET l == check[p].list
        emails == check[p].seen[l].emails
        to == {a \in emails : Agreed(l, a) /\ suppressed[a] = "none"}
    IN  /\ check[p].at = "pending"
        /\ consent' = Record(l, emails, "confirmed")
        /\ check' = [check EXCEPT
                        ![p].at = IF to = {} THEN "checking" ELSE "sending",
                        ![p].to = to,
                        ![p].list = IF to = {} THEN Nobody ELSE l,
                        ![p].items = IF to = {} THEN {} ELSE @,
                        ![p].strangers = {a \in to : will[l][a] # "yes"}]
        /\ UNCHANGED <<row, restorable, asked, suppressed, said, known, office, mode, lock,
                       save, click, deaths, histories>>

(* Mailer.send: one message each; whom the service refuses is missed.      *)
Outcome(reached, to) ==
    IF mode = "draft" THEN "drafted"
    ELSE IF reached = {} THEN "failed"
    ELSE IF reached = to THEN "sent" ELSE "partial"

Copy(l, reached, items) ==
    copies' = [copies EXCEPT ![l] = [i \in Items |->
        IF reached # {} /\ i \in items /\ @[i] < 2 THEN @[i] + 1 ELSE @[i]]]

Send(p, reached) ==
    LET c == check[p]
    IN  /\ c.at = "sending"
        /\ reached \subseteq c.to
        /\ mode # "send" => reached = {}
        /\ Copy(c.list, reached, c.items)
        /\ unasked' = unasked \cup ({c.list} \X (reached \cap c.strangers))
        /\ check' = [check EXCEPT ![p].at = "sent", ![p].outcome = Outcome(reached, c.to)]
        /\ UNCHANGED <<store, lock, save, click, deaths, will, news, lapsed>>

(* Sent to anybody, or drafted, is said; a failure is tried again.         *)
Told == {"sent", "drafted", "partial"}

MarkSent(p) ==
    LET c == check[p]
    IN  /\ c.at = "sent"
        /\ Mark(c.list, IF c.outcome \in Told THEN c.items ELSE {})
        /\ check' = [check EXCEPT ![p] = [NoCheck EXCEPT !.at = "checking", !.seen = c.seen,
                                                        !.todo = c.todo]]
        /\ UNCHANGED <<row, consent, restorable, asked, suppressed, known, office, mode,
                       lock, save, click, deaths, histories>>

Finish(p) ==
    /\ check[p].at = "checking"
    /\ check[p].todo = {}
    /\ check' = [check EXCEPT ![p] = NoCheck]
    /\ lock' = LockAfter(p)
    /\ UNCHANGED <<store, save, click, deaths, histories>>

(* test_subscription: a test goes to the same recipients and says nothing. *)
TestSubscription(l, reached) ==
    LET to == {a \in row[l].emails : Agreed(l, a) /\ suppressed[a] = "none"}
    IN  /\ Live(l)
        /\ Overlapping \/ save[l].at = "idle"
        /\ mode = "send"
        /\ reached # {} /\ reached \subseteq to
        /\ consent' = Record(l, row[l].emails, "confirmed")
        /\ unasked' = unasked \cup {<<l, a>> : a \in {b \in reached : will[l][b] # "yes"}}
        /\ UNCHANGED <<row, restorable, asked, suppressed, said, known, office, mode, lock,
                       check, save, click, deaths, will, news, copies, lapsed>>

----------------------------------------------------------------------------
(* Deaths.  The locks go with the process and with its connection.         *)
CheckDies(p) ==
    LET c == check[p]
    IN  /\ c.at # "idle"
        /\ deaths < MaxDeaths
        /\ deaths' = deaths + 1
        /\ check' = [check EXCEPT ![p] = NoCheck]
        /\ lock' = LockAfter(p)
        /\ lapsed' = CASE c.at = "sent" -> [lapsed EXCEPT ![c.list] = @ \cup c.items]
                       [] c.at = "joining" ->
                            [lapsed EXCEPT ![c.list] = @ \cup ItemsAbout(c.added)]
                       [] OTHER -> lapsed
        /\ UNCHANGED <<store, save, click, will, news, copies, unasked>>

SaveDies(l) ==
    LET s == save[l]
    IN  /\ s.at # "idle"
        /\ Overlapping \/ s.at \in {"asking", "baselining"}
        /\ deaths < MaxDeaths
        /\ deaths' = deaths + 1
        /\ save' = [save EXCEPT ![l] = NoSave]
        /\ lapsed' = [lapsed EXCEPT ![l] = @ \cup ItemsAbout(s.added)]
        /\ UNCHANGED <<store, lock, check, click, will, news, copies, unasked>>

----------------------------------------------------------------------------
Save(l) ==
    \/ SaveRow(l)
    \/ \E a \in Addresses : AddRecipient(l, a) \/ AskRecipient(l, a)
    \/ ReadPending(l)
    \/ Baseline(l)

Owner(l) ==
    \/ \E body \in Bodies : SaveSubscription(l, body)
    \/ \E companies \in Portfolios : FollowPortfolio(l, companies)
    \/ DeleteSubscription(l)
    \/ \E reached \in SUBSET Addresses : TestSubscription(l, reached)

Person(l, a) ==
    \/ ConfirmRecipient(l, a)
    \/ \E out \in BOOLEAN : Click(l, a, out)
    \/ SetOptedOut(l, a)

Check(p) ==
    \/ \E l \in Lists : FollowScope(p, l) \/ PendingItems(p, l)
    \/ BaselineJoined(p)
    \/ Followed(p)
    \/ Recipients(p)
    \/ \E reached \in SUBSET Addresses : Send(p, reached)
    \/ MarkSent(p)
    \/ Finish(p)

Next ==
    \/ \E i \in Items : Happens(i)
    \/ \E c \in Companies : OfficeGrows(c)
    \/ \E l \in Lists : Save(l) \/ Owner(l) \/ SaveDies(l) \/ \E a \in Addresses : Person(l, a)
    \/ \E a \in Addresses : ClearBounce(a)
    \/ \E report \in Reports : MailReport(report)
    \/ \E p \in Checks : StartCheck(p) \/ Check(p) \/ CheckDies(p)

(* A check that can go on does, one is asked for again and again (the daily *)
(* workflow, Vercel's job, every portfolio page that is opened), and a mail *)
(* service asked again and again takes what it is given in the end.        *)
Fairness ==
    /\ \A l \in Lists : WF_vars(Save(l))
    /\ WF_vars(\E p \in Checks : Check(p))
    /\ SF_vars(\E p \in Checks : StartCheck(p))
    /\ SF_vars(\E p \in Checks : Send(p, check[p].to))

Spec == Init /\ [][Next]_vars
FairSpec == Spec /\ Fairness

----------------------------------------------------------------------------
Rows == [state : {"new", "live", "deleted"}, emails : SUBSET Addresses,
         companies : SUBSET Companies, active : BOOLEAN, scope : BOOLEAN]

CheckRecords ==
    [at : {"idle", "following", "joining", "checking", "pending", "sending", "sent"},
     todo : SUBSET Lists, seen : [Lists -> Rows], list : Lists \cup {Nobody},
     items : SUBSET Items, to : SUBSET Addresses, strangers : SUBSET Addresses,
     added : SUBSET Companies, outcome : {"none", "drafted", "failed", "sent", "partial"}]

SaveRecords ==
    [at : {"idle", "writing", "recording", "asking", "baselining"},
     had : SUBSET Addresses, emails : SUBSET Addresses, companies : SUBSET Companies,
     added : SUBSET Companies, vouched : SUBSET Addresses, active : BOOLEAN,
     scope : BOOLEAN, asks : BOOLEAN, todo : SUBSET Addresses]

ClickRecords ==
    [who : Addresses \cup {Nobody}, out : BOOLEAN, listed : BOOLEAN,
     emails : SUBSET Addresses, restorable : BOOLEAN]

TypeOK ==
    /\ row \in [Lists -> Rows]
    /\ consent \in [Lists -> [Addresses -> {"none", "pending", "confirmed", "unsubscribed"}]]
    /\ restorable \in [Lists -> SUBSET Addresses]
    /\ asked \in [Lists -> SUBSET Addresses]
    /\ suppressed \in [Addresses -> {"none", "bounce", "blocked", "complaint"}]
    /\ said \in [Lists -> SUBSET Items]
    /\ known \in SUBSET Items
    /\ office \in SUBSET Companies
    /\ mode \in Modes
    /\ lock \in Checks \cup {Nobody}
    /\ check \in [Checks -> CheckRecords]
    /\ save \in [Lists -> SaveRecords]
    /\ click \in [Lists -> ClickRecords]
    /\ deaths \in 0..MaxDeaths
    /\ will \in [Lists -> [Addresses -> {"no", "yes", "left"}]]
    /\ news \in [Lists -> SUBSET Items]
    /\ copies \in [Lists -> [Items -> 0..2]]
    /\ unasked \in SUBSET (Lists \X Addresses)
    /\ lapsed \in [Lists -> SUBSET Items]

(* consent.py: an address a visitor types into a list is sent one request  *)
(* to confirm "and nothing else until it is confirmed", and whoever left   *)
(* is not written to: nobody is sent an alert or a test who had not agreed *)
(* to the list, or had left it, when its recipients were read.             *)
AgreedFirst == unasked = {}

(* alerts.py: "Every item goes to each subscription once", and to a list    *)
(* just saved what was already known is not news: no list is sent an item   *)
(* twice, or one from before it followed the company, unless a check or a  *)
(* save died between two calls that belong together.                       *)
NewsOnce ==
    \A l \in Lists, i \in Items :
        /\ copies[l][i] > 0 => i \in news[l] \cup lapsed[l]
        /\ copies[l][i] > 1 => i \in lapsed[l]

(* Nobody is written to who has not asked, or about what is not news.       *)
MailIsWanted == AgreedFirst /\ NewsOnce

(* An item of a company on an active list, which somebody who has agreed    *)
(* and can be reached keeps being on, is told to the list in the end,      *)
(* whatever checks died and however often the mail service refused.        *)
Awaits(l, a, i) ==
    /\ i \in known
    /\ Live(l) /\ row[l].active
    /\ About[i] \in row[l].companies
    /\ a \in row[l].emails
    /\ consent[l][a] = "confirmed"
    /\ suppressed[a] = "none"
    /\ mode # "misconfigured"

NewsIsTold ==
    \A l \in Lists, a \in Addresses, i \in Items :
        Awaits(l, a, i) ~> (i \in said[l] \/ ~Awaits(l, a, i))
=============================================================================
