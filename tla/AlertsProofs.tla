---------------------------- MODULE AlertsProofs ----------------------------
(***************************************************************************)
(* That alerts go to whoever agreed and are of what is news: for any lists, *)
(* addresses, items, checks and deaths, where saves and deletions of a     *)
(* list and checks of the workspace take turns.  Clicks in emails, reports *)
(* of the mail service and what happens outside come at any time.          *)
(***************************************************************************)
EXTENDS Alerts, TLAPS

----------------------------------------------------------------------------
(* The inductive invariant.                                                *)

\* A check works on lists it has seen.
OnList == {"joining", "pending", "sending", "sent"}
WorksOnSeen ==
    \A p \in Checks :
        /\ check[p].todo \subseteq Seen(p)
        /\ check[p].at \in OnList => check[p].list \in Seen(p)

\* A check holds the locks, no list is saved meanwhile, and what is saved is there.
TakesTurns ==
    /\ \A p \in Checks : check[p].at # "idle" => lock = p
    /\ Checking => ~Saving
    /\ \A l \in Lists : save[l].at # "idle" => row[l].state # "deleted"

\* Whose consent a list has yet to record: those its save has still to go through.
Unrecorded(l) == {a \in Addresses : consent[l][a] = "none"}
BeingRecorded(l) == IF save[l].at = "recording" THEN save[l].todo ELSE {}

\* Whoever is confirmed has said so, and whoever has left is unsubscribed.
SaidSo(l) ==
    \A a \in Addresses :
        /\ consent[l][a] = "confirmed" => will[l][a] = "yes"
        /\ will[l][a] = "left" =>
              consent[l][a] = "unsubscribed" \/ row[l].state = "deleted"

\* Everybody on a list, or read as being on it, has a record.
OnRecord(l) ==
    /\ (row[l].emails \cup click[l].emails) \cap Unrecorded(l) \subseteq BeingRecorded(l)
    /\ click[l].who # Nobody => click[l].who \notin Unrecorded(l)
    /\ save[l].at = "writing" => save[l].had \cap Unrecorded(l) = {}
    /\ save[l].at = "writing" /\ ~save[l].asks => save[l].emails = save[l].had
    /\ \A a \in BeingRecorded(l) \cap save[l].vouched :
          a \in Unrecorded(l) => will[l][a] = "yes"

\* So has everybody a check may write to.
NoStrangers ==
    /\ \A p \in Checks : check[p].strangers = {}
    /\ \A p \in Checks : check[p].at # "idle" =>
          \A l \in Seen(p) : check[p].seen[l].emails \cap Unrecorded(l) = {}
    /\ unasked = {}

Consented == (\A l \in Lists : SaidSo(l) /\ OnRecord(l)) /\ NoStrangers

\* What a check has seen of the companies of a list is still so.
SeenAsIs ==
    /\ \A p \in Checks : check[p].at # "idle" =>
          \A l \in Seen(p) : Live(l) /\ check[p].seen[l].companies = row[l].companies
    /\ \A l \in Lists : row[l].state = "new" => row[l].companies = {}
    /\ \A l \in Lists : save[l].at = "writing" =>
          save[l].added = save[l].companies \ row[l].companies

\* The companies a list has just been given, whose items are yet to be marked.
Joining(l) ==
    (IF save[l].at \in {"recording", "asking", "baselining"} THEN save[l].added ELSE {})
    \cup UNION {check[p].added : p \in {q \in Checks : /\ check[q].at = "joining"
                                                       /\ check[q].list = l}}

There(l) == row[l].state # "deleted"

\* What is known of the companies of a list and not said is news to it.
UnsaidIsNews(l) ==
    There(l) => known \cap ItemsAbout(row[l].companies \ Joining(l))
                  \subseteq said[l] \cup news[l] \cup lapsed[l]

\* What a check is about to tell is news, and not said yet.
TellsNews ==
    \A p \in Checks : check[p].at \in {"pending", "sending", "sent"} =>
        /\ check[p].items \subseteq news[check[p].list] \cup lapsed[check[p].list]
        /\ check[p].items \cap said[check[p].list] = {}

\* The items a check has sent to a list and is about to mark.
JustTold(l) ==
    UNION {check[p].items : p \in {q \in Checks : /\ check[q].at = "sent"
                                                  /\ check[q].list = l
                                                  /\ check[q].outcome \in Told}}

\* A copy went out of what is said, or about to be, or was left by a death.
CopiesAreSaid(l) ==
    There(l) => \A i \in Items :
                  copies[l][i] > 0 => i \in said[l] \cup lapsed[l] \cup JustTold(l)

Newsworthy ==
    /\ TellsNews
    /\ \A l \in Lists : UnsaidIsNews(l) /\ CopiesAreSaid(l)
    /\ NewsOnce

AlertsInv ==
    TypeOK /\ WorksOnSeen /\ TakesTurns /\ SeenAsIs /\ Consented /\ Newsworthy
LEMMA InitTypes == Init => TypeOK /\ WorksOnSeen
  BY BoundsAssumption DEF Rows, CheckRecords, SaveRecords, ClickRecords, Init, TypeOK, WorksOnSeen, Seen, NoCheck, NoSave, NoClick, Absent, OnList

Typed == TypeOK /\ WorksOnSeen

LEMMA NoneTypes == /\ Absent \in Rows
                   /\ NoCheck \in CheckRecords
                   /\ NoSave \in SaveRecords
                   /\ NoClick \in ClickRecords
  BY DEF Absent, NoCheck, NoSave, NoClick, Rows, CheckRecords, SaveRecords, ClickRecords

\* A step of one check.
Goes(p, c) == check' = [check EXCEPT ![p] = c]
SeenBy(c) == {l \in Lists : c.seen[l].state = "live"}

LEMMA CheckGoes ==
    ASSUME Typed, NEW p \in Checks, NEW c \in CheckRecords, Goes(p, c),
           c.todo \subseteq SeenBy(c), c.at \in OnList => c.list \in SeenBy(c)
    PROVE  check' \in [Checks -> CheckRecords] /\ WorksOnSeen'
<1>1. check' \in [Checks -> CheckRecords]
  BY DEF Typed, TypeOK, Goes
<1>2. check'[p] = c /\ \A q \in Checks \ {p} : check'[q] = check[q]
  BY DEF Typed, TypeOK, Goes
<1>3. ASSUME NEW q \in Checks
      PROVE  /\ check'[q].todo \subseteq SeenBy(check'[q])
             /\ check'[q].at \in OnList => check'[q].list \in SeenBy(check'[q])
  <2>1. CASE q = p
    BY <1>2, <2>1
  <2>2. CASE q # p
    BY <1>2, <2>2 DEF Typed, WorksOnSeen, Seen, SeenBy
  <2> QED
    BY <2>1, <2>2
<1> QED
  BY <1>1, <1>3 DEF WorksOnSeen, Seen, SeenBy

LEMMA HappensTypes == ASSUME Typed, NEW i \in Items, Happens(i) PROVE Typed'
  BY DEF Rows, CheckRecords, SaveRecords, ClickRecords, Typed, TypeOK, WorksOnSeen, Seen, OnList, Happens

LEMMA OfficeTypes == ASSUME Typed, NEW c \in Companies, OfficeGrows(c) PROVE Typed'
  BY DEF Rows, CheckRecords, SaveRecords, ClickRecords, Typed, TypeOK, WorksOnSeen, Seen, OnList, OfficeGrows, histories

LEMMA SaveSubscriptionTypes ==
    ASSUME Typed, NEW l \in Lists, NEW body \in Bodies, SaveSubscription(l, body) PROVE Typed'
  BY BodiesAssumption DEF Rows, CheckRecords, SaveRecords, ClickRecords, Typed, TypeOK, WorksOnSeen, Seen, OnList, SaveSubscription, store, histories

LEMMA FollowPortfolioTypes ==
    ASSUME Typed, NEW l \in Lists, NEW c \in Portfolios, FollowPortfolio(l, c) PROVE Typed'
  BY PortfoliosAssumption DEF Rows, CheckRecords, SaveRecords, ClickRecords, Typed, TypeOK, WorksOnSeen, Seen, OnList, FollowPortfolio, NoSave, store, histories

LEMMA SaveRowTypes == ASSUME Typed, NEW l \in Lists, SaveRow(l) PROVE Typed'
<1>1. save[l] \in SaveRecords
  BY DEF Typed, TypeOK
<1>2. [state |-> "live", emails |-> save[l].emails, companies |-> save[l].companies,
       active |-> save[l].active, scope |-> save[l].scope] \in Rows
  BY <1>1 DEF SaveRecords, Rows
<1>3. row' \in [Lists -> Rows]
  BY <1>2 DEF Typed, TypeOK, SaveRow, WriteRow
<1>4. save' \in [Lists -> SaveRecords]
  <2> DEFINE s == [save[l] EXCEPT !.at = IF save[l].asks THEN "recording" ELSE "baselining",
                      !.todo = IF save[l].asks THEN save[l].emails \ save[l].had ELSE {}]
  <2>1. s \in SaveRecords
    BY <1>1 DEF SaveRecords
  <2>2. save' = [save EXCEPT ![l] = s]
    BY DEF Typed, TypeOK, SaveRow
  <2> QED
    BY <2>1, <2>2 DEF Typed, TypeOK
<1>5. will' \in [Lists -> [Addresses -> {"no", "yes", "left"}]]
  BY DEF Typed, TypeOK, SaveRow
<1>6. WorksOnSeen'
  BY DEF Typed, WorksOnSeen, Seen, SaveRow
<1> QED
  BY <1>3, <1>4, <1>5, <1>6 DEF Typed, TypeOK, SaveRow

LEMMA AddRecipientTypes ==
    ASSUME Typed, NEW l \in Lists, NEW a \in Addresses, AddRecipient(l, a) PROVE Typed'
<1>1. save[l] \in SaveRecords
  BY DEF Typed, TypeOK
<1> DEFINE s == [save[l] EXCEPT !.todo = @ \ {a}]
<1>2. s \in SaveRecords
  BY <1>1 DEF SaveRecords
<1>3. save' = [save EXCEPT ![l] = s]
  BY DEF Typed, TypeOK, AddRecipient
<1>4. save' \in [Lists -> SaveRecords]
  BY <1>2, <1>3 DEF Typed, TypeOK
<1>5. WorksOnSeen'
  BY DEF Typed, WorksOnSeen, Seen, AddRecipient
<1>6. consent' \in [Lists -> [Addresses -> {"none", "pending", "confirmed", "unsubscribed"}]]
  BY DEF Typed, TypeOK, AddRecipient, Record
<1> QED
  BY <1>4, <1>5, <1>6 DEF Typed, TypeOK, AddRecipient, histories

LEMMA ReadPendingTypes == ASSUME Typed, NEW l \in Lists, ReadPending(l) PROVE Typed'
<1>1. save[l] \in SaveRecords
  BY DEF Typed, TypeOK
<1> DEFINE s == [save[l] EXCEPT !.at = "asking",
                   !.todo = {a \in save[l].emails :
                                /\ consent[l][a] = "pending"
                                /\ a \in save[l].emails \ save[l].had \/ a \notin asked[l]}]
<1>2. s \in SaveRecords
  BY <1>1 DEF SaveRecords
<1>3. save' = [save EXCEPT ![l] = s]
  BY DEF Typed, TypeOK, ReadPending
<1>4. save' \in [Lists -> SaveRecords]
  BY <1>2, <1>3 DEF Typed, TypeOK
<1>5. WorksOnSeen'
  BY DEF Typed, WorksOnSeen, Seen, ReadPending, store
<1> QED
  BY <1>4, <1>5 DEF Typed, TypeOK, ReadPending, store, histories

LEMMA AskTypes ==
    ASSUME Typed, NEW l \in Lists, NEW a \in Addresses, AskRecipient(l, a) PROVE Typed'
<1>1. save[l] \in SaveRecords
  BY DEF Typed, TypeOK
<1> DEFINE s == [save[l] EXCEPT !.todo = @ \ {a}]
<1>2. s \in SaveRecords
  BY <1>1 DEF SaveRecords
<1>3. save' = [save EXCEPT ![l] = s]
  BY DEF Typed, TypeOK, AskRecipient
<1>4. save' \in [Lists -> SaveRecords]
  BY <1>2, <1>3 DEF Typed, TypeOK
<1>5. WorksOnSeen'
  BY DEF Typed, WorksOnSeen, Seen, AskRecipient
<1>6. asked' \in [Lists -> SUBSET Addresses]
  <2>1. CASE UNCHANGED asked
    BY <2>1 DEF Typed, TypeOK
  <2>2. CASE asked' = [asked EXCEPT ![l] = IF consent[l][a] = "none" THEN @ ELSE @ \cup {a}]
    BY <2>2 DEF Typed, TypeOK
  <2> QED
    BY <2>1, <2>2 DEF AskRecipient
<1> QED
  BY <1>4, <1>5, <1>6 DEF Typed, TypeOK, AskRecipient, histories

LEMMA BaselineTypes == ASSUME Typed, NEW l \in Lists, Baseline(l) PROVE Typed'
  BY DEF Rows, CheckRecords, SaveRecords, ClickRecords, Typed, TypeOK, WorksOnSeen, Seen, OnList, Baseline, Mark, ItemsAbout, NoSave, histories

LEMMA DeleteTypes == ASSUME Typed, NEW l \in Lists, DeleteSubscription(l) PROVE Typed'
  BY DEF Rows, CheckRecords, SaveRecords, ClickRecords, Typed, TypeOK, WorksOnSeen, Seen, OnList, DeleteSubscription, Absent, histories

LEMMA ConfirmTypes ==
    ASSUME Typed, NEW l \in Lists, NEW a \in Addresses, ConfirmRecipient(l, a) PROVE Typed'
  BY DEF Rows, CheckRecords, SaveRecords, ClickRecords, Typed, TypeOK, WorksOnSeen, Seen, OnList, ConfirmRecipient

LEMMA ClickTypes ==
    ASSUME Typed, NEW l \in Lists, NEW a \in Addresses, NEW out \in BOOLEAN, Click(l, a, out) PROVE Typed'
  BY DEF Rows, CheckRecords, SaveRecords, ClickRecords, Typed, TypeOK, WorksOnSeen, Seen, OnList, Click, store, histories

LEMMA OptedTypes ==
    ASSUME Typed, NEW l \in Lists, NEW a \in Addresses, SetOptedOut(l, a) PROVE Typed'
<1>1. row[l] \in Rows /\ click[l] \in ClickRecords
  BY DEF Typed, TypeOK
<1>2. EmailsAfter(l, a) \in SUBSET Addresses
  BY <1>1 DEF EmailsAfter, Rows, ClickRecords
<1>3. [row[l] EXCEPT !.emails = EmailsAfter(l, a)] \in Rows
  BY <1>1, <1>2 DEF Rows
<1>4. row' \in [Lists -> Rows]
  BY <1>3 DEF Typed, TypeOK, SetOptedOut
<1>5. click' \in [Lists -> ClickRecords]
  BY NoneTypes DEF Typed, TypeOK, SetOptedOut
<1>6. consent' \in [Lists -> [Addresses -> {"none", "pending", "confirmed", "unsubscribed"}]]
  BY DEF Typed, TypeOK, SetOptedOut
<1>7. restorable' \in [Lists -> SUBSET Addresses]
  BY DEF Typed, TypeOK, SetOptedOut
<1>8. will' \in [Lists -> [Addresses -> {"no", "yes", "left"}]]
  BY DEF Typed, TypeOK, SetOptedOut
<1>9. WorksOnSeen'
  BY DEF Typed, WorksOnSeen, Seen, SetOptedOut
<1> QED
  BY <1>4, <1>5, <1>6, <1>7, <1>8, <1>9 DEF Typed, TypeOK, SetOptedOut

LEMMA ReportTypes == ASSUME Typed, NEW r \in Reports, MailReport(r) PROVE Typed'
  BY ReportsAssumption DEF Rows, CheckRecords, SaveRecords, ClickRecords, Typed, TypeOK, WorksOnSeen, Seen, OnList, MailReport, Suppress, ReportedKind, BrevoKinds, ResendKinds, histories

LEMMA ClearTypes == ASSUME Typed, NEW a \in Addresses, ClearBounce(a) PROVE Typed'
  BY DEF Rows, CheckRecords, SaveRecords, ClickRecords, Typed, TypeOK, WorksOnSeen, Seen, OnList, ClearBounce, histories

LEMMA StartTypes == ASSUME Typed, NEW p \in Checks, StartCheck(p) PROVE Typed'
  BY DEF Rows, CheckRecords, SaveRecords, ClickRecords, Typed, TypeOK, WorksOnSeen, Seen, OnList, StartCheck, NoCheck, Absent, Live, store, histories

LEMMA FollowTypes == ASSUME Typed, NEW p \in Checks, NEW l \in Lists, FollowScope(p, l) PROVE Typed'
<1>0. check[p] \in CheckRecords
  BY DEF Typed, TypeOK
<1>1. check[p].seen \in [Lists -> Rows] /\ check[p].seen[l] \in Rows
  BY <1>0 DEF CheckRecords
<1>2. check[p].todo \subseteq SeenBy(check[p]) /\ l \in SeenBy(check[p])
  BY DEF Typed, WorksOnSeen, Seen, SeenBy, FollowScope
<1>3. CASE office = check[p].seen[l].companies
  <2> DEFINE c == [check[p] EXCEPT !.todo = @ \ {l}]
  <2>1. /\ c \in CheckRecords /\ c.seen = check[p].seen
        /\ c.todo = check[p].todo \ {l} /\ c.at = "following"
    BY <1>0 DEF CheckRecords, FollowScope
  <2>2. Goes(p, c)
    BY <1>3 DEF Typed, TypeOK, Goes, FollowScope
  <2>3. c.todo \subseteq SeenBy(c) /\ c.at \notin OnList
    BY <1>2, <2>1, Zenon DEF SeenBy, OnList
  <2>4. check' \in [Checks -> CheckRecords] /\ WorksOnSeen'
    BY <2>1, <2>2, <2>3, CheckGoes
  <2> QED
    BY <1>3, <2>4 DEF Typed, TypeOK, FollowScope, histories
<1>4. CASE office # check[p].seen[l].companies
  <2> DEFINE r == [check[p].seen[l] EXCEPT !.companies = office]
             seen == [check[p].seen EXCEPT ![l] = r]
             c == [check[p] EXCEPT !.todo = @ \ {l}, !.at = "joining", !.list = l,
                        !.added = office \ check[p].seen[l].companies, !.seen = seen]
  <2>1. r \in Rows /\ r.state = check[p].seen[l].state
    BY <1>1 DEF Typed, TypeOK, Rows
  <2>2. seen \in [Lists -> Rows] /\ \A m \in Lists : seen[m].state = check[p].seen[m].state
    <3> HIDE DEF r
    <3> QED
      BY <1>1, <2>1
  <2>3. /\ c \in CheckRecords /\ c.seen = seen /\ c.todo = check[p].todo \ {l}
        /\ c.list = l
    <3> HIDE DEF seen
    <3> QED
      BY <1>0, <2>2 DEF CheckRecords, Typed, TypeOK
  <2>4. Goes(p, c)
    BY <1>4, <1>0, <1>1 DEF Typed, TypeOK, Goes, FollowScope, CheckRecords
  <2>5. SeenBy(c) = SeenBy(check[p])
    BY <2>2, <2>3 DEF SeenBy
  <2>6. c.todo \subseteq SeenBy(c) /\ c.list \in SeenBy(c)
    <3> HIDE DEF c
    <3> QED
      BY <1>2, <2>3, <2>5
  <2>7. check' \in [Checks -> CheckRecords] /\ WorksOnSeen'
    BY <2>3, <2>4, <2>6, CheckGoes
  <2>8. row' \in [Lists -> Rows]
    <3>1. [state |-> "live", emails |-> check[p].seen[l].emails, companies |-> office,
           active |-> check[p].seen[l].active, scope |-> TRUE] \in Rows
      BY <1>1 DEF Typed, TypeOK, Rows
    <3> QED
      BY <1>4, <3>1 DEF Typed, TypeOK, FollowScope, WriteRow
  <2> QED
    BY <1>4, <2>7, <2>8 DEF Typed, TypeOK, FollowScope, histories
<1> QED
  BY <1>3, <1>4

LEMMA JoinedTypes == ASSUME Typed, NEW p \in Checks, BaselineJoined(p) PROVE Typed'
<1> DEFINE c == [check[p] EXCEPT !.at = "following", !.list = Nobody, !.added = {}]
<1>0. check[p] \in CheckRecords
  BY DEF Typed, TypeOK
<1>1. c \in CheckRecords
  BY <1>0 DEF CheckRecords, Typed, TypeOK, WorksOnSeen, Seen, OnList
<1>2. Goes(p, c)
  BY DEF Typed, TypeOK, Goes, BaselineJoined
<1>3. c.todo \subseteq SeenBy(c) /\ (c.at \in OnList => c.list \in SeenBy(c))
  BY DEF Typed, TypeOK, WorksOnSeen, Seen, SeenBy, OnList, BaselineJoined
<1>4. check' \in [Checks -> CheckRecords] /\ WorksOnSeen'
  BY <1>1, <1>2, <1>3, CheckGoes
<1> QED
  BY <1>4 DEF Typed, TypeOK, BaselineJoined, Mark, ItemsAbout, histories

LEMMA FollowedTypes == ASSUME Typed, NEW p \in Checks, Followed(p) PROVE Typed'
<1> DEFINE c == [check[p] EXCEPT !.at = "checking", !.todo = Seen(p)]
<1>0. check[p] \in CheckRecords
  BY DEF Typed, TypeOK
<1>1. c \in CheckRecords
  BY <1>0 DEF CheckRecords, Typed, TypeOK, WorksOnSeen, Seen, OnList
<1>2. Goes(p, c)
  BY DEF Typed, TypeOK, Goes, Followed
<1>3. c.todo \subseteq SeenBy(c) /\ (c.at \in OnList => c.list \in SeenBy(c))
  BY DEF Typed, TypeOK, WorksOnSeen, Seen, SeenBy, OnList, Followed
<1>4. check' \in [Checks -> CheckRecords] /\ WorksOnSeen'
  BY <1>1, <1>2, <1>3, CheckGoes
<1> QED
  BY <1>4 DEF Typed, TypeOK, Followed, store, histories

LEMMA PendingTypes == ASSUME Typed, NEW p \in Checks, NEW l \in Lists, PendingItems(p, l) PROVE Typed'
<1> DEFINE items == (known \cap ItemsAbout(check[p].seen[l].companies)) \ said[l]
           c == [check[p] EXCEPT !.todo = @ \ {l},
                    !.at = IF items = {} THEN "checking" ELSE "pending",
                    !.list = IF items = {} THEN Nobody ELSE l, !.items = items]
<1>1. check[p] \in CheckRecords /\ items \in SUBSET Items
  BY DEF Typed, TypeOK, ItemsAbout
<1>2. Goes(p, c)
  BY DEF Typed, TypeOK, Goes, PendingItems
<1> HIDE DEF items
<1>3. /\ c \in CheckRecords /\ c.seen = check[p].seen /\ c.todo = check[p].todo \ {l}
      /\ c.at \in OnList => c.list = l
  BY <1>1 DEF CheckRecords, OnList
<1> HIDE DEF c
<1>4. check[p].todo \subseteq SeenBy(c) /\ l \in SeenBy(c)
  BY <1>3 DEF Typed, WorksOnSeen, Seen, SeenBy, PendingItems
<1>5. check' \in [Checks -> CheckRecords] /\ WorksOnSeen'
  BY <1>2, <1>3, <1>4, CheckGoes
<1> QED
  BY <1>5 DEF Typed, TypeOK, PendingItems, store, histories

LEMMA RecipientsTypes == ASSUME Typed, NEW p \in Checks, Recipients(p) PROVE Typed'
<1> DEFINE l == check[p].list
           to == {a \in check[p].seen[l].emails : Agreed(l, a) /\ suppressed[a] = "none"}
           strangers == {a \in to : will[l][a] # "yes"}
           c == [check[p] EXCEPT
                    !.at = IF to = {} THEN "checking" ELSE "sending", !.to = to,
                    !.list = IF to = {} THEN Nobody ELSE l,
                    !.items = IF to = {} THEN {} ELSE @, !.strangers = strangers]
<1>1. check[p] \in CheckRecords /\ l \in SeenBy(check[p]) /\ check[p].todo \subseteq SeenBy(check[p])
  BY DEF Typed, TypeOK, WorksOnSeen, OnList, Seen, SeenBy, Recipients
<1>2. Goes(p, c)
  BY DEF Typed, TypeOK, Goes, Recipients
<1>3. check[p].seen \in [Lists -> Rows] /\ l \in Lists
  BY <1>1 DEF CheckRecords, SeenBy
<1>4. to \in SUBSET Addresses /\ strangers \in SUBSET Addresses
  BY <1>3 DEF Rows
<1>5. consent' \in [Lists -> [Addresses -> {"none", "pending", "confirmed", "unsubscribed"}]]
  BY DEF Typed, TypeOK, Recipients, Record
<1> HIDE DEF to, strangers
<1>6. /\ c \in CheckRecords /\ c.seen = check[p].seen /\ c.todo = check[p].todo
      /\ c.at \in OnList => c.list = l
  BY <1>1, <1>3, <1>4 DEF CheckRecords, OnList
<1> HIDE DEF c, l
<1>7. SeenBy(c) = SeenBy(check[p])
  BY <1>6 DEF SeenBy
<1>8. check' \in [Checks -> CheckRecords] /\ WorksOnSeen'
  BY <1>1, <1>2, <1>6, <1>7, CheckGoes
<1> QED
  BY <1>5, <1>8 DEF Typed, TypeOK, Recipients, histories

LEMMA SendTypes ==
    ASSUME Typed, NEW p \in Checks, NEW reached \in SUBSET Addresses, Send(p, reached) PROVE Typed'
<1> DEFINE c == [check[p] EXCEPT !.at = "sent", !.outcome = Outcome(reached, check[p].to)]
<1>0. check[p] \in CheckRecords
  BY DEF Typed, TypeOK
<1>1. c \in CheckRecords
  BY <1>0 DEF CheckRecords, Typed, TypeOK, WorksOnSeen, Seen, OnList, Outcome
<1>2. Goes(p, c)
  BY DEF Typed, TypeOK, Goes, Send
<1>3. c.todo \subseteq SeenBy(c) /\ (c.at \in OnList => c.list \in SeenBy(c))
  BY DEF Typed, TypeOK, WorksOnSeen, Seen, SeenBy, OnList, Send
<1>4. check' \in [Checks -> CheckRecords] /\ WorksOnSeen'
  BY <1>1, <1>2, <1>3, CheckGoes
<1>5. check[p].list \in Lists /\ check[p].strangers \in SUBSET Addresses
  BY <1>0 DEF Typed, WorksOnSeen, Seen, OnList, Send, CheckRecords
<1>6. copies' \in [Lists -> [Items -> 0..2]]
  <2> DEFINE was == copies[check[p].list]
             now == [i \in Items |->
                        IF reached # {} /\ i \in check[p].items /\ was[i] < 2
                        THEN was[i] + 1 ELSE was[i]]
  <2>1. was \in [Items -> 0..2]
    BY <1>5 DEF Typed, TypeOK
  <2>2. copies' = [copies EXCEPT ![check[p].list] = now]
    BY <1>5 DEF Typed, TypeOK, Send, Copy
  <2>3. now \in [Items -> 0..2]
    <3> HIDE DEF was
    <3> QED
      BY <2>1
  <2> QED
    BY <1>5, <2>2, <2>3 DEF Typed, TypeOK
<1>7. unasked' \in SUBSET (Lists \X Addresses)
  BY <1>5 DEF Typed, TypeOK, Send
<1> QED
  BY <1>4, <1>6, <1>7 DEF Typed, TypeOK, Send, store

LEMMA MarkTypes == ASSUME Typed, NEW p \in Checks, MarkSent(p) PROVE Typed'
  BY DEF Rows, CheckRecords, SaveRecords, ClickRecords, Typed, TypeOK, WorksOnSeen, Seen, OnList, MarkSent, Mark, NoCheck, histories

LEMMA FinishTypes == ASSUME Typed, NEW p \in Checks, Finish(p) PROVE Typed'
<1>1. Goes(p, NoCheck)
  BY DEF Goes, Finish
<1>2. NoCheck.todo = {} /\ NoCheck.at \notin OnList
  BY DEF NoCheck, OnList
<1>3. check' \in [Checks -> CheckRecords] /\ WorksOnSeen'
  BY <1>1, <1>2, NoneTypes, CheckGoes
<1> QED
  BY <1>3 DEF Typed, TypeOK, Finish, LockAfter, store, histories

LEMMA TestTypes ==
    ASSUME Typed, NEW l \in Lists, NEW reached \in SUBSET Addresses, TestSubscription(l, reached) PROVE Typed'
  BY DEF Rows, CheckRecords, SaveRecords, ClickRecords, Typed, TypeOK, WorksOnSeen, Seen, OnList, TestSubscription, Record

LEMMA CheckDiesTypes == ASSUME Typed, NEW p \in Checks, CheckDies(p) PROVE Typed'
<1>1. Goes(p, NoCheck)
  BY DEF Goes, CheckDies
<1>2. NoCheck.todo = {} /\ NoCheck.at \notin OnList
  BY DEF NoCheck, OnList
<1>3. check' \in [Checks -> CheckRecords] /\ WorksOnSeen'
  BY <1>1, <1>2, NoneTypes, CheckGoes
<1>4. check[p] \in CheckRecords
  BY DEF Typed, TypeOK
<1>5. lapsed' \in [Lists -> SUBSET Items]
  <2>1. check[p].items \in SUBSET Items /\ ItemsAbout(check[p].added) \in SUBSET Items
    BY <1>4 DEF CheckRecords, ItemsAbout
  <2> QED
    BY <2>1 DEF Typed, TypeOK, CheckDies
<1>6. deaths' \in 0..MaxDeaths
  BY BoundsAssumption DEF Typed, TypeOK, CheckDies
<1> QED
  BY <1>3, <1>5, <1>6 DEF Typed, TypeOK, CheckDies, LockAfter, store

LEMMA SaveDiesTypes == ASSUME Typed, NEW l \in Lists, SaveDies(l) PROVE Typed'
  BY BoundsAssumption DEF Rows, CheckRecords, SaveRecords, ClickRecords, Typed, TypeOK, WorksOnSeen, Seen, OnList, SaveDies, NoSave, ItemsAbout, store

LEMMA StepTypes == ASSUME Typed, [Next]_vars PROVE Typed'
<1>1. CASE UNCHANGED vars
  BY <1>1 DEF Typed, TypeOK, WorksOnSeen, Seen, vars, store, histories
<1>2. CASE \E i \in Items : Happens(i)
  BY <1>2, HappensTypes
<1>3. CASE \E c \in Companies : OfficeGrows(c)
  BY <1>3, OfficeTypes
<1>4. ASSUME NEW l \in Lists, Save(l) PROVE Typed'
  BY <1>4, SaveRowTypes, AddRecipientTypes, AskTypes, ReadPendingTypes, BaselineTypes DEF Save
<1>5. ASSUME NEW l \in Lists, Owner(l) PROVE Typed'
  BY <1>5, SaveSubscriptionTypes, FollowPortfolioTypes, DeleteTypes, TestTypes DEF Owner
<1>6. ASSUME NEW l \in Lists, SaveDies(l) PROVE Typed'
  BY <1>6, SaveDiesTypes
<1>7. ASSUME NEW l \in Lists, NEW a \in Addresses, Person(l, a) PROVE Typed'
  BY <1>7, ConfirmTypes, ClickTypes, OptedTypes DEF Person
<1>8. CASE \E a \in Addresses : ClearBounce(a)
  BY <1>8, ClearTypes
<1>9. CASE \E report \in Reports : MailReport(report)
  BY <1>9, ReportTypes
<1>10. ASSUME NEW p \in Checks, StartCheck(p) PROVE Typed'
  BY <1>10, StartTypes
<1>11. ASSUME NEW p \in Checks, Check(p) PROVE Typed'
  BY <1>11, FollowTypes, PendingTypes, JoinedTypes, FollowedTypes, RecipientsTypes,
     SendTypes, MarkTypes, FinishTypes DEF Check
<1>12. ASSUME NEW p \in Checks, CheckDies(p) PROVE Typed'
  BY <1>12, CheckDiesTypes
<1> QED
  BY <1>1, <1>2, <1>3, <1>4, <1>5, <1>6, <1>7, <1>8, <1>9, <1>10, <1>11, <1>12 DEF Next

(* Every state is well typed, and a check works on lists it has seen, for  *)
(* any saves, checks, clicks, reports and deaths at once.                  *)
THEOREM AlertTypes == Spec => []TypeOK
<1>1. Init => Typed
  BY InitTypes DEF Typed
<1>2. Typed /\ [Next]_vars => Typed'
  BY StepTypes
<1>3. Typed => TypeOK
  BY DEF Typed
<1> QED
  BY <1>1, <1>2, <1>3, PTL DEF Spec

----------------------------------------------------------------------------
(* Turns.                                                                  *)

\* Nobody starts, and no list under way is deleted.
LEMMA NobodyStarts ==
    ASSUME TakesTurns, lock' = lock,
           \A p \in Checks : check'[p].at # "idle" => check[p].at # "idle",
           \A l \in Lists : save'[l].at # "idle" => save[l].at # "idle",
           \A l \in Lists : row'[l].state = "deleted" =>
                               row[l].state = "deleted" \/ save'[l].at = "idle"
    PROVE  TakesTurns'
  BY DEF TakesTurns, Checking, Saving

LEMMA QuietTurns ==
    ASSUME TakesTurns, UNCHANGED <<row, lock, check, save>> PROVE TakesTurns'
  BY NobodyStarts

LEMMA SaveTurns == ASSUME Typed, TakesTurns, NEW l \in Lists, Save(l) PROVE TakesTurns'
<1>1. /\ lock' = lock /\ check' = check
      /\ \A m \in Lists : row'[m].state = "deleted" => row[m].state = "deleted"
      /\ \A m \in Lists : save'[m].at # "idle" => save[m].at # "idle"
  <2>1. CASE SaveRow(l)
    BY <2>1 DEF SaveRow, WriteRow, Typed, TypeOK
  <2>2. CASE \E a \in Addresses : AddRecipient(l, a)
    BY <2>2 DEF AddRecipient, histories, Typed, TypeOK
  <2>3. CASE \E a \in Addresses : AskRecipient(l, a)
    BY <2>3 DEF AskRecipient, histories, Typed, TypeOK
  <2>4. CASE ReadPending(l)
    BY <2>4 DEF ReadPending, store, histories, Typed, TypeOK
  <2>5. CASE Baseline(l)
    BY <2>5 DEF Baseline, NoSave, histories, Typed, TypeOK
  <2> QED
    BY <2>1, <2>2, <2>3, <2>4, <2>5 DEF Save
<1> QED
  BY <1>1, NobodyStarts

LEMMA OwnerTurns ==
    ASSUME ~Overlapping, Typed, TakesTurns, NEW l \in Lists, Owner(l) PROVE TakesTurns'
<1>1. ASSUME NEW body \in Bodies, SaveSubscription(l, body) PROVE TakesTurns'
  BY <1>1 DEF SaveSubscription, TakesTurns, Checking, Saving, store, histories, Typed, TypeOK
<1>2. ASSUME NEW c \in Portfolios, FollowPortfolio(l, c) PROVE TakesTurns'
  BY <1>2 DEF FollowPortfolio, TakesTurns, Checking, Saving, Live, store, histories, Typed, TypeOK
<1>3. CASE DeleteSubscription(l)
  <2>1. \A m \in Lists : row'[m].state = "deleted" =>
                               row[m].state = "deleted" \/ save'[m].at = "idle"
    BY <1>3 DEF DeleteSubscription, NoSave, Typed, TypeOK
  <2> QED
    BY <1>3, <2>1, NobodyStarts DEF DeleteSubscription
<1>4. CASE \E reached \in SUBSET Addresses : TestSubscription(l, reached)
  BY <1>4, QuietTurns DEF TestSubscription
<1> QED
  BY <1>1, <1>2, <1>3, <1>4 DEF Owner

LEMMA PersonTurns ==
    ASSUME Typed, TakesTurns, NEW l \in Lists, NEW a \in Addresses, Person(l, a)
    PROVE  TakesTurns'
<1>1. CASE ConfirmRecipient(l, a)
  BY <1>1, QuietTurns DEF ConfirmRecipient
<1>2. CASE \E out \in BOOLEAN : Click(l, a, out)
  BY <1>2, QuietTurns DEF Click, store
<1>3. CASE SetOptedOut(l, a)
  BY <1>3, NobodyStarts DEF SetOptedOut, Live, Typed, TypeOK
<1> QED
  BY <1>1, <1>2, <1>3 DEF Person

LEMMA CheckTurns == ASSUME Typed, TakesTurns, NEW p \in Checks, Check(p) PROVE TakesTurns'
<1>1. ASSUME UNCHANGED <<lock, save>>,
             \A q \in Checks : check'[q].at # "idle" => check[q].at # "idle",
             \A m \in Lists : row'[m].state = "deleted" => row[m].state = "deleted"
      PROVE  TakesTurns'
  BY <1>1, NobodyStarts
<1>2. ASSUME NEW l \in Lists, FollowScope(p, l) PROVE TakesTurns'
  <2>1. \A m \in Lists : row'[m].state = "deleted" => row[m].state = "deleted"
    <3>1. CASE UNCHANGED row
      BY <3>1
    <3>2. CASE WriteRow(l, check[p].seen[l].emails, office, check[p].seen[l].active, TRUE)
      BY <3>2 DEF WriteRow, Typed, TypeOK
    <3> QED
      BY <1>2, <3>1, <3>2 DEF FollowScope
  <2>2. check' \in [Checks -> CheckRecords]
    BY <1>2, FollowTypes DEF Typed, TypeOK
  <2>3. \A q \in Checks : check'[q].at # "idle" => check[q].at # "idle"
    <3>1. \A q \in Checks \ {p} : check'[q] = check[q]
      BY <1>2, <2>2 DEF FollowScope, Typed, TypeOK
    <3> QED
      BY <1>2, <3>1 DEF FollowScope
  <2> QED
    BY <1>1, <1>2, <2>1, <2>3 DEF FollowScope
<1>3. ASSUME NEW l \in Lists, PendingItems(p, l) PROVE TakesTurns'
  BY <1>1, <1>3 DEF PendingItems, store, Typed, TypeOK
<1>4. CASE BaselineJoined(p)
  BY <1>1, <1>4 DEF BaselineJoined, Typed, TypeOK
<1>5. CASE Followed(p)
  BY <1>1, <1>5 DEF Followed, store, Typed, TypeOK
<1>6. CASE Recipients(p)
  BY <1>1, <1>6 DEF Recipients, Typed, TypeOK
<1>7. CASE \E reached \in SUBSET Addresses : Send(p, reached)
  BY <1>1, <1>7 DEF Send, store, Typed, TypeOK
<1>8. CASE MarkSent(p)
  BY <1>1, <1>8 DEF MarkSent, Typed, TypeOK
<1>9. CASE Finish(p)
  BY <1>9 DEF Finish, LockAfter, NoCheck, TakesTurns, Checking, Saving, store, Typed, TypeOK
<1> QED
  BY <1>2, <1>3, <1>4, <1>5, <1>6, <1>7, <1>8, <1>9 DEF Check

LEMMA StartTurns ==
    ASSUME ~Overlapping, Typed, TakesTurns, NEW p \in Checks, StartCheck(p) PROVE TakesTurns'
<1>1. \A q \in Checks : check[q].at = "idle"
  BY NobodyAssumption DEF TakesTurns, StartCheck, LockFree
<1> QED
  BY <1>1 DEF StartCheck, TakesTurns, Checking, Saving, store, Typed, TypeOK

LEMMA DeathsTurns ==
    ASSUME Typed, TakesTurns,
           (\E p \in Checks : CheckDies(p)) \/ (\E l \in Lists : SaveDies(l))
    PROVE  TakesTurns'
<1>1. CASE \E p \in Checks : CheckDies(p)
  <2>1. PICK p \in Checks : CheckDies(p)
    BY <1>1
  <2>2. \A q \in Checks : check'[q].at = "idle"
    BY <2>1 DEF CheckDies, NoCheck, TakesTurns, Typed, TypeOK
  <2>3. UNCHANGED <<row, save>>
    BY <2>1 DEF CheckDies, store
  <2> QED
    BY <2>2, <2>3 DEF TakesTurns, Checking, Saving
<1>2. CASE \E l \in Lists : SaveDies(l)
  BY <1>2 DEF SaveDies, NoSave, TakesTurns, Checking, Saving, store, Typed, TypeOK
<1> QED
  BY <1>1, <1>2

LEMMA StepTurns ==
    ASSUME ~Overlapping, Typed, TakesTurns, [Next]_vars PROVE TakesTurns'
<1>1. CASE UNCHANGED vars
  BY <1>1, QuietTurns DEF vars, store
<1>2. CASE \E i \in Items : Happens(i)
  BY <1>2, QuietTurns DEF Happens
<1>3. CASE \E c \in Companies : OfficeGrows(c)
  BY <1>3, QuietTurns DEF OfficeGrows
<1>4. CASE \E a \in Addresses : ClearBounce(a)
  BY <1>4, QuietTurns DEF ClearBounce
<1>5. CASE \E report \in Reports : MailReport(report)
  BY <1>5, QuietTurns DEF MailReport
<1> QED
  BY <1>1, <1>2, <1>3, <1>4, <1>5, SaveTurns, OwnerTurns, PersonTurns, CheckTurns,
     StartTurns, DeathsTurns DEF Next

----------------------------------------------------------------------------
(* What a check has seen of a list.                                        *)

Turns == Typed /\ TakesTurns

LEMMA SeenKeeps ==
    ASSUME SeenAsIs, UNCHANGED <<row, save>>,
           \A p \in Checks : check'[p].at # "idle" =>
              check[p].at # "idle" /\ check'[p].seen = check[p].seen
    PROVE  SeenAsIs'
  BY DEF SeenAsIs, Seen, Live

LEMMA SaveSeen == ASSUME Turns, SeenAsIs, NEW l \in Lists, Save(l) PROVE SeenAsIs'
<1>1. CASE SaveRow(l)
  <2>1. \A p \in Checks : check'[p].at = "idle"
    BY <1>1 DEF Turns, TakesTurns, Saving, Checking, SaveRow
  <2>2. /\ row' \in [Lists -> Rows] /\ save' \in [Lists -> SaveRecords]
        /\ row'[l].state = "live" /\ \A m \in Lists \ {l} : row'[m] = row[m]
        /\ \A m \in Lists \ {l} : save'[m] = save[m]
    BY <1>1, SaveRowTypes DEF SaveRow, WriteRow, Turns, Typed, TypeOK
  <2>3. save'[l].at # "writing"
    BY <1>1 DEF SaveRow, Turns, Typed, TypeOK, SaveRecords
  <2> QED
    BY <2>1, <2>2, <2>3 DEF SeenAsIs
<1>2. CASE ~SaveRow(l)
  <2>1. UNCHANGED <<row, check>>
    BY <1>2 DEF Save, AddRecipient, AskRecipient, ReadPending, Baseline, store, histories
  <2>2. \A m \in Lists : save'[m].at = "writing" => save'[m] = save[m]
    <3>1. save[l] \in SaveRecords /\ save[l].at # "writing"
      BY <1>2 DEF Save, AddRecipient, AskRecipient, ReadPending, Baseline, Turns, Typed, TypeOK
    <3>2. \A m \in Lists \ {l} : save'[m] = save[m]
      BY <1>2 DEF Save, AddRecipient, AskRecipient, ReadPending, Baseline, Turns, Typed, TypeOK
    <3>3. save'[l].at # "writing"
      <4>1. CASE \E a \in Addresses : AddRecipient(l, a)
        BY <3>1, <4>1 DEF AddRecipient, SaveRecords, Turns, Typed, TypeOK
      <4>2. CASE \E a \in Addresses : AskRecipient(l, a)
        BY <3>1, <4>2 DEF AskRecipient, SaveRecords, Turns, Typed, TypeOK
      <4>3. CASE ReadPending(l)
        BY <3>1, <4>3 DEF ReadPending, SaveRecords, Turns, Typed, TypeOK
      <4>4. CASE Baseline(l)
        BY <4>4 DEF Baseline, NoSave, Turns, Typed, TypeOK
      <4> QED
        BY <1>2, <4>1, <4>2, <4>3, <4>4 DEF Save
    <3> QED
      BY <3>2, <3>3
  <2> QED
    BY <2>1, <2>2 DEF SeenAsIs, Seen, Live
<1> QED
  BY <1>1, <1>2

LEMMA OwnerSeen ==
    ASSUME ~Overlapping, Turns, SeenAsIs, NEW l \in Lists, Owner(l) PROVE SeenAsIs'
<1>1. ASSUME NEW body \in Bodies, SaveSubscription(l, body) PROVE SeenAsIs'
  <2>1. UNCHANGED <<row, check>> /\ ~Checking
    BY <1>1 DEF SaveSubscription, store
  <2>2. save'[l].added = save'[l].companies \ row[l].companies
    BY <1>1 DEF SaveSubscription, Turns, Typed, TypeOK
  <2>3. \A m \in Lists \ {l} : save'[m] = save[m]
    BY <1>1 DEF SaveSubscription, Turns, Typed, TypeOK
  <2> QED
    BY <2>1, <2>2, <2>3 DEF SeenAsIs, Checking
<1>2. ASSUME NEW c \in Portfolios, FollowPortfolio(l, c) PROVE SeenAsIs'
  <2>1. UNCHANGED <<row, check>> /\ ~Checking
    BY <1>2 DEF FollowPortfolio, store
  <2>2. save'[l].added = save'[l].companies \ row[l].companies
    BY <1>2 DEF FollowPortfolio, NoSave, Turns, Typed, TypeOK
  <2>3. \A m \in Lists \ {l} : save'[m] = save[m]
    BY <1>2 DEF FollowPortfolio, Turns, Typed, TypeOK
  <2> QED
    BY <2>1, <2>2, <2>3 DEF SeenAsIs, Checking
<1>3. CASE DeleteSubscription(l)
  <2>1. UNCHANGED <<save, check>> /\ ~Checking /\ save[l] = NoSave
    BY <1>3 DEF DeleteSubscription
  <2>2. row'[l].state = "deleted" /\ \A m \in Lists \ {l} : row'[m] = row[m]
    BY <1>3 DEF DeleteSubscription, Absent, Turns, Typed, TypeOK
  <2> QED
    BY <2>1, <2>2 DEF SeenAsIs, Checking, NoSave
<1>4. CASE \E reached \in SUBSET Addresses : TestSubscription(l, reached)
  BY <1>4, SeenKeeps DEF TestSubscription
<1> QED
  BY <1>1, <1>2, <1>3, <1>4 DEF Owner

LEMMA PersonSeen ==
    ASSUME Turns, SeenAsIs, NEW l \in Lists, NEW a \in Addresses, Person(l, a)
    PROVE  SeenAsIs'
<1>1. CASE ConfirmRecipient(l, a)
  BY <1>1, SeenKeeps DEF ConfirmRecipient
<1>2. CASE \E out \in BOOLEAN : Click(l, a, out)
  BY <1>2, SeenKeeps DEF Click, store
<1>3. CASE SetOptedOut(l, a)
  <2>1. /\ UNCHANGED <<check, save>>
        /\ \A m \in Lists : /\ row'[m].state = row[m].state
                            /\ row'[m].companies = row[m].companies
    BY <1>3 DEF SetOptedOut, Turns, Typed, TypeOK, Rows
  <2> QED
    BY <2>1 DEF SeenAsIs, Seen, Live
<1> QED
  BY <1>1, <1>2, <1>3 DEF Person

LEMMA CheckSeen == ASSUME Turns, SeenAsIs, NEW p \in Checks, Check(p) PROVE SeenAsIs'
<1> USE DEF Turns, Typed, TypeOK
<1>1. ASSUME NEW l \in Lists, FollowScope(p, l) PROVE SeenAsIs'
  <2> DEFINE seen == check[p].seen[l]
  <2>1. CASE office = seen.companies
    <3>1. \A q \in Checks : check'[q].at # "idle" =>
              check[q].at # "idle" /\ check'[q].seen = check[q].seen
      <4>1. check[p] \in CheckRecords /\ check[p].at # "idle"
        BY <1>1 DEF FollowScope
      <4>2. check' = [check EXCEPT ![p] = [check[p] EXCEPT !.todo = @ \ {l}]]
        BY <1>1, <2>1 DEF FollowScope
      <4>3. check'[p].seen = check[p].seen
        BY <4>1, <4>2 DEF CheckRecords
      <4> QED
        BY <4>1, <4>2, <4>3
    <3> QED
      BY <1>1, <2>1, <3>1, SeenKeeps DEF FollowScope
  <2>2. CASE office # seen.companies
    <3>1. check' \in [Checks -> CheckRecords] /\ row' \in [Lists -> Rows]
      BY <1>1, FollowTypes
    <3>2. /\ \A q \in Checks \ {p} : check'[q] = check[q]
          /\ \A m \in Lists \ {l} : row'[m] = row[m]
          /\ row'[l].state = "live" /\ row'[l].companies = office
      BY <1>1, <2>2 DEF FollowScope, WriteRow
    <3>3. check[p] \in CheckRecords
      OBVIOUS
    <3>4. check[p].seen \in [Lists -> Rows] /\ check[p].seen[l] \in Rows
      BY <3>3 DEF CheckRecords
    <3>5. check'[p].seen = [check[p].seen EXCEPT ![l].companies = office]
      BY <1>1, <2>2, <3>3 DEF FollowScope, CheckRecords
    <3>6. /\ \A m \in Lists \ {l} : check'[p].seen[m] = check[p].seen[m]
          /\ check'[p].seen[l].companies = office
      BY <3>4, <3>5 DEF Rows
    <3>7. \A q \in Checks \ {p} : check[q].at = "idle"
      BY <1>1 DEF TakesTurns, FollowScope
    <3>8. \A m \in Lists : save'[m].at = "idle"
      BY <1>1 DEF TakesTurns, FollowScope, Saving, Checking
    <3>9. check[p].at # "idle"
      BY <1>1 DEF FollowScope
    <3>10. \A m \in Lists \ {l} : check'[p].seen[m].state = "live" =>
              row'[m].state = "live" /\ check'[p].seen[m].companies = row'[m].companies
      <4> SUFFICES ASSUME NEW m \in Lists \ {l}, check'[p].seen[m].state = "live"
                   PROVE  row'[m].state = "live"
                          /\ check'[p].seen[m].companies = row'[m].companies
        OBVIOUS
      <4>1. m \in Seen(p)
        BY <3>6 DEF Seen
      <4>2. Live(m) /\ check[p].seen[m].companies = row[m].companies
        BY <3>9, <4>1 DEF SeenAsIs
      <4> QED
        BY <3>2, <3>6, <4>2 DEF Live
    <3>11. \A q \in Checks : check'[q].at # "idle" =>
              \A m \in Lists : check'[q].seen[m].state = "live" =>
                 row'[m].state = "live" /\ check'[q].seen[m].companies = row'[m].companies
      <4>1. \A q \in Checks \ {p} : check'[q].at = "idle"
        BY <3>2, <3>7
      <4>2. \A m \in Lists : check'[p].seen[m].state = "live" =>
                 row'[m].state = "live" /\ check'[p].seen[m].companies = row'[m].companies
        BY <3>2, <3>6, <3>10
      <4> QED
        BY <4>1, <4>2
    <3>12. \A m \in Lists : row'[m].state = "new" => row'[m].companies = {}
      BY <3>2 DEF SeenAsIs
    <3> QED
      BY <3>8, <3>11, <3>12 DEF SeenAsIs, Seen, Live
  <2> QED
    BY <2>1, <2>2
<1>2. ASSUME UNCHANGED <<row, save>>,
             \A q \in Checks \ {p} : check'[q] = check[q],
             check[p].at # "idle",
             check'[p].seen = check[p].seen \/ check'[p].at = "idle"
      PROVE  SeenAsIs'
  BY <1>2, SeenKeeps
<1>3. ASSUME NEW l \in Lists, PendingItems(p, l) PROVE SeenAsIs'
  <2>1. check[p] \in CheckRecords /\ check[p].at # "idle"
    BY <1>3 DEF PendingItems
  <2>2. check'[p].seen = check[p].seen
    BY <2>1, <1>3 DEF PendingItems, CheckRecords
  <2>3. UNCHANGED <<row, save>> /\ \A q \in Checks \ {p} : check'[q] = check[q]
    BY <1>3 DEF PendingItems, store
  <2> QED
    BY <1>2, <2>1, <2>2, <2>3
<1>4. CASE BaselineJoined(p)
  BY <1>2, <1>4 DEF BaselineJoined
<1>5. CASE Followed(p)
  BY <1>2, <1>5 DEF Followed, store
<1>6. CASE Recipients(p)
  <2>1. check[p] \in CheckRecords /\ check[p].at # "idle"
    BY <1>6 DEF Recipients
  <2>2. check'[p].seen = check[p].seen
    BY <2>1, <1>6 DEF Recipients, CheckRecords
  <2>3. UNCHANGED <<row, save>> /\ \A q \in Checks \ {p} : check'[q] = check[q]
    BY <1>6 DEF Recipients
  <2> QED
    BY <1>2, <2>1, <2>2, <2>3
<1>7. CASE \E reached \in SUBSET Addresses : Send(p, reached)
  BY <1>2, <1>7 DEF Send, store
<1>8. CASE MarkSent(p)
  BY <1>2, <1>8 DEF MarkSent, NoCheck
<1>9. CASE Finish(p)
  BY <1>2, <1>9 DEF Finish, NoCheck, store
<1> QED
  BY <1>1, <1>3, <1>4, <1>5, <1>6, <1>7, <1>8, <1>9 DEF Check

LEMMA StartSeen ==
    ASSUME ~Overlapping, Turns, SeenAsIs, NEW p \in Checks, StartCheck(p) PROVE SeenAsIs'
<1> USE DEF Turns, Typed, TypeOK
<1>1. UNCHANGED <<row, save>> /\ \A q \in Checks \ {p} : check'[q] = check[q]
  BY DEF StartCheck, store
<1>2. check'[p].seen = [l \in Lists |-> IF Live(l) /\ row[l].active THEN row[l] ELSE Absent]
  BY DEF StartCheck, NoCheck
<1>3. \A l \in Lists : check'[p].seen[l].state = "live" => Live(l) /\ check'[p].seen[l] = row[l]
  BY <1>2 DEF Absent
<1>4. ASSUME NEW q \in Checks, check'[q].at # "idle",
             NEW l \in Lists, check'[q].seen[l].state = "live"
      PROVE  row[l].state = "live" /\ check'[q].seen[l].companies = row[l].companies
  <2>1. CASE q = p
    BY <1>3, <1>4, <2>1 DEF Live
  <2>2. CASE q # p
    <3>1. check'[q] = check[q]
      BY <1>1, <2>2
    <3> QED
      BY <1>4, <3>1 DEF SeenAsIs, Seen, Live
  <2> QED
    BY <2>1, <2>2
<1> QED
  BY <1>1, <1>4 DEF SeenAsIs, Seen, Live

LEMMA StepSeen ==
    ASSUME ~Overlapping, Turns, SeenAsIs, [Next]_vars PROVE SeenAsIs'
<1>1. CASE UNCHANGED vars
  BY <1>1, SeenKeeps DEF vars, store
<1>2. CASE \E i \in Items : Happens(i)
  BY <1>2, SeenKeeps DEF Happens
<1>3. CASE \E c \in Companies : OfficeGrows(c)
  BY <1>3, SeenKeeps DEF OfficeGrows
<1>4. CASE \E a \in Addresses : ClearBounce(a)
  BY <1>4, SeenKeeps DEF ClearBounce
<1>5. CASE \E report \in Reports : MailReport(report)
  BY <1>5, SeenKeeps DEF MailReport
<1>6. ASSUME NEW p \in Checks, CheckDies(p) PROVE SeenAsIs'
  BY <1>6, SeenKeeps DEF CheckDies, NoCheck, store, Turns, Typed, TypeOK
<1>7. ASSUME NEW l \in Lists, SaveDies(l) PROVE SeenAsIs'
  <2>1. UNCHANGED <<row, check>> /\ \A m \in Lists : save'[m].at = "writing" => save'[m] = save[m]
    BY <1>7 DEF SaveDies, NoSave, store, Turns, Typed, TypeOK
  <2> QED
    BY <2>1 DEF SeenAsIs, Seen, Live
<1> QED
  BY <1>1, <1>2, <1>3, <1>4, <1>5, <1>6, <1>7, SaveSeen, OwnerSeen, PersonSeen, CheckSeen,
     StartSeen DEF Next

----------------------------------------------------------------------------
(* Consent.                                                                *)

LEMMA ListKeeps ==
    ASSUME NEW l \in Lists, SaidSo(l) /\ OnRecord(l), row'[l] = row[l],
           consent'[l] = consent[l], will'[l] = will[l], save'[l] = save[l],
           click'[l] = click[l]
    PROVE  (SaidSo(l) /\ OnRecord(l))'
  BY DEF SaidSo, OnRecord, Unrecorded, BeingRecorded

\* A step that changes one list.
Elsewhere(l) ==
    \A m \in Lists \ {l} : /\ row'[m] = row[m] /\ consent'[m] = consent[m]
                           /\ will'[m] = will[m] /\ save'[m] = save[m]
                           /\ click'[m] = click[m]

LEMMA OneList ==
    ASSUME Consented, NEW l \in Lists, Elsewhere(l), SaidSo(l)', OnRecord(l)', NoStrangers'
    PROVE  Consented'
<1>1. \A m \in Lists \ {l} : SaidSo(m)' /\ OnRecord(m)'
  BY ListKeeps DEF Consented, Elsewhere
<1> QED
  BY <1>1 DEF Consented

\* Nobody is written to, and no record is lost while a check is under way.
LEMMA StrangersKeep ==
    ASSUME NoStrangers, unasked' = unasked,
           \A p \in Checks : check'[p].strangers = {},
           \A p \in Checks : check'[p].at # "idle" =>
              /\ check[p].at # "idle"
              /\ \A l \in Lists : /\ check'[p].seen[l].state = check[p].seen[l].state
                                  /\ check'[p].seen[l].emails = check[p].seen[l].emails
              /\ \A l \in Lists : Unrecorded(l)' \subseteq Unrecorded(l)
    PROVE  NoStrangers'
<1>1. ASSUME NEW p \in Checks, check'[p].at # "idle",
             NEW l \in Lists, check'[p].seen[l].state = "live"
      PROVE  check'[p].seen[l].emails \cap Unrecorded(l)' = {}
  <2>1. l \in Seen(p)
    BY <1>1 DEF Seen
  <2>2. check[p].seen[l].emails \cap Unrecorded(l) = {}
    BY <1>1, <2>1 DEF NoStrangers
  <2>3. /\ Unrecorded(l)' \subseteq Unrecorded(l)
        /\ check'[p].seen[l].emails = check[p].seen[l].emails
    BY <1>1
  <2> QED
    BY <2>2, <2>3
<1> QED
  BY <1>1 DEF NoStrangers, Seen

LEMMA CheckStrangers ==
    ASSUME NoStrangers, UNCHANGED <<check, consent, unasked>>
    PROVE  NoStrangers'
  BY DEF NoStrangers, Seen, Unrecorded

LEMMA QuietConsent ==
    ASSUME Consented, UNCHANGED <<row, consent, will, save, click, check, unasked>>
    PROVE  Consented'
  BY ListKeeps, CheckStrangers DEF Consented

LEMMA SaveSubscriptionConsent ==
    ASSUME Turns, Consented, NEW l \in Lists, NEW body \in Bodies, SaveSubscription(l, body)
    PROVE  Consented'
<1>1. /\ UNCHANGED <<row, consent, will, click, check, unasked>> /\ Elsewhere(l)
      /\ save[l].at = "idle"
  BY DEF SaveSubscription, Elsewhere, store, histories, Turns, Typed, TypeOK
<1>2. /\ save'[l].at = "writing" /\ save'[l].asks = TRUE
      /\ save'[l].had = IF Live(l) THEN row[l].emails ELSE {}
  BY DEF SaveSubscription, Turns, Typed, TypeOK
<1>3. SaidSo(l)' /\ OnRecord(l)'
  BY <1>1, <1>2 DEF Consented, SaidSo, OnRecord, Unrecorded, BeingRecorded
<1> QED
  BY <1>1, <1>3, OneList, CheckStrangers DEF Consented

LEMMA FollowPortfolioConsent ==
    ASSUME Turns, Consented, NEW l \in Lists, NEW c \in Portfolios, FollowPortfolio(l, c)
    PROVE  Consented'
<1>1. /\ UNCHANGED <<row, consent, will, click, check, unasked>> /\ Elsewhere(l)
      /\ save[l].at = "idle"
  BY DEF FollowPortfolio, Elsewhere, store, histories, Turns, Typed, TypeOK
<1>2. /\ save'[l].at = "writing" /\ save'[l].had = row[l].emails
      /\ save'[l].emails = row[l].emails
  BY DEF FollowPortfolio, NoSave, Turns, Typed, TypeOK
<1>3. SaidSo(l)' /\ OnRecord(l)'
  BY <1>1, <1>2 DEF Consented, SaidSo, OnRecord, Unrecorded, BeingRecorded
<1> QED
  BY <1>1, <1>3, OneList, CheckStrangers DEF Consented

LEMMA SaveRowConsent ==
    ASSUME Turns, Consented, NEW l \in Lists, SaveRow(l) PROVE Consented'
<1> DEFINE s == save[l]
           fresh == s.emails \ s.had
<1>1. /\ UNCHANGED <<consent, click, check, unasked>> /\ s.at = "writing"
      /\ s \in SaveRecords /\ row[l].state # "deleted"
  BY DEF SaveRow, Turns, Typed, TypeOK, TakesTurns
<1>2. Elsewhere(l)
  BY DEF SaveRow, WriteRow, Elsewhere, Turns, Typed, TypeOK
<1>3. /\ save'[l].at = IF s.asks THEN "recording" ELSE "baselining"
      /\ save'[l].todo = IF s.asks THEN fresh ELSE {}
      /\ save'[l].vouched = s.vouched
  BY <1>1 DEF SaveRow, SaveRecords, Turns, Typed, TypeOK
<1>4. row'[l].emails = s.emails /\ row'[l].state = "live"
  BY DEF SaveRow, WriteRow, Turns, Typed, TypeOK
<1>5. \A a \in Addresses :
         will'[l][a] = IF a \in fresh \cap s.vouched /\ will[l][a] = "no"
                       THEN "yes" ELSE will[l][a]
  BY DEF SaveRow, Turns, Typed, TypeOK
<1>6. \A a \in Addresses : will[l][a] \in {"no", "yes", "left"}
  BY DEF Turns, Typed, TypeOK
<1> HIDE DEF s, fresh
<1>7. SaidSo(l)'
  BY <1>1, <1>5, <1>6 DEF Consented, SaidSo
<1>8. ASSUME NEW a \in Addresses, a \in Unrecorded(l) PROVE will[l][a] # "left"
  BY <1>1, <1>8 DEF Consented, SaidSo, Unrecorded
<1>9. /\ s.had \cap Unrecorded(l) = {} /\ click[l].emails \cap Unrecorded(l) = {}
      /\ ~s.asks => s.emails = s.had
      /\ click[l].who # Nobody => click[l].who \notin Unrecorded(l)
  BY <1>1 DEF Consented, OnRecord, BeingRecorded, s
<1>10. Unrecorded(l)' = Unrecorded(l) /\ Unrecorded(l) \subseteq Addresses
  BY <1>1 DEF Unrecorded
<1>11. s.emails \cap Unrecorded(l) \subseteq (IF s.asks THEN fresh ELSE {})
  BY <1>9 DEF fresh
<1>12. BeingRecorded(l)' = IF s.asks THEN fresh ELSE {}
  BY <1>3 DEF BeingRecorded
<1>13. \A a \in fresh \cap s.vouched : a \in Unrecorded(l) => will'[l][a] = "yes"
  BY <1>5, <1>6, <1>8, <1>10
<1>14. save'[l].at # "writing"
  BY <1>3
<1>15. OnRecord(l)'
  BY <1>1, <1>3, <1>4, <1>9, <1>10, <1>11, <1>12, <1>13, <1>14 DEF OnRecord
<1> QED
  BY <1>1, <1>2, <1>7, <1>15, OneList, CheckStrangers DEF Consented

LEMMA AddRecipientConsent ==
    ASSUME Turns, Consented, NEW l \in Lists, NEW a \in Addresses, AddRecipient(l, a)
    PROVE  Consented'
<1>1. /\ UNCHANGED <<row, click, check, will, unasked>> /\ save[l].at = "recording"
      /\ save[l] \in SaveRecords /\ a \in save[l].todo /\ row[l].state # "deleted"
  BY DEF AddRecipient, histories, Turns, Typed, TypeOK, TakesTurns
<1>2. Elsewhere(l)
  BY DEF AddRecipient, Record, Elsewhere, histories, Turns, Typed, TypeOK
<1>3. /\ save'[l].at = "recording" /\ save'[l].todo = save[l].todo \ {a}
      /\ save'[l].vouched = save[l].vouched
  BY <1>1 DEF AddRecipient, SaveRecords, Turns, Typed, TypeOK
<1>4. \A b \in Addresses :
         consent'[l][b] = IF b = a /\ consent[l][b] = "none"
                          THEN IF a \in save[l].vouched THEN "confirmed" ELSE "pending"
                          ELSE consent[l][b]
  BY DEF AddRecipient, Record, Turns, Typed, TypeOK
<1>5. Unrecorded(l)' = Unrecorded(l) \ {a}
  BY <1>4 DEF Unrecorded
<1>6. SaidSo(l)'
  BY <1>1, <1>4 DEF Consented, SaidSo, OnRecord, BeingRecorded, Unrecorded
<1>7. OnRecord(l)'
  BY <1>1, <1>3, <1>5 DEF Consented, OnRecord, BeingRecorded
<1>8. NoStrangers'
  <2>1. \A m \in Lists : Unrecorded(m)' \subseteq Unrecorded(m)
    BY <1>2, <1>5 DEF Elsewhere, Unrecorded
  <2> QED
    BY <1>1, <2>1, StrangersKeep DEF Consented, NoStrangers
<1> QED
  BY <1>2, <1>6, <1>7, <1>8, OneList

LEMMA LaterSaveConsent ==
    ASSUME Turns, Consented, NEW l \in Lists,
           ReadPending(l) \/ (\E a \in Addresses : AskRecipient(l, a)) \/ Baseline(l)
    PROVE  Consented'
<1>1. UNCHANGED <<row, consent, click, check, will, unasked>> /\ save[l] \in SaveRecords
  BY DEF ReadPending, AskRecipient, Baseline, store, histories, Turns, Typed, TypeOK
<1>2. Elsewhere(l)
  <2>1. \A m \in Lists \ {l} : save'[m] = save[m]
    BY DEF ReadPending, AskRecipient, Baseline, Turns, Typed, TypeOK
  <2> QED
    BY <1>1, <2>1 DEF Elsewhere
<1>3. save'[l].at \notin {"writing", "recording"} /\ BeingRecorded(l) = {}
  <2>1. CASE ReadPending(l)
    BY <1>1, <2>1 DEF ReadPending, BeingRecorded, SaveRecords, Turns, Typed, TypeOK
  <2>2. CASE \E a \in Addresses : AskRecipient(l, a)
    BY <1>1, <2>2 DEF AskRecipient, BeingRecorded, SaveRecords, Turns, Typed, TypeOK
  <2>3. CASE Baseline(l)
    BY <2>3 DEF Baseline, BeingRecorded, NoSave, Turns, Typed, TypeOK
  <2> QED
    BY <2>1, <2>2, <2>3
<1>4. SaidSo(l)' /\ OnRecord(l)'
  BY <1>1, <1>3 DEF Consented, SaidSo, OnRecord, BeingRecorded, Unrecorded
<1> QED
  BY <1>1, <1>2, <1>4, OneList, CheckStrangers DEF Consented

LEMMA DeleteConsent ==
    ASSUME ~Overlapping, Turns, Consented, NEW l \in Lists, DeleteSubscription(l)
    PROVE  Consented'
<1>1. /\ UNCHANGED <<save, click, check, will, unasked>> /\ save[l].at = "idle"
      /\ click[l].who = Nobody /\ click[l].emails = {} /\ ~Checking
  BY DEF DeleteSubscription, NoSave, NoClick, histories
<1>2. Elsewhere(l)
  BY DEF DeleteSubscription, Elsewhere, histories, Turns, Typed, TypeOK
<1>3. /\ row'[l].state = "deleted" /\ row'[l].emails = {}
      /\ \A a \in Addresses : consent'[l][a] = "none"
  BY DEF DeleteSubscription, Absent, Turns, Typed, TypeOK
<1>4. SaidSo(l)' /\ OnRecord(l)'
  BY <1>1, <1>3 DEF SaidSo, OnRecord, BeingRecorded
<1>5. NoStrangers'
  BY <1>1 DEF Consented, NoStrangers, Checking
<1> QED
  BY <1>2, <1>4, <1>5, OneList

\* Who is on record stays as recorded.
LEMMA RecordKeeps ==
    ASSUME Turns, NEW l \in Lists, NEW found, found \cap Unrecorded(l) = {},
           consent' = Record(l, found, "confirmed")
    PROVE  consent' = consent
  BY DEF Record, Unrecorded, Turns, Typed, TypeOK

LEMMA TestConsent ==
    ASSUME ~Overlapping, Turns, Consented, NEW l \in Lists,
           NEW reached \in SUBSET Addresses, TestSubscription(l, reached)
    PROVE  Consented'
<1>1. row[l].emails \cap Unrecorded(l) = {}
  BY DEF TestSubscription, Consented, OnRecord, BeingRecorded
<1>2. consent' = consent
  BY <1>1, RecordKeeps DEF TestSubscription
<1>3. \A a \in reached : will[l][a] = "yes"
  BY <1>1 DEF TestSubscription, Agreed, Unrecorded, Consented, SaidSo
<1>4. unasked' = unasked
  BY <1>3 DEF TestSubscription
<1> QED
  BY <1>2, <1>4, QuietConsent DEF TestSubscription

LEMMA ConfirmConsent ==
    ASSUME Turns, Consented, NEW l \in Lists, NEW a \in Addresses, ConfirmRecipient(l, a)
    PROVE  Consented'
<1>1. UNCHANGED <<row, save, click, check, unasked>> /\ Elsewhere(l)
  BY DEF ConfirmRecipient, Elsewhere, Turns, Typed, TypeOK
<1>2. /\ \A b \in Addresses : consent'[l][b] = IF b = a THEN "confirmed" ELSE consent[l][b]
      /\ \A b \in Addresses : will'[l][b] = IF b = a THEN "yes" ELSE will[l][b]
      /\ consent[l][a] = "pending"
  BY DEF ConfirmRecipient, Turns, Typed, TypeOK
<1>3. Unrecorded(l)' = Unrecorded(l) /\ a \notin Unrecorded(l)
  BY <1>2 DEF Unrecorded
<1>4. SaidSo(l)'
  BY <1>1, <1>2 DEF Consented, SaidSo
<1>5. \A b \in Unrecorded(l) : will'[l][b] = will[l][b]
  BY <1>2, <1>3 DEF Unrecorded
<1>6. OnRecord(l)'
  BY <1>1, <1>3, <1>5 DEF Consented, OnRecord, BeingRecorded
<1>7. NoStrangers'
  <2>1. \A m \in Lists : Unrecorded(m)' \subseteq Unrecorded(m)
    BY <1>1, <1>3 DEF Elsewhere, Unrecorded
  <2> QED
    BY <1>1, <2>1, StrangersKeep DEF Consented, NoStrangers
<1> QED
  BY <1>1, <1>4, <1>6, <1>7, OneList

LEMMA ClickConsent ==
    ASSUME Turns, Consented, NEW l \in Lists, NEW a \in Addresses, NEW out \in BOOLEAN,
           Click(l, a, out)
    PROVE  Consented'
<1>1. /\ UNCHANGED <<row, consent, will, save, check, unasked>> /\ Elsewhere(l)
      /\ click'[l].who = a /\ click'[l].emails = row[l].emails /\ consent[l][a] # "none"
  BY DEF Click, Elsewhere, store, histories, Turns, Typed, TypeOK
<1>2. SaidSo(l)' /\ OnRecord(l)'
  BY <1>1 DEF Consented, SaidSo, OnRecord, BeingRecorded, Unrecorded
<1> QED
  BY <1>1, <1>2, OneList, CheckStrangers DEF Consented

LEMMA OptedConsent ==
    ASSUME Turns, Consented, NEW l \in Lists, NEW a \in Addresses, SetOptedOut(l, a)
    PROVE  Consented'
<1>1. UNCHANGED <<save, check, unasked>>
  BY DEF SetOptedOut
<1>2. Elsewhere(l)
  BY DEF SetOptedOut, Elsewhere, Turns, Typed, TypeOK
<1>3. a \notin Unrecorded(l) /\ consent[l][a] # "none"
  BY NobodyAssumption DEF SetOptedOut, Consented, OnRecord, Unrecorded
<1>4. \A b \in Addresses :
         consent'[l][b] = IF b = a THEN IF click[l].out THEN "unsubscribed" ELSE "confirmed"
                          ELSE consent[l][b]
  BY <1>3 DEF SetOptedOut, Turns, Typed, TypeOK
<1>5. \A b \in Addresses :
         will'[l][b] = IF b = a THEN IF click[l].out THEN "left" ELSE "yes" ELSE will[l][b]
  BY DEF SetOptedOut, Turns, Typed, TypeOK
<1>6. row'[l].state = row[l].state
  BY DEF SetOptedOut, Turns, Typed, TypeOK, Rows
<1>7. row'[l].emails \subseteq row[l].emails \cup click[l].emails \cup {a}
  BY DEF SetOptedOut, EmailsAfter, Turns, Typed, TypeOK, Rows
<1>8. click'[l].who = Nobody /\ click'[l].emails = {}
  BY DEF SetOptedOut, NoClick, Turns, Typed, TypeOK
<1>9. Unrecorded(l)' = Unrecorded(l)
  BY <1>3, <1>4 DEF Unrecorded
<1>10. SaidSo(l)'
  BY <1>4, <1>5, <1>6 DEF Consented, SaidSo
<1>11. \A b \in Unrecorded(l) : will'[l][b] = will[l][b]
  BY <1>3, <1>5 DEF Unrecorded
<1>12. OnRecord(l)'
  BY <1>1, <1>3, <1>7, <1>8, <1>9, <1>11 DEF Consented, OnRecord, BeingRecorded
<1>13. NoStrangers'
  <2>1. \A m \in Lists : Unrecorded(m)' \subseteq Unrecorded(m)
    BY <1>2, <1>9 DEF Elsewhere, Unrecorded
  <2> QED
    BY <1>1, <2>1, StrangersKeep DEF Consented, NoStrangers
<1> QED
  BY <1>2, <1>10, <1>12, <1>13, OneList

LEMMA SaveDiesConsent ==
    ASSUME ~Overlapping, Turns, Consented, NEW l \in Lists, SaveDies(l) PROVE Consented'
<1>1. /\ UNCHANGED <<row, consent, will, click, check, unasked>> /\ Elsewhere(l)
      /\ save[l].at \in {"asking", "baselining"} /\ save'[l].at = "idle"
  BY DEF SaveDies, NoSave, Elsewhere, store, Turns, Typed, TypeOK
<1>2. SaidSo(l)' /\ OnRecord(l)'
  BY <1>1 DEF Consented, SaidSo, OnRecord, BeingRecorded, Unrecorded
<1> QED
  BY <1>1, <1>2, OneList, CheckStrangers DEF Consented

\* A check goes on with what it has seen, or ends.
LEMMA GoesOnConsent ==
    ASSUME Consented, NEW p \in Checks, UNCHANGED <<row, consent, will, save, click, unasked>>,
           \A q \in Checks \ {p} : check'[q] = check[q],
           check'[p].strangers = {},
           check'[p].at = "idle" \/ (check[p].at # "idle" /\ check'[p].seen = check[p].seen)
    PROVE  Consented'
<1>1. \A l \in Lists : SaidSo(l)' /\ OnRecord(l)'
  BY ListKeeps DEF Consented
<1>2. \A l \in Lists : Unrecorded(l)' = Unrecorded(l)
  BY DEF Unrecorded
<1>3. NoStrangers'
  BY <1>2, StrangersKeep DEF Consented, NoStrangers
<1> QED
  BY <1>1, <1>3 DEF Consented

LEMMA StartConsent ==
    ASSUME ~Overlapping, Turns, Consented, NEW p \in Checks, StartCheck(p)
    PROVE  Consented'
<1>1. UNCHANGED <<row, consent, will, save, click, unasked>>
      /\ \A q \in Checks \ {p} : check'[q] = check[q]
  BY DEF StartCheck, store, histories, Turns, Typed, TypeOK
<1>2. /\ check'[p].strangers = {}
      /\ check'[p].seen = [l \in Lists |-> IF Live(l) /\ row[l].active THEN row[l] ELSE Absent]
  BY DEF StartCheck, NoCheck, Turns, Typed, TypeOK
<1>3. \A l \in Lists : row[l].emails \cap Unrecorded(l) = {}
  BY DEF StartCheck, Saving, Consented, OnRecord, BeingRecorded
<1>4. \A l \in Lists : SaidSo(l)' /\ OnRecord(l)'
  BY <1>1, ListKeeps DEF Consented
<1>5. \A l \in Lists : Unrecorded(l)' = Unrecorded(l)
  BY <1>1 DEF Unrecorded
<1>6. \A l \in Lists : check'[p].seen[l].emails \cap Unrecorded(l) = {}
  BY <1>2, <1>3 DEF Absent
<1>7. ASSUME NEW q \in Checks, check'[q].at # "idle",
             NEW l \in Lists, check'[q].seen[l].state = "live"
      PROVE  check'[q].seen[l].emails \cap Unrecorded(l)' = {}
  <2>1. CASE q = p
    BY <1>5, <1>6, <2>1
  <2>2. CASE q # p
    BY <1>1, <1>5, <1>7, <2>2 DEF Consented, NoStrangers, Seen
  <2> QED
    BY <2>1, <2>2
<1>8. NoStrangers'
  BY <1>1, <1>2, <1>7 DEF Consented, NoStrangers, Seen
<1> QED
  BY <1>4, <1>8 DEF Consented

LEMMA FollowConsent ==
    ASSUME Turns, SeenAsIs, Consented, NEW p \in Checks, NEW l \in Lists, FollowScope(p, l)
    PROVE  Consented'
<1>1. /\ check[p] \in CheckRecords /\ check[p].at = "following" /\ l \in Seen(p)
      /\ UNCHANGED <<consent, will, save, click, unasked>>
      /\ \A q \in Checks \ {p} : check'[q] = check[q]
  BY DEF FollowScope, WorksOnSeen, histories, Turns, Typed, TypeOK
<1>2. check[p].seen \in [Lists -> Rows] /\ check[p].seen[l] \in Rows /\ check[p].strangers = {}
  BY <1>1 DEF CheckRecords, Consented, NoStrangers
<1>3. CASE office = check[p].seen[l].companies
  <2>1. check' = [check EXCEPT ![p] = [check[p] EXCEPT !.todo = @ \ {l}]] /\ row' = row
    BY <1>3 DEF FollowScope, Turns, Typed, TypeOK
  <2>2. check'[p].seen = check[p].seen /\ check'[p].strangers = {}
    BY <1>1, <1>2, <2>1 DEF CheckRecords, Turns, Typed, TypeOK
  <2> QED
    BY <1>1, <2>1, <2>2, GoesOnConsent
<1>4. CASE office # check[p].seen[l].companies
  <2>1. /\ row'[l].emails = check[p].seen[l].emails /\ row'[l].state = "live"
        /\ \A m \in Lists \ {l} : row'[m] = row[m]
    BY <1>4 DEF FollowScope, WriteRow, Turns, Typed, TypeOK
  <2>2. /\ check'[p].strangers = {}
        /\ check'[p].seen = [check[p].seen EXCEPT ![l].companies = office]
    <3>1. check'[p].seen = [check[p].seen EXCEPT ![l].companies = office]
      BY <1>1, <1>4 DEF FollowScope, CheckRecords, Turns, Typed, TypeOK
    <3>2. check'[p].strangers = check[p].strangers
      BY <1>1, <1>4 DEF FollowScope, CheckRecords, Turns, Typed, TypeOK
    <3> QED
      BY <1>2, <3>1, <3>2
  <2>3. \A m \in Lists : /\ check'[p].seen[m].state = check[p].seen[m].state
                         /\ check'[p].seen[m].emails = check[p].seen[m].emails
    <3>1. ASSUME NEW m \in Lists, m # l PROVE check'[p].seen[m] = check[p].seen[m]
      BY <1>2, <2>2, <3>1
    <3>2. check'[p].seen[l] = [check[p].seen[l] EXCEPT !.companies = office]
      BY <1>2, <2>2
    <3>3. /\ check'[p].seen[l].state = check[p].seen[l].state
            /\ check'[p].seen[l].emails = check[p].seen[l].emails
      BY <1>2, <3>2 DEF Rows
    <3> QED
      BY <3>1, <3>3
  <2>4. Unrecorded(l)' = Unrecorded(l) /\ BeingRecorded(l)' = BeingRecorded(l)
    BY <1>1 DEF Unrecorded, BeingRecorded
  <2>5. Live(l)
    BY <1>1 DEF SeenAsIs
  <2>6. row'[l].emails \cap Unrecorded(l) = {}
    BY <1>1, <2>1 DEF Consented, NoStrangers
  <2>7. SaidSo(l)'
    BY <1>1, <2>5 DEF Consented, SaidSo, Live
  <2>8. OnRecord(l)'
    BY <1>1, <2>4, <2>6 DEF Consented, OnRecord
  <2>9. Elsewhere(l)
    BY <1>1, <2>1 DEF Elsewhere
  <2>10. NoStrangers'
    <3>1. \A m \in Lists : Unrecorded(m)' = Unrecorded(m)
      BY <1>1 DEF Unrecorded
    <3> QED
      BY <1>1, <2>2, <2>3, <3>1, StrangersKeep DEF Consented, NoStrangers
  <2> QED
    BY <2>7, <2>8, <2>9, <2>10, OneList
<1> QED
  BY <1>3, <1>4

\* Nobody but whoever said so is among those a check writes to.
LEMMA RecipientsConsent ==
    ASSUME Turns, Consented, NEW p \in Checks, Recipients(p)
    PROVE  Consented'
<1> DEFINE l == check[p].list
           to == {a \in check[p].seen[l].emails : Agreed(l, a) /\ suppressed[a] = "none"}
<1>1. /\ check[p] \in CheckRecords /\ check[p].at # "idle" /\ l \in Seen(p) /\ l \in Lists
      /\ UNCHANGED <<row, will, save, click, unasked>>
      /\ \A q \in Checks \ {p} : check'[q] = check[q]
  BY DEF Recipients, WorksOnSeen, OnList, Seen, histories, Turns, Typed, TypeOK
<1>2. check[p].seen[l].emails \cap Unrecorded(l) = {} /\ check[p].seen[l].emails \subseteq Addresses
  BY <1>1 DEF Consented, NoStrangers, CheckRecords, Rows
<1>3. consent' = consent
  BY <1>1, <1>2, RecordKeeps DEF Recipients
<1>4. \A a \in to : will[l][a] = "yes"
  BY <1>1, <1>2 DEF Agreed, Unrecorded, Consented, SaidSo
<1>5. check'[p].strangers = {a \in to : will[l][a] # "yes"} /\ check'[p].seen = check[p].seen
  BY <1>1 DEF Recipients, CheckRecords, Turns, Typed, TypeOK
<1>6. check'[p].strangers = {}
  BY <1>4, <1>5
<1> QED
  BY <1>1, <1>3, <1>5, <1>6, GoesOnConsent

LEMMA CheckConsent ==
    ASSUME Turns, SeenAsIs, Consented, NEW p \in Checks, Check(p) PROVE Consented'
<1>1. check[p] \in CheckRecords /\ check[p].strangers = {}
  BY DEF Turns, Typed, TypeOK, Consented, NoStrangers
<1>2. ASSUME NEW l \in Lists, PendingItems(p, l) PROVE Consented'
  <2>1. check'[p].strangers = {} /\ check'[p].seen = check[p].seen
    BY <1>1, <1>2 DEF PendingItems, CheckRecords, Turns, Typed, TypeOK
  <2> QED
    BY <1>2, <2>1, GoesOnConsent DEF PendingItems, store, histories, Turns, Typed, TypeOK
<1>3. CASE BaselineJoined(p)
  <2>1. check'[p].strangers = {} /\ check'[p].seen = check[p].seen
    BY <1>1, <1>3 DEF BaselineJoined, CheckRecords, Turns, Typed, TypeOK
  <2> QED
    BY <1>3, <2>1, GoesOnConsent DEF BaselineJoined, histories, Turns, Typed, TypeOK
<1>4. CASE Followed(p)
  <2>1. check'[p].strangers = {} /\ check'[p].seen = check[p].seen
    BY <1>1, <1>4 DEF Followed, CheckRecords, Turns, Typed, TypeOK
  <2> QED
    BY <1>4, <2>1, GoesOnConsent DEF Followed, store, histories, Turns, Typed, TypeOK
<1>5. ASSUME NEW reached \in SUBSET Addresses, Send(p, reached) PROVE Consented'
  <2>1. check'[p].strangers = {} /\ check'[p].seen = check[p].seen
    BY <1>1, <1>5 DEF Send, CheckRecords, Turns, Typed, TypeOK
  <2>2. unasked' = unasked
    BY <1>1, <1>5 DEF Send
  <2> QED
    BY <1>5, <2>1, <2>2, GoesOnConsent DEF Send, store, Turns, Typed, TypeOK
<1>6. CASE MarkSent(p)
  <2>1. check'[p].strangers = {} /\ check'[p].seen = check[p].seen
    BY <1>1, <1>6 DEF MarkSent, NoCheck, Turns, Typed, TypeOK
  <2> QED
    BY <1>6, <2>1, GoesOnConsent DEF MarkSent, histories, Turns, Typed, TypeOK
<1>7. CASE Finish(p)
  <2>1. check'[p].strangers = {} /\ check'[p].at = "idle"
    BY <1>7 DEF Finish, NoCheck, Turns, Typed, TypeOK
  <2> QED
    BY <1>7, <2>1, GoesOnConsent DEF Finish, store, histories, Turns, Typed, TypeOK
<1> QED
  BY <1>2, <1>3, <1>4, <1>5, <1>6, <1>7, FollowConsent, RecipientsConsent DEF Check

LEMMA StepConsent ==
    ASSUME ~Overlapping, Turns, SeenAsIs, Consented, [Next]_vars PROVE Consented'
<1>1. CASE UNCHANGED vars
  BY <1>1, QuietConsent DEF vars, store, histories
<1>2. CASE \E i \in Items : Happens(i)
  BY <1>2, QuietConsent DEF Happens
<1>3. CASE \E c \in Companies : OfficeGrows(c)
  BY <1>3, QuietConsent DEF OfficeGrows, histories
<1>4. CASE \E a \in Addresses : ClearBounce(a)
  BY <1>4, QuietConsent DEF ClearBounce, histories
<1>5. CASE \E report \in Reports : MailReport(report)
  BY <1>5, QuietConsent DEF MailReport, histories
<1>6. ASSUME NEW p \in Checks, CheckDies(p) PROVE Consented'
  <2>1. check'[p].strangers = {} /\ check'[p].at = "idle"
    BY <1>6 DEF CheckDies, NoCheck, Turns, Typed, TypeOK
  <2> QED
    BY <1>6, <2>1, GoesOnConsent DEF CheckDies, store, Turns, Typed, TypeOK
<1>7. ASSUME NEW l \in Lists, Save(l) PROVE Consented'
  BY <1>7, SaveRowConsent, AddRecipientConsent, LaterSaveConsent DEF Save
<1>8. ASSUME NEW l \in Lists, Owner(l) PROVE Consented'
  BY <1>8, SaveSubscriptionConsent, FollowPortfolioConsent, DeleteConsent, TestConsent DEF Owner
<1>9. ASSUME NEW l \in Lists, NEW a \in Addresses, Person(l, a) PROVE Consented'
  BY <1>9, ConfirmConsent, ClickConsent, OptedConsent DEF Person
<1> QED
  BY <1>1, <1>2, <1>3, <1>4, <1>5, <1>6, <1>7, <1>8, <1>9, SaveDiesConsent, CheckConsent,
     StartConsent DEF Next

----------------------------------------------------------------------------
(* Nobody is written to who did not agree.                                 *)
LEMMA InitConsent == Init => TakesTurns /\ SeenAsIs /\ Consented
  BY DEF Init, TakesTurns, Checking, Saving, SeenAsIs, Seen, Absent, NoCheck, NoSave, NoClick,
     Consented, SaidSo, OnRecord, Unrecorded, BeingRecorded, NoStrangers

(* Whatever is typed into a list, clicked, bounced, killed or sent, nobody *)
(* is sent an alert or a test who had not agreed to it or had left it, when *)
(* saves, deletions and checks of a workspace take turns.                  *)
THEOREM NobodyUnasked == ASSUME ~Overlapping PROVE Spec => []AgreedFirst
<1> DEFINE Inv == Turns /\ SeenAsIs /\ Consented
<1>1. Init => Inv
  BY InitTypes, InitConsent DEF Turns, Typed
<1>2. Inv /\ [Next]_vars => Inv'
  <2>1. ASSUME Inv, [Next]_vars PROVE Turns' /\ SeenAsIs' /\ Consented'
    <3>1. Turns'
      BY <2>1, StepTypes, StepTurns DEF Turns
    <3> QED
      BY <2>1, <3>1, StepSeen, StepConsent
  <2> QED
    BY <2>1
<1>3. Inv => AgreedFirst
  BY DEF Consented, NoStrangers, AgreedFirst
<1> QED
  BY <1>1, <1>2, <1>3, PTL DEF Spec

----------------------------------------------------------------------------
(* News.                                                                   *)

\* Unless a list gets other companies, or something is sent, what was news to
\* it is, or is said, or was left by a death.
LEMMA NewsKeeps ==
    ASSUME Typed, Newsworthy, TellsNews', UNCHANGED <<known, news, copies>>,
           NEW l \in Lists,
           There(l)' => /\ There(l)
                       /\ row'[l].companies = row[l].companies
                       /\ said[l] \subseteq said'[l]
                       /\ known \cap ItemsAbout(Joining(l) \ Joining(l)')
                             \subseteq said'[l] \cup lapsed'[l]
                       /\ JustTold(l) \subseteq JustTold(l)' \cup said'[l] \cup lapsed'[l],
           lapsed[l] \subseteq lapsed'[l]
    PROVE  /\ UnsaidIsNews(l)' /\ CopiesAreSaid(l)'
           /\ \A i \in Items : /\ copies'[l][i] > 0 => i \in news'[l] \cup lapsed'[l]
                               /\ copies'[l][i] > 1 => i \in lapsed'[l]
<1>1. ASSUME There(l)', NEW i \in known', i \in Items, About[i] \in row'[l].companies \ Joining(l)'
      PROVE  i \in said'[l] \cup news'[l] \cup lapsed'[l]
  <2>1. CASE About[i] \in Joining(l)
    BY <1>1, <2>1 DEF ItemsAbout
  <2>2. CASE About[i] \notin Joining(l)
    BY <1>1, <2>2 DEF ItemsAbout, Newsworthy, UnsaidIsNews
  <2> QED
    BY <2>1, <2>2
<1>2. ASSUME There(l)', NEW i \in Items, copies'[l][i] > 0
      PROVE  i \in said'[l] \cup lapsed'[l] \cup JustTold(l)'
  BY <1>2 DEF Newsworthy, CopiesAreSaid
<1>3. \A i \in Items : /\ copies'[l][i] > 0 => i \in news'[l] \cup lapsed'[l]
                       /\ copies'[l][i] > 1 => i \in lapsed'[l]
  BY DEF Newsworthy, NewsOnce
<1>4. UnsaidIsNews(l)'
  BY <1>1 DEF UnsaidIsNews, ItemsAbout
<1>5. CopiesAreSaid(l)'
  BY <1>2 DEF CopiesAreSaid
<1> QED
  BY <1>3, <1>4, <1>5

LEMMA QuietNews ==
    ASSUME Typed, Newsworthy, UNCHANGED <<known, news, copies, said, lapsed, check>>,
           \A l \in Lists : /\ row'[l].state = row[l].state
                            /\ row'[l].companies = row[l].companies
                            /\ save'[l] = save[l]
    PROVE  Newsworthy'
<1>1. TellsNews'
  BY DEF Newsworthy, TellsNews
<1>2. \A l \in Lists : Joining(l)' = Joining(l) /\ JustTold(l)' = JustTold(l)
  BY DEF Joining, JustTold
<1>3. \A l \in Lists : There(l)' <=> There(l)
  BY DEF There
<1> QED
  BY <1>1, <1>2, <1>3, NewsKeeps DEF Newsworthy, NewsOnce, ItemsAbout

\* What is recorded is news to the lists that have its company.
LEMMA HappensNews ==
    ASSUME Typed, SeenAsIs, Newsworthy, NEW i \in Items, Happens(i) PROVE Newsworthy'
<1>1. UNCHANGED <<row, said, check, save, copies, lapsed>>
  BY DEF Happens
<1>2. \A l \in Lists : news'[l] = IF Live(l) /\ About[i] \in row[l].companies
                                  THEN news[l] \cup {i} ELSE news[l]
  BY DEF Happens
<1>3. known' = known \cup {i}
  BY DEF Happens
<1>4. TellsNews'
  <2>1. \A p \in Checks : check[p].at \in {"pending", "sending", "sent"} =>
           check[p].list \in Lists
    BY DEF Typed, WorksOnSeen, OnList, Seen
  <2> QED
    BY <1>1, <1>2, <2>1 DEF Newsworthy, TellsNews
<1>5. ASSUME NEW l \in Lists PROVE UnsaidIsNews(l)' /\ CopiesAreSaid(l)'
  <2>1. Joining(l)' = Joining(l) /\ JustTold(l)' = JustTold(l)
    BY <1>1 DEF Joining, JustTold
  <2>2. UnsaidIsNews(l)'
    <3>1. There(l) /\ ~Live(l) => row[l].companies = {}
      BY DEF SeenAsIs, There, Live, Typed, TypeOK, Rows
    <3> QED
      BY <1>1, <1>2, <1>3, <2>1, <3>1 DEF Newsworthy, UnsaidIsNews, There, ItemsAbout
  <2>3. CopiesAreSaid(l)'
    BY <1>1, <2>1 DEF Newsworthy, CopiesAreSaid, There
  <2> QED
    BY <2>2, <2>3
<1>6. NewsOnce'
  BY <1>1, <1>2 DEF Newsworthy, NewsOnce
<1> QED
  BY <1>4, <1>5, <1>6 DEF Newsworthy

----------------------------------------------------------------------------
(* While a list is saved no check is under way.                            *)
LEMMA NobodyTells ==
    ASSUME \A p \in Checks : check[p].at = "idle"
    PROVE  /\ TellsNews
           /\ \A l \in Lists : /\ JustTold(l) = {}
                               /\ Joining(l) = IF save[l].at \in {"recording", "asking", "baselining"}
                                               THEN save[l].added ELSE {}
  BY DEF TellsNews, JustTold, Joining

LEMMA NobodyTellsNext ==
    ASSUME \A p \in Checks : check'[p].at = "idle"
    PROVE  /\ TellsNews'
           /\ \A l \in Lists : /\ JustTold(l)' = {}
                               /\ Joining(l)' = IF save'[l].at \in {"recording", "asking", "baselining"}
                                                THEN save'[l].added ELSE {}
  BY DEF TellsNews, JustTold, Joining

\* A step of a save or a deletion that leaves the companies of the list alone.
LEMMA OwnerNews ==
    ASSUME Turns, Newsworthy, ~Checking, check' = check, UNCHANGED <<known, news, copies>>,
           NEW l \in Lists,
           \A m \in Lists \ {l} : /\ row'[m] = row[m] /\ save'[m] = save[m]
                                  /\ said'[m] = said[m] /\ lapsed'[m] = lapsed[m],
           lapsed[l] \subseteq lapsed'[l],
           There(l)' => /\ There(l)
                       /\ row'[l].companies = row[l].companies
                       /\ said[l] \subseteq said'[l]
                       /\ known \cap ItemsAbout(Joining(l) \ Joining(l)')
                             \subseteq said'[l] \cup lapsed'[l]
    PROVE  Newsworthy'
<1>1. \A p \in Checks : check[p].at = "idle" /\ check'[p].at = "idle"
  BY DEF Checking
<1>2. TellsNews' /\ \A m \in Lists : JustTold(m) = {} /\ JustTold(m)' = {}
  BY <1>1, NobodyTells, NobodyTellsNext
<1>3. \A m \in Lists \ {l} : Joining(m)' = Joining(m)
  BY <1>1, NobodyTells, NobodyTellsNext
<1>4. Typed
  BY DEF Turns
<1>5. ASSUME NEW m \in Lists
      PROVE  /\ UnsaidIsNews(m)' /\ CopiesAreSaid(m)'
             /\ \A i \in Items : /\ copies'[m][i] > 0 => i \in news'[m] \cup lapsed'[m]
                                 /\ copies'[m][i] > 1 => i \in lapsed'[m]
  <2>1. CASE m = l
    BY <1>2, <1>4, <2>1, NewsKeeps
  <2>2. CASE m # l
    <3>1. /\ There(m)' <=> There(m)
          /\ row'[m].companies = row[m].companies
          /\ said[m] \subseteq said'[m] /\ lapsed[m] \subseteq lapsed'[m]
          /\ ItemsAbout(Joining(m) \ Joining(m)') = {}
      BY <1>3, <2>2 DEF There, ItemsAbout
    <3> QED
      BY <1>2, <1>4, <3>1, NewsKeeps
  <2> QED
    BY <2>1, <2>2
<1> QED
  BY <1>2, <1>5 DEF Newsworthy, NewsOnce

LEMMA SaveNews ==
    ASSUME Turns, SeenAsIs, Newsworthy, NEW l \in Lists, Save(l) PROVE Newsworthy'
<1>1. save[l] \in SaveRecords /\ save[l].at # "idle"
  BY DEF Save, SaveRow, AddRecipient, AskRecipient, ReadPending, Baseline, Turns, Typed, TypeOK
<1>2. ~Checking /\ \A p \in Checks : check[p].at = "idle"
  BY <1>1 DEF Turns, TakesTurns, Saving, Checking
<1>3. /\ UNCHANGED <<check, known, news, copies, lapsed>>
      /\ \A m \in Lists \ {l} : row'[m] = row[m] /\ save'[m] = save[m] /\ said'[m] = said[m]
  BY DEF Save, SaveRow, WriteRow, AddRecipient, AskRecipient, ReadPending, Baseline, Mark,
     store, histories, Turns, Typed, TypeOK
<1>4. /\ Joining(l) = IF save[l].at = "writing" THEN {} ELSE save[l].added
      /\ Joining(l)' = IF save'[l].at \in {"recording", "asking", "baselining"}
                       THEN save'[l].added ELSE {}
  BY <1>1, <1>2, <1>3, NobodyTells, NobodyTellsNext DEF SaveRecords
<1>5. CASE SaveRow(l)
  <2>1. /\ save[l].at = "writing" /\ There(l) /\ said' = said
        /\ save[l].added = save[l].companies \ row[l].companies
    BY <1>1, <1>5 DEF SaveRow, Turns, TakesTurns, There, SeenAsIs
  <2>2. row'[l].companies = save[l].companies
    BY <1>5 DEF SaveRow, WriteRow, Turns, Typed, TypeOK
  <2>3. Joining(l) = {} /\ Joining(l)' = save[l].companies \ row[l].companies
    BY <1>1, <1>4, <1>5, <2>1 DEF SaveRow, SaveRecords, Turns, Typed, TypeOK
  <2>4. TellsNews' /\ \A m \in Lists : JustTold(m) = {} /\ JustTold(m)' = {}
    BY <1>2, <1>3, NobodyTells, NobodyTellsNext
  <2>5. UnsaidIsNews(l)'
    BY <1>3, <2>1, <2>2, <2>3 DEF Newsworthy, UnsaidIsNews, ItemsAbout
  <2>6. CopiesAreSaid(l)'
    BY <1>3, <2>1, <2>4 DEF Newsworthy, CopiesAreSaid
  <2>7. \A m \in Lists \ {l} : Joining(m)' = Joining(m)
    BY <1>2, <1>3, NobodyTells, NobodyTellsNext
  <2>8. \A m \in Lists \ {l} : UnsaidIsNews(m)' /\ CopiesAreSaid(m)'
    BY <1>3, <2>1, <2>4, <2>7 DEF Newsworthy, UnsaidIsNews, CopiesAreSaid, There, ItemsAbout
  <2>9. NewsOnce'
    BY <1>3 DEF Newsworthy, NewsOnce
  <2> QED
    BY <2>4, <2>5, <2>6, <2>8, <2>9 DEF Newsworthy
<1>6. CASE ReadPending(l) \/ \E a \in Addresses : AddRecipient(l, a) \/ AskRecipient(l, a)
  <2>1. UNCHANGED <<row, said>>
    BY <1>6 DEF ReadPending, AddRecipient, AskRecipient, store, histories
  <2>2. Joining(l)' = Joining(l)
    <3>1. CASE ReadPending(l)
      BY <1>1, <1>4, <3>1 DEF ReadPending, SaveRecords, Turns, Typed, TypeOK
    <3>2. CASE \E a \in Addresses : AddRecipient(l, a)
      BY <1>1, <1>4, <3>2 DEF AddRecipient, SaveRecords, Turns, Typed, TypeOK
    <3>3. CASE \E a \in Addresses : AskRecipient(l, a)
      BY <1>1, <1>4, <3>3 DEF AskRecipient, SaveRecords, Turns, Typed, TypeOK
    <3> QED
      BY <1>6, <3>1, <3>2, <3>3
  <2> QED
    BY <1>2, <1>3, <2>1, <2>2, OwnerNews DEF There, ItemsAbout
<1>7. CASE Baseline(l)
  <2>1. row' = row /\ said'[l] = said[l] \cup (known \cap ItemsAbout(save[l].added))
    BY <1>7 DEF Baseline, Mark, Turns, Typed, TypeOK
  <2>2. Joining(l) = save[l].added
    BY <1>4, <1>7 DEF Baseline
  <2> QED
    BY <1>2, <1>3, <2>1, <2>2, OwnerNews DEF There, ItemsAbout
<1> QED
  BY <1>5, <1>6, <1>7 DEF Save

LEMMA OwnersNews ==
    ASSUME ~Overlapping, Turns, Newsworthy, NEW l \in Lists, Owner(l) PROVE Newsworthy'
<1>1. ASSUME ~Checking, save[l].at = "idle", save'[l].at = "writing",
             \A m \in Lists \ {l} : save'[m] = save[m],
             UNCHANGED <<row, check, known, said, news, copies, lapsed>>
      PROVE  Newsworthy'
  <2>1. Joining(l) = {} /\ Joining(l)' = {}
    BY <1>1, NobodyTells, NobodyTellsNext DEF Checking
  <2> QED
    BY <1>1, <2>1, OwnerNews DEF There, ItemsAbout
<1>2. CASE \E body \in Bodies : SaveSubscription(l, body)
  BY <1>1, <1>2 DEF SaveSubscription, store, histories, Turns, Typed, TypeOK
<1>3. CASE \E c \in Portfolios : FollowPortfolio(l, c)
  BY <1>1, <1>3 DEF FollowPortfolio, NoSave, store, histories, Turns, Typed, TypeOK
<1>4. CASE DeleteSubscription(l)
  <2>1. /\ ~Checking /\ UNCHANGED <<check, save, known, news, copies, lapsed>>
        /\ row'[l].state = "deleted"
        /\ \A m \in Lists \ {l} : row'[m] = row[m] /\ said'[m] = said[m]
    BY <1>4 DEF DeleteSubscription, Absent, histories, Turns, Typed, TypeOK
  <2> QED
    BY <2>1, OwnerNews DEF There
<1>5. CASE \E reached \in SUBSET Addresses : TestSubscription(l, reached)
  BY <1>5, QuietNews DEF TestSubscription, Turns
<1> QED
  BY <1>2, <1>3, <1>4, <1>5 DEF Owner

LEMMA PersonNews ==
    ASSUME Turns, Newsworthy, NEW l \in Lists, NEW a \in Addresses, Person(l, a)
    PROVE  Newsworthy'
<1>1. /\ UNCHANGED <<known, news, copies, said, lapsed, check, save>>
      /\ \A m \in Lists : /\ row'[m].state = row[m].state
                          /\ row'[m].companies = row[m].companies
  <2>1. UNCHANGED <<known, news, copies, said, lapsed, check, save>>
    BY DEF Person, ConfirmRecipient, Click, SetOptedOut, store, histories
  <2>2. CASE SetOptedOut(l, a)
    BY <2>1, <2>2 DEF SetOptedOut, Turns, Typed, TypeOK, Rows
  <2>3. CASE UNCHANGED row
    BY <2>1, <2>3
  <2> QED
    BY <2>1, <2>2, <2>3 DEF Person, ConfirmRecipient, Click, store
<1> QED
  BY <1>1, QuietNews DEF Turns

LEMMA SaveDiesNews ==
    ASSUME Turns, Newsworthy, NEW l \in Lists, SaveDies(l) PROVE Newsworthy'
<1>1. /\ ~Checking /\ UNCHANGED <<row, said, check, known, news, copies>>
      /\ \A m \in Lists \ {l} : save'[m] = save[m] /\ lapsed'[m] = lapsed[m]
      /\ lapsed'[l] = lapsed[l] \cup ItemsAbout(save[l].added)
  BY DEF SaveDies, Saving, Checking, TakesTurns, store, Turns, Typed, TypeOK
<1>2. Joining(l) \subseteq save[l].added
  BY <1>1, NobodyTells DEF Checking
<1> QED
  BY <1>1, <1>2, OwnerNews DEF There, ItemsAbout

----------------------------------------------------------------------------
(* While a check is under way no other is, and no list is saved.           *)
LEMMA OnlyCheck ==
    ASSUME Turns, NEW p \in Checks, check[p].at # "idle"
    PROVE  /\ \A q \in Checks \ {p} : check[q].at = "idle"
           /\ \A l \in Lists : save[l].at = "idle"
           /\ \A l \in Lists :
                 /\ JustTold(l) = IF /\ check[p].at = "sent" /\ check[p].list = l
                                     /\ check[p].outcome \in Told
                                  THEN check[p].items ELSE {}
                 /\ Joining(l) = IF check[p].at = "joining" /\ check[p].list = l
                                 THEN check[p].added ELSE {}
<1>1. \A q \in Checks \ {p} : check[q].at = "idle"
  BY DEF Turns, TakesTurns
<1>2. \A l \in Lists : save[l].at = "idle"
  BY DEF Turns, TakesTurns, Checking, Saving
<1> QED
  BY <1>1, <1>2 DEF JustTold, Joining

LEMMA OnlyCheckNext ==
    ASSUME NEW p \in Checks, \A q \in Checks \ {p} : check'[q].at = "idle",
           \A l \in Lists : save'[l].at = "idle"
    PROVE  \A l \in Lists :
              /\ JustTold(l)' = IF /\ check'[p].at = "sent" /\ check'[p].list = l
                                   /\ check'[p].outcome \in Told
                                THEN check'[p].items ELSE {}
              /\ Joining(l)' = IF check'[p].at = "joining" /\ check'[p].list = l
                               THEN check'[p].added ELSE {}
  BY DEF JustTold, Joining

\* What a check is about to tell, in the next state.
TellsNewsNext(p) ==
    check'[p].at \in {"pending", "sending", "sent"} =>
        /\ check'[p].items \subseteq news'[check'[p].list] \cup lapsed'[check'[p].list]
        /\ check'[p].items \cap said'[check'[p].list] = {}

\* A step of a check that sends nothing and leaves the lists alone: what it had
\* under way is still so, or is said, or is left by a death.
LEMMA CheckKeeps ==
    ASSUME Turns, Newsworthy, NEW p \in Checks, check[p].at # "idle",
           \A q \in Checks \ {p} : check'[q] = check[q],
           UNCHANGED <<row, save, known, news, copies>>, TellsNewsNext(p),
           \A l \in Lists : said[l] \subseteq said'[l] /\ lapsed[l] \subseteq lapsed'[l],
           check[p].at = "joining" =>
              known \cap ItemsAbout(check[p].added)
                 \subseteq said'[check[p].list] \cup lapsed'[check[p].list],
           check[p].at = "sent" /\ check[p].outcome \in Told =>
              check[p].items \subseteq said'[check[p].list] \cup lapsed'[check[p].list]
    PROVE  Newsworthy'
<1>1. /\ \A q \in Checks \ {p} : check[q].at = "idle" /\ check'[q].at = "idle"
      /\ \A l \in Lists : save'[l].at = "idle"
  BY OnlyCheck
<1>2. TellsNews'
  BY <1>1 DEF TellsNews, TellsNewsNext
<1>3. Typed
  BY DEF Turns
<1>4. ASSUME NEW l \in Lists
      PROVE  /\ UnsaidIsNews(l)' /\ CopiesAreSaid(l)'
             /\ \A i \in Items : /\ copies'[l][i] > 0 => i \in news'[l] \cup lapsed'[l]
                                 /\ copies'[l][i] > 1 => i \in lapsed'[l]
  <2>1. JustTold(l) \subseteq said'[l] \cup lapsed'[l]
    BY OnlyCheck
  <2>2. known \cap ItemsAbout(Joining(l)) \subseteq said'[l] \cup lapsed'[l]
    BY OnlyCheck DEF ItemsAbout
  <2>3. known \cap ItemsAbout(Joining(l) \ Joining(l)') \subseteq said'[l] \cup lapsed'[l]
    BY <2>2 DEF ItemsAbout
  <2>4. There(l)' <=> There(l)
    BY DEF There
  <2> QED
    BY <1>2, <1>3, <2>1, <2>3, <2>4, NewsKeeps
<1> QED
  BY <1>2, <1>4 DEF Newsworthy, NewsOnce

LEMMA StartNews ==
    ASSUME Turns, Newsworthy, NEW p \in Checks, StartCheck(p) PROVE Newsworthy'
<1>1. /\ UNCHANGED <<row, save, known, said, news, copies, lapsed>>
      /\ \A q \in Checks \ {p} : check'[q] = check[q]
      /\ check[p].at = "idle" /\ check'[p].at = "following"
  BY DEF StartCheck, NoCheck, store, histories, Turns, Typed, TypeOK
<1>2. TellsNews'
  BY <1>1 DEF Newsworthy, TellsNews
<1>3. \A l \in Lists : Joining(l)' = Joining(l) /\ JustTold(l)' = JustTold(l)
  <2>1. \A l \in Lists : {q \in Checks : check'[q].at = "joining" /\ check'[q].list = l}
                          = {q \in Checks : check[q].at = "joining" /\ check[q].list = l}
    BY <1>1
  <2>2. \A l \in Lists : {q \in Checks : check'[q].at = "sent" /\ check'[q].list = l
                                            /\ check'[q].outcome \in Told}
                          = {q \in Checks : check[q].at = "sent" /\ check[q].list = l
                                            /\ check[q].outcome \in Told}
    BY <1>1
  <2>3. \A q \in Checks : check'[q].at \in {"joining", "sent"} => check'[q] = check[q]
    BY <1>1
  <2> QED
    BY <1>1, <2>1, <2>2, <2>3 DEF Joining, JustTold
<1>4. Typed
  BY DEF Turns
<1>5. ASSUME NEW l \in Lists
      PROVE  /\ UnsaidIsNews(l)' /\ CopiesAreSaid(l)'
             /\ \A i \in Items : /\ copies'[l][i] > 0 => i \in news'[l] \cup lapsed'[l]
                                 /\ copies'[l][i] > 1 => i \in lapsed'[l]
  BY <1>1, <1>2, <1>3, <1>4, NewsKeeps DEF There, ItemsAbout
<1> QED
  BY <1>2, <1>5 DEF Newsworthy, NewsOnce

LEMMA FollowNews ==
    ASSUME Turns, SeenAsIs, Newsworthy, NEW p \in Checks, NEW l \in Lists, FollowScope(p, l)
    PROVE  Newsworthy'
<1>1. /\ check[p] \in CheckRecords /\ check[p].at = "following" /\ l \in Seen(p)
      /\ UNCHANGED <<save, known, said, news, copies, lapsed>>
      /\ \A q \in Checks \ {p} : check'[q] = check[q]
  BY DEF FollowScope, WorksOnSeen, histories, Turns, Typed, TypeOK
<1>2. CASE office = check[p].seen[l].companies
  <2>1. check' = [check EXCEPT ![p] = [check[p] EXCEPT !.todo = @ \ {l}]] /\ row' = row
    BY <1>2 DEF FollowScope, Turns, Typed, TypeOK
  <2>2. check'[p].at = "following"
    BY <1>1, <2>1 DEF CheckRecords, Turns, Typed, TypeOK
  <2> QED
    BY <1>1, <2>1, <2>2, CheckKeeps DEF TellsNewsNext
<1>3. CASE office # check[p].seen[l].companies
  <2>1. /\ row'[l].companies = office /\ row'[l].state = "live"
        /\ \A m \in Lists \ {l} : row'[m] = row[m]
    BY <1>3 DEF FollowScope, WriteRow, Turns, Typed, TypeOK
  <2>2. There(l) /\ check[p].seen[l].companies = row[l].companies
    BY <1>1 DEF SeenAsIs, Live, There
  <2>3. check'[p].at = "joining"
    BY <1>1, <1>3 DEF FollowScope, CheckRecords, Turns, Typed, TypeOK
  <2>4. check'[p].list = l
    BY <1>1, <1>3 DEF FollowScope, CheckRecords, Turns, Typed, TypeOK
  <2>5. check'[p].added = office \ row[l].companies
    BY <1>1, <1>3, <2>2 DEF FollowScope, CheckRecords, Turns, Typed, TypeOK
  <2>6. \A m \in Lists : Joining(m) = {} /\ JustTold(m) = {}
    BY <1>1, OnlyCheck
  <2>7. \A q \in Checks \ {p} : check'[q].at = "idle"
    BY <1>1, OnlyCheck
  <2>8. \A m \in Lists : /\ JustTold(m)' = {}
                         /\ Joining(m)' = IF m = l THEN office \ row[l].companies ELSE {}
    BY <1>1, <2>3, <2>4, <2>5, <2>7, OnlyCheck, OnlyCheckNext
  <2>9. TellsNews'
    BY <2>3, <2>7 DEF TellsNews
  <2>10. UnsaidIsNews(l)'
    BY <1>1, <2>1, <2>2, <2>6, <2>8 DEF Newsworthy, UnsaidIsNews, ItemsAbout
  <2>11. CopiesAreSaid(l)'
    BY <1>1, <2>2, <2>6, <2>8 DEF Newsworthy, CopiesAreSaid
  <2>12. \A m \in Lists \ {l} : UnsaidIsNews(m)' /\ CopiesAreSaid(m)'
    BY <1>1, <2>1, <2>6, <2>8 DEF Newsworthy, UnsaidIsNews, CopiesAreSaid, There, ItemsAbout
  <2>13. NewsOnce'
    BY <1>1 DEF Newsworthy, NewsOnce
  <2> QED
    BY <2>9, <2>10, <2>11, <2>12, <2>13 DEF Newsworthy
<1> QED
  BY <1>2, <1>3

LEMMA JoinedNews ==
    ASSUME Turns, Newsworthy, NEW p \in Checks, BaselineJoined(p) PROVE Newsworthy'
<1>1. /\ check[p] \in CheckRecords /\ check[p].at = "joining" /\ check[p].list \in Lists
      /\ UNCHANGED <<row, save, known, news, copies, lapsed>>
      /\ \A q \in Checks \ {p} : check'[q] = check[q]
  BY DEF BaselineJoined, WorksOnSeen, OnList, Seen, histories, Turns, Typed, TypeOK
<1>2. check'[p].at = "following"
  BY <1>1 DEF BaselineJoined, CheckRecords, Turns, Typed, TypeOK
<1>3. \A l \in Lists :
         said'[l] = IF l = check[p].list
                    THEN said[l] \cup (known \cap ItemsAbout(check[p].added)) ELSE said[l]
  BY <1>1 DEF BaselineJoined, Mark, Turns, Typed, TypeOK
<1> QED
  BY <1>1, <1>2, <1>3, CheckKeeps DEF TellsNewsNext

\* What is pending is news, since nothing is being joined to the list.
LEMMA PendingNews ==
    ASSUME Turns, SeenAsIs, Newsworthy, NEW p \in Checks, NEW l \in Lists, PendingItems(p, l)
    PROVE  Newsworthy'
<1> DEFINE items == (known \cap ItemsAbout(check[p].seen[l].companies)) \ said[l]
<1>1. /\ check[p] \in CheckRecords /\ check[p].at = "checking" /\ l \in Seen(p)
      /\ UNCHANGED <<row, save, known, said, news, copies, lapsed>>
      /\ \A q \in Checks \ {p} : check'[q] = check[q]
  BY DEF PendingItems, WorksOnSeen, store, histories, Turns, Typed, TypeOK
<1>2. There(l) /\ check[p].seen[l].companies = row[l].companies /\ Joining(l) = {}
  BY <1>1, OnlyCheck DEF SeenAsIs, Live, There
<1>3. items \subseteq news[l] \cup lapsed[l]
  BY <1>2 DEF Newsworthy, UnsaidIsNews, ItemsAbout
<1>4. check'[p].items = items
  BY <1>1 DEF PendingItems, CheckRecords, Turns, Typed, TypeOK
<1>5. check'[p].at = IF items = {} THEN "checking" ELSE "pending"
  BY <1>1 DEF PendingItems, CheckRecords, Turns, Typed, TypeOK
<1>6. check'[p].list = IF items = {} THEN Nobody ELSE l
  BY <1>1 DEF PendingItems, CheckRecords, Turns, Typed, TypeOK
<1>7. TellsNewsNext(p)
  BY <1>1, <1>3, <1>4, <1>5, <1>6 DEF TellsNewsNext
<1> QED
  BY <1>1, <1>7, CheckKeeps

LEMMA RecipientsNews ==
    ASSUME Turns, Newsworthy, NEW p \in Checks, Recipients(p) PROVE Newsworthy'
<1> DEFINE to == {a \in check[p].seen[check[p].list].emails :
                     Agreed(check[p].list, a) /\ suppressed[a] = "none"}
<1>1. /\ check[p] \in CheckRecords /\ check[p].at = "pending"
      /\ UNCHANGED <<row, save, known, said, news, copies, lapsed>>
      /\ \A q \in Checks \ {p} : check'[q] = check[q]
  BY DEF Recipients, histories, Turns, Typed, TypeOK
<1>2. check'[p].at = IF to = {} THEN "checking" ELSE "sending"
  BY <1>1 DEF Recipients, CheckRecords, Turns, Typed, TypeOK
<1>3. check'[p].list = IF to = {} THEN Nobody ELSE check[p].list
  BY <1>1 DEF Recipients, CheckRecords, Turns, Typed, TypeOK
<1>4. check'[p].items = IF to = {} THEN {} ELSE check[p].items
  BY <1>1 DEF Recipients, CheckRecords, Turns, Typed, TypeOK
<1>5. TellsNewsNext(p)
  BY <1>1, <1>2, <1>3, <1>4 DEF TellsNewsNext, Newsworthy, TellsNews
<1> QED
  BY <1>1, <1>5, CheckKeeps

\* What is sent is news, and nothing that was sent before, but after a death.
LEMMA SendNews ==
    ASSUME Turns, SeenAsIs, Newsworthy, NEW p \in Checks, NEW reached \in SUBSET Addresses,
           Send(p, reached)
    PROVE  Newsworthy'
<1>0. PICK l \in Lists : l = check[p].list /\ l \in Seen(p)
  BY DEF Send, Turns, Typed, WorksOnSeen, OnList, Seen
<1> DEFINE items == check[p].items
<1>1. /\ check[p] \in CheckRecords /\ check[p].at = "sending"
      /\ UNCHANGED <<row, save, known, said, news, lapsed>>
      /\ \A q \in Checks \ {p} : check'[q] = check[q]
  BY DEF Send, WorksOnSeen, OnList, Seen, store, Turns, Typed, TypeOK
<1>2. /\ check'[p].at = "sent" /\ check'[p].outcome = Outcome(reached, check[p].to)
      /\ check'[p].list = l /\ check'[p].items = items
  BY <1>0, <1>1 DEF Send, CheckRecords, Turns, Typed, TypeOK
<1>3. reached # {} => check'[p].outcome \in Told
  BY <1>2 DEF Send, Outcome, Told
<1>4. items \subseteq news[l] \cup lapsed[l] /\ items \cap said[l] = {}
  BY <1>0, <1>1 DEF Newsworthy, TellsNews
<1>5. \A m \in Lists : Joining(m) = {} /\ JustTold(m) = {}
  BY <1>1, OnlyCheck
<1>6. \A q \in Checks \ {p} : check'[q].at = "idle"
  BY <1>1, OnlyCheck
<1>7. \A m \in Lists : /\ Joining(m)' = {}
                       /\ m = l /\ reached # {} => JustTold(m)' = items
  BY <1>1, <1>2, <1>3, <1>6, OnlyCheck, OnlyCheckNext
<1>8. \A m \in Lists \ {l} : copies'[m] = copies[m]
  BY <1>0 DEF Send, Copy, Turns, Typed, TypeOK
<1>9. \A i \in Items : copies'[l][i] = IF reached # {} /\ i \in items /\ copies[l][i] < 2
                                       THEN copies[l][i] + 1 ELSE copies[l][i]
  BY <1>0, <1>1 DEF Send, Copy, Turns, Typed, TypeOK
<1>10. \A i \in Items : copies[l][i] \in 0..2
  BY <1>1 DEF Turns, Typed, TypeOK
<1> HIDE DEF items
<1>11. TellsNews'
  BY <1>0, <1>1, <1>2, <1>4, <1>6 DEF TellsNews
<1>12. \A m \in Lists : UnsaidIsNews(m)'
  BY <1>1, <1>5, <1>7 DEF Newsworthy, UnsaidIsNews, There, ItemsAbout
<1>13. There(l)
  BY <1>0, <1>1 DEF SeenAsIs, Live, There
<1>14. ASSUME NEW i \in Items
       PROVE  /\ copies'[l][i] > 0 => i \in said[l] \cup lapsed[l] \cup JustTold(l)'
              /\ copies'[l][i] > 0 => i \in news[l] \cup lapsed[l]
              /\ copies'[l][i] > 1 => i \in lapsed[l]
  <2>1. /\ copies[l][i] > 0 => i \in said[l] \cup lapsed[l]
        /\ copies[l][i] > 0 => i \in news[l] \cup lapsed[l]
        /\ copies[l][i] > 1 => i \in lapsed[l]
    BY <1>1, <1>5, <1>13 DEF Newsworthy, CopiesAreSaid, NewsOnce
  <2>2. CASE reached # {} /\ i \in items
    <3>1. i \in JustTold(l)' /\ i \in news[l] \cup lapsed[l]
      BY <1>4, <1>7, <2>2
    <3>2. copies'[l][i] > 1 => copies[l][i] > 0
      BY <1>9, <1>10
    <3>3. copies[l][i] > 0 => i \in lapsed[l]
      BY <1>4, <2>1, <2>2
    <3> QED
      BY <3>1, <3>2, <3>3
  <2>3. CASE ~(reached # {} /\ i \in items)
    <3>1. copies'[l][i] = copies[l][i]
      BY <1>9, <2>3
    <3> QED
      BY <2>1, <3>1
  <2> QED
    BY <2>2, <2>3
<1>15. CopiesAreSaid(l)'
  BY <1>1, <1>14 DEF CopiesAreSaid
<1>16. \A m \in Lists \ {l} : CopiesAreSaid(m)'
  BY <1>1, <1>5, <1>8 DEF Newsworthy, CopiesAreSaid, There
<1>17. NewsOnce'
  BY <1>1, <1>8, <1>14 DEF Newsworthy, NewsOnce
<1> QED
  BY <1>11, <1>12, <1>15, <1>16, <1>17 DEF Newsworthy

LEMMA MarkNews ==
    ASSUME Turns, Newsworthy, NEW p \in Checks, MarkSent(p) PROVE Newsworthy'
<1>1. /\ check[p].at = "sent" /\ check[p].list \in Lists
      /\ UNCHANGED <<row, save, known, news, copies, lapsed>>
      /\ \A q \in Checks \ {p} : check'[q] = check[q]
      /\ check'[p].at = "checking"
  BY DEF MarkSent, NoCheck, WorksOnSeen, OnList, Seen, histories, Turns, Typed, TypeOK
<1>2. \A l \in Lists :
         said'[l] = IF l = check[p].list /\ check[p].outcome \in Told
                    THEN said[l] \cup check[p].items ELSE said[l]
  BY <1>1 DEF MarkSent, Mark, Turns, Typed, TypeOK
<1>3. \A l \in Lists : said[l] \subseteq said'[l] /\ lapsed[l] \subseteq lapsed'[l]
  BY <1>1, <1>2
<1>4. check[p].outcome \in Told =>
         check[p].items \subseteq said'[check[p].list] \cup lapsed'[check[p].list]
  BY <1>1, <1>2
<1>5. TellsNewsNext(p)
  BY <1>1 DEF TellsNewsNext
<1> QED
  BY <1>1, <1>3, <1>4, <1>5, CheckKeeps

LEMMA CheckDiesNews ==
    ASSUME Turns, Newsworthy, NEW p \in Checks, CheckDies(p) PROVE Newsworthy'
<1>1. /\ check[p].at # "idle"
      /\ check[p].at \in OnList => check[p].list \in Lists
      /\ UNCHANGED <<row, save, known, said, news, copies>>
      /\ \A q \in Checks \ {p} : check'[q] = check[q]
      /\ check'[p].at = "idle"
  BY DEF CheckDies, NoCheck, WorksOnSeen, Seen, store, Turns, Typed, TypeOK
<1>2. \A l \in Lists : lapsed[l] \subseteq lapsed'[l]
  BY DEF CheckDies, Turns, Typed, TypeOK
<1>3. check[p].at = "joining" => ItemsAbout(check[p].added) \subseteq lapsed'[check[p].list]
  BY <1>1 DEF CheckDies, OnList, Turns, Typed, TypeOK
<1>4. check[p].at = "sent" => check[p].items \subseteq lapsed'[check[p].list]
  BY <1>1 DEF CheckDies, OnList, Turns, Typed, TypeOK
<1> QED
  <2>1. TellsNewsNext(p)
    BY <1>1 DEF TellsNewsNext
  <2>2. \A l \in Lists : said[l] \subseteq said'[l] /\ lapsed[l] \subseteq lapsed'[l]
    BY <1>1, <1>2
  <2>3. check[p].at = "joining" =>
           known \cap ItemsAbout(check[p].added)
              \subseteq said'[check[p].list] \cup lapsed'[check[p].list]
    BY <1>3
  <2> QED
    BY <1>1, <1>4, <2>1, <2>2, <2>3, CheckKeeps

LEMMA CheckNews ==
    ASSUME Turns, SeenAsIs, Newsworthy, NEW p \in Checks, Check(p) PROVE Newsworthy'
<1>1. CASE Followed(p)
  <2>1. /\ check[p].at = "following" /\ check'[p].at = "checking"
        /\ UNCHANGED <<row, save, known, said, news, copies, lapsed>>
        /\ \A q \in Checks \ {p} : check'[q] = check[q]
    <3>1. check[p] \in CheckRecords
      BY DEF Turns, Typed, TypeOK
    <3> QED
      BY <1>1, <3>1 DEF Followed, CheckRecords, store, histories, Turns, Typed, TypeOK
  <2> QED
    BY <2>1, CheckKeeps DEF TellsNewsNext
<1>2. CASE Finish(p)
  <2>1. /\ check[p].at = "checking" /\ check'[p].at = "idle"
        /\ UNCHANGED <<row, save, known, said, news, copies, lapsed>>
        /\ \A q \in Checks \ {p} : check'[q] = check[q]
    BY <1>2 DEF Finish, NoCheck, store, histories, Turns, Typed, TypeOK
  <2> QED
    BY <2>1, CheckKeeps DEF TellsNewsNext
<1> QED
  BY <1>1, <1>2, FollowNews, PendingNews, JoinedNews, RecipientsNews, SendNews, MarkNews DEF Check

LEMMA StepNews ==
    ASSUME ~Overlapping, Turns, SeenAsIs, Newsworthy, [Next]_vars PROVE Newsworthy'
<1>1. CASE UNCHANGED vars
  BY <1>1, QuietNews DEF vars, store, histories, Turns
<1>2. CASE \E i \in Items : Happens(i)
  BY <1>2, HappensNews DEF Turns
<1>3. CASE \E c \in Companies : OfficeGrows(c)
  BY <1>3, QuietNews DEF OfficeGrows, histories, Turns
<1>4. CASE \E a \in Addresses : ClearBounce(a)
  BY <1>4, QuietNews DEF ClearBounce, histories, Turns
<1>5. CASE \E report \in Reports : MailReport(report)
  BY <1>5, QuietNews DEF MailReport, histories, Turns
<1> QED
  BY <1>1, <1>2, <1>3, <1>4, <1>5, SaveNews, OwnersNews, PersonNews, SaveDiesNews, CheckNews,
     StartNews, CheckDiesNews DEF Next

LEMMA InitNews == Init => Newsworthy
<1> SUFFICES ASSUME Init PROVE Newsworthy
  OBVIOUS
<1>1. TellsNews
  BY DEF Init, TellsNews, NoCheck
<1>2. \A l \in Lists, i \in Items : copies[l][i] = 0
  BY DEF Init
<1> QED
  BY <1>1, <1>2 DEF Init, Newsworthy, UnsaidIsNews, CopiesAreSaid, NewsOnce

(* Every alert is news and told once, and goes to whoever agreed: for any  *)
(* lists, checks, clicks, bounces and deaths, when saves, deletions and    *)
(* checks of a workspace take turns.                                       *)
THEOREM WantedMail == ASSUME ~Overlapping PROVE Spec => []MailIsWanted
<1>1. Init => AlertsInv
  BY InitTypes, InitConsent, InitNews DEF AlertsInv
<1>2. AlertsInv /\ [Next]_vars => AlertsInv'
  <2>1. ASSUME AlertsInv, [Next]_vars PROVE AlertsInv'
    <3>1. Typed /\ Turns
      BY <2>1 DEF AlertsInv, Typed, Turns
    <3>2. Typed'
      BY <2>1, <3>1, StepTypes
    <3>3. TakesTurns' /\ SeenAsIs' /\ Consented' /\ Newsworthy'
      BY <2>1, <3>1, StepTurns, StepSeen, StepConsent, StepNews DEF AlertsInv
    <3> QED
      BY <3>2, <3>3 DEF AlertsInv, Typed
  <2> QED
    BY <2>1
<1>3. AlertsInv => MailIsWanted
  BY DEF AlertsInv, Consented, NoStrangers, Newsworthy, AgreedFirst, MailIsWanted
<1> QED
  BY <1>1, <1>2, <1>3, PTL DEF Spec
=============================================================================
