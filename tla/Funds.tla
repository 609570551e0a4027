------------------------------- MODULE Funds -------------------------------
(***************************************************************************)
(* The investment funds named after a contractor.  Form D filings of every *)
(* filer are indexed from EDGAR's daily list, a day at a time; a person    *)
(* gives the words a contractor's funds carry in their names, may rule     *)
(* single funds out, and may switch alerts on; a filing made since then is *)
(* an alert.                                                               *)
(*                                                                         *)
(* Workers are nightly checks and requests from the contractor's page.     *)
(* They share the index, the days read and the watch, with no lock.  Days  *)
(* are numbered from the first that a first sync could reach; a fund files *)
(* once a day at most.  What a filing says (facts), the contractor's other *)
(* names and the pages are left out.                                       *)
(***************************************************************************)
EXTENDS Naturals, FiniteSets

CONSTANTS
    Worker,
    Vehicle,        \* filers of Form D whose name has some of the words
    Words,          \* phrases a person may watch
    Named,          \* Named[w]: the filers w matches, the contractor itself left out
    Published,      \* the filings there are: records of a day and a filer
    TradingDays,    \* the days that have a daily index
    Quarter,        \* Quarter[d]: the directory a day's index is listed in
    FirstWords,     \* words that may have been looked up to begin with
    ListBegan,      \* the day the alert list was created
    BackfillDays, MaxDaysPerSync, Step,
    LastDay,        \* bound: the days that pass
    MaxWorks,       \* bound: checks and requests
    MaxLosses,      \* bound: deaths, and answers EDGAR does not give
    NoWords

ASSUME FundsAssumption ==
    /\ NoWords \notin Words /\ FirstWords \in Words /\ Named \in [Words -> SUBSET Vehicle]
    /\ {ListBegan, BackfillDays, MaxDaysPerSync, Step, LastDay, MaxWorks, MaxLosses}
           \subseteq Nat
    /\ TradingDays \subseteq 1..LastDay
    /\ Published \subseteq [day: TradingDays, by: Vehicle]

VARIABLES
    today,      \* the day whose index may still be being written
    days,       \* edgar_days: the days read
    index,      \* formd_index
    found,      \* edgar_entities: [by, listed], the filers a lookup gave
    watch,      \* the contractor's row of vehicle_watches
    said,       \* the filings the alert list has been given
    work,       \* what each worker is doing
    asked,      \* asked[w]: the first day alerts were on with w, 0 if never
    unlisted,   \* whether a directory did not answer
    works, losses   \* the bounds' counters

fundsVars == <<today, days, index, found, watch, said, work, asked, unlisted,
               works, losses>>

NoWatch == [words |-> NoWords, watching |-> FALSE, since |-> 0, unrelated |-> {},
            looked |-> FALSE]
AtRest == [at |-> "rest"]

FundsInit ==
    /\ today = 2 * BackfillDays + 2
    /\ days = {} /\ index = {} /\ said = {}
    /\ \/ watch = NoWatch /\ found = {}
       \/ /\ watch = [NoWatch EXCEPT !.words = FirstWords, !.looked = TRUE]
          /\ found = {[by |-> v, listed |-> FALSE] : v \in Named[FirstWords]}
    /\ work = [w \in Worker |-> AtRest]
    /\ asked = [w \in Words |-> 0] /\ unlisted = FALSE
    /\ works = 0 /\ losses = 0

MaxOf(S) == CHOOSE d \in S : \A e \in S : e <= d
FiledOn(d) == {f \in Published : f.day = d}

\* Filers named after the contractor and not ruled out.
Matching(row) == IF row.words = NoWords THEN {} ELSE Named[row.words] \ row.unrelated

\* A sync takes minutes: one evening may pass during it, and not two.
Evening ==
    /\ today < LastDay
    /\ \A w \in Worker : work[w].at \in {"day", "mark"} => work[w].made = today
    /\ today' = today + 1
    /\ UNCHANGED <<days, index, found, watch, said, work, asked, unlisted, works, losses>>

Does(w, to) ==
    /\ work' = [work EXCEPT ![w] = to]
    /\ UNCHANGED <<today, said, works>>

(***************************************************************************)
(* The daily index                                                         *)
(***************************************************************************)
\* days[-BACKFILL_DAYS:]
NewestOf(S) == {d \in S : Cardinality({e \in S : e > d}) < BackfillDays}

\* The days after the last one read, or the newest BackfillDays at first; a quarter
\* whose directory does not answer has no days in it.
SyncList(w) ==
    LET start == IF days = {} THEN today - (2 * BackfillDays + 1) ELSE MaxOf(days) + 1
        open  == {d \in TradingDays : d >= start /\ d < today}
    IN /\ work[w].at = "list"
       /\ \E down \in SUBSET {Quarter[d] : d \in open} :
             LET there == {d \in open : Quarter[d] \notin down}
             IN /\ losses' = losses + (IF down = {} THEN 0 ELSE 1)
                /\ losses' <= MaxLosses
                /\ unlisted' = (unlisted \/ down # {})
                /\ Does(w, [work[w] EXCEPT !.at = "day", !.made = today,
                            !.days = IF days = {} THEN NewestOf(there) ELSE there])
       /\ UNCHANGED <<days, index, found, watch, asked>>

FirstOf(S) == CHOOSE d \in S : \A e \in S : d <= e
SyncEnds(w) == work[w].days = {} \/ work[w].read = MaxDaysPerSync

\* add_formd_index: the rows of the next day; one already known stays.
ReadDay(w) ==
    /\ work[w].at = "day" /\ ~SyncEnds(w)
    /\ index' = index \cup FiledOn(FirstOf(work[w].days))
    /\ Does(w, [work[w] EXCEPT !.at = "mark"])
    /\ UNCHANGED <<days, found, watch, asked, unlisted, losses>>

\* mark_edgar_day, in a transaction of its own.
MarkDay(w) ==
    LET d == FirstOf(work[w].days)
    IN /\ work[w].at = "mark"
       /\ days' = days \cup {d}
       /\ Does(w, [work[w] EXCEPT !.at = "day", !.read = @ + 1, !.days = @ \ {d}])
       /\ UNCHANGED <<index, found, watch, asked, unlisted, losses>>

\* Mutant: a day that cannot be read is passed over, and the sync goes on.
PassOver(w) == [work[w] EXCEPT !.days = @ \ {FirstOf(@)}]

\* A day that cannot be read ends the sync.
StopThere(w) == [work[w] EXCEPT !.days = {}]

DayUnreadable(w) ==
    /\ work[w].at = "day" /\ ~SyncEnds(w) /\ losses < MaxLosses
    /\ losses' = losses + 1
    /\ Does(w, StopThere(w))
    /\ UNCHANGED <<days, index, found, watch, asked, unlisted>>

SyncDone(w) ==
    /\ work[w].at = "day" /\ SyncEnds(w)
    /\ Does(w, [work[w] EXCEPT !.at = work[w].next, !.next = "", !.days = {}, !.read = 0,
                            !.made = 0])
    /\ UNCHANGED <<days, index, found, watch, asked, unlisted, losses>>

(***************************************************************************)
(* The nightly check                                                       *)
(***************************************************************************)
Doing(at, next, words, given, unrelated) ==
    [at |-> at, next |-> next, words |-> words, watching |-> given,
     unrelated |-> unrelated, days |-> {}, read |-> 0, made |-> 0, row |-> NoWatch]

\* check: the index is brought up to date only when something is watched.
Nightly(w) ==
    /\ work[w] = AtRest /\ works < MaxWorks /\ watch.watching
    /\ work' = [work EXCEPT ![w] = Doing("list", "say", NoWords, "same", {})]
    /\ works' = works + 1
    /\ UNCHANGED <<today, days, index, found, watch, said, asked, unlisted, losses>>

\* alert_items: the filings made since watching, and the list, began.
AlertItems(row) ==
    {f \in index : /\ row.watching /\ f.by \in Matching(row)
                   /\ f.day >= row.since /\ f.day >= ListBegan}

\* pending_items with the watch as it is then; Alerts models the sending.
Say(w) ==
    /\ work[w].at = "say"
    /\ said' = said \cup AlertItems(watch)
    /\ work' = [work EXCEPT ![w] = AtRest]
    /\ UNCHANGED <<today, days, index, found, watch, asked, unlisted, works, losses>>

(***************************************************************************)
(* Requests                                                                *)
(***************************************************************************)
\* Mutant: new words keep the day the old ones were switched on.
OnlyWhenTurnedOn(old, words, watching) ==
    watching /\ (~old.watching \/ old.since = 0)

\* Whether a watch starts anew: it was off, or the words are others.
StartsAnew(old, words, watching) ==
    watching /\ (~old.watching \/ old.words # words \/ old.since = 0)

\* save_vehicle_watch: what is not given is as it was in the row just read.
Saved(old, words, watching, unrelated, looked) ==
    LET to == IF words = NoWords THEN old.words ELSE words
        on == IF watching = "same" THEN old.watching ELSE watching = "on"
    IN [words |-> to, watching |-> on, unrelated |-> unrelated,
        since |-> IF StartsAnew(old, to, on) THEN today ELSE old.since,
        looked |-> old.looked \/ looked]

\* The first day alerts are on with some words is the day a row says so.
Asks(row) ==
    asked' = IF row.watching /\ asked[row.words] = 0
             THEN [asked EXCEPT ![row.words] = today] ELSE asked

\* The row the request writes next, worked out from the one it reads now.
ReadRow(w, at, row) == Does(w, [work[w] EXCEPT !.at = at, !.row = row]) /\ Asks(row)

\* A request to look words up: find saves them before anything else.
Look(w) ==
    /\ work[w] = AtRest /\ works < MaxWorks
    /\ \E words \in Words :
          LET row == Saved(watch, words, "same", watch.unrelated, FALSE)
          IN /\ work' = [work EXCEPT ![w] =
                   [Doing("words", "", words, "same", {}) EXCEPT !.row = row]]
             /\ Asks(row)
    /\ works' = works + 1
    /\ UNCHANGED <<today, days, index, found, watch, said, unlisted, losses>>

\* A request to read more funds, to switch alerts, or to rule a fund out or in: what
\* it will leave ruled out comes from the row it reads first.
Request(w) ==
    /\ work[w] = AtRest /\ works < MaxWorks /\ watch # NoWatch
    /\ \/ work' = [work EXCEPT ![w] = Doing("more", "", NoWords, "same", watch.unrelated)]
       \/ \E given \in {"on", "off"} :
             work' = [work EXCEPT ![w] = Doing("read", "", NoWords, given, watch.unrelated)]
       \/ \E v \in Named[watch.words], ruledOut \in BOOLEAN :
             work' = [work EXCEPT ![w] =
                 Doing("read", "", NoWords, "same",
                       IF ruledOut THEN watch.unrelated \cup {v}
                       ELSE watch.unrelated \ {v})]
    /\ works' = works + 1
    /\ UNCHANGED <<today, days, index, found, watch, said, asked, unlisted, losses>>

\* The row is written whole, whatever it has become since it was read.
Write(row) == watch' = row /\ UNCHANGED asked

WriteWords(w) ==
    /\ work[w].at = "words"
    /\ Write(work[w].row)
    /\ Does(w, [work[w] EXCEPT !.at = "list", !.next = "lookup", !.row = NoWatch])
    /\ UNCHANGED <<days, index, found, unlisted, losses>>

\* The lookup by name, and what EDGAR gave is remembered.
Lookup(w) ==
    /\ work[w].at = "lookup"
    /\ found' = found \cup {[by |-> v, listed |-> FALSE] :
                    v \in {u \in Named[work[w].words] : \A e \in found : e.by # u}}
    /\ Does(w, [work[w] EXCEPT !.at = "looked"])
    /\ UNCHANGED <<days, index, watch, asked, unlisted, losses>>

\* The row is read again, once to say the words were looked up and once more for
\* what is ruled out.
ReadLooked(w) ==
    /\ work[w].at = "looked"
    /\ ReadRow(w, "write looked", Saved(watch, NoWords, "same", watch.unrelated, TRUE))
    /\ UNCHANGED <<days, index, found, watch, unlisted, losses>>

WriteLooked(w) ==
    /\ work[w].at = "write looked"
    /\ Write(work[w].row)
    /\ Does(w, [work[w] EXCEPT !.at = "read", !.row = NoWatch, !.words = NoWords,
                            !.unrelated = work[w].row.unrelated])
    /\ UNCHANGED <<days, index, found, unlisted, losses>>

\* read_more: the filings of one of the next funds found, and that they were listed.
Waiting == {e \in found : ~e.listed /\ e.by \in Matching(watch)}
ListFund(w) ==
    /\ work[w].at = "more" /\ work[w].read < Step
    /\ \E e \in Waiting :
          /\ index' = index \cup {f \in Published : f.by = e.by /\ f.day <= today}
          /\ found' = (found \ {e}) \cup {[e EXCEPT !.listed = TRUE]}
    /\ Does(w, [work[w] EXCEPT !.read = @ + 1])
    /\ UNCHANGED <<days, watch, asked, unlisted, losses>>

MoreDone(w) ==
    /\ work[w].at = "more" /\ (work[w].read = Step \/ Waiting = {})
    /\ Does(w, [work[w] EXCEPT !.at = "read", !.read = 0])
    /\ UNCHANGED <<days, index, found, watch, asked, unlisted, losses>>

\* The save every request ends with.
ReadLast(w) ==
    /\ work[w].at = "read"
    /\ ReadRow(w, "write", Saved(watch, NoWords, work[w].watching, work[w].unrelated, FALSE))
    /\ UNCHANGED <<days, index, found, watch, unlisted, losses>>

WriteLast(w) ==
    /\ work[w].at = "write"
    /\ Write(work[w].row)
    /\ Does(w, AtRest)
    /\ UNCHANGED <<days, index, found, unlisted, losses>>

\* The process ends under a worker, or EDGAR does not answer its lookup.
Lost(w) ==
    /\ work[w] # AtRest /\ losses < MaxLosses
    /\ losses' = losses + 1
    /\ Does(w, AtRest)
    /\ UNCHANGED <<days, index, found, watch, asked, unlisted>>

Works(w) ==
    \/ SyncList(w) \/ ReadDay(w) \/ MarkDay(w) \/ DayUnreadable(w) \/ SyncDone(w)
    \/ Nightly(w) \/ Say(w)
    \/ Look(w) \/ WriteWords(w) \/ Lookup(w) \/ ReadLooked(w) \/ WriteLooked(w)
    \/ Request(w) \/ ListFund(w) \/ MoreDone(w) \/ ReadLast(w) \/ WriteLast(w)
    \/ Lost(w)

FundsNext == Evening \/ \E w \in Worker : Works(w)

FundsSpec == FundsInit /\ [][FundsNext]_fundsVars

(***************************************************************************)
(* Properties                                                              *)
(***************************************************************************)
FundsTypeOK ==
    /\ days \subseteq TradingDays /\ index \subseteq Published /\ said \subseteq index
    /\ \A d \in days : d < today
    /\ found \subseteq [by: Vehicle, listed: BOOLEAN]
    /\ \A e, f \in found : e.by = f.by => e = f
    /\ watch.words \in Words \cup {NoWords} /\ watch.unrelated \subseteq Vehicle
    /\ watch.watching => watch.words \in Words /\ watch.since \in 1..today
    /\ works <= MaxWorks /\ losses <= MaxLosses

\* Looking a name up fills the index with old filings, and none of them is ever an
\* alert: what is said was filed since the first day alerts were on with the words
\* that match it, whatever words and switches there have been in between.
\* (the module comment of vehicles.py, save_vehicle_watch, alert_items)
HistoryIsNotNews ==
    [][\A f \in said' \ said :
            /\ f.by \in Matching(watch)
            /\ asked[watch.words] > 0 /\ f.day >= asked[watch.words]]_fundsVars

\* No day of the index is stepped over: between the first and the last day read,
\* every day that has an index was read and its filings are there, however many
\* syncs run at once, stop at a day or die; unless a directory did not answer.
\* (sync_daily_index, available_days)
NoDaySteppedOver ==
    ~unlisted =>
        \A d \in TradingDays : \A a, z \in days :
            a <= d /\ d <= z => d \in days /\ FiledOn(d) \subseteq index

=============================================================================
