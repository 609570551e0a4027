------------------------------- MODULE Sweep -------------------------------
(***************************************************************************)
(* Scheduled screens: the watchlists of a site (watchlists), the sweep that *)
(* claims the next one due at each of the day's screening times             *)
(* (scheduled_watchlist, screen_times.py), and what a run of a watch on a   *)
(* whole office does: read the office's awards from where the last run      *)
(* stopped (scope_index), screen its contractors in turn (entity_screens),  *)
(* and say whether there is more to do (backlog).                           *)
(*                                                                          *)
(* The site is one where screens run inside requests, so that a sweep and   *)
(* its run are one process; RunLifecycle has the row of the run.  A request *)
(* takes minutes and the clock moves by hours, while no request is open.    *)
(***************************************************************************)
EXTENDS Naturals, FiniteSets

CONSTANTS
    Watches,        \* watchlists of the office: a workspace has one, several may have it
    Processes,      \* requests: sweeps, and people who ask for a run
    Contractors,
    Queries,        \* the parts the award record is read in: its months
    MaxPages,       \* how many pages a part may come to have
    Names,          \* the contractor whose award a page of a part has
    Source,         \* Scope.source
    Settings,       \* FOCI_SCREEN_TIMES, entry by entry
    Standard, Daylight, \* the site's time zone: hours from UTC, mod 24; daylight time
    HoursPerTick,
    SweepHours,     \* SWEEP_WATCHLISTS_HOURS
    RunsPerDay,     \* FOCI_SCOPE_RUNS_PER_DAY
    MaxStops,       \* how many requests are killed, fail or run out of time here
    MaxWaiting,     \* how many screens of a watch wait here for a screening time
    Rank,           \* the order of contractors by what they are paid
    Nobody          \* no watch, no part, no contractor

ASSUME QueriesAssumption == Queries \subseteq Nat
ASSUME NamesAssumption == Names \in [Queries -> [0..MaxPages - 1 -> Contractors \cup {Nobody}]]
ASSUME SourceAssumption == Source \in {"fpds", "usaspending"}
ASSUME RankAssumption == Rank \in [Contractors -> Nat]
ASSUME ClockAssumption ==
    /\ HoursPerTick \in 1..24 /\ 24 % HoursPerTick = 0
    /\ Standard \in 0..23 /\ Daylight \in BOOLEAN
    /\ {SweepHours, RunsPerDay, MaxWaiting, MaxStops} \subseteq Nat /\ MaxPages \in Nat \ {0}
ASSUME SettingsAssumption ==
    /\ Settings # {}
    /\ \A e \in Settings : e.hour \in 0..23 /\ e.suffix \in {"", "am", "pm"}
                           /\ (e.suffix # "" => e.hour \in 1..12)

VARIABLES
    clock,          \* the hour of the UTC day, in ticks
    watch,          \* watchlists
    waiting,        \* of each watchlist, the runs with status scheduled
    index,          \* scope_index
    old,            \* parts whose fetched_at is of more than REREAD_DAYS ago
    pages,          \* how many pages a part of the award record has now
    stored,         \* the pages whose awards are in contracts
    screened,       \* entity_screens: "never", "stale" (rescreen_before) or "now"
    proc,           \* the requests
    stops,
    \* Histories.
    late,           \* parts with a page published since they were last read
    swept           \* sweeps of a watch since the site's midnight

base == <<index, old, pages, stored, screened>>
histories == <<late, swept>>
vars == <<clock, watch, waiting, base, proc, stops, histories>>

----------------------------------------------------------------------------
(* Screening times.                                                        *)

\* parse_times: "12am" is midnight, "12pm" is noon.
ParseTime(e) ==
    IF e.suffix = "" THEN e.hour
    ELSE (e.hour % 12) + (IF e.suffix = "pm" THEN 12 ELSE 0)

Times == {ParseTime(e) : e \in Settings}

\* local_now and _us_offset
LocalHour(tick) == (tick * HoursPerTick + Standard + (IF Daylight THEN 1 ELSE 0)) % 24

\* slot: the hour after each of the times.
InSlot(tick) == LocalHour(tick) \in Times

\* runs_allowed: the day's runs, shared out across the times that have begun, rounded up.
Begun(tick) == Cardinality({t \in Times : t <= LocalHour(tick)})
RunsAllowed(tick) ==
    (RunsPerDay * Begun(tick) + Cardinality(Times) - 1) \div Cardinality(Times)

----------------------------------------------------------------------------
(* hours: since last_run_at, up to Long; just: within CATCH_UP_MINUTES of   *)
(* it; runs: runs_today, of the UTC day now, 0 if runs_day is another.      *)
Long == SweepHours + HoursPerTick

Watch == [active : BOOLEAN, ever : BOOLEAN, hours : 0..Long, just : BOOLEAN,
          backlog : BOOLEAN, runs : Nat]
Position == [next : 0..MaxPages, done : BOOLEAN]

NotBegun == [q \in Queries |-> [next |-> 0, done |-> FALSE]]
NoJob == [at |-> "idle", watch |-> Nobody, due |-> {}, seen |-> NotBegun, todo |-> {},
          part |-> Nobody, start |-> 0, more |-> FALSE, left |-> FALSE, again |-> {},
          backlog |-> FALSE]
Idle == [at |-> "idle"]

Init ==
    /\ clock = 0
    /\ watch = [w \in Watches |-> [active |-> TRUE, ever |-> FALSE, hours |-> 0,
                                   just |-> FALSE, backlog |-> TRUE, runs |-> 0]]
    /\ waiting = [w \in Watches |-> 0]
    /\ index = NotBegun
    /\ old = {}
    /\ pages = [q \in Queries |-> 1]
    /\ stored = {}
    /\ screened = [c \in Contractors |-> "never"]
    /\ proc = [p \in Processes |-> Idle]
    /\ stops = 0
    /\ late = {}
    /\ swept = [w \in Watches |-> 0]

\* Mutant: catching up as often as it can.
AsOften(w) ==
    /\ watch[w].active
    /\ ~watch[w].ever \/ watch[w].hours > SweepHours \/ (watch[w].backlog /\ ~watch[w].just)

\* _DUE
Due(w) ==
    /\ watch[w].active
    /\ \/ ~watch[w].ever
       \/ watch[w].hours > SweepHours
       \/ watch[w].backlog /\ ~watch[w].just /\ watch[w].runs < RunsAllowed(clock)

\* Mutant: whoever an award is to, screened or not, and nobody too.
Awarded == {Names[page[1]][page[2]] : page \in stored}

Named == {Names[page[1]][page[2]] : page \in stored} \ {Nobody}
ToScreen == {c \in Named : screened[c] # "now"}

----------------------------------------------------------------------------
(* Time, and the world outside.                                            *)
Quiet == \A p \in Processes : proc[p] = Idle

HoursPass ==
    /\ Quiet
    /\ clock' = (clock + 1) % (24 \div HoursPerTick)
    /\ LET Older(h) == IF h + HoursPerTick > Long THEN Long ELSE h + HoursPerTick
       IN  watch' = [w \in Watches |->
               [watch[w] EXCEPT !.hours = Older(@), !.just = FALSE,
                                !.runs = IF clock' = 0 THEN 0 ELSE @]]
    /\ swept' = IF LocalHour(clock') <= LocalHour(clock) THEN [w \in Watches |-> 0] ELSE swept
    /\ UNCHANGED <<waiting, base, proc, stops, late>>

\* CATCH_UP_MINUTES after a run.
MinutesPass ==
    /\ Quiet
    /\ \E w \in Watches : watch[w].just
    /\ watch' = [w \in Watches |-> [watch[w] EXCEPT !.just = FALSE]]
    /\ UNCHANGED <<clock, waiting, base, proc, stops, histories>>

WeeksPass ==
    /\ \E q \in Queries : index[q].done /\ q \notin old
    /\ old' = {q \in Queries : index[q].done}
    /\ UNCHANGED <<clock, watch, waiting, index, pages, stored, screened, proc, stops, histories>>

\* A month after a screen, or when RULES_CHANGED moves.
RulesChange ==
    /\ Quiet
    /\ \E c \in Contractors : screened[c] = "now"
    /\ screened' = [c \in Contractors |-> IF screened[c] = "now" THEN "stale" ELSE screened[c]]
    /\ UNCHANGED <<clock, watch, waiting, index, old, pages, stored, proc, stops, histories>>

Publish(q) ==
    /\ pages[q] < MaxPages
    /\ pages' = [pages EXCEPT ![q] = @ + 1]
    /\ late' = late \cup {q}
    /\ UNCHANGED <<clock, watch, waiting, index, old, stored, screened, proc, stops, swept>>

\* set_watchlist_active: pause, and resume
SetActive(w, active) ==
    /\ Quiet
    /\ watch[w].active # active
    /\ watch' = [watch EXCEPT ![w].active = active]
    /\ UNCHANGED <<clock, waiting, base, proc, stops, histories>>

----------------------------------------------------------------------------
(* Starting a run.                                                         *)

\* mark_watchlist_run
Marked(w) == [watch EXCEPT ![w].ever = TRUE, ![w].hours = 0, ![w].just = TRUE]

\* run_screen_job, at its start: mark_running, and the state of the index.
Job(w) ==
    [NoJob EXCEPT !.at = "reading", !.watch = w, !.seen = index, !.todo = Queries]

Run(p, w) == proc' = [proc EXCEPT ![p] = Job(w)]

(* scheduled_watchlist at a screening time.  A screen somebody asked for    *)
(* since the last one goes first ...                                        *)
SweepWaiting(p, w) ==
    /\ proc[p] = Idle
    /\ InSlot(clock)
    /\ waiting[w] > 0
    /\ waiting' = [waiting EXCEPT ![w] = @ - 1]
    /\ Run(p, w)
    /\ UNCHANGED <<clock, watch, base, stops, histories>>

\* ... and then whoever is due, as read once.
SweepReads(p) ==
    /\ proc[p] = Idle
    /\ InSlot(clock)
    /\ \A w \in Watches : waiting[w] = 0
    /\ \E w \in Watches : Due(w)
    /\ proc' = [proc EXCEPT ![p] = [NoJob EXCEPT !.at = "claiming",
                                                 !.due = {w \in Watches : Due(w)}]]
    /\ UNCHANGED <<clock, watch, waiting, base, stops, histories>>

\* ORDER BY last_run_at IS NOT NULL, last_run_at
Longest(ws) ==
    {w \in ws : \A v \in ws :
        ~watch[w].ever \/ (watch[v].ever /\ watch[v].hours <= watch[w].hours)}

\* Mutant: the claim trusts the list it was given.
StillListed(w) == TRUE

\* claim_watchlist_run: the UPDATE asks again whether it is due.
StillDue(w) == Due(w)

Claim(p) ==
    /\ proc[p].at = "claiming"
    /\ \E w \in Longest(proc[p].due) :
         IF StillDue(w)
         THEN /\ watch' = [Marked(w) EXCEPT ![w].runs = @ + 1]
              /\ proc' = [proc EXCEPT ![p].at = "starting", ![p].watch = w, ![p].due = {}]
              /\ swept' = [swept EXCEPT ![w] = IF @ > RunsPerDay THEN @ ELSE @ + 1]
         ELSE /\ proc' = IF proc[p].due = {w} THEN [proc EXCEPT ![p] = Idle]
                         ELSE [proc EXCEPT ![p].due = @ \ {w}]
              /\ UNCHANGED <<watch, swept>>
    /\ UNCHANGED <<clock, waiting, base, stops, late>>

StartRun(p) ==
    LET w == proc[p].watch
    IN  /\ proc[p].at = "starting"
        /\ watch' = Marked(w)
        /\ Run(p, w)
        /\ UNCHANGED <<clock, waiting, base, stops, histories>>

\* _run_later: at a screening time, for an admin, or the first time.
StartsNow(w, admin) == InSlot(clock) \/ admin \/ ~watch[w].ever

(* run_watchlist, and watch_scope of an office that is watched already,     *)
(* which also resumes the watch and has it catch up.                        *)
RunNow(p, w, admin, whole) ==
    /\ proc[p] = Idle
    /\ watch' = [Marked(w) EXCEPT ![w].backlog = @ \/ whole, ![w].active = @ \/ whole]
    /\ IF StartsNow(w, admin)
       THEN /\ Run(p, w)
            /\ UNCHANGED waiting
       ELSE /\ waiting[w] < MaxWaiting
            /\ waiting' = [waiting EXCEPT ![w] = @ + 1]
            /\ UNCHANGED proc
    /\ UNCHANGED <<clock, base, stops, histories>>

----------------------------------------------------------------------------
(* A run of a watch on the office: reading its awards.                     *)

\* Newest first; the position of each part is as the run read it at its start.
Reading(p, q) ==
    proc[p].at = "reading" /\ q \in proc[p].todo /\ \A r \in proc[p].todo : r <= q

Advance(p, q, left) ==
    proc' = [proc EXCEPT ![p].todo = @ \ {q}, ![p].left = @ \/ left]

\* Mutant: what is read is read.
NotReread(q) == FALSE

\* A month read a week ago is read again, "DoD publishes late"; the parts here are
\* the recent ones (REREAD_MONTHS), which alone are.
ReadAgain(q) == q \in old

PassOver(p, q) ==
    /\ Reading(p, q)
    /\ proc[p].seen[q].done
    /\ ~ReadAgain(q)
    /\ Advance(p, q, FALSE)
    /\ UNCHANGED <<clock, watch, waiting, base, stops, histories>>

\* reopen_scope_index
Reopen(p, q) ==
    LET first == [next |-> 0, done |-> FALSE]
    IN  /\ Reading(p, q)
        /\ proc[p].seen[q].done
        /\ ReadAgain(q)
        /\ index' = [index EXCEPT ![q] = first]
        /\ proc' = [proc EXCEPT ![p].seen[q] = first]
        /\ UNCHANGED <<clock, watch, waiting, old, pages, stored, screened, stops, histories>>

\* The time for reading is over: the part is left for the next run.
LeavePart(p, q) ==
    /\ Reading(p, q)
    /\ ~proc[p].seen[q].done
    /\ Advance(p, q, TRUE)
    /\ UNCHANGED <<clock, watch, waiting, base, stops, histories>>

\* search_page, and save_contract for each award of the page.
ReadPage(p, q) ==
    LET start == proc[p].seen[q].next
        more == start + 1 < pages[q]
    IN  /\ Reading(p, q)
        /\ ~proc[p].seen[q].done
        /\ stored' = IF start < pages[q] THEN stored \cup {<<q, start>>} ELSE stored
        /\ late' = IF more THEN late ELSE late \ {q}
        /\ proc' = [proc EXCEPT ![p].at = "saving", ![p].part = q, ![p].start = start + 1,
                                ![p].more = more]
        /\ UNCHANGED <<clock, watch, waiting, index, old, pages, screened, stops, swept>>

\* Mutant: FPDS's reader does as USAspending's.
NeverAgain == FALSE

TriesAgain == Source = "fpds"

(* The source does not answer.  FPDS's reader leaves the page for the next  *)
(* run; USAspending's takes no answer for a last page with nothing on it.   *)
NoAnswer(p, q) ==
    /\ Reading(p, q)
    /\ ~proc[p].seen[q].done
    /\ IF TriesAgain THEN Advance(p, q, TRUE)
       ELSE proc' = [proc EXCEPT ![p].at = "saving", ![p].part = q,
                        ![p].start = proc[p].seen[q].next + 1, ![p].more = FALSE]
    /\ UNCHANGED <<clock, watch, waiting, base, stops, histories>>

\* save_scope_index, when the page's awards are saved.
SaveIndex(p) ==
    LET q == proc[p].part
        position == [next |-> proc[p].start, done |-> ~proc[p].more]
        todo == IF position.done THEN proc[p].todo \ {q} ELSE proc[p].todo
    IN  /\ proc[p].at = "saving"
        /\ index' = [index EXCEPT ![q] = position]
        /\ old' = old \ {q}
        /\ proc' = [proc EXCEPT ![p] =
                        [proc[p] EXCEPT !.at = "reading", !.part = Nobody, !.start = 0,
                            !.more = FALSE, !.seen[q] = position, !.todo = todo]]
        /\ UNCHANGED <<clock, watch, waiting, pages, stored, screened, stops, histories>>

----------------------------------------------------------------------------
(* Screening its contractors.                                              *)

\* scope_candidates, once.
Candidates(p) ==
    /\ proc[p].at = "reading"
    /\ proc[p].todo = {}
    /\ proc' = [proc EXCEPT ![p].at = "screening", ![p].again = ToScreen,
                            ![p].seen = NotBegun]
    /\ UNCHANGED <<clock, watch, waiting, base, stops, histories>>

\* Never screened first, largest first.
Before(c, d) ==
    \/ screened[c] = "never" /\ screened[d] # "never"
    \/ (screened[c] = "never" <=> screened[d] = "never") /\ Rank[c] < Rank[d]

ScreenNext(p, c) ==
    /\ proc[p].at = "screening"
    /\ c \in proc[p].again
    /\ \A d \in proc[p].again \ {c} : Before(c, d)
    /\ screened' = [screened EXCEPT ![c] = "now"]
    /\ proc' = [proc EXCEPT ![p].again = @ \ {c}]
    /\ UNCHANGED <<clock, watch, waiting, index, old, pages, stored, stops, histories>>

\* All screened, or no time for another: what is left, by the tables as they are.
Summarise(p) ==
    /\ proc[p].at = "screening"
    /\ proc' = [proc EXCEPT ![p].at = "ending", ![p].again = {},
                            ![p].left = FALSE,
                            ![p].backlog = proc[p].left \/ ToScreen # {}]
    /\ UNCHANGED <<clock, watch, waiting, base, stops, histories>>

SetBacklog(p) ==
    /\ proc[p].at = "ending"
    /\ watch' = [watch EXCEPT ![proc[p].watch].backlog = proc[p].backlog]
    /\ proc' = [proc EXCEPT ![p] = Idle]
    /\ UNCHANGED <<clock, waiting, base, stops, histories>>

\* The run is over its limit, fails, or its process dies.
JobStops(p) ==
    /\ proc[p] # Idle
    /\ stops < MaxStops
    /\ stops' = stops + 1
    /\ proc' = [proc EXCEPT ![p] = Idle]
    /\ UNCHANGED <<clock, watch, waiting, base, histories>>

----------------------------------------------------------------------------
Work(p) ==
    \/ Claim(p) \/ StartRun(p)
    \/ \E q \in Queries : \/ PassOver(p, q) \/ Reopen(p, q) \/ LeavePart(p, q)
                          \/ ReadPage(p, q) \/ NoAnswer(p, q)
    \/ SaveIndex(p) \/ Candidates(p) \/ (\E c \in Contractors : ScreenNext(p, c))
    \/ Summarise(p) \/ SetBacklog(p)

Ask(p) == SweepReads(p) \/ \E w \in Watches : SweepWaiting(p, w)

Next ==
    \/ HoursPass \/ MinutesPass \/ WeeksPass \/ RulesChange
    \/ \E q \in Queries : Publish(q)
    \/ \E w \in Watches, active \in BOOLEAN : SetActive(w, active)
    \/ \E p \in Processes : Ask(p) \/ Work(p) \/ JobStops(p)
    \/ \E p \in Processes, w \in Watches, admin, whole \in BOOLEAN : RunNow(p, w, admin, whole)

(* The workflow asks every hour; a source asked again and again answers in  *)
(* the end; and no contractor takes a run's whole time every time.          *)
Fairness ==
    /\ WF_vars(HoursPass)
    /\ WF_vars(WeeksPass)
    /\ SF_vars(\E p \in Processes : Ask(p))
    /\ \A p \in Processes : WF_vars(Work(p))
    /\ SF_vars(\E p \in Processes, q \in Queries : ReadPage(p, q))
    /\ \A c \in Contractors : SF_vars(\E p \in Processes : ScreenNext(p, c))

Spec == Init /\ [][Next]_vars
FairSpec == Spec /\ Fairness

----------------------------------------------------------------------------
Jobs == {Idle} \cup
    [at : {"claiming", "starting", "reading", "saving", "screening", "ending"},
     watch : Watches \cup {Nobody}, due : SUBSET Watches, seen : [Queries -> Position],
     todo : SUBSET Queries, part : Queries \cup {Nobody}, start : 0..MaxPages,
     more : BOOLEAN, left : BOOLEAN, again : SUBSET Contractors, backlog : BOOLEAN]

TypeOK ==
    /\ clock \in 0..(24 \div HoursPerTick) - 1
    /\ watch \in [Watches -> Watch]
    /\ waiting \in [Watches -> 0..MaxWaiting]
    /\ index \in [Queries -> Position]
    /\ old \in SUBSET Queries
    /\ pages \in [Queries -> 1..MaxPages]
    /\ stored \in SUBSET (Queries \X (0..MaxPages - 1))
    /\ screened \in [Contractors -> {"never", "stale", "now"}]
    /\ proc \in [Processes -> Jobs]
    /\ stops \in 0..MaxStops
    /\ late \in SUBSET Queries
    /\ swept \in [Watches -> 0..RunsPerDay + 1]

(* "two sweeps at once must not screen the same list twice" (store.py): of  *)
(* the requests that have claimed a list and are about to start its run,    *)
(* no two have the same.                                                    *)
SweptOnce ==
    \A p, r \in Processes :
        proc[p].at = "starting" /\ proc[r].at = "starting" /\ p # r
            => proc[p].watch # proc[r].watch

(* An index that says a part of the award record is done has all of its     *)
(* pages but what was published since, and one that says how far it got     *)
(* has what is before: nobody an office pays is left out for good.          *)
IndexIsTrue ==
    \A q \in Queries :
        /\ \A k \in 0..MaxPages - 1 :
             k < index[q].next /\ k < pages[q] => <<q, k>> \in stored \/ q \in late
        /\ index[q].done /\ q \notin late => {q} \X (0..pages[q] - 1) \subseteq stored

(* screen_times.py: an office's daily runs "are shared out across the day's *)
(* times, so the morning does not use them all": while catching up it is    *)
(* swept no more often in a day of the site than its share so far.          *)
SharedOut ==
    \A w \in Watches : swept[w] > 0 => swept[w] <= RunsAllowed(clock) \/ ~InSlot(clock)

(* A list is swept by one request at a time, and in its share of the day.  *)
SweptInTurn == SweptOnce /\ SharedOut

(* Every contractor the office's awards name is screened in the end, for as *)
(* long as the office is watched, whatever runs fail, stop or overlap.      *)
Unscreened(c) ==
    /\ \E w \in Watches : watch[w].active
    /\ \E q \in Queries, k \in 0..MaxPages - 1 : k < pages[q] /\ Names[q][k] = c
    /\ screened[c] = "never"

EverybodyIsScreened == \A c \in Contractors : Unscreened(c) ~> ~Unscreened(c)
=============================================================================
