---------------------------- MODULE SweepProofs ----------------------------
(***************************************************************************)
(* What is proved of Sweep, for any watchlists, requests, contractors,     *)
(* award records, screening times and bounds: the types, that two sweeps   *)
(* never start one list together, and, where the source says when it did   *)
(* not answer, that the index of an office claims nothing it has not read. *)
(* Where a site's day has UTC's in one piece (SharedDay), no list is swept *)
(* more often than its share.                                              *)
(***************************************************************************)
EXTENDS Sweep, Integers, FiniteSetTheorems, TLAPS

Request ==
    [at : {"claiming", "starting", "reading", "saving", "screening", "ending"},
     watch : Watches \cup {Nobody}, due : SUBSET Watches, seen : [Queries -> Position],
     todo : SUBSET Queries, part : Queries \cup {Nobody}, start : 0..MaxPages,
     more : BOOLEAN, left : BOOLEAN, again : SUBSET Contractors, backlog : BOOLEAN]

----------------------------------------------------------------------------
(* The inductive invariant.                                                *)

\* A place in a part of the record: not past its end, and before it if there is more.
Fits(q, pos) ==
    /\ pos \in Position
    /\ pos.next <= pages[q]
    /\ ~pos.done => pos.next < pages[q]

\* The place a request is about to save.
Reached(j) == [next |-> j.start, done |-> ~j.more]

Places(j) ==
    /\ \A q \in Queries : Fits(q, j.seen[q])
    /\ j.at = "saving" => j.part \in Queries /\ Fits(j.part, Reached(j))

InPlace ==
    /\ \A q \in Queries : Fits(q, index[q])
    /\ \A p \in Processes : proc[p] # Idle => Places(proc[p])

\* What a place claims: the pages before it are stored, and all of them at the end.
Held(q, pos) ==
    /\ \A k \in Nat : k < pos.next => <<q, k>> \in stored
    /\ pos.done /\ q \notin late => \A k \in Nat : k < pages[q] => <<q, k>> \in stored

Backed(j) ==
    /\ \A q \in Queries : Held(q, j.seen[q])
    /\ j.at = "saving" => Held(j.part, Reached(j))

AllHeld ==
    /\ \A q \in Queries : Held(q, index[q])
    /\ \A p \in Processes : proc[p] # Idle => Backed(proc[p])

\* A list somebody has claimed is due for nobody else.
Taken(w) == w \in Watches /\ watch[w].ever /\ watch[w].hours = 0 /\ watch[w].just

AllTaken == \A p \in Processes : proc[p].at = "starting" => Taken(proc[p].watch)

----------------------------------------------------------------------------
LEMMA JobKinds ==
    /\ Jobs = {Idle} \cup Request
    /\ Idle \notin Request
    /\ \A j \in Jobs : j # Idle <=> j \in Request
    /\ \A j \in Jobs : j.at # "idle" => j \in Request
    /\ Idle.at = "idle"
  BY DEF Jobs, Request, Idle

LEMMA NoJobType == NoJob.seen = NotBegun /\ NotBegun \in [Queries -> Position]
  BY ClockAssumption DEF NoJob, NotBegun, Position

LEMMA JobType ==
    ASSUME NEW w \in Watches, index \in [Queries -> Position]
    PROVE  Job(w) \in Request /\ Job(w).at = "reading" /\ Job(w).seen = index
<1>1. Job(w) = [at |-> "reading", watch |-> w, due |-> {}, seen |-> index, todo |-> Queries,
                part |-> Nobody, start |-> 0, more |-> FALSE, left |-> FALSE, again |-> {},
                backlog |-> FALSE]
  <2> DEFINE none == [at |-> "idle", watch |-> Nobody, due |-> {}, seen |-> NotBegun,
                      todo |-> {}, part |-> Nobody, start |-> 0, more |-> FALSE,
                      left |-> FALSE, again |-> {}, backlog |-> FALSE]
  <2>1. Job(w) = [none EXCEPT !.at = "reading", !.watch = w, !.seen = index, !.todo = Queries]
    BY DEF Job, NoJob
  <2> QED
    BY <2>1
<1>2. 0 \in 0..MaxPages
  BY ClockAssumption
<1> QED
  BY <1>1, <1>2 DEF Request

LEMMA DayType == 24 \div HoursPerTick \in 1..24
<1> DEFINE d == 24 \div HoursPerTick
<1>1. HoursPerTick \in 1..24 /\ d \in Int
  BY ClockAssumption
<1>2. 24 = HoursPerTick * d + (24 % HoursPerTick) /\ 24 % HoursPerTick \in 0..HoursPerTick - 1
  BY <1>1
<1>3. d >= 0 /\ d <= 24
  BY <1>1
<1>4. d # 0
  BY <1>1, ClockAssumption
<1> QED
  BY <1>1, <1>3, <1>4

LEMMA MarkedType ==
    ASSUME watch \in [Watches -> Watch], NEW w \in Watches
    PROVE  /\ Marked(w) \in [Watches -> Watch]
           /\ Marked(w)[w] = [watch[w] EXCEPT !.ever = TRUE, !.hours = 0, !.just = TRUE]
           /\ \A v \in Watches \ {w} : Marked(w)[v] = watch[v]
<1> DEFINE o == [watch[w] EXCEPT !.ever = TRUE, !.hours = 0, !.just = TRUE]
<1>1. Marked(w) = [watch EXCEPT ![w] = o]
  BY DEF Marked
<1>2. 0 \in 0..Long
  BY ClockAssumption DEF Long
<1>3. o \in Watch
  BY <1>2 DEF Watch
<1> HIDE DEF o
<1> QED
  BY <1>1, <1>3 DEF o

\* A request that changes, among others that do not.
LEMMA JobChange ==
    ASSUME proc \in [Processes -> Jobs], NEW p \in Processes, NEW j \in Jobs,
           proc' = [proc EXCEPT ![p] = j]
    PROVE  /\ proc' \in [Processes -> Jobs]
           /\ proc'[p] = j
           /\ \A r \in Processes \ {p} : proc'[r] = proc[r]
  OBVIOUS

IInv == TypeOK /\ InPlace /\ AllTaken

\* What only one request's own step can disturb.
LEMMA PlacesStay ==
    ASSUME InPlace, pages' = pages, NEW p \in Processes,
           \A r \in Processes \ {p} : proc'[r] = proc[r],
           proc'[p] # Idle => Places(proc'[p]),
           \A q \in Queries : Fits(q, index'[q])
    PROVE  InPlace'
<1>1. \A q, pos : Fits(q, pos) <=> Fits(q, pos)'
  BY DEF Fits
<1>2. \A q \in Queries : Fits(q, index[q])'
  BY DEF Fits
<1>3. \A r \in Processes : proc'[r] # Idle => Places(proc'[r])
  BY DEF InPlace
<1>4. \A r \in Processes : (proc[r] # Idle => Places(proc[r]))'
  BY <1>3 DEF Places, Reached, Fits, Idle
<1> QED
  BY <1>2, <1>4 DEF InPlace

LEMMA TakenStays ==
    ASSUME AllTaken, NEW p \in Processes,
           \A r \in Processes \ {p} : proc'[r] = proc[r],
           \A w \in Watches : Taken(w) => Taken(w)',
           proc'[p].at = "starting" => Taken(proc[p].watch)'
    PROVE  AllTaken'
<1>1. \A r \in Processes \ {p} : proc'[r].at = "starting" => Taken(proc[r].watch)'
  <2> SUFFICES ASSUME NEW r \in Processes \ {p}, proc'[r].at = "starting"
               PROVE  Taken(proc[r].watch)'
    OBVIOUS
  <2>1. proc'[r] = proc[r] /\ Taken(proc[r].watch)
    BY DEF AllTaken
  <2>2. PICK w \in Watches : w = proc[r].watch
    BY <2>1 DEF Taken
  <2>3. Taken(w)'
    BY <2>1, <2>2
  <2> QED
    BY <2>1, <2>2, <2>3 DEF Taken
<1> QED
  BY <1>1 DEF AllTaken

----------------------------------------------------------------------------
(* Time, and the world outside.                                            *)

\* While no request is open there is nothing to keep but the watchlists' rows.
LEMMA QuietKeeps ==
    ASSUME IInv, Quiet, UNCHANGED <<proc, pages, index>>
    PROVE  InPlace' /\ AllTaken'
<1>1. \A p \in Processes : proc'[p] = Idle /\ proc'[p].at # "starting"
  BY DEF Quiet, Idle
<1>2. \A q \in Queries : Fits(q, index[q])'
  BY DEF IInv, InPlace, Fits
<1> QED
  BY <1>1, <1>2 DEF InPlace, AllTaken, Idle

LEMMA HoursKeep == ASSUME IInv, HoursPass PROVE IInv'
<1> USE DEF IInv, TypeOK
<1>1. clock' \in 0..(24 \div HoursPerTick) - 1
  <2> DEFINE day == 24 \div HoursPerTick
  <2>1. day \in 1..24 /\ clock \in Nat
    BY DayType
  <2>2. clock' = (clock + 1) % day
    BY DEF HoursPass
  <2> HIDE DEF day
  <2>3. clock' \in 0..day - 1
    BY <2>1, <2>2
  <2> QED
    BY <2>3 DEF day
<1>2. watch' \in [Watches -> Watch]
  <2> SUFFICES ASSUME NEW w \in Watches PROVE watch'[w] \in Watch
    BY DEF HoursPass
  <2> DEFINE o == watch[w]
             h == IF o.hours + HoursPerTick > Long THEN Long ELSE o.hours + HoursPerTick
             n == IF clock' = 0 THEN 0 ELSE o.runs
  <2>1. watch'[w] = [o EXCEPT !.hours = h, !.just = FALSE, !.runs = n]
    BY DEF HoursPass
  <2>2. o \in Watch
    OBVIOUS
  <2>3. h \in 0..Long /\ n \in Nat
    BY <2>2, ClockAssumption DEF Watch, Long
  <2> HIDE DEF o, h, n
  <2> QED
    BY <2>1, <2>2, <2>3 DEF Watch
<1>3. swept' \in [Watches -> 0..RunsPerDay + 1]
  <2>1. 0 \in 0..RunsPerDay + 1
    BY ClockAssumption
  <2> QED
    BY <2>1 DEF HoursPass
<1>4. UNCHANGED <<waiting, index, old, pages, stored, screened, proc, stops, late>>
  BY DEF HoursPass, base
<1>5. TypeOK'
  BY <1>1, <1>2, <1>3, <1>4
<1> QED
  BY <1>4, <1>5, QuietKeeps DEF HoursPass

LEMMA QuietStepsKeep ==
    ASSUME IInv, MinutesPass \/ RulesChange \/ \E w \in Watches, active \in BOOLEAN : SetActive(w, active)
    PROVE  IInv'
<1> USE DEF IInv, TypeOK
<1>1. CASE MinutesPass
  <2>1. watch' \in [Watches -> Watch]
    BY <1>1 DEF MinutesPass, Watch
  <2>2. UNCHANGED <<clock, waiting, index, old, pages, stored, screened, proc, stops, late, swept>>
    BY <1>1 DEF MinutesPass, base, histories
  <2> QED
    BY <1>1, <2>1, <2>2, QuietKeeps DEF MinutesPass
<1>2. CASE RulesChange
  <2>1. UNCHANGED <<clock, watch, waiting, index, old, pages, stored, proc, stops, late, swept>>
    BY <1>2 DEF RulesChange, histories
  <2>2. screened' \in [Contractors -> {"never", "stale", "now"}]
    BY <1>2 DEF RulesChange
  <2> QED
    BY <1>2, <2>1, <2>2, QuietKeeps DEF RulesChange
<1>3. ASSUME NEW w \in Watches, NEW active \in BOOLEAN, SetActive(w, active) PROVE IInv'
  <2>1. watch' \in [Watches -> Watch]
    BY <1>3 DEF SetActive, Watch
  <2>2. UNCHANGED <<clock, waiting, index, old, pages, stored, screened, proc, stops, late, swept>>
    BY <1>3 DEF SetActive, base, histories
  <2> QED
    BY <1>3, <2>1, <2>2, QuietKeeps DEF SetActive
<1> QED
  BY <1>1, <1>2, <1>3

LEMMA WeeksKeep == ASSUME IInv, WeeksPass PROVE IInv'
<1>1. UNCHANGED <<clock, watch, waiting, index, pages, stored, screened, proc, stops, late, swept>>
  BY DEF WeeksPass, histories
<1>2. TypeOK'
  BY <1>1 DEF IInv, TypeOK, WeeksPass
<1>3. InPlace' /\ AllTaken'
  BY <1>1 DEF IInv, InPlace, Places, Reached, Fits, AllTaken, Taken, Idle
<1> QED
  BY <1>2, <1>3 DEF IInv

\* A place stays one when the record grows.
LEMMA PublishKeeps == ASSUME IInv, NEW q \in Queries, Publish(q) PROVE IInv'
<1> USE DEF IInv
<1>1. UNCHANGED <<clock, watch, waiting, index, old, stored, screened, proc, stops, swept>>
  BY DEF Publish
<1>2. /\ pages' \in [Queries -> 1..MaxPages]
      /\ \A r \in Queries : pages[r] \in Nat /\ pages'[r] \in Nat /\ pages[r] <= pages'[r]
  BY ClockAssumption DEF Publish, TypeOK
<1>3. TypeOK'
  BY <1>1, <1>2 DEF TypeOK, Publish
<1>4. \A r \in Queries : \A pos : Fits(r, pos) => Fits(r, pos)'
  BY <1>2 DEF Fits, Position
<1>5. InPlace'
  <2>1. \A r \in Queries : Fits(r, index[r])'
    <3> SUFFICES ASSUME NEW r \in Queries PROVE Fits(r, index[r])'
      OBVIOUS
    <3>1. PICK pos : pos = index[r]
      OBVIOUS
    <3>2. Fits(r, pos)'
      BY <1>4, <3>1 DEF InPlace
    <3> QED
      BY <1>1, <3>1, <3>2 DEF Fits
  <2>2. ASSUME NEW p \in Processes, proc'[p] # Idle PROVE Places(proc[p])'
    <3>1. PICK j : j = proc[p]
      OBVIOUS
    <3>2. Places(j)
      BY <1>1, <2>2, <3>1 DEF InPlace
    <3>3. \A r \in Queries : Fits(r, j.seen[r])'
      BY <1>4, <3>2 DEF Places
    <3>4. j.at = "saving" => j.part \in Queries /\ Fits(j.part, Reached(j))'
      BY <1>4, <3>2 DEF Places, Reached
    <3>5. Places(j)'
      BY <3>3, <3>4 DEF Places
    <3> QED
      BY <1>1, <3>1, <3>5 DEF Places, Reached, Fits
  <2> QED
    BY <2>1, <2>2 DEF InPlace, Idle
<1>6. AllTaken'
  BY <1>1 DEF AllTaken, Taken
<1> QED
  BY <1>3, <1>5, <1>6

----------------------------------------------------------------------------
(* Starting a run.                                                         *)

\* A run begins with the index as it is.
LEMMA RunBegins ==
    ASSUME IInv, NEW p \in Processes, NEW w \in Watches, Run(p, w), UNCHANGED <<index, pages>>
    PROVE  /\ proc' \in [Processes -> Jobs]
           /\ proc'[p] # Idle /\ proc'[p].at # "starting"
           /\ \A r \in Processes \ {p} : proc'[r] = proc[r]
           /\ InPlace'
<1> DEFINE j == Job(w)
<1>1. j \in Request /\ j.at = "reading" /\ j.seen = index
  BY JobType DEF IInv, TypeOK
<1>2. j \in Jobs /\ j # Idle
  BY <1>1, JobKinds
<1>3. proc' = [proc EXCEPT ![p] = j]
  BY DEF Run
<1> HIDE DEF j
<1>4. /\ proc' \in [Processes -> Jobs]
      /\ proc'[p] = j
      /\ \A r \in Processes \ {p} : proc'[r] = proc[r]
  BY <1>2, <1>3, JobChange DEF IInv, TypeOK
<1>5. Places(proc'[p])
  BY <1>1, <1>4 DEF Places, IInv, InPlace
<1>6. \A q \in Queries : Fits(q, index'[q])
  BY DEF IInv, InPlace
<1> QED
  BY <1>1, <1>2, <1>4, <1>5, <1>6, PlacesStay DEF IInv

LEMMA WaitingKeeps ==
    ASSUME IInv, NEW p \in Processes, NEW w \in Watches, SweepWaiting(p, w)
    PROVE  IInv'
<1> USE DEF IInv
<1>1. UNCHANGED <<clock, watch, index, old, pages, stored, screened, stops, late, swept>>
  BY DEF SweepWaiting, base, histories
<1>2. waiting' \in [Watches -> 0..MaxWaiting]
  BY ClockAssumption DEF SweepWaiting, TypeOK
<1>3. /\ proc' \in [Processes -> Jobs]
      /\ proc'[p] # Idle /\ proc'[p].at # "starting"
      /\ \A r \in Processes \ {p} : proc'[r] = proc[r]
      /\ InPlace'
  BY <1>1, RunBegins DEF SweepWaiting
<1>4. TypeOK'
  BY <1>1, <1>2, <1>3 DEF TypeOK
<1>5. AllTaken'
  BY <1>1, <1>3, TakenStays DEF Taken
<1> QED
  BY <1>3, <1>4, <1>5

\* A request that is not at a place in the record, or only at the beginning of it.
LEMMA JobMoves ==
    ASSUME IInv, NEW p \in Processes, NEW j \in Jobs, proc' = [proc EXCEPT ![p] = j],
           UNCHANGED <<index, pages>>, j # Idle => Places(j)
    PROVE  /\ proc' \in [Processes -> Jobs]
           /\ proc'[p] = j
           /\ \A r \in Processes \ {p} : proc'[r] = proc[r]
           /\ InPlace'
<1>1. /\ proc' \in [Processes -> Jobs]
      /\ proc'[p] = j
      /\ \A r \in Processes \ {p} : proc'[r] = proc[r]
  BY JobChange DEF IInv, TypeOK
<1>2. \A q \in Queries : Fits(q, index'[q])
  BY DEF IInv, InPlace
<1> QED
  BY <1>1, <1>2, PlacesStay DEF IInv

LEMMA BeginningFits ==
    ASSUME TypeOK, NEW q \in Queries
    PROVE  Fits(q, [next |-> 0, done |-> FALSE]) /\ Fits(q, NotBegun[q])
<1>1. pages[q] \in 1..MaxPages
  BY DEF TypeOK
<1> QED
  BY <1>1, ClockAssumption DEF Fits, Position, NotBegun

LEMMA SweepReadsKeeps == ASSUME IInv, NEW p \in Processes, SweepReads(p) PROVE IInv'
<1> USE DEF IInv
<1>1. UNCHANGED <<clock, watch, waiting, index, old, pages, stored, screened, stops, late, swept>>
  BY DEF SweepReads, base, histories
<1> DEFINE due == {w \in Watches : Due(w)}
           j == [NoJob EXCEPT !.at = "claiming", !.due = due]
<1>2. proc' = [proc EXCEPT ![p] = j]
  BY DEF SweepReads
<1>3. due \in SUBSET Watches
  OBVIOUS
<1> HIDE DEF due
<1>4. /\ j \in Request
      /\ j.at = "claiming" /\ j.seen = NotBegun
  <2> DEFINE none == [at |-> "idle", watch |-> Nobody, due |-> {}, seen |-> NotBegun,
                      todo |-> {}, part |-> Nobody, start |-> 0, more |-> FALSE,
                      left |-> FALSE, again |-> {}, backlog |-> FALSE]
  <2>1. j = [none EXCEPT !.at = "claiming", !.due = due]
    BY DEF NoJob
  <2>2. 0 \in 0..MaxPages /\ NotBegun \in [Queries -> Position]
    BY ClockAssumption, NoJobType
  <2> HIDE DEF j
  <2> QED
    BY <2>1, <2>2, <1>3 DEF Request
<1> HIDE DEF j
<1>5. j \in Jobs /\ Places(j)
  BY <1>4, JobKinds, BeginningFits DEF Places
<1>6. /\ proc' \in [Processes -> Jobs]
      /\ proc'[p] = j
      /\ \A r \in Processes \ {p} : proc'[r] = proc[r]
      /\ InPlace'
  BY <1>1, <1>2, <1>5, JobMoves
<1>7. TypeOK'
  BY <1>1, <1>6 DEF TypeOK
<1>8. AllTaken'
  BY <1>1, <1>4, <1>6, TakenStays DEF Taken
<1> QED
  BY <1>6, <1>7, <1>8

\* A row that somebody has claimed is not due.
LEMMA TakenIsNotDue == ASSUME IInv, NEW w, Taken(w) PROVE ~Due(w)
  BY ClockAssumption DEF Taken, Due, IInv, TypeOK, Watch

LEMMA ClaimKeeps == ASSUME IInv, NEW p \in Processes, Claim(p) PROVE IInv'
<1> USE DEF IInv
<1>1. UNCHANGED <<clock, waiting, index, old, pages, stored, screened, stops, late>>
  BY DEF Claim, base
<1>2. proc[p] \in Request /\ proc[p].at = "claiming"
  BY JobKinds DEF Claim, TypeOK
<1>3. Places(proc[p])
  BY <1>2, JobKinds DEF InPlace
<1>4. PICK w \in Longest(proc[p].due) :
         IF StillDue(w)
         THEN /\ watch' = [Marked(w) EXCEPT ![w].runs = @ + 1]
              /\ proc' = [proc EXCEPT ![p].at = "starting", ![p].watch = w, ![p].due = {}]
              /\ swept' = [swept EXCEPT ![w] = IF @ > RunsPerDay THEN @ ELSE @ + 1]
         ELSE /\ proc' = IF proc[p].due = {w} THEN [proc EXCEPT ![p] = Idle]
                         ELSE [proc EXCEPT ![p].due = @ \ {w}]
              /\ UNCHANGED <<watch, swept>>
  BY DEF Claim
<1>5. w \in Watches
  BY <1>2 DEF Longest, Request
<1>6. CASE StillDue(w)
  <2> DEFINE j == [proc[p] EXCEPT !.at = "starting", !.watch = w, !.due = {}]
             m == Marked(w)
             o == [m[w] EXCEPT !.runs = @ + 1]
  <2>1. proc' = [proc EXCEPT ![p] = j]
    BY <1>4, <1>6 DEF TypeOK
  <2>2. j \in Request /\ j.at = "starting" /\ j.watch = w /\ j.seen = proc[p].seen
    BY <1>2, <1>5 DEF Request
  <2>3. Places(j) /\ j \in Jobs
    BY <2>2, <1>3, JobKinds DEF Places
  <2>4. /\ m \in [Watches -> Watch]
        /\ m[w] = [watch[w] EXCEPT !.ever = TRUE, !.hours = 0, !.just = TRUE]
        /\ \A v \in Watches \ {w} : m[v] = watch[v]
    BY <1>5, MarkedType DEF TypeOK
  <2>5. watch' = [m EXCEPT ![w] = o]
    BY <1>4, <1>6, <2>4
  <2>6. o \in Watch /\ o.ever /\ o.hours = 0 /\ o.just
    <3> HIDE DEF m
    <3>1. watch[w] \in Watch
      BY <1>5 DEF TypeOK
    <3>2. m[w] \in Watch /\ m[w].ever /\ m[w].hours = 0 /\ m[w].just
      BY <2>4, <1>5, <3>1 DEF Watch
    <3> QED
      BY <3>2 DEF Watch
  <2> HIDE DEF j, m, o
  <2>7. /\ watch' \in [Watches -> Watch]
        /\ watch'[w] = o
        /\ \A v \in Watches \ {w} : watch'[v] = watch[v]
    BY <2>4, <2>5, <2>6, <1>5
  <2>8. /\ proc' \in [Processes -> Jobs]
        /\ proc'[p] = j
        /\ \A r \in Processes \ {p} : proc'[r] = proc[r]
        /\ InPlace'
    BY <1>1, <2>1, <2>3, JobMoves
  <2>9. swept' \in [Watches -> 0..RunsPerDay + 1]
    <3>1. RunsPerDay \in Nat /\ swept[w] \in 0..RunsPerDay + 1
      BY <1>5, ClockAssumption DEF TypeOK
    <3>2. (IF swept[w] > RunsPerDay THEN swept[w] ELSE swept[w] + 1) \in 0..RunsPerDay + 1
      BY <3>1
    <3>3. swept' = [swept EXCEPT ![w] = IF swept[w] > RunsPerDay THEN swept[w] ELSE swept[w] + 1]
      BY <1>4, <1>6
    <3> QED
      BY <3>2, <3>3 DEF TypeOK
  <2>10. TypeOK'
    BY <1>1, <2>7, <2>8, <2>9 DEF TypeOK
  <2>11. Taken(w)'
    BY <1>5, <2>6, <2>7 DEF Taken
  <2>12. \A v \in Watches : Taken(v) => Taken(v)'
    BY <2>6, <2>7, <1>5 DEF Taken
  <2>13. Taken(proc[p].watch)'
    BY <2>2, <2>8, <2>11 DEF Taken
  <2>14. AllTaken'
    BY <2>8, <2>12, <2>13, TakenStays
  <2> QED
    BY <2>8, <2>10, <2>14
<1>7. CASE ~StillDue(w)
  <2> DEFINE j == IF proc[p].due = {w} THEN Idle ELSE [proc[p] EXCEPT !.due = @ \ {w}]
  <2>1. proc' = [proc EXCEPT ![p] = j] /\ UNCHANGED <<watch, swept>>
    BY <1>4, <1>7 DEF TypeOK
  <2>2. j \in Jobs /\ j.at # "starting" /\ (j # Idle => Places(j))
    <3>1. CASE proc[p].due = {w}
      BY <3>1, JobKinds
    <3>2. CASE proc[p].due # {w}
      <4>1. /\ j = [proc[p] EXCEPT !.due = @ \ {w}]
            /\ j \in Request /\ j.at = "claiming" /\ j.seen = proc[p].seen
        BY <1>2, <3>2 DEF Request
      <4> QED
        BY <4>1, <1>3, JobKinds DEF Places
    <3> QED
      BY <3>1, <3>2
  <2> HIDE DEF j
  <2>3. /\ proc' \in [Processes -> Jobs]
        /\ proc'[p] = j
        /\ \A r \in Processes \ {p} : proc'[r] = proc[r]
        /\ InPlace'
    BY <1>1, <2>1, <2>2, JobMoves
  <2>4. TypeOK'
    BY <1>1, <2>1, <2>3 DEF TypeOK
  <2>5. AllTaken'
    BY <2>1, <2>2, <2>3, TakenStays DEF Taken
  <2> QED
    BY <2>3, <2>4, <2>5
<1> QED
  BY <1>6, <1>7

LEMMA MarkedKeepsTaken ==
    ASSUME IInv, NEW w \in Watches, \A v \in Watches : /\ watch'[v].ever = Marked(w)[v].ever
                                                       /\ watch'[v].hours = Marked(w)[v].hours
                                                       /\ watch'[v].just = Marked(w)[v].just
    PROVE  \A v \in Watches : Taken(v) => Taken(v)'
<1>1. /\ Marked(w)[w] = [watch[w] EXCEPT !.ever = TRUE, !.hours = 0, !.just = TRUE]
      /\ \A v \in Watches \ {w} : Marked(w)[v] = watch[v]
      /\ watch[w] \in Watch
  BY MarkedType DEF IInv, TypeOK
<1> QED
  BY <1>1 DEF Taken, Watch

LEMMA StartRunKeeps == ASSUME IInv, NEW p \in Processes, StartRun(p) PROVE IInv'
<1> USE DEF IInv
<1>1. UNCHANGED <<clock, waiting, index, old, pages, stored, screened, stops, late, swept>>
  BY DEF StartRun, base, histories
<1>2. PICK w \in Watches : w = proc[p].watch
  BY DEF StartRun, AllTaken, Taken
<1>3. watch' = Marked(w) /\ Run(p, w)
  BY <1>2 DEF StartRun
<1>4. /\ proc' \in [Processes -> Jobs]
      /\ proc'[p] # Idle /\ proc'[p].at # "starting"
      /\ \A r \in Processes \ {p} : proc'[r] = proc[r]
      /\ InPlace'
  BY <1>1, <1>3, RunBegins
<1>5. watch' \in [Watches -> Watch]
  BY <1>3, MarkedType DEF TypeOK
<1>6. TypeOK'
  BY <1>1, <1>4, <1>5 DEF TypeOK
<1>7. AllTaken'
  BY <1>3, <1>4, MarkedKeepsTaken, TakenStays
<1> QED
  BY <1>4, <1>6, <1>7

LEMMA RunNowKeeps ==
    ASSUME IInv, NEW p \in Processes, NEW w \in Watches, NEW admin \in BOOLEAN,
           NEW whole \in BOOLEAN, RunNow(p, w, admin, whole)
    PROVE  IInv'
<1> USE DEF IInv
<1>1. UNCHANGED <<clock, index, old, pages, stored, screened, stops, late, swept>>
  BY DEF RunNow, base, histories
<1> DEFINE m == Marked(w)
           o == [m[w] EXCEPT !.backlog = @ \/ whole, !.active = @ \/ whole]
<1>2. /\ m \in [Watches -> Watch]
      /\ \A v \in Watches \ {w} : m[v] = watch[v]
      /\ m[w] \in Watch
  BY MarkedType DEF TypeOK
<1>3. watch' = [m EXCEPT ![w] = o]
  BY <1>2 DEF RunNow
<1>4. o \in Watch /\ o.ever = m[w].ever /\ o.hours = m[w].hours /\ o.just = m[w].just
  <2> HIDE DEF m
  <2> QED
    BY <1>2 DEF Watch
<1>5. \A v \in Watches : /\ watch'[v].ever = m[v].ever
                         /\ watch'[v].hours = m[v].hours
                         /\ watch'[v].just = m[v].just
  <2> HIDE DEF m, o
  <2> QED
    BY <1>2, <1>3, <1>4
<1>6. watch' \in [Watches -> Watch]
  <2> HIDE DEF m, o
  <2> QED
    BY <1>2, <1>3, <1>4
<1>7. \A v \in Watches : Taken(v) => Taken(v)'
  BY <1>5, MarkedKeepsTaken
<1>8. CASE StartsNow(w, admin)
  <2>1. Run(p, w) /\ UNCHANGED waiting
    BY <1>8 DEF RunNow
  <2>2. /\ proc' \in [Processes -> Jobs]
        /\ proc'[p] # Idle /\ proc'[p].at # "starting"
        /\ \A r \in Processes \ {p} : proc'[r] = proc[r]
        /\ InPlace'
    BY <1>1, <2>1, RunBegins
  <2>3. TypeOK'
    BY <1>1, <1>6, <2>1, <2>2 DEF TypeOK
  <2>4. AllTaken'
    BY <1>7, <2>2, TakenStays
  <2> QED
    BY <2>2, <2>3, <2>4
<1>9. CASE ~StartsNow(w, admin)
  <2>1. waiting[w] < MaxWaiting /\ waiting' = [waiting EXCEPT ![w] = @ + 1] /\ UNCHANGED proc
    BY <1>9 DEF RunNow
  <2>2. waiting' \in [Watches -> 0..MaxWaiting]
    BY <2>1, ClockAssumption DEF TypeOK
  <2>3. TypeOK'
    BY <1>1, <1>6, <2>1, <2>2 DEF TypeOK
  <2>4. InPlace'
    BY <1>1, <2>1 DEF InPlace, Places, Reached, Fits, Idle
  <2>5. proc'[p].at # "starting"
    BY <2>1, JobKinds DEF RunNow
  <2>6. AllTaken'
    BY <1>7, <2>1, <2>5, TakenStays
  <2> QED
    BY <2>3, <2>4, <2>6
<1> QED
  BY <1>8, <1>9

----------------------------------------------------------------------------
(* A run of a watch.                                                       *)

\* A step of a request that is not, or no longer, about to start a run.
LEMMA JobGoesOn ==
    ASSUME IInv, NEW p \in Processes, NEW j \in Jobs, proc' = [proc EXCEPT ![p] = j],
           j # Idle => Places(j), j.at # "starting",
           UNCHANGED <<pages, watch>>, \A q \in Queries : Fits(q, index'[q])
    PROVE  /\ proc' \in [Processes -> Jobs]
           /\ proc'[p] = j
           /\ \A r \in Processes \ {p} : proc'[r] = proc[r]
           /\ InPlace' /\ AllTaken'
<1>1. /\ proc' \in [Processes -> Jobs]
      /\ proc'[p] = j
      /\ \A r \in Processes \ {p} : proc'[r] = proc[r]
  BY JobChange DEF IInv, TypeOK
<1>2. InPlace'
  BY <1>1, PlacesStay DEF IInv
<1>3. AllTaken'
  BY <1>1, TakenStays DEF IInv, Taken
<1> QED
  BY <1>1, <1>2, <1>3

\* A request at work, and the places it has.
LEMMA AtWork ==
    ASSUME IInv, NEW p \in Processes, proc[p].at # "idle"
    PROVE  proc[p] \in Request /\ proc[p] \in Jobs /\ proc[p] # Idle /\ Places(proc[p])
  BY JobKinds DEF IInv, TypeOK, InPlace

LEMMA AdvanceKeeps ==
    ASSUME IInv, NEW p \in Processes, NEW q \in Queries, NEW left \in BOOLEAN,
           Reading(p, q), Advance(p, q, left),
           UNCHANGED <<clock, watch, waiting, base, stops, histories>>
    PROVE  IInv'
<1> DEFINE j == [proc[p] EXCEPT !.todo = @ \ {q}, !.left = @ \/ left]
<1>1. proc[p] \in Request /\ Places(proc[p]) /\ proc[p].at = "reading"
  BY AtWork DEF Reading
<1>2. proc' = [proc EXCEPT ![p] = j]
  BY <1>1 DEF Advance, IInv, TypeOK
<1>3. j \in Request /\ j.at = "reading" /\ j.seen = proc[p].seen
  BY <1>1 DEF Request
<1> HIDE DEF j
<1>4. j \in Jobs /\ Places(j)
  BY <1>1, <1>3, JobKinds DEF Places
<1>5. /\ proc' \in [Processes -> Jobs]
      /\ InPlace' /\ AllTaken'
  BY <1>2, <1>3, <1>4, JobGoesOn DEF IInv, InPlace, base
<1> QED
  BY <1>5 DEF IInv, TypeOK, base, histories

LEMMA ReopenKeeps ==
    ASSUME IInv, NEW p \in Processes, NEW q \in Queries, Reopen(p, q)
    PROVE  IInv'
<1> DEFINE first == [next |-> 0, done |-> FALSE]
           j == [proc[p] EXCEPT !.seen[q] = first]
<1>1. proc[p] \in Request /\ Places(proc[p]) /\ proc[p].at = "reading"
  BY AtWork DEF Reopen, Reading
<1>2. proc' = [proc EXCEPT ![p] = j] /\ index' = [index EXCEPT ![q] = first]
  BY <1>1 DEF Reopen, IInv, TypeOK
<1>3. first \in Position /\ Fits(q, first)
  BY BeginningFits DEF IInv, Fits
<1> HIDE DEF first
<1>4. j \in Request /\ j.at = "reading" /\ j.seen = [proc[p].seen EXCEPT ![q] = first]
  BY <1>1, <1>3 DEF Request
<1> HIDE DEF j
<1>5. j \in Jobs /\ Places(j)
  BY <1>1, <1>3, <1>4, JobKinds DEF Places, Request
<1>6. /\ index' \in [Queries -> Position]
      /\ \A r \in Queries : Fits(r, index'[r])
  BY <1>2, <1>3 DEF IInv, TypeOK, InPlace
<1>7. UNCHANGED <<clock, watch, waiting, old, pages, stored, screened, stops, late, swept>>
  BY DEF Reopen, histories
<1>8. /\ proc' \in [Processes -> Jobs]
      /\ InPlace' /\ AllTaken'
  BY <1>2, <1>4, <1>5, <1>6, <1>7, JobGoesOn
<1> QED
  BY <1>6, <1>7, <1>8 DEF IInv, TypeOK

\* The place after the one a run has read, or taken for read.
LEMMA NextFits ==
    ASSUME IInv, NEW p \in Processes, NEW q \in Queries, Reading(p, q), ~proc[p].seen[q].done,
           NEW more \in BOOLEAN, more => proc[p].seen[q].next + 1 < pages[q]
    PROVE  /\ proc[p].seen[q].next \in 0..MaxPages - 1
           /\ proc[p].seen[q].next < pages[q]
           /\ proc[p].seen[q].next + 1 \in 0..MaxPages
           /\ Fits(q, [next |-> proc[p].seen[q].next + 1, done |-> ~more])
<1>1. Fits(q, proc[p].seen[q]) /\ proc[p].seen[q] \in Position
  BY AtWork DEF Reading, Places, Fits
<1>2. pages[q] \in 1..MaxPages /\ MaxPages \in Nat
  BY ClockAssumption DEF IInv, TypeOK
<1>3. PICK pos : pos = proc[p].seen[q]
  OBVIOUS
<1>4. pos.next \in 0..MaxPages - 1 /\ pos.next < pages[q] /\ pos.next + 1 \in 0..MaxPages
  BY <1>1, <1>2, <1>3 DEF Fits, Position
<1>5. more => pos.next + 1 < pages[q]
  BY <1>3
<1>6. Fits(q, [next |-> pos.next + 1, done |-> ~more])
  <2> DEFINE n == pos.next + 1
             reach == [next |-> n, done |-> ~more]
  <2>1. n \in 0..MaxPages /\ n <= pages[q] /\ (more => n < pages[q])
    BY <1>2, <1>4, <1>5
  <2> HIDE DEF n
  <2>2. reach \in Position /\ reach.next = n /\ reach.done = ~more
    BY <2>1 DEF Position
  <2>3. Fits(q, reach)
    BY <2>1, <2>2 DEF Fits
  <2> QED
    BY <2>3 DEF n
<1> QED
  BY <1>3, <1>4, <1>6

LEMMA ReachKeeps ==
    ASSUME IInv, NEW p \in Processes, NEW q \in Queries, Reading(p, q), ~proc[p].seen[q].done,
           NEW more \in BOOLEAN, more => proc[p].seen[q].next + 1 < pages[q],
           proc' = [proc EXCEPT ![p].at = "saving", ![p].part = q,
                        ![p].start = proc[p].seen[q].next + 1, ![p].more = more],
           UNCHANGED <<watch, pages, index>>
    PROVE  /\ proc' \in [Processes -> Jobs]
           /\ InPlace' /\ AllTaken'
<1> DEFINE start == proc[p].seen[q].next + 1
           j == [proc[p] EXCEPT !.at = "saving", !.part = q, !.start = start, !.more = more]
<1>1. proc[p] \in Request /\ Places(proc[p])
  BY AtWork DEF Reading
<1>2. start \in 0..MaxPages /\ Fits(q, [next |-> start, done |-> ~more])
  BY NextFits
<1>3. proc' = [proc EXCEPT ![p] = j]
  BY <1>1 DEF IInv, TypeOK
<1> HIDE DEF start
<1>4. /\ j \in Request /\ j.at = "saving" /\ j.seen = proc[p].seen
      /\ j.part = q /\ j.start = start /\ j.more = more
  BY <1>1, <1>2 DEF Request
<1> HIDE DEF j
<1>5. j \in Jobs /\ Places(j)
  BY <1>1, <1>2, <1>4, JobKinds DEF Places, Reached
<1> QED
  BY <1>3, <1>4, <1>5, JobGoesOn DEF IInv, InPlace

LEMMA ReadPageKeeps ==
    ASSUME IInv, NEW p \in Processes, NEW q \in Queries, ReadPage(p, q)
    PROVE  IInv'
<1> DEFINE start == proc[p].seen[q].next
           more == start + 1 < pages[q]
<1>1. /\ Reading(p, q) /\ ~proc[p].seen[q].done
      /\ stored' = IF start < pages[q] THEN stored \cup {<<q, start>>} ELSE stored
      /\ late' = IF more THEN late ELSE late \ {q}
      /\ proc' = [proc EXCEPT ![p].at = "saving", ![p].part = q,
                        ![p].start = proc[p].seen[q].next + 1, ![p].more = more]
      /\ UNCHANGED <<clock, watch, waiting, index, old, pages, screened, stops, swept>>
  BY DEF ReadPage
<1>2. /\ proc' \in [Processes -> Jobs]
      /\ InPlace' /\ AllTaken'
  <2>1. more \in BOOLEAN /\ (more => proc[p].seen[q].next + 1 < pages[q])
    OBVIOUS
  <2> HIDE DEF more
  <2> QED
    BY <1>1, <2>1, ReachKeeps
<1>3. start \in 0..MaxPages - 1
  BY <1>1, NextFits
<1> HIDE DEF start, more
<1>4. stored' \in SUBSET (Queries \X (0..MaxPages - 1)) /\ late' \in SUBSET Queries
  BY <1>1, <1>3 DEF IInv, TypeOK
<1> QED
  BY <1>1, <1>2, <1>4 DEF IInv, TypeOK

LEMMA NoAnswerKeeps ==
    ASSUME IInv, NEW p \in Processes, NEW q \in Queries, NoAnswer(p, q)
    PROVE  IInv'
<1>1. /\ Reading(p, q) /\ ~proc[p].seen[q].done
      /\ UNCHANGED <<clock, watch, waiting, base, stops, histories>>
  BY DEF NoAnswer
<1>2. CASE TriesAgain
  BY <1>1, <1>2, AdvanceKeeps DEF NoAnswer
<1>3. CASE ~TriesAgain
  <2>1. /\ proc' \in [Processes -> Jobs]
        /\ InPlace' /\ AllTaken'
    BY <1>1, <1>3, ReachKeeps DEF NoAnswer, base
  <2> QED
    BY <1>1, <2>1 DEF IInv, TypeOK, base, histories
<1> QED
  BY <1>2, <1>3

LEMMA SaveIndexKeeps == ASSUME IInv, NEW p \in Processes, SaveIndex(p) PROVE IInv'
<1> DEFINE position == Reached(proc[p])
<1>1. proc[p] \in Request /\ Places(proc[p]) /\ proc[p].at = "saving"
  BY AtWork DEF SaveIndex
<1>2. PICK q \in Queries : q = proc[p].part
  BY <1>1 DEF Places
<1>3. Fits(q, position) /\ position \in Position
  BY <1>1, <1>2 DEF Places, Fits
<1> DEFINE todo == IF position.done THEN proc[p].todo \ {q} ELSE proc[p].todo
           j == [proc[p] EXCEPT !.at = "reading", !.part = Nobody, !.start = 0,
                        !.more = FALSE, !.seen[q] = position, !.todo = todo]
<1>4. proc' = [proc EXCEPT ![p] = j] /\ index' = [index EXCEPT ![q] = position]
  <2> DEFINE pos == [next |-> proc[p].start, done |-> ~proc[p].more]
  <2>1. position = pos
    BY DEF Reached
  <2>2. index' = [index EXCEPT ![q] = pos]
    BY <1>2 DEF SaveIndex
  <2>3. proc' = [proc EXCEPT ![p] = j]
    BY <1>2, <2>1 DEF SaveIndex
  <2> HIDE DEF position, pos
  <2> QED
    BY <2>1, <2>2, <2>3
<1>5. UNCHANGED <<clock, watch, waiting, pages, stored, screened, stops, late, swept>>
      /\ old' = old \ {q}
  BY <1>2 DEF SaveIndex, histories
<1>6. todo \in SUBSET Queries /\ 0 \in 0..MaxPages
  BY <1>1, ClockAssumption DEF Request
<1> HIDE DEF position, todo
<1>7. j \in Request /\ j.at = "reading" /\ j.seen = [proc[p].seen EXCEPT ![q] = position]
  BY <1>1, <1>3, <1>6 DEF Request
<1> HIDE DEF j
<1>8. j \in Jobs /\ Places(j)
  BY <1>1, <1>3, <1>7, JobKinds DEF Places, Request
<1>9. /\ index' \in [Queries -> Position]
      /\ \A r \in Queries : Fits(r, index'[r])
  BY <1>3, <1>4 DEF IInv, TypeOK, InPlace
<1>10. /\ proc' \in [Processes -> Jobs]
       /\ InPlace' /\ AllTaken'
  BY <1>4, <1>5, <1>7, <1>8, <1>9, JobGoesOn
<1> QED
  BY <1>5, <1>9, <1>10 DEF IInv, TypeOK

LEMMA CandidatesKeeps == ASSUME IInv, NEW p \in Processes, Candidates(p) PROVE IInv'
<1> DEFINE again == ToScreen
           j == [proc[p] EXCEPT !.at = "screening", !.again = again, !.seen = NotBegun]
<1>1. proc[p] \in Request /\ proc[p].at = "reading"
  BY AtWork DEF Candidates
<1>2. proc' = [proc EXCEPT ![p] = j]
  BY <1>1 DEF Candidates, IInv, TypeOK
<1>3. again \in SUBSET Contractors /\ NotBegun \in [Queries -> Position]
  <2>1. \A page \in stored : page[1] \in Queries /\ page[2] \in 0..MaxPages - 1
    BY DEF IInv, TypeOK
  <2>2. Named \subseteq Contractors
    BY <2>1, NamesAssumption DEF Named
  <2> QED
    BY <2>2, NoJobType DEF ToScreen
<1> HIDE DEF again
<1>4. j \in Request /\ j.at = "screening" /\ j.seen = NotBegun
  BY <1>1, <1>3 DEF Request
<1> HIDE DEF j
<1>5. j \in Jobs /\ Places(j)
  BY <1>4, JobKinds, BeginningFits DEF Places, IInv
<1>6. /\ proc' \in [Processes -> Jobs]
      /\ InPlace' /\ AllTaken'
  BY <1>2, <1>4, <1>5, JobGoesOn DEF Candidates, IInv, InPlace, base
<1> QED
  BY <1>6 DEF IInv, TypeOK, base, histories, Candidates

LEMMA ScreenNextKeeps ==
    ASSUME IInv, NEW p \in Processes, NEW c \in Contractors, ScreenNext(p, c)
    PROVE  IInv'
<1> DEFINE j == [proc[p] EXCEPT !.again = @ \ {c}]
<1>1. proc[p] \in Request /\ proc[p].at = "screening" /\ Places(proc[p])
  BY AtWork DEF ScreenNext
<1>2. proc' = [proc EXCEPT ![p] = j]
  BY <1>1 DEF ScreenNext, IInv, TypeOK
<1>3. j \in Request /\ j.at = "screening" /\ j.seen = proc[p].seen
  BY <1>1 DEF Request
<1> HIDE DEF j
<1>4. j \in Jobs /\ Places(j)
  BY <1>1, <1>3, JobKinds DEF Places
<1>5. UNCHANGED <<clock, watch, waiting, index, old, pages, stored, stops, late, swept>>
  BY DEF ScreenNext, histories
<1>6. /\ proc' \in [Processes -> Jobs]
      /\ InPlace' /\ AllTaken'
  BY <1>2, <1>3, <1>4, <1>5, JobGoesOn DEF IInv, InPlace
<1>7. screened' \in [Contractors -> {"never", "stale", "now"}]
  BY DEF ScreenNext, IInv, TypeOK
<1> QED
  BY <1>5, <1>6, <1>7 DEF IInv, TypeOK

LEMMA SummariseKeeps == ASSUME IInv, NEW p \in Processes, Summarise(p) PROVE IInv'
<1> DEFINE rest == proc[p].left \/ ToScreen # {}
           j == [proc[p] EXCEPT !.at = "ending", !.again = {}, !.left = FALSE, !.backlog = rest]
<1>1. proc[p] \in Request /\ proc[p].at = "screening" /\ Places(proc[p])
  BY AtWork DEF Summarise
<1>2. proc' = [proc EXCEPT ![p] = j]
  BY <1>1 DEF Summarise, IInv, TypeOK
<1>3. rest \in BOOLEAN
  OBVIOUS
<1> HIDE DEF rest
<1>4. j \in Request /\ j.at = "ending" /\ j.seen = proc[p].seen
  BY <1>1, <1>3 DEF Request
<1> HIDE DEF j
<1>5. j \in Jobs /\ Places(j)
  BY <1>1, <1>4, JobKinds DEF Places
<1>6. /\ proc' \in [Processes -> Jobs]
      /\ InPlace' /\ AllTaken'
  BY <1>2, <1>4, <1>5, JobGoesOn DEF Summarise, IInv, InPlace, base
<1> QED
  BY <1>6 DEF IInv, TypeOK, base, histories, Summarise

LEMMA SetBacklogKeeps == ASSUME IInv, NEW p \in Processes, SetBacklog(p) PROVE IInv'
<1> USE DEF IInv
<1>1. proc[p] \in Request /\ proc[p].at = "ending"
  BY AtWork DEF SetBacklog
<1>2. UNCHANGED <<clock, waiting, index, old, pages, stored, screened, stops, late, swept>>
      /\ proc' = [proc EXCEPT ![p] = Idle]
  BY DEF SetBacklog, base, histories
<1>3. watch' \in [Watches -> Watch] /\ \A w \in Watches : Taken(w) => Taken(w)'
  <2> DEFINE b == proc[p].backlog
             v == proc[p].watch
  <2>1. watch' = [watch EXCEPT ![v].backlog = b] /\ b \in BOOLEAN
    BY <1>1 DEF SetBacklog, Request
  <2> HIDE DEF b, v
  <2> QED
    BY <2>1 DEF TypeOK, Watch, Taken
<1>4. /\ proc' \in [Processes -> Jobs]
      /\ proc'[p] = Idle
      /\ \A r \in Processes \ {p} : proc'[r] = proc[r]
      /\ InPlace'
  BY <1>2, JobKinds, JobMoves
<1>5. AllTaken'
  BY <1>3, <1>4, JobKinds, TakenStays
<1> QED
  BY <1>2, <1>3, <1>4, <1>5 DEF TypeOK

LEMMA JobStopsKeeps == ASSUME IInv, NEW p \in Processes, JobStops(p) PROVE IInv'
<1>1. UNCHANGED <<clock, watch, waiting, index, old, pages, stored, screened, late, swept>>
      /\ proc' = [proc EXCEPT ![p] = Idle]
  BY DEF JobStops, base, histories
<1>2. stops' \in 0..MaxStops
  BY ClockAssumption DEF JobStops, IInv, TypeOK
<1>3. /\ proc' \in [Processes -> Jobs]
      /\ InPlace' /\ AllTaken'
  BY <1>1, JobKinds, JobGoesOn DEF IInv, InPlace
<1> QED
  BY <1>1, <1>2, <1>3 DEF IInv, TypeOK

----------------------------------------------------------------------------
LEMMA InitHolds == Init => IInv
<1> SUFFICES ASSUME Init PROVE IInv
  OBVIOUS
<1> USE DEF Init
<1>1. TypeOK
  <2>1. 0 \in 0..(24 \div HoursPerTick) - 1
    BY DayType
  <2>2. watch \in [Watches -> Watch]
    BY ClockAssumption DEF Watch, Long
  <2>3. index \in [Queries -> Position]
    BY NoJobType
  <2>4. proc \in [Processes -> Jobs]
    BY JobKinds
  <2>5. /\ waiting \in [Watches -> 0..MaxWaiting] /\ swept \in [Watches -> 0..RunsPerDay + 1]
        /\ stops \in 0..MaxStops /\ pages \in [Queries -> 1..MaxPages]
    BY ClockAssumption
  <2> QED
    BY <2>1, <2>2, <2>3, <2>4, <2>5 DEF TypeOK
<1>2. InPlace
  BY <1>1, BeginningFits DEF InPlace
<1>3. AllTaken
  BY DEF AllTaken, Idle
<1> QED
  BY <1>1, <1>2, <1>3 DEF IInv

LEMMA WorkKeeps == ASSUME IInv, NEW p \in Processes, Work(p) PROVE IInv'
<1>1. ASSUME NEW q \in Queries,
             PassOver(p, q) \/ Reopen(p, q) \/ LeavePart(p, q) \/ ReadPage(p, q) \/ NoAnswer(p, q)
      PROVE  IInv'
  <2>1. PassOver(p, q) => IInv'
    BY AdvanceKeeps DEF PassOver
  <2>2. LeavePart(p, q) => IInv'
    BY AdvanceKeeps DEF LeavePart
  <2> QED
    BY <1>1, <2>1, <2>2, ReopenKeeps, ReadPageKeeps, NoAnswerKeeps
<1>2. CASE Claim(p) \/ StartRun(p) \/ SaveIndex(p) \/ Candidates(p)
  BY <1>2, ClaimKeeps, StartRunKeeps, SaveIndexKeeps, CandidatesKeeps
<1>3. CASE Summarise(p) \/ SetBacklog(p) \/ \E c \in Contractors : ScreenNext(p, c)
  BY <1>3, SummariseKeeps, SetBacklogKeeps, ScreenNextKeeps
<1> QED
  BY <1>1, <1>2, <1>3 DEF Work

LEMMA StepKeeps == IInv /\ [Next]_vars => IInv'
<1> SUFFICES ASSUME IInv, [Next]_vars PROVE IInv'
  OBVIOUS
<1>1. CASE UNCHANGED vars
  <2>1. UNCHANGED <<clock, watch, waiting, index, old, pages, stored, screened, proc, stops,
                    late, swept>>
    BY <1>1 DEF vars, base, histories
  <2> QED
    BY <2>1 DEF IInv, TypeOK, InPlace, Places, Reached, Fits, AllTaken, Taken, Idle
<1>2. CASE HoursPass \/ WeeksPass \/ \E q \in Queries : Publish(q)
  BY <1>2, HoursKeep, WeeksKeep, PublishKeeps
<1>3. CASE MinutesPass \/ RulesChange \/ \E w \in Watches, active \in BOOLEAN : SetActive(w, active)
  BY <1>3, QuietStepsKeep
<1>4. ASSUME NEW p \in Processes, Ask(p) \/ Work(p) \/ JobStops(p) PROVE IInv'
  BY <1>4, SweepReadsKeeps, WaitingKeeps, WorkKeeps, JobStopsKeeps DEF Ask
<1>5. ASSUME NEW p \in Processes, NEW w \in Watches, NEW admin \in BOOLEAN, NEW whole \in BOOLEAN,
             RunNow(p, w, admin, whole)
      PROVE  IInv'
  BY <1>5, RunNowKeeps
<1> QED
  BY <1>1, <1>2, <1>3, <1>4, <1>5 DEF Next

LEMMA Invariant == Spec => []IInv
  BY InitHolds, StepKeeps, PTL DEF Spec

\* The rows, the index and the requests are well typed, whatever the award record grows to.
THEOREM WatchTypes == Spec => []TypeOK
<1>1. IInv => TypeOK
  BY DEF IInv
<1> QED
  BY <1>1, Invariant, PTL

----------------------------------------------------------------------------
(* Only a claim brings a request to the start of a run, and only at a      *)
(* screening time does one begin to claim.                                 *)
StartsNone(p) ==
    /\ proc'[p].at # "starting"
    /\ proc'[p].at = "claiming" => InSlot(clock)
    /\ \A r \in Processes \ {p} : proc'[r] = proc[r]

LEMMA RunStartsNone ==
    ASSUME IInv, NEW p \in Processes, NEW w \in Watches, Run(p, w)
    PROVE  StartsNone(p)
<1>1. PICK j : j = Job(w)
  OBVIOUS
<1>2. j.at = "reading"
  BY <1>1, JobType DEF IInv, TypeOK
<1>3. proc \in [Processes -> Jobs] /\ proc' = [proc EXCEPT ![p] = j]
  BY <1>1 DEF Run, IInv, TypeOK
<1> QED
  BY <1>2, <1>3 DEF StartsNone

LEMMA StepsAtWork ==
    ASSUME IInv, NEW p \in Processes, Work(p), ~Claim(p)
    PROVE  StartsNone(p)
<1> USE DEF StartsNone
<1>1. proc \in [Processes -> Jobs] /\ (proc[p].at # "idle" => proc[p] \in Request)
  BY AtWork DEF IInv, TypeOK
<1>2. ASSUME NEW q \in Queries, PassOver(p, q) \/ LeavePart(p, q) \/ NoAnswer(p, q)
      PROVE  StartsNone(p)
  BY <1>1, <1>2 DEF PassOver, LeavePart, NoAnswer, Advance, Reading, Request
<1>3. ASSUME NEW q \in Queries, Reopen(p, q) \/ ReadPage(p, q)
      PROVE  StartsNone(p)
  BY <1>1, <1>3 DEF Reopen, ReadPage, Reading, Request
<1>4. CASE StartRun(p)
  <2>1. PICK w \in Watches : w = proc[p].watch
    BY <1>4 DEF StartRun, IInv, AllTaken, Taken
  <2>2. Run(p, w)
    BY <1>4, <2>1 DEF StartRun
  <2> QED
    BY <2>2, RunStartsNone
<1>5. CASE SaveIndex(p)
  <2> DEFINE q == proc[p].part
             position == [next |-> proc[p].start, done |-> ~proc[p].more]
             todo == IF position.done THEN proc[p].todo \ {q} ELSE proc[p].todo
             j == [proc[p] EXCEPT !.at = "reading", !.part = Nobody, !.start = 0,
                            !.more = FALSE, !.seen[q] = position, !.todo = todo]
  <2>1. proc' = [proc EXCEPT ![p] = j]
    BY <1>5 DEF SaveIndex
  <2>2. proc[p] \in Request
    BY <1>1, <1>5 DEF SaveIndex
  <2> HIDE DEF q, position, todo
  <2>3. j.at = "reading"
    BY <2>2 DEF Request
  <2> HIDE DEF j
  <2> QED
    BY <1>1, <2>1, <2>3
<1>6. CASE Candidates(p)
  BY <1>1, <1>6 DEF Candidates, Request
<1>7. CASE Summarise(p) \/ SetBacklog(p) \/ \E c \in Contractors : ScreenNext(p, c)
  BY <1>1, <1>7 DEF Summarise, SetBacklog, ScreenNext, Request, Idle
<1> QED
  BY <1>2, <1>3, <1>4, <1>5, <1>6, <1>7 DEF Work

LEMMA OtherSteps ==
    ASSUME IInv, [Next]_vars
    PROVE  \/ UNCHANGED proc
           \/ \E p \in Processes : Claim(p) \/ StartsNone(p)
<1>1. CASE UNCHANGED vars
  BY <1>1 DEF vars
<1>2. CASE HoursPass \/ MinutesPass \/ WeeksPass \/ RulesChange
  BY <1>2 DEF HoursPass, MinutesPass, WeeksPass, RulesChange
<1>3. ASSUME NEW q \in Queries, Publish(q) PROVE UNCHANGED proc
  BY <1>3 DEF Publish
<1>4. ASSUME NEW w \in Watches, NEW active \in BOOLEAN, SetActive(w, active) PROVE UNCHANGED proc
  BY <1>4 DEF SetActive
<1>5. ASSUME NEW p \in Processes, JobStops(p) PROVE StartsNone(p)
  BY <1>5 DEF JobStops, StartsNone, IInv, TypeOK, Idle
<1>6. ASSUME NEW p \in Processes, SweepReads(p) PROVE StartsNone(p)
  <2> DEFINE due == {w \in Watches : Due(w)}
             j == [NoJob EXCEPT !.at = "claiming", !.due = due]
  <2>1. proc' = [proc EXCEPT ![p] = j] /\ proc \in [Processes -> Jobs]
    BY <1>6 DEF SweepReads, IInv, TypeOK
  <2> HIDE DEF due
  <2>2. j.at = "claiming"
    BY DEF NoJob
  <2> HIDE DEF j
  <2> QED
    BY <1>6, <2>1, <2>2 DEF StartsNone, SweepReads
<1>7. ASSUME NEW p \in Processes, NEW w \in Watches, SweepWaiting(p, w) PROVE StartsNone(p)
  BY <1>7, RunStartsNone DEF SweepWaiting
<1>8. ASSUME NEW p \in Processes, NEW w \in Watches, NEW admin \in BOOLEAN, NEW whole \in BOOLEAN,
             RunNow(p, w, admin, whole)
      PROVE  UNCHANGED proc \/ StartsNone(p)
  BY <1>8, RunStartsNone DEF RunNow
<1>9. ASSUME NEW p \in Processes, Work(p) PROVE Claim(p) \/ StartsNone(p)
  BY <1>9, StepsAtWork
<1> QED
  BY <1>1, <1>2, <1>3, <1>4, <1>5, <1>6, <1>7, <1>8, <1>9 DEF Next, Ask

\* Who claims a list claims one that nobody has.
LEMMA ClaimIsOfDue ==
    ASSUME IInv, NEW p \in Processes, Claim(p)
    PROVE  /\ \A r \in Processes \ {p} : proc'[r] = proc[r]
           /\ proc'[p].at = "starting" => Due(proc'[p].watch)
<1>1. proc[p] \in Request /\ proc[p].at = "claiming" /\ proc \in [Processes -> Jobs]
  BY JobKinds DEF Claim, IInv, TypeOK
<1>2. PICK w \in Longest(proc[p].due) :
         \/ /\ StillDue(w)
            /\ proc' = [proc EXCEPT ![p].at = "starting", ![p].watch = w, ![p].due = {}]
         \/ proc' = IF proc[p].due = {w} THEN [proc EXCEPT ![p] = Idle]
                         ELSE [proc EXCEPT ![p].due = @ \ {w}]
  BY DEF Claim
<1>3. CASE StillDue(w) /\ proc' = [proc EXCEPT ![p].at = "starting", ![p].watch = w, ![p].due = {}]
  BY <1>1, <1>3 DEF StillDue, Request
<1>4. CASE proc' = IF proc[p].due = {w} THEN [proc EXCEPT ![p] = Idle]
                         ELSE [proc EXCEPT ![p].due = @ \ {w}]
  BY <1>1, <1>4 DEF Idle, Request
<1> QED
  BY <1>2, <1>3, <1>4

(* "two sweeps at once must not screen the same list twice" (store.py): a   *)
(* list that one request has claimed no other has, however many sweep it.   *)
THEOREM ClaimedOnce == Spec => []SweptOnce
<1>1. Init => SweptOnce
  BY DEF Init, SweptOnce, Idle
<1>2. ASSUME IInv, SweptOnce, [Next]_vars PROVE SweptOnce'
  <2>1. CASE UNCHANGED proc
    BY <1>2, <2>1 DEF SweptOnce
  <2>2. ASSUME NEW p \in Processes, StartsNone(p) PROVE SweptOnce'
    BY <1>2, <2>2 DEF SweptOnce, StartsNone
  <2>3. ASSUME NEW p \in Processes, Claim(p) PROVE SweptOnce'
    <3>1. \A r \in Processes : proc[r].at = "starting" => ~Due(proc[r].watch)
      BY <1>2, TakenIsNotDue DEF IInv, AllTaken
    <3> QED
      BY <1>2, <2>3, <3>1, ClaimIsOfDue DEF SweptOnce
  <2> QED
    BY <1>2, <2>1, <2>2, <2>3, OtherSteps
<1> QED
  BY <1>1, <1>2, Invariant, PTL DEF Spec

----------------------------------------------------------------------------
(* What the places of the index and of the requests claim.                 *)
LEMMA NothingClaimed ==
    ASSUME NEW q \in Queries
    PROVE  Held(q, [next |-> 0, done |-> FALSE]) /\ Held(q, NotBegun[q])
  BY DEF Held, NotBegun

\* A page read makes good what its place will claim, and takes nothing back.
LEMMA PageIsStored ==
    ASSUME IInv, AllHeld, NEW p \in Processes, NEW q \in Queries, ReadPage(p, q)
    PROVE  /\ \A r \in Queries : \A pos : Held(r, pos) => Held(r, pos)'
           /\ \E reach : /\ reach = [next |-> proc[p].seen[q].next + 1,
                                    done |-> ~(proc[p].seen[q].next + 1 < pages[q])]
                         /\ Held(q, reach)'
<1>1. PICK start : start = proc[p].seen[q].next
  OBVIOUS
<1> DEFINE more == start + 1 < pages[q]
<1>12. PICK reach : reach = [next |-> start + 1, done |-> ~more]
  OBVIOUS
<1>2. /\ Reading(p, q) /\ ~proc[p].seen[q].done /\ UNCHANGED pages
      /\ stored' = IF start < pages[q] THEN stored \cup {<<q, start>>} ELSE stored
      /\ late' = IF more THEN late ELSE late \ {q}
  BY <1>1 DEF ReadPage
<1>3. start \in 0..MaxPages - 1 /\ start < pages[q]
  <2>1. FALSE => proc[p].seen[q].next + 1 < pages[q]
    OBVIOUS
  <2> QED
    BY <1>1, <1>2, <2>1, NextFits
<1>4. start \in Nat /\ pages[q] \in Nat
  BY <1>3, ClockAssumption DEF IInv, TypeOK
<1>5. \A k \in Nat : k < start => <<q, k>> \in stored
  BY <1>1, <1>2, AtWork DEF Reading, AllHeld, Backed, Held
<1>6. stored' = stored \cup {<<q, start>>}
  BY <1>2, <1>3
<1>7. \A k \in Nat : k < start + 1 => <<q, k>> \in stored'
  BY <1>4, <1>5, <1>6
<1>8. ~more => \A k \in Nat : k < pages[q] => <<q, k>> \in stored'
  BY <1>4, <1>7
<1>9. late' = late \/ (~more /\ late' = late \ {q})
  BY <1>2
<1> HIDE DEF more
<1>10. ASSUME NEW r \in Queries, NEW pos, Held(r, pos) PROVE Held(r, pos)'
  <2>1. \A k \in Nat : k < pos.next => <<r, k>> \in stored'
    BY <1>6, <1>10 DEF Held
  <2>2. ASSUME pos.done, r \notin late', NEW k \in Nat, k < pages[r]
        PROVE  <<r, k>> \in stored'
    <3>1. CASE r \notin late
      BY <1>6, <1>10, <2>2, <3>1 DEF Held
    <3>2. CASE r \in late
      BY <1>8, <1>9, <2>2, <3>2
    <3> QED
      BY <3>1, <3>2
  <2> QED
    BY <1>2, <2>1, <2>2 DEF Held
<1>11. Held(q, reach)'
  <2>1. reach.next = start + 1 /\ reach.done = ~more
    BY <1>12
  <2> QED
    BY <1>2, <1>7, <1>8, <2>1 DEF Held
<1> QED
  BY <1>1, <1>12, <1>10, <1>11 DEF more

LEMMA HeldGrows ==
    ASSUME IInv, AllHeld, [Next]_vars
    PROVE  \A q \in Queries : \A pos : Held(q, pos) => Held(q, pos)'
<1>1. CASE UNCHANGED <<pages, stored, late>>
  BY <1>1 DEF Held
<1>2. ASSUME NEW r \in Queries, Publish(r)
      PROVE  \A q \in Queries : \A pos : Held(q, pos) => Held(q, pos)'
  <2>1. UNCHANGED stored /\ late' = late \cup {r} /\ \A q \in Queries \ {r} : pages'[q] = pages[q]
    BY <1>2 DEF Publish, IInv, TypeOK
  <2> QED
    BY <2>1 DEF Held
<1>3. ASSUME NEW p \in Processes, NEW r \in Queries, ReadPage(p, r)
      PROVE  \A q \in Queries : \A pos : Held(q, pos) => Held(q, pos)'
  BY <1>3, PageIsStored
<1>4. CASE UNCHANGED vars
  BY <1>1, <1>4 DEF vars, base, histories
<1>5. CASE HoursPass \/ MinutesPass \/ WeeksPass \/ RulesChange
  BY <1>1, <1>5 DEF HoursPass, MinutesPass, WeeksPass, RulesChange, base, histories
<1>6. ASSUME NEW w \in Watches, NEW active \in BOOLEAN, SetActive(w, active)
      PROVE  UNCHANGED <<pages, stored, late>>
  BY <1>6 DEF SetActive, base, histories
<1>7. ASSUME NEW p \in Processes, NEW w \in Watches, NEW admin \in BOOLEAN, NEW whole \in BOOLEAN,
             SweepWaiting(p, w) \/ RunNow(p, w, admin, whole)
      PROVE  UNCHANGED <<pages, stored, late>>
  BY <1>7 DEF SweepWaiting, RunNow, base, histories
<1>8. ASSUME NEW p \in Processes, SweepReads(p) \/ JobStops(p) \/ Claim(p) \/ StartRun(p)
      PROVE  UNCHANGED <<pages, stored, late>>
  BY <1>8 DEF SweepReads, JobStops, Claim, StartRun, base, histories
<1>9. ASSUME NEW p \in Processes, NEW q \in Queries,
             PassOver(p, q) \/ Reopen(p, q) \/ LeavePart(p, q) \/ NoAnswer(p, q)
      PROVE  UNCHANGED <<pages, stored, late>>
  BY <1>9 DEF PassOver, Reopen, LeavePart, NoAnswer, base, histories
<1>10. ASSUME NEW p \in Processes, NEW c \in Contractors,
             SaveIndex(p) \/ Candidates(p) \/ ScreenNext(p, c) \/ Summarise(p) \/ SetBacklog(p)
      PROVE  UNCHANGED <<pages, stored, late>>
  BY <1>10 DEF SaveIndex, Candidates, ScreenNext, Summarise, SetBacklog, base, histories
<1>11. ASSUME NEW p \in Processes, Work(p)
       PROVE  \/ \E q \in Queries : ReadPage(p, q)
              \/ UNCHANGED <<pages, stored, late>>
  <2>1. ASSUME SaveIndex(p) \/ Candidates(p) \/ Summarise(p) \/ SetBacklog(p)
        PROVE  UNCHANGED <<pages, stored, late>>
    BY <2>1 DEF SaveIndex, Candidates, Summarise, SetBacklog, base, histories
  <2> QED
    BY <1>8, <1>9, <1>10, <1>11, <2>1 DEF Work
<1>12. ASSUME NEW p \in Processes, Ask(p) \/ JobStops(p) PROVE UNCHANGED <<pages, stored, late>>
  <2>1. ASSUME NEW w \in Watches, SweepWaiting(p, w) PROVE UNCHANGED <<pages, stored, late>>
    BY <2>1 DEF SweepWaiting, base, histories
  <2> QED
    BY <1>8, <1>12, <2>1 DEF Ask
<1>13. ASSUME NEW p \in Processes, NEW w \in Watches, NEW admin \in BOOLEAN, NEW whole \in BOOLEAN,
              RunNow(p, w, admin, whole)
       PROVE  UNCHANGED <<pages, stored, late>>
  BY <1>13 DEF RunNow, base, histories
<1> QED
  BY <1>1, <1>2, <1>3, <1>4, <1>5, <1>6, <1>11, <1>12, <1>13 DEF Next

LEMMA BackedStays ==
    ASSUME IInv', AllHeld, NEW p \in Processes,
           \A q \in Queries : \A pos : Held(q, pos) => Held(q, pos)',
           \A q \in Queries : Held(q, index[q])',
           \A r \in Processes \ {p} : proc'[r] = proc[r],
           proc'[p] # Idle => Backed(proc[p])'
    PROVE  AllHeld'
<1>1. ASSUME NEW r \in Processes \ {p}, proc'[r] # Idle PROVE Backed(proc[r])'
  <2>1. PICK j : j = proc[r]
    OBVIOUS
  <2>2. Backed(j) /\ j = proc'[r]
    BY <1>1, <2>1 DEF AllHeld
  <2>3. j.at = "saving" => j.part \in Queries
    BY <1>1, <2>2 DEF IInv, InPlace, Places, Idle
  <2>4. PICK reach : reach = Reached(j)
    OBVIOUS
  <2>5. \A q \in Queries : Held(q, j.seen[q])'
    <3> SUFFICES ASSUME NEW q \in Queries PROVE Held(q, j.seen[q])'
      OBVIOUS
    <3>1. PICK pos : pos = j.seen[q]
      OBVIOUS
    <3> QED
      BY <2>2, <3>1 DEF Backed
  <2>6. j.at = "saving" => Held(j.part, reach)'
    BY <2>2, <2>3, <2>4 DEF Backed
  <2>7. Backed(j)'
    BY <2>4, <2>5, <2>6 DEF Backed, Reached
  <2> QED
    BY <2>2, <2>7 DEF Backed, Reached, Held
<1> QED
  BY <1>1 DEF AllHeld, Idle

\* A request's step that ends at places the invariant has already.
LEMMA HeldPlaces ==
    ASSUME IInv, IInv', AllHeld, [Next]_vars, NEW p \in Processes, NEW j,
           proc' = [proc EXCEPT ![p] = j],
           \A q \in Queries : Held(q, index[q])',
           j # Idle => (\A q \in Queries : Held(q, j.seen[q])') /\ j.at # "saving"
    PROVE  AllHeld'
<1>1. proc'[p] = j /\ \A r \in Processes \ {p} : proc'[r] = proc[r]
  BY DEF IInv, TypeOK
<1>2. proc'[p] # Idle => Backed(proc[p])'
  BY <1>1 DEF Backed, Held
<1> QED
  BY <1>1, <1>2, HeldGrows, BackedStays

LEMMA IndexStays ==
    ASSUME IInv, AllHeld, [Next]_vars, UNCHANGED index
    PROVE  \A q \in Queries : Held(q, index[q])'
<1> SUFFICES ASSUME NEW q \in Queries PROVE Held(q, index[q])'
  OBVIOUS
<1>1. PICK pos : pos = index[q]
  OBVIOUS
<1>2. Held(q, pos)'
  BY <1>1, HeldGrows DEF AllHeld
<1> QED
  BY <1>1, <1>2 DEF Held

LEMMA SeenStays ==
    ASSUME IInv, AllHeld, [Next]_vars, NEW p \in Processes, proc[p].at # "idle",
           NEW seen, seen = proc[p].seen
    PROVE  \A q \in Queries : Held(q, seen[q])'
<1> SUFFICES ASSUME NEW q \in Queries PROVE Held(q, seen[q])'
  OBVIOUS
<1>1. PICK pos : pos = seen[q]
  OBVIOUS
<1>2. Held(q, pos)
  BY <1>1, AtWork DEF AllHeld, Backed
<1> QED
  BY <1>1, <1>2, HeldGrows

\* A run begins with what the index claims.
LEMMA RunHolds ==
    ASSUME IInv, IInv', AllHeld, [Next]_vars, NEW p \in Processes, NEW w \in Watches, Run(p, w),
           UNCHANGED index
    PROVE  AllHeld'
<1>1. PICK j : j = Job(w)
  OBVIOUS
<1>2. j.at = "reading" /\ j.seen = index /\ proc' = [proc EXCEPT ![p] = j]
  BY <1>1, JobType DEF Run, IInv, TypeOK
<1>3. \A q \in Queries : Held(q, j.seen[q])'
  <2> SUFFICES ASSUME NEW q \in Queries PROVE Held(q, j.seen[q])'
    OBVIOUS
  <2>1. PICK pos : pos = j.seen[q]
    OBVIOUS
  <2>2. Held(q, pos)'
    BY <1>2, <2>1, HeldGrows DEF AllHeld
  <2> QED
    BY <2>1, <2>2
<1> QED
  BY <1>2, <1>3, IndexStays, HeldPlaces

LEMMA AdvanceHolds ==
    ASSUME IInv, IInv', AllHeld, [Next]_vars, NEW p \in Processes, NEW q \in Queries,
           NEW left \in BOOLEAN, Reading(p, q), Advance(p, q, left), UNCHANGED index
    PROVE  AllHeld'
<1>1. PICK j : j = [proc[p] EXCEPT !.todo = @ \ {q}, !.left = @ \/ left]
  OBVIOUS
<1>2. proc[p] \in Request /\ proc[p].at = "reading"
  BY AtWork DEF Reading
<1>3. proc' = [proc EXCEPT ![p] = j] /\ j.at = "reading" /\ j.seen = proc[p].seen
  BY <1>1, <1>2 DEF Advance, IInv, TypeOK, Request
<1>4. PICK seen : seen = j.seen
  OBVIOUS
<1>5. \A r \in Queries : Held(r, seen[r])'
  BY <1>2, <1>3, <1>4, SeenStays
<1> QED
  BY <1>3, <1>4, <1>5, IndexStays, HeldPlaces

LEMMA SweepReadsHolds ==
    ASSUME IInv, IInv', AllHeld, [Next]_vars, NEW p \in Processes, SweepReads(p)
    PROVE  AllHeld'
<1>1. PICK due : due = {w \in Watches : Due(w)}
  OBVIOUS
<1>2. PICK j : j = [NoJob EXCEPT !.at = "claiming", !.due = due]
  OBVIOUS
<1>3. proc' = [proc EXCEPT ![p] = j] /\ UNCHANGED index
  BY <1>1, <1>2 DEF SweepReads, base
<1>4. j.at = "claiming" /\ j.seen = NotBegun
  BY <1>2 DEF NoJob
<1>5. \A q \in Queries : Held(q, j.seen[q])'
  BY <1>4 DEF Held, NotBegun
<1> QED
  BY <1>3, <1>4, <1>5, IndexStays, HeldPlaces

LEMMA ClaimHolds ==
    ASSUME IInv, IInv', AllHeld, [Next]_vars, NEW p \in Processes, Claim(p)
    PROVE  AllHeld'
<1>1. proc[p] \in Request /\ proc[p].at = "claiming" /\ UNCHANGED index
  BY JobKinds DEF Claim, IInv, TypeOK, base
<1>2. PICK w \in Longest(proc[p].due) :
         \/ proc' = [proc EXCEPT ![p].at = "starting", ![p].watch = w, ![p].due = {}]
         \/ proc' = IF proc[p].due = {w} THEN [proc EXCEPT ![p] = Idle]
                         ELSE [proc EXCEPT ![p].due = @ \ {w}]
  BY DEF Claim
<1>3. PICK j : /\ proc' = [proc EXCEPT ![p] = j]
               /\ j # Idle => j.seen = proc[p].seen /\ j.at # "saving"
  <2>1. CASE proc' = [proc EXCEPT ![p].at = "starting", ![p].watch = w, ![p].due = {}]
    <3> DEFINE j == [proc[p] EXCEPT !.at = "starting", !.watch = w, !.due = {}]
    <3>1. proc' = [proc EXCEPT ![p] = j]
      BY <2>1 DEF IInv, TypeOK
    <3>2. j.seen = proc[p].seen /\ j.at # "saving"
      BY <1>1 DEF Request
    <3> HIDE DEF j
    <3> QED
      BY <3>1, <3>2
  <2>2. CASE proc' = [proc EXCEPT ![p] = Idle]
    BY <2>2
  <2>3. CASE proc' = [proc EXCEPT ![p].due = @ \ {w}]
    <3> DEFINE j == [proc[p] EXCEPT !.due = @ \ {w}]
    <3>1. proc' = [proc EXCEPT ![p] = j]
      BY <2>3 DEF IInv, TypeOK
    <3>2. j.seen = proc[p].seen /\ j.at # "saving"
      BY <1>1 DEF Request
    <3> HIDE DEF j
    <3> QED
      BY <3>1, <3>2
  <2> QED
    BY <1>2, <2>1, <2>2, <2>3
<1>4. PICK seen : seen = proc[p].seen
  OBVIOUS
<1>5. \A r \in Queries : Held(r, seen[r])'
  BY <1>1, <1>4, SeenStays
<1> QED
  BY <1>1, <1>3, <1>4, <1>5, IndexStays, HeldPlaces

LEMMA ReopenHolds ==
    ASSUME IInv, IInv', AllHeld, [Next]_vars, NEW p \in Processes, NEW q \in Queries, Reopen(p, q)
    PROVE  AllHeld'
<1>1. PICK first : first = [next |-> 0, done |-> FALSE]
  OBVIOUS
<1>2. PICK j : j = [proc[p] EXCEPT !.seen[q] = first]
  OBVIOUS
<1>3. proc[p] \in Request /\ proc[p].at = "reading"
  BY AtWork DEF Reopen, Reading
<1>4. proc' = [proc EXCEPT ![p] = j] /\ index' = [index EXCEPT ![q] = first]
  BY <1>1, <1>2 DEF Reopen, IInv, TypeOK
<1>5. j.at = "reading" /\ j.seen = [proc[p].seen EXCEPT ![q] = first]
  BY <1>2, <1>3 DEF Request
<1>6. Held(q, first)'
  BY <1>1 DEF Held
<1>7. \A r \in Queries : Held(r, index[r])'
  <2> SUFFICES ASSUME NEW r \in Queries PROVE Held(r, index[r])'
    OBVIOUS
  <2>1. PICK pos : pos = index[r]
    OBVIOUS
  <2>2. Held(r, pos)'
    BY <2>1, HeldGrows DEF AllHeld
  <2>3. index'[r] = IF r = q THEN first ELSE pos
    BY <1>4, <2>1 DEF IInv, TypeOK
  <2> QED
    BY <1>6, <2>2, <2>3 DEF Held
<1>8. \A r \in Queries : Held(r, j.seen[r])'
  <2>1. PICK seen : seen = proc[p].seen
    OBVIOUS
  <2>2. \A r \in Queries : Held(r, seen[r])'
    BY <1>3, <2>1, SeenStays
  <2>3. \A r \in Queries : j.seen[r] = IF r = q THEN first ELSE seen[r]
    BY <1>3, <1>5, <2>1 DEF Request
  <2> QED
    BY <1>6, <2>2, <2>3
<1> QED
  BY <1>4, <1>5, <1>7, <1>8, HeldPlaces

LEMMA ReadPageHolds ==
    ASSUME IInv, IInv', AllHeld, [Next]_vars, NEW p \in Processes, NEW q \in Queries, ReadPage(p, q)
    PROVE  AllHeld'
<1>1. PICK reach : /\ reach = [next |-> proc[p].seen[q].next + 1,
                               done |-> ~(proc[p].seen[q].next + 1 < pages[q])]
                   /\ Held(q, reach)'
  BY PageIsStored
<1>2. PICK start, more : start = proc[p].seen[q].next + 1 /\ more = (start < pages[q])
  OBVIOUS
<1>3. proc[p] \in Request /\ UNCHANGED index
  BY AtWork DEF ReadPage, Reading
<1>4. PICK j : j = [proc[p] EXCEPT !.at = "saving", !.part = q, !.start = start, !.more = more]
  OBVIOUS
<1>5. proc' = [proc EXCEPT ![p] = j]
  BY <1>2, <1>4 DEF ReadPage, IInv, TypeOK
<1>6. /\ j.at = "saving" /\ j.seen = proc[p].seen /\ j.part = q
      /\ j.start = start /\ j.more = more
  BY <1>3, <1>4 DEF Request
<1>7. Reached(j) = reach
  BY <1>1, <1>2, <1>6 DEF Reached
<1>8. PICK seen : seen = j.seen
  OBVIOUS
<1>9. \A r \in Queries : Held(r, seen[r])'
  BY <1>6, <1>8, SeenStays DEF ReadPage, Reading
<1>10. proc'[p] = j /\ \A r \in Processes \ {p} : proc'[r] = proc[r]
  BY <1>5 DEF IInv, TypeOK
<1>11. Backed(j)'
  BY <1>1, <1>6, <1>7, <1>8, <1>9 DEF Backed, Reached
<1>12. Backed(proc[p])'
  BY <1>10, <1>11 DEF Backed, Reached, Held
<1> QED
  BY <1>3, <1>10, <1>12, IndexStays, HeldGrows, BackedStays

LEMMA SaveIndexHolds ==
    ASSUME IInv, IInv', AllHeld, [Next]_vars, NEW p \in Processes, SaveIndex(p)
    PROVE  AllHeld'
<1>1. proc[p] \in Request /\ proc[p].at = "saving" /\ Places(proc[p]) /\ Backed(proc[p])
  BY AtWork DEF SaveIndex, AllHeld
<1>2. PICK q \in Queries : q = proc[p].part
  BY <1>1 DEF Places
<1>3. PICK position : position = Reached(proc[p])
  OBVIOUS
<1>4. PICK todo : todo = IF position.done THEN proc[p].todo \ {q} ELSE proc[p].todo
  OBVIOUS
<1>5. PICK j : j = [proc[p] EXCEPT !.at = "reading", !.part = Nobody, !.start = 0,
                            !.more = FALSE, !.seen[q] = position, !.todo = todo]
  OBVIOUS
<1>6. proc' = [proc EXCEPT ![p] = j] /\ index' = [index EXCEPT ![q] = position]
  BY <1>2, <1>3, <1>4, <1>5 DEF SaveIndex, Reached
<1>7. j.at = "reading" /\ j.seen = [proc[p].seen EXCEPT ![q] = position]
  BY <1>1, <1>5 DEF Request
<1>8. Held(q, position)'
  BY <1>1, <1>2, <1>3, HeldGrows DEF Backed
<1>9. \A r \in Queries : Held(r, index[r])'
  <2> SUFFICES ASSUME NEW r \in Queries PROVE Held(r, index[r])'
    OBVIOUS
  <2>1. PICK pos : pos = index[r]
    OBVIOUS
  <2>2. Held(r, pos)'
    BY <2>1, HeldGrows DEF AllHeld
  <2>3. index'[r] = IF r = q THEN position ELSE pos
    BY <1>6, <2>1 DEF IInv, TypeOK
  <2> QED
    BY <1>8, <2>2, <2>3 DEF Held
<1>10. \A r \in Queries : Held(r, j.seen[r])'
  <2>1. PICK seen : seen = proc[p].seen
    OBVIOUS
  <2>2. \A r \in Queries : Held(r, seen[r])'
    BY <1>1, <2>1, SeenStays
  <2>3. \A r \in Queries : j.seen[r] = IF r = q THEN position ELSE seen[r]
    BY <1>1, <1>7, <2>1 DEF Request
  <2> QED
    BY <1>8, <2>2, <2>3
<1> QED
  BY <1>6, <1>7, <1>9, <1>10, HeldPlaces

LEMMA ScreeningHolds ==
    ASSUME IInv, IInv', AllHeld, [Next]_vars, NEW p \in Processes,
           Candidates(p) \/ Summarise(p) \/ \E c \in Contractors : ScreenNext(p, c)
    PROVE  AllHeld'
<1>1. proc[p] \in Request /\ proc[p].at \in {"reading", "screening"} /\ UNCHANGED index
  BY AtWork DEF Candidates, Summarise, ScreenNext, base
<1>2. PICK j : /\ proc' = [proc EXCEPT ![p] = j]
               /\ j.at # "saving" /\ j.seen \in {proc[p].seen, NotBegun}
  <2>1. CASE Candidates(p)
    <3> DEFINE again == ToScreen
               j == [proc[p] EXCEPT !.at = "screening", !.again = again, !.seen = NotBegun]
    <3>1. proc' = [proc EXCEPT ![p] = j]
      BY <2>1 DEF Candidates, IInv, TypeOK
    <3> HIDE DEF again
    <3>2. j.seen = NotBegun /\ j.at # "saving"
      BY <1>1 DEF Request
    <3> HIDE DEF j
    <3> QED
      BY <3>1, <3>2
  <2>2. CASE Summarise(p)
    <3> DEFINE rest == proc[p].left \/ ToScreen # {}
               j == [proc[p] EXCEPT !.at = "ending", !.again = {}, !.left = FALSE, !.backlog = rest]
    <3>1. proc' = [proc EXCEPT ![p] = j]
      BY <2>2 DEF Summarise, IInv, TypeOK
    <3> HIDE DEF rest
    <3>2. j.seen = proc[p].seen /\ j.at # "saving"
      BY <1>1 DEF Request
    <3> HIDE DEF j
    <3> QED
      BY <3>1, <3>2
  <2>3. ASSUME NEW c \in Contractors, ScreenNext(p, c)
        PROVE  \E j : /\ proc' = [proc EXCEPT ![p] = j]
                      /\ j.at # "saving" /\ j.seen \in {proc[p].seen, NotBegun}
    <3> DEFINE j == [proc[p] EXCEPT !.again = @ \ {c}]
    <3>1. proc' = [proc EXCEPT ![p] = j]
      BY <2>3 DEF ScreenNext, IInv, TypeOK
    <3>2. j.seen = proc[p].seen /\ j.at # "saving"
      BY <1>1 DEF Request
    <3> HIDE DEF j
    <3> QED
      BY <3>1, <3>2
  <2> QED
    BY <2>1, <2>2, <2>3
<1>3. PICK seen : seen = proc[p].seen
  OBVIOUS
<1>4. \A r \in Queries : Held(r, seen[r])'
  BY <1>1, <1>3, SeenStays
<1>5. \A r \in Queries : Held(r, j.seen[r])'
  <2>1. CASE j.seen = NotBegun
    BY <2>1 DEF Held, NotBegun
  <2>2. CASE j.seen = seen
    BY <2>2, <1>4
  <2> QED
    BY <1>2, <1>3, <2>1, <2>2
<1> QED
  BY <1>1, <1>2, <1>5, IndexStays, HeldPlaces

LEMMA EndHolds ==
    ASSUME IInv, IInv', AllHeld, [Next]_vars, NEW p \in Processes, SetBacklog(p) \/ JobStops(p)
    PROVE  AllHeld'
<1>1. proc' = [proc EXCEPT ![p] = Idle] /\ UNCHANGED index
  BY DEF SetBacklog, JobStops, base
<1>2. PICK j : j = Idle
  OBVIOUS
<1> QED
  BY <1>1, <1>2, IndexStays, HeldPlaces

\* A step of no request.
LEMMA OthersHold ==
    ASSUME IInv, IInv', AllHeld, [Next]_vars, UNCHANGED <<proc, index>>
    PROVE  AllHeld'
<1>1. \A q \in Queries : Held(q, index[q])'
  BY IndexStays
<1>2. ASSUME NEW p \in Processes PROVE AllHeld'
  <2>1. PICK j : j = proc[p]
    OBVIOUS
  <2>2. j = proc'[p] /\ (j # Idle => Backed(j)) /\ \A r \in Processes \ {p} : proc'[r] = proc[r]
    BY <2>1 DEF AllHeld
  <2>3. j # Idle => (j.at = "saving" => j.part \in Queries)
    BY <2>1 DEF IInv, InPlace, Places
  <2>4. PICK seen, reach : seen = j.seen /\ reach = Reached(j)
    OBVIOUS
  <2>5. j # Idle => \A q \in Queries : Held(q, seen[q])'
    <3> SUFFICES ASSUME j # Idle, NEW q \in Queries PROVE Held(q, seen[q])'
      OBVIOUS
    <3>1. PICK pos : pos = seen[q]
      OBVIOUS
    <3> QED
      BY <2>2, <2>4, <3>1, HeldGrows DEF Backed
  <2>6. j # Idle => (j.at = "saving" => Held(j.part, reach)')
    BY <2>2, <2>3, <2>4, HeldGrows DEF Backed
  <2>7. j # Idle => Backed(j)'
    BY <2>4, <2>5, <2>6 DEF Backed, Reached
  <2>8. proc'[p] # Idle => Backed(proc[p])'
    BY <2>2, <2>7 DEF Backed, Reached, Held
  <2> QED
    BY <1>1, <2>2, <2>8, HeldGrows, BackedStays
<1>3. CASE Processes = {}
  BY <1>1, <1>3 DEF AllHeld
<1> QED
  BY <1>2, <1>3

LEMMA IndexHolds ==
    ASSUME Source = "fpds", IInv, IInv', AllHeld, [Next]_vars
    PROVE  AllHeld'
<1>1. CASE UNCHANGED vars
  BY <1>1, OthersHold DEF vars, base
<1>2. CASE HoursPass \/ MinutesPass \/ WeeksPass \/ RulesChange
  BY <1>2, OthersHold DEF HoursPass, MinutesPass, WeeksPass, RulesChange, base
<1>3. ASSUME NEW q \in Queries, Publish(q) PROVE AllHeld'
  BY <1>3, OthersHold DEF Publish
<1>4. ASSUME NEW w \in Watches, NEW active \in BOOLEAN, SetActive(w, active) PROVE AllHeld'
  BY <1>4, OthersHold DEF SetActive, base
<1>5. ASSUME NEW p \in Processes, NEW w \in Watches, SweepWaiting(p, w) PROVE AllHeld'
  BY <1>5, RunHolds DEF SweepWaiting, base
<1>6. ASSUME NEW p \in Processes, NEW w \in Watches, NEW admin \in BOOLEAN, NEW whole \in BOOLEAN,
             RunNow(p, w, admin, whole)
      PROVE  AllHeld'
  BY <1>6, RunHolds, OthersHold DEF RunNow, base
<1>7. ASSUME NEW p \in Processes, SweepReads(p) \/ JobStops(p) PROVE AllHeld'
  BY <1>7, SweepReadsHolds, EndHolds
<1>8. ASSUME NEW p \in Processes, Work(p) PROVE AllHeld'
  <2>1. ASSUME NEW q \in Queries, PassOver(p, q) \/ LeavePart(p, q) \/ NoAnswer(p, q)
        PROVE  AllHeld'
    <3>1. \E left \in BOOLEAN : Reading(p, q) /\ Advance(p, q, left) /\ UNCHANGED index
      BY <2>1 DEF PassOver, LeavePart, NoAnswer, TriesAgain, base
    <3> QED
      BY <3>1, AdvanceHolds
  <2>2. CASE StartRun(p)
    <3>1. PICK w \in Watches : w = proc[p].watch
      BY <2>2 DEF StartRun, IInv, AllTaken, Taken
    <3> QED
      BY <2>2, <3>1, RunHolds DEF StartRun, base
  <2> QED
    BY <1>8, <2>1, <2>2, ClaimHolds, ReopenHolds, ReadPageHolds, SaveIndexHolds, ScreeningHolds,
       EndHolds DEF Work
<1> QED
  BY <1>1, <1>2, <1>3, <1>4, <1>5, <1>6, <1>7, <1>8 DEF Next, Ask

(* Where the source says when it did not answer, as FPDS's reader does, an  *)
(* index that says a part is read has all of its pages, whatever runs read  *)
(* it together, stop or die: nobody an office pays is left out for good.    *)
THEOREM ReadIsStored == ASSUME Source = "fpds" PROVE Spec => []IndexIsTrue
<1>1. Init => AllHeld
  <2> SUFFICES ASSUME Init PROVE AllHeld
    OBVIOUS
  <2>1. \A q \in Queries : Held(q, index[q])
    BY NothingClaimed DEF Init
  <2> QED
    BY <2>1 DEF AllHeld, Init
<1>2. IInv /\ IInv' /\ AllHeld /\ [Next]_vars => AllHeld'
  BY IndexHolds
<1>3. IInv /\ AllHeld => IndexIsTrue
  <2> SUFFICES ASSUME IInv, AllHeld, NEW q \in Queries
               PROVE  /\ \A k \in 0..MaxPages - 1 :
                           k < index[q].next /\ k < pages[q] => <<q, k>> \in stored \/ q \in late
                      /\ index[q].done /\ q \notin late
                           => {q} \X (0..pages[q] - 1) \subseteq stored
    BY DEF IndexIsTrue
  <2>1. Held(q, index[q]) /\ pages[q] \in Nat
    BY ClockAssumption DEF AllHeld, IInv, TypeOK
  <2> QED
    BY <2>1 DEF Held
<1> QED
  BY <1>1, <1>2, <1>3, Invariant, PTL DEF Spec

----------------------------------------------------------------------------
(* The day's runs.  They are counted by the UTC day and shared out by the  *)
(* site's, so the share is kept where no screening time is between UTC's   *)
(* midnight and the site's; and where the times of a day are no further    *)
(* apart than a list waits that is not catching up, which is swept         *)
(* whatever its share.                                                     *)
Midnight == LocalHour(0)

SharedDay ==
    /\ RunsPerDay # 0
    /\ \A t \in Times : Midnight = 0 \/ t < Midnight
    /\ \A s, t \in Times : t <= s + SweepHours

\* The site's day has begun: UTC's has not ended since.
NewDay == Midnight = 0 \/ LocalHour(clock) < Midnight

\* A day's sweeps are among the runs counted, and the first of those was no longer
\* ago than the first of the day's times.
Shared(w) ==
    /\ ~watch[w].ever => watch[w].runs = 0
    /\ ~NewDay => watch[w].runs = 0
    /\ NewDay => /\ swept[w] <= watch[w].runs
                 /\ watch[w].runs <= RunsAllowed(clock)
                 /\ watch[w].runs > 0 =>
                       \E s \in Times : watch[w].hours + s <= LocalHour(clock)

InShare ==
    /\ \A w \in Watches : Shared(w)
    /\ \A p \in Processes : proc[p].at = "claiming" => InSlot(clock)

LEMMA ProductGrows == ASSUME NEW r \in Nat, NEW a \in Nat, NEW b \in Nat, a <= b PROVE r * a <= r * b
<1>1. PICK d \in Nat : b = a + d
  <2>1. b - a \in Nat /\ b = a + (b - a)
    OBVIOUS
  <2> QED BY <2>1
<1>2. r * b = r * a + r * d
  BY <1>1
<1>3. r * d \in Nat /\ r * a \in Nat
  BY <1>1
<1> QED BY <1>2, <1>3
LEMMA QuotientGrows == ASSUME NEW n \in Nat \ {0}, NEW a \in Nat, NEW b \in Nat, a <= b PROVE a \div n <= b \div n
<1> DEFINE x == a \div n
           y == b \div n
<1>1. /\ x \in Nat /\ y \in Nat
      /\ a = n * x + (a % n) /\ a % n \in 0..n-1
      /\ b = n * y + (b % n) /\ b % n \in 0..n-1
  OBVIOUS
<1> HIDE DEF x, y
<1>2. CASE y + 1 <= x
  <2>1. n * (y + 1) <= n * x
    BY <1>1, <1>2, ProductGrows
  <2>2. n * (y + 1) = n * y + n
    BY <1>1
  <2>3. n * x \in Nat /\ n * y \in Nat
    BY <1>1
  <2> QED
    BY <1>1, <2>1, <2>2, <2>3
<1> QED
  BY <1>1, <1>2 DEF x, y
LEMMA ClockMoves ==
    ASSUME clock \in 0..(24 \div HoursPerTick) - 1, HoursPass
    PROVE  /\ LocalHour(clock) \in 0..23 /\ LocalHour(clock)' \in 0..23 /\ Midnight \in 0..23
           /\ clock' = 0 => LocalHour(clock)' = Midnight
           /\ clock' # 0 /\ NewDay => NewDay' /\ LocalHour(clock)' = LocalHour(clock) + HoursPerTick
<1> DEFINE g == Standard + (IF Daylight THEN 1 ELSE 0)
<1>1. g \in 0..24 /\ clock \in Nat
  BY ClockAssumption
<1>2. clock' = (clock + 1) % (24 \div HoursPerTick)
  BY DEF HoursPass
<1>3. /\ LocalHour(clock) = (clock * HoursPerTick + g) % 24
      /\ LocalHour(clock)' = (clock' * HoursPerTick + g) % 24
      /\ Midnight = g % 24
  <2> DEFINE d == IF Daylight THEN 1 ELSE 0
  <2>1. d \in 0..1 /\ g = Standard + d
    BY ClockAssumption
  <2>2. clock' \in Nat /\ Standard \in Nat /\ HoursPerTick \in Nat
    BY <1>1, <1>2, ClockAssumption
  <2>3. \A t : LocalHour(t) = (t * HoursPerTick + Standard + d) % 24
    BY DEF LocalHour
  <2> HIDE DEF d, g
  <2>4. ASSUME NEW t \in Nat PROVE LocalHour(t) = (t * HoursPerTick + g) % 24
    <3>1. PICK x \in Nat : x = t * HoursPerTick
      BY <2>2
    <3>2. x + Standard + d = x + g
      BY <2>1, <2>2
    <3> QED
      BY <2>3, <3>1, <3>2
  <2>5. LocalHour(clock)' = LocalHour(clock')
    BY <2>2, <2>4 DEF LocalHour
  <2>6. 0 * HoursPerTick + g = g
    BY <1>1, <2>2 DEF g
  <2> QED
    BY <1>1, <2>2, <2>4, <2>5, <2>6 DEF Midnight
<1> HIDE DEF g
<1>4. HoursPerTick \in {1, 2, 3, 4, 6, 8, 12, 24}
  BY ClockAssumption
<1>5. \E u \in 0..23 : /\ LocalHour(clock) = (u + g) % 24
                       /\ LocalHour(clock)' = ((IF clock' = 0 THEN 0 ELSE u + HoursPerTick) + g) % 24
                       /\ clock' # 0 => u + HoursPerTick < 24
  <2> DEFINE u == clock * HoursPerTick
  <2>1. u \in 0..23 /\ (clock' # 0 => clock' * HoursPerTick = u + HoursPerTick /\ u + HoursPerTick < 24)
    <3>1. CASE HoursPerTick = 1 BY <3>1, <1>1, <1>2
    <3>2. CASE HoursPerTick = 2 BY <3>2, <1>1, <1>2
    <3>3. CASE HoursPerTick = 3 BY <3>3, <1>1, <1>2
    <3>4. CASE HoursPerTick = 4 BY <3>4, <1>1, <1>2
    <3>6. CASE HoursPerTick = 6 BY <3>6, <1>1, <1>2
    <3>8. CASE HoursPerTick = 8 BY <3>8, <1>1, <1>2
    <3>12. CASE HoursPerTick = 12 BY <3>12, <1>1, <1>2
    <3>24. CASE HoursPerTick = 24 BY <3>24, <1>1, <1>2
    <3> QED
      BY <1>4, <3>1, <3>2, <3>3, <3>4, <3>6, <3>8, <3>12, <3>24
  <2> QED
    BY <1>3, <2>1, <1>4
<1>6. PICK u \in 0..23 : /\ LocalHour(clock) = (u + g) % 24
                         /\ LocalHour(clock)' = ((IF clock' = 0 THEN 0 ELSE u + HoursPerTick) + g) % 24
                         /\ clock' # 0 => u + HoursPerTick < 24
  BY <1>5
<1>7. \A x \in 0..47 : x % 24 = IF x < 24 THEN x ELSE x - 24
  OBVIOUS
<1>8. PICK v \in 0..23 : v = IF clock' = 0 THEN 0 ELSE u + HoursPerTick
  <2>1. clock' # 0 => u + HoursPerTick \in 0..23
    BY <1>4, <1>6
  <2> QED
    BY <2>1
<1>9. PICK h, n, m : h = LocalHour(clock) /\ n = LocalHour(clock)' /\ m = Midnight
  OBVIOUS
<1>10. /\ h = IF u + g < 24 THEN u + g ELSE u + g - 24
       /\ n = IF v + g < 24 THEN v + g ELSE v + g - 24
       /\ m = IF g < 24 THEN g ELSE g - 24
  <2>1. h = (u + g) % 24 /\ n = (v + g) % 24 /\ m = g % 24
    BY <1>3, <1>6, <1>8, <1>9
  <2>2. u + g \in 0..47 /\ v + g \in 0..47 /\ g \in 0..47
    BY <1>1
  <2> QED
    BY <1>7, <2>1, <2>2
<1>11. /\ h \in 0..23 /\ n \in 0..23 /\ m \in 0..23
       /\ clock' = 0 => n = m
       /\ clock' # 0 /\ (m = 0 \/ h < m) => (m = 0 \/ n < m) /\ n = h + HoursPerTick
  BY <1>1, <1>4, <1>6, <1>8, <1>10
<1>12. Midnight' = Midnight
  BY DEF Midnight, LocalHour
<1> QED
  BY <1>9, <1>11, <1>12 DEF NewDay
LEMMA TimesType ==
    /\ Times \subseteq 0..23 /\ IsFiniteSet(Times)
    /\ Cardinality(Times) \in Nat \ {0}
<1>1. Times \subseteq 0..23
  <2>1. ASSUME NEW e \in Settings PROVE ParseTime(e) \in 0..23
    <3>1. e.hour \in 0..23
      BY SettingsAssumption
    <3>2. PICK h \in 0..23, r \in 0..11 : h = e.hour /\ r = e.hour % 12
      <4>1. \A h \in 0..23 : h % 12 \in 0..11
        OBVIOUS
      <4> QED
        BY <3>1, <4>1
    <3>3. ParseTime(e) = IF e.suffix = "" THEN h ELSE r + (IF e.suffix = "pm" THEN 12 ELSE 0)
      BY <3>2 DEF ParseTime
    <3>4. \A x \in 0..11 : x + 12 \in 0..23 /\ x + 0 \in 0..23
      OBVIOUS
    <3>5. CASE e.suffix = ""
      BY <3>2, <3>3, <3>5
    <3>6. CASE e.suffix # "" /\ e.suffix = "pm"
      BY <3>2, <3>3, <3>4, <3>6
    <3>7. CASE e.suffix # "" /\ e.suffix # "pm"
      BY <3>2, <3>3, <3>4, <3>7
    <3> QED
      BY <3>5, <3>6, <3>7
  <2> QED
    BY <2>1 DEF Times
<1>2. IsFiniteSet(0..23)
  <2>1. 0 \in Int /\ 23 \in Int
    OBVIOUS
  <2> QED
    BY <2>1, FS_Interval, Zenon
<1>3. IsFiniteSet(Times)
  BY <1>1, <1>2, FS_Subset
<1>4. Times # {}
  BY SettingsAssumption DEF Times
<1> QED
  BY <1>1, <1>3, <1>4, FS_CardinalityType, FS_EmptySet

LEMMA BegunType ==
    ASSUME NEW c PROVE Begun(c) \in Nat /\ IsFiniteSet({t \in Times : t <= LocalHour(c)})
  BY TimesType, FS_Subset, FS_CardinalityType DEF Begun

LEMMA ShareType == ASSUME NEW c PROVE RunsAllowed(c) \in Nat
<1>1. RunsPerDay \in Nat
  BY ClockAssumption
<1>2. PICK b \in Nat, n \in Nat \ {0} : b = Begun(c) /\ n = Cardinality(Times)
  BY BegunType, TimesType
<1>3. RunsPerDay * b \in Nat
  BY <1>1
<1>4. RunsPerDay * b + n - 1 \in Nat
  BY <1>2, <1>3
<1>5. \A m \in Nat : m \div n \in Nat
  OBVIOUS
<1> QED
  BY <1>2, <1>4, <1>5 DEF RunsAllowed

\* As the day goes on the share grows.
LEMMA ShareGrows ==
    ASSUME NEW c, NEW d, LocalHour(c) \in 0..23, LocalHour(d) \in 0..23, LocalHour(c) <= LocalHour(d)
    PROVE  RunsAllowed(c) <= RunsAllowed(d)
<1>1. {t \in Times : t <= LocalHour(c)} \subseteq {t \in Times : t <= LocalHour(d)}
  <2>1. ASSUME NEW t \in Times, t <= LocalHour(c) PROVE t <= LocalHour(d)
    <3>1. t \in 0..23
      BY TimesType
    <3> QED
      BY <2>1, <3>1
  <2> QED
    BY <2>1
<1>2. Begun(c) <= Begun(d)
  BY <1>1, BegunType, FS_Subset DEF Begun
<1>3. PICK b \in Nat, e \in Nat, n \in Nat \ {0} : b = Begun(c) /\ e = Begun(d) /\ n = Cardinality(Times)
  BY BegunType, TimesType
<1>4. RunsPerDay \in Nat
  BY ClockAssumption
<1>5. RunsPerDay * b <= RunsPerDay * e
  BY <1>2, <1>3, <1>4, ProductGrows
<1>6. PICK x \in Nat, y \in Nat : x = RunsPerDay * b + n - 1 /\ y = RunsPerDay * e + n - 1
  BY <1>3, <1>4
<1>7. x <= y
  BY <1>4, <1>5, <1>6
<1>8. x \div n <= y \div n
  BY <1>7, QuotientGrows
<1> QED
  BY <1>3, <1>6, <1>8 DEF RunsAllowed

\* At each of the times there is a run to have.
LEMMA FirstShare ==
    ASSUME RunsPerDay # 0, InSlot(clock) PROVE RunsAllowed(clock) >= 1
<1>1. LocalHour(clock) \in {t \in Times : t <= LocalHour(clock)}
  <2>1. LocalHour(clock) \in Times /\ LocalHour(clock) \in 0..23
    BY TimesType DEF InSlot
  <2> QED
    BY <2>1
<1>2. Begun(clock) # 0
  BY <1>1, BegunType, FS_EmptySet DEF Begun
<1>3. PICK b \in Nat \ {0}, n \in Nat \ {0} : b = Begun(clock) /\ n = Cardinality(Times)
  BY <1>2, BegunType, TimesType
<1>4. RunsPerDay \in Nat \ {0}
  BY ClockAssumption
<1>5. RunsPerDay * 1 <= RunsPerDay * b
  BY <1>4, ProductGrows
<1>6. PICK x \in Nat : x = RunsPerDay * b + n - 1
  BY <1>4
<1>7. n <= x
  BY <1>4, <1>5, <1>6
<1>8. n \div n <= x \div n
  BY <1>7, QuotientGrows
<1>9. n \div n = 1
  <2>1. PICK q \in Nat : q = n \div n
    OBVIOUS
  <2>2. n = n * q + (n % n) /\ n % n \in 0..n - 1
    BY <2>1
  <2>3. q # 0
    BY <2>2
  <2>4. 2 <= q => n * 2 <= n * q
    BY ProductGrows
  <2> QED
    BY <2>1, <2>2, <2>3, <2>4
<1> QED
  BY <1>3, <1>6, <1>8, <1>9 DEF RunsAllowed

LEMMA HoursShare == ASSUME IInv, InShare, HoursPass PROVE InShare'
<1> DEFINE Row(w) == watch[w]
<1>1. clock \in 0..(24 \div HoursPerTick) - 1 /\ HoursPerTick \in Nat /\ Long \in Nat
  BY ClockAssumption DEF IInv, TypeOK, Long
<1>2. /\ LocalHour(clock) \in 0..23 /\ LocalHour(clock)' \in 0..23 /\ Midnight \in 0..23
      /\ clock' = 0 => LocalHour(clock)' = Midnight
      /\ clock' # 0 /\ NewDay => NewDay' /\ LocalHour(clock)' = LocalHour(clock) + HoursPerTick
  BY <1>1, ClockMoves
<1>3. LocalHour(clock') = LocalHour(clock)' /\ Midnight' = Midnight
      /\ RunsAllowed(clock)' = RunsAllowed(clock')
  BY DEF LocalHour, Midnight, RunsAllowed, Begun
<1>4. \A p \in Processes : proc'[p].at # "claiming"
  <2>1. Quiet /\ proc' = proc
    BY DEF HoursPass
  <2>2. \A p \in Processes : proc'[p] = Idle
    BY <2>1 DEF Quiet
  <2>3. Idle.at # "claiming"
    BY DEF Idle
  <2> QED
    BY <2>2, <2>3
<1>5. ASSUME NEW w \in Watches PROVE Shared(w)'
  <2>1. /\ watch[w] \in Watch /\ swept[w] \in Nat
        /\ watch'[w].ever = watch[w].ever
        /\ watch'[w].hours <= watch[w].hours + HoursPerTick
        /\ watch'[w].runs = IF clock' = 0 THEN 0 ELSE watch[w].runs
        /\ watch'[w].runs \in Nat /\ watch'[w].hours \in Nat
    <3>1. /\ watch[w] \in Watch /\ watch \in [Watches -> Watch]
          /\ swept[w] \in Nat /\ HoursPerTick > 0
      BY ClockAssumption DEF IInv, TypeOK
    <3>2. PICK h, n : /\ h = IF watch[w].hours + HoursPerTick > Long THEN Long
                             ELSE watch[w].hours + HoursPerTick
                      /\ n = IF clock' = 0 THEN 0 ELSE watch[w].runs
                      /\ watch'[w] = [watch[w] EXCEPT !.hours = h, !.just = FALSE, !.runs = n]
      BY <3>1 DEF HoursPass
    <3>3. /\ watch'[w].ever = watch[w].ever /\ watch'[w].hours = h /\ watch'[w].runs = n
      BY <3>1, <3>2 DEF Watch
    <3>4. watch[w].hours \in 0..Long /\ watch[w].runs \in Nat
      BY <3>1 DEF Watch
    <3>5. h \in Nat /\ h <= watch[w].hours + HoursPerTick /\ n \in Nat
      BY <1>1, <3>2, <3>4
    <3> QED
      BY <3>1, <3>2, <3>3, <3>5
  <2>2. swept'[w] = IF LocalHour(clock') <= LocalHour(clock) THEN 0 ELSE swept[w]
    BY DEF HoursPass, IInv, TypeOK
  <2>3. Shared(w)
    BY DEF InShare
  <2>4. RunsAllowed(clock)' \in Nat
    BY <1>3, ShareType
  <2>5. ~watch'[w].ever => watch'[w].runs = 0
    BY <2>1, <2>3 DEF Shared
  <2>6. CASE clock' = 0
    BY <1>2, <1>3, <2>1, <2>2, <2>4, <2>6 DEF Shared, NewDay
  <2>7. CASE clock' # 0 /\ NewDay
    <3>1. LocalHour(clock) <= LocalHour(clock')
      BY <1>1, <1>2, <1>3, <2>7
    <3>2. RunsAllowed(clock) <= RunsAllowed(clock')
      BY <1>2, <1>3, <3>1, ShareGrows
    <3>3. watch[w].runs <= RunsAllowed(clock)
      BY <2>3, <2>7 DEF Shared
    <3>4. watch'[w].runs <= RunsAllowed(clock)'
      BY <1>3, <2>1, <2>7, <3>2, <3>3, ShareType DEF Watch
    <3>5. watch'[w].runs > 0 => \E s \in Times : watch'[w].hours + s <= LocalHour(clock)'
      BY <1>1, <1>2, <2>1, <2>3, <2>7, TimesType DEF Shared, Watch
    <3>6. swept'[w] <= watch'[w].runs
      BY <1>2, <1>3, <2>1, <2>2, <2>3, <2>7, <3>1 DEF Shared
    <3> QED
      BY <1>2, <2>5, <2>7, <3>4, <3>5, <3>6 DEF Shared
  <2>8. CASE clock' # 0 /\ ~NewDay
    BY <1>2, <1>3, <2>1, <2>2, <2>3, <2>4, <2>8 DEF Shared, NewDay
  <2> QED
    BY <2>6, <2>7, <2>8
<1> QED
  BY <1>4, <1>5 DEF InShare

\* What neither passes the time nor sweeps a list.
LEMMA OthersShare ==
    ASSUME IInv, IInv', InShare, clock' = clock, swept' = swept,
           \A w \in Watches : /\ watch[w].ever => watch'[w].ever
                              /\ watch'[w].runs = watch[w].runs
                              /\ watch'[w].hours <= watch[w].hours,
           \A p \in Processes : proc'[p].at = "claiming" => proc[p].at = "claiming" \/ InSlot(clock)
    PROVE  InShare'
<1>1. /\ LocalHour(clock)' = LocalHour(clock) /\ Midnight' = Midnight
      /\ RunsAllowed(clock)' = RunsAllowed(clock) /\ Times' = Times
      /\ InSlot(clock)' = InSlot(clock) /\ NewDay' = NewDay
  BY DEF LocalHour, Midnight, RunsAllowed, Begun, InSlot, NewDay
<1>2. ASSUME NEW w \in Watches PROVE Shared(w)'
  <2>1. watch[w].hours \in Nat /\ watch'[w].hours \in Nat /\ Shared(w)
    BY DEF IInv, TypeOK, Watch, InShare
  <2>2. ASSUME NEW s \in Times, watch[w].hours + s <= LocalHour(clock)
        PROVE  watch'[w].hours + s <= LocalHour(clock)
    <3>1. LocalHour(clock) \in Int /\ s \in Nat
      BY TimesType, ClockAssumption DEF LocalHour, IInv, TypeOK
    <3> QED
      BY <2>1, <2>2, <3>1
  <2> QED
    BY <1>1, <2>1, <2>2 DEF Shared
<1> QED
  BY <1>1, <1>2 DEF InShare

LEMMA ClaimShares ==
    ASSUME SharedDay, IInv, InShare, NEW p \in Processes, Claim(p)
    PROVE  InShare'
<1>1. /\ proc[p] \in Request /\ proc[p].at = "claiming" /\ proc \in [Processes -> Jobs]
      /\ InSlot(clock) /\ clock' = clock
  BY JobKinds DEF Claim, IInv, TypeOK, InShare
<1>2. PICK w \in Longest(proc[p].due) :
         IF StillDue(w)
         THEN /\ watch' = [Marked(w) EXCEPT ![w].runs = @ + 1]
              /\ proc' = [proc EXCEPT ![p].at = "starting", ![p].watch = w, ![p].due = {}]
              /\ swept' = [swept EXCEPT ![w] = IF @ > RunsPerDay THEN @ ELSE @ + 1]
         ELSE /\ proc' = IF proc[p].due = {w} THEN [proc EXCEPT ![p] = Idle]
                         ELSE [proc EXCEPT ![p].due = @ \ {w}]
              /\ UNCHANGED <<watch, swept>>
  BY DEF Claim
<1>3. w \in Watches
  BY <1>1 DEF Longest, Request
<1>4. /\ LocalHour(clock)' = LocalHour(clock) /\ Midnight' = Midnight
      /\ RunsAllowed(clock)' = RunsAllowed(clock)
      /\ InSlot(clock)' /\ NewDay' = NewDay
  BY <1>1 DEF LocalHour, Midnight, RunsAllowed, Begun, InSlot, NewDay
<1>5. LocalHour(clock) \in Times /\ LocalHour(clock) \in 0..23 /\ NewDay
  BY <1>1, TimesType DEF InSlot, SharedDay, NewDay
<1>6. ASSUME NEW v \in Watches, watch'[v] = watch[v], swept'[v] = swept[v]
      PROVE  Shared(v)'
  BY <1>4, <1>6 DEF InShare, Shared
<1>7. CASE ~StillDue(w)
  BY <1>2, <1>4, <1>6, <1>7 DEF InShare
<1>8. CASE StillDue(w)
  <2>1. /\ watch[w] \in Watch /\ swept[w] \in Nat /\ Shared(w)
        /\ Marked(w) \in [Watches -> Watch]
        /\ Marked(w)[w] = [watch[w] EXCEPT !.ever = TRUE, !.hours = 0, !.just = TRUE]
        /\ \A v \in Watches \ {w} : Marked(w)[v] = watch[v]
    <3>1. watch \in [Watches -> Watch] /\ swept \in [Watches -> 0..RunsPerDay + 1]
      BY DEF IInv, TypeOK
    <3>2. swept[w] \in Nat
      BY <1>3, <3>1, ClockAssumption
    <3> QED
      BY <1>3, <3>1, <3>2, MarkedType DEF InShare
  <2>2. PICK m : m = Marked(w)
    OBVIOUS
  <2>3. watch' = [m EXCEPT ![w].runs = @ + 1]
    BY <1>2, <1>8, <2>2
  <2>4. /\ m[w].ever /\ m[w].hours = 0 /\ m[w].runs = watch[w].runs /\ m[w] \in Watch
    BY <2>1, <2>2, <1>3 DEF Watch
  <2>5. /\ watch'[w].ever /\ watch'[w].hours = 0 /\ watch'[w].runs = watch[w].runs + 1
        /\ \A v \in Watches \ {w} : watch'[v] = watch[v]
    BY <1>3, <2>1, <2>2, <2>3, <2>4 DEF Watch
  <2>6. /\ swept'[w] <= swept[w] + 1
        /\ \A v \in Watches \ {w} : swept'[v] = swept[v]
    <3>1. swept' = [swept EXCEPT ![w] = IF @ > RunsPerDay THEN @ ELSE @ + 1]
      BY <1>2, <1>8
    <3>2. swept \in [Watches -> 0..RunsPerDay + 1]
      BY DEF IInv, TypeOK
    <3> QED
      BY <1>3, <2>1, <3>1, <3>2
  <2>7. watch[w].runs + 1 <= RunsAllowed(clock)
    <3>1. RunsAllowed(clock) >= 1 /\ RunsAllowed(clock) \in Nat /\ watch[w].runs \in Nat
      BY <1>1, <2>1, FirstShare, ShareType DEF SharedDay, Watch
    <3>2. CASE ~watch[w].ever
      BY <2>1, <3>1, <3>2 DEF Shared
    <3>3. CASE watch[w].hours > SweepHours
      <4>1. ASSUME NEW s \in Times PROVE ~(watch[w].hours + s <= LocalHour(clock))
        <5>1. LocalHour(clock) <= s + SweepHours
          BY <1>5 DEF SharedDay
        <5> QED
          BY <1>5, <2>1, <3>3, <5>1, TimesType, ClockAssumption DEF Watch
      <4>2. watch[w].runs = 0
        BY <1>5, <2>1, <3>1, <4>1 DEF Shared
      <4> QED
        BY <3>1, <4>2
    <3>4. CASE watch[w].runs < RunsAllowed(clock)
      BY <3>1, <3>4
    <3> QED
      BY <1>8, <3>2, <3>3, <3>4 DEF StillDue, Due
  <2>8. Shared(w)'
    <3>1. swept'[w] <= watch'[w].runs
      <4>1. swept[w] <= watch[w].runs /\ swept'[w] \in Nat /\ watch[w].runs \in Nat
        <5>1. swept'[w] \in 0..RunsPerDay + 1
          BY <1>3, ClaimKeeps DEF IInv, TypeOK
        <5> QED
          BY <1>5, <2>1, <5>1, ClockAssumption DEF Shared, Watch
      <4> QED
        BY <2>1, <2>5, <2>6, <4>1
    <3>2. \E s \in Times : watch'[w].hours + s <= LocalHour(clock)
      BY <1>5, <2>5
    <3> QED
      BY <1>4, <1>5, <2>5, <2>7, <3>1, <3>2 DEF Shared
  <2>9. \A v \in Watches : Shared(v)'
    BY <1>6, <2>5, <2>6, <2>8
  <2> QED
    BY <1>4, <2>9 DEF InShare
<1> QED
  BY <1>7, <1>8

LEMMA HoursType == ASSUME NEW row \in Watch PROVE row.hours \in Nat /\ row.runs \in Nat
<1>1. Long \in Nat /\ row.hours \in 0..Long /\ row.runs \in Nat
  BY ClockAssumption DEF Long, Watch
<1> QED
  BY <1>1

\* The rows of the lists, but for their sweeps and the time.
RowsStay ==
    /\ clock' = clock /\ swept' = swept
    /\ \A w \in Watches : /\ watch[w].ever => watch'[w].ever
                          /\ watch'[w].runs = watch[w].runs
                          /\ watch'[w].hours <= watch[w].hours

LEMMA MarkedRowsStay ==
    ASSUME IInv, NEW w \in Watches, NEW m, m = Marked(w),
           \/ watch' = m
           \/ \E b, a : watch' = [m EXCEPT ![w].backlog = b, ![w].active = a]
    PROVE  \A v \in Watches : /\ watch[v].ever => watch'[v].ever
                              /\ watch'[v].runs = watch[v].runs
                              /\ watch'[v].hours <= watch[v].hours
<1>1. /\ watch \in [Watches -> Watch] /\ m \in [Watches -> Watch]
      /\ m[w] = [watch[w] EXCEPT !.ever = TRUE, !.hours = 0, !.just = TRUE]
      /\ \A v \in Watches \ {w} : m[v] = watch[v]
  BY MarkedType DEF IInv, TypeOK
<1>2. m[w] \in Watch /\ m[w].ever /\ m[w].hours = 0 /\ m[w].runs = watch[w].runs
  <2>1. watch[w] \in Watch /\ m[w] \in Watch
    BY <1>1
  <2> QED
    BY <1>1, <2>1 DEF Watch
<1>3. /\ watch'[w].ever /\ watch'[w].hours = 0 /\ watch'[w].runs = watch[w].runs
      /\ \A v \in Watches \ {w} : watch'[v] = watch[v]
  <2>1. CASE watch' = m
    BY <1>1, <1>2, <2>1
  <2>2. ASSUME NEW b, NEW a, watch' = [m EXCEPT ![w].backlog = b, ![w].active = a]
        PROVE  /\ watch'[w].ever /\ watch'[w].hours = 0 /\ watch'[w].runs = watch[w].runs
               /\ \A v \in Watches \ {w} : watch'[v] = watch[v]
    BY <1>1, <1>2, <2>2 DEF Watch
  <2> QED
    BY <2>1, <2>2
<1>4. \A v \in Watches : watch[v].hours \in Nat
  BY <1>1, HoursType
<1> QED
  BY <1>3, <1>4

LEMMA OtherRowsStay ==
    ASSUME IInv, [Next]_vars, ~HoursPass, \A p \in Processes : ~Claim(p)
    PROVE  RowsStay
<1>0. \A w \in Watches : watch[w].hours <= watch[w].hours
  BY DEF IInv, TypeOK, Watch
<1>1. watch' = watch /\ clock' = clock /\ swept' = swept => RowsStay
  BY <1>0 DEF RowsStay
<1>2. CASE UNCHANGED vars \/ WeeksPass \/ RulesChange \/ \E q \in Queries : Publish(q)
  BY <1>1, <1>2 DEF vars, WeeksPass, RulesChange, Publish, histories
<1>3. CASE MinutesPass \/ \E w \in Watches, active \in BOOLEAN : SetActive(w, active)
  <2>1. CASE MinutesPass
    <3>1. clock' = clock /\ swept' = swept
      BY <2>1 DEF MinutesPass, histories
    <3>2. \A w \in Watches : watch'[w] = [watch[w] EXCEPT !.just = FALSE]
      BY <2>1 DEF MinutesPass
    <3> QED
      BY <1>0, <3>1, <3>2 DEF RowsStay, IInv, TypeOK, Watch
  <2>2. ASSUME NEW w \in Watches, NEW active \in BOOLEAN, SetActive(w, active) PROVE RowsStay
    BY <1>0, <2>2 DEF SetActive, RowsStay, histories, IInv, TypeOK, Watch
  <2> QED
    BY <1>3, <2>1, <2>2
<1>4. ASSUME NEW p \in Processes, Ask(p) \/ JobStops(p) PROVE RowsStay
  BY <1>1, <1>4 DEF Ask, SweepReads, SweepWaiting, JobStops, histories
<1>5. ASSUME NEW p \in Processes, NEW w \in Watches, NEW admin \in BOOLEAN, NEW whole \in BOOLEAN,
             RunNow(p, w, admin, whole)
      PROVE  RowsStay
  <2>1. PICK m : m = Marked(w)
    OBVIOUS
  <2>2. \E b, a : watch' = [m EXCEPT ![w].backlog = b, ![w].active = a]
    BY <1>5, <2>1 DEF RunNow
  <2> QED
    BY <1>5, <2>1, <2>2, MarkedRowsStay DEF RunNow, RowsStay, histories
<1>6. ASSUME NEW p \in Processes, Work(p), ~Claim(p) PROVE RowsStay
  <2>1. CASE StartRun(p)
    <3>1. PICK w \in Watches : w = proc[p].watch
      BY <2>1 DEF StartRun, IInv, AllTaken, Taken
    <3> QED
      BY <2>1, <3>1, MarkedRowsStay DEF StartRun, RowsStay, histories
  <2>2. CASE SetBacklog(p)
    <3>1. PICK v, b : watch' = [watch EXCEPT ![v].backlog = b]
      BY <2>2 DEF SetBacklog
    <3> QED
      BY <1>0, <2>2, <3>1 DEF SetBacklog, RowsStay, histories, IInv, TypeOK, Watch
  <2>3. ASSUME NEW q \in Queries,
               PassOver(p, q) \/ Reopen(p, q) \/ LeavePart(p, q) \/ ReadPage(p, q) \/ NoAnswer(p, q)
        PROVE  RowsStay
    BY <1>1, <2>3 DEF PassOver, Reopen, LeavePart, ReadPage, NoAnswer, histories
  <2>4. CASE SaveIndex(p) \/ Candidates(p) \/ Summarise(p) \/ \E c \in Contractors : ScreenNext(p, c)
    BY <1>1, <2>4 DEF SaveIndex, Candidates, Summarise, ScreenNext, histories
  <2> QED
    BY <1>6, <2>1, <2>2, <2>3, <2>4 DEF Work
<1> QED
  BY <1>2, <1>3, <1>4, <1>5, <1>6 DEF Next

(* A list is started by one request at a time; and where no screening time *)
(* is between UTC's midnight and the site's, and a day's times are no      *)
(* further apart than a list waits, an office that catches up is swept no  *)
(* more often in a day than its share so far.                              *)
THEOREM InTurn == ASSUME SharedDay PROVE Spec => []SweptInTurn
<1>1. Init => InShare
  <2> SUFFICES ASSUME Init PROVE InShare
    OBVIOUS
  <2>1. \A w \in Watches : Shared(w)
    BY ShareType DEF Init, Shared
  <2> QED
    BY <2>1 DEF Init, InShare, Idle
<1>2. ASSUME IInv, IInv', InShare, [Next]_vars PROVE InShare'
  <2>1. CASE HoursPass
    BY <1>2, <2>1, HoursShare
  <2>2. ASSUME NEW p \in Processes, Claim(p) PROVE InShare'
    BY <1>2, <2>2, ClaimShares
  <2>3. CASE ~HoursPass /\ \A p \in Processes : ~Claim(p)
    <3>1. \A p \in Processes : proc'[p].at = "claiming" => proc[p].at = "claiming" \/ InSlot(clock)
      BY <1>2, <2>3, OtherSteps DEF StartsNone
    <3> QED
      BY <1>2, <2>3, <3>1, OtherRowsStay, OthersShare DEF RowsStay
  <2> QED
    BY <2>1, <2>2, <2>3
<1>3. IInv /\ InShare => SharedOut
  <2> SUFFICES ASSUME IInv, InShare, NEW w \in Watches, InSlot(clock)
               PROVE  swept[w] <= RunsAllowed(clock)
    BY DEF SharedOut
  <2>1. NewDay /\ Shared(w) /\ swept[w] \in Nat /\ watch[w].runs \in Nat
    BY DEF InShare, InSlot, SharedDay, NewDay, IInv, TypeOK, Watch
  <2> QED
    BY <2>1, ShareType DEF Shared
<1> QED
  BY <1>1, <1>2, <1>3, Invariant, ClaimedOnce, PTL DEF Spec, SweptInTurn

=============================================================================
