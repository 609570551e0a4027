--------------------------- MODULE SecWatchProofs ---------------------------
(***************************************************************************)
(* What SecWatch guarantees for any number of checks and workers, of forms *)
(* and notices filed, of funds, words and days.                            *)
(*                                                                         *)
(* The first half is of the funds (Funds).  FundsFit types the rows and    *)
(* what each worker holds.  Unbroken is why no day is stepped over: the    *)
(* days read, and the day each sync is at, have no gap between them that a *)
(* sync has not on its list.  The second half is of a firm's forms and a   *)
(* company's notices (Forms).  FormsFit says where each reading comes from,*)
(* and AllTold that what it says was told; the theorems come last.         *)
(***************************************************************************)
EXTENDS SecWatch, FiniteSetTheorems, WellFoundedInduction, TLAPS

----------------------------------------------------------------------------
(* The first and the last of a set of days.                                *)

LEMMA LeastDay ==
    ASSUME NEW S \in SUBSET Nat, S # {}
    PROVE  FirstOf(S) \in S /\ \A e \in S : FirstOf(S) <= e
<1>1. PICK n \in S : \A m \in S : ~(<<m, n>> \in OpToRel(<, Nat))
  BY NatLessThanWellFounded, WFMin, Zenon
<1>2. \A m \in S : ~(m < n)
  BY <1>1, Zenon DEF OpToRel
<1>3. \A m \in S : n <= m
  BY <1>2
<1>4. QED
  BY <1>3 DEF FirstOf

LEMMA LastDayRead ==
    ASSUME NEW S \in SUBSET Nat, S # {}, NEW n \in Nat, \A d \in S : d <= n
    PROVE  MaxOf(S) \in S /\ \A e \in S : e <= MaxOf(S)
<1> DEFINE Above == {m \in Nat : \A d \in S : d <= m}
           m == FirstOf(Above)
<1>1. n \in Above /\ Above \in SUBSET Nat
  OBVIOUS
<1>2. m \in Above /\ \A e \in Above : m <= e
  BY <1>1, LeastDay
<1> HIDE DEF m
<1>3. m \in S
  <2>1. SUFFICES ASSUME m \notin S PROVE FALSE
    OBVIOUS
  <2>2. \A d \in S : d < m
    BY <2>1, <1>2
  <2>3. m > 0
    <3>1. PICK d \in S : TRUE
      OBVIOUS
    <3>2. d < m /\ d \in Nat /\ m \in Nat
      BY <2>2, <3>1, <1>2
    <3>3. QED
      BY <3>2
  <2>4. m - 1 \in Above
    BY <2>2, <2>3, <1>2
  <2>5. QED
    BY <2>4, <1>2
<1>4. \A e \in S : e <= m
  BY <1>2
<1>5. QED
  BY <1>3, <1>4 DEF MaxOf

----------------------------------------------------------------------------
(* What a first sync reads.                                                *)

\* The days there are that a first sync on day t asks for, and those it reads.
OpenTo(t) == {d \in TradingDays : d >= t - (2 * BackfillDays + 1) /\ d < t}
Window(t) == NewestOf(OpenTo(t))

LEMMA DaysOfTheYear ==
    /\ TradingDays \subseteq Nat /\ BackfillDays \in Nat
    /\ \A t, d \in Nat : /\ IsFiniteSet({e \in OpenTo(t) : e > d})
                         /\ Cardinality({e \in OpenTo(t) : e > d}) \in Nat
<1>1. TradingDays \subseteq 1..LastDay /\ LastDay \in Nat /\ BackfillDays \in Nat
  BY FundsAssumption
<1>2. IsFiniteSet(TradingDays)
  <2>1. IsFiniteSet(1..LastDay)
    BY <1>1, FS_Interval
  <2>2. QED
    BY <1>1, <2>1, FS_Subset
<1>3. ASSUME NEW t \in Nat, NEW d \in Nat
      PROVE  IsFiniteSet({e \in OpenTo(t) : e > d})
  BY <1>2, FS_Subset DEF OpenTo
<1>4. QED
  BY <1>1, <1>3, FS_CardinalityType

LEMMA WindowReachesToday ==
    ASSUME NEW t \in Nat, NEW d \in Window(t), NEW e \in TradingDays, d < e, e < t
    PROVE  e \in Window(t)
<1> DEFINE After(x) == {y \in OpenTo(t) : y > x}
<1>1. d \in OpenTo(t) /\ Cardinality(After(d)) < BackfillDays
  BY DEF Window, NewestOf
<1>2. d \in Nat /\ e \in Nat /\ e \in OpenTo(t)
  BY <1>1, DaysOfTheYear DEF OpenTo
<1>3. \A y \in OpenTo(t) : y \in Nat
  BY DaysOfTheYear DEF OpenTo
<1>4. After(e) \subseteq After(d)
  <2>1. SUFFICES ASSUME NEW y \in OpenTo(t), y > e PROVE y > d
    OBVIOUS
  <2>2. y \in Nat
    BY <1>3
  <2>3. QED
    BY <1>2, <2>1, <2>2
<1>5. Cardinality(After(e)) <= Cardinality(After(d))
  BY <1>2, <1>4, DaysOfTheYear, FS_Subset
<1>6. Cardinality(After(e)) < BackfillDays
  BY <1>1, <1>2, <1>5, DaysOfTheYear
<1>7. QED
  BY <1>2, <1>6 DEF Window, NewestOf

LEMMA WindowLooksNoFurther ==
    ASSUME NEW t \in Nat, NEW d \in Window(t + 1), d < t
    PROVE  d \in Window(t)
<1> DEFINE After(x) == {y \in OpenTo(t) : y > x}
           Later(x) == {y \in OpenTo(t + 1) : y > x}
<1>1. d \in OpenTo(t + 1) /\ Cardinality(Later(d)) < BackfillDays
  BY DEF Window, NewestOf
<1>2. d \in Nat /\ d \in OpenTo(t)
  BY <1>1, DaysOfTheYear DEF OpenTo
<1>3. After(d) \subseteq Later(d)
  <2>1. SUFFICES ASSUME NEW y \in OpenTo(t), y > d PROVE y \in OpenTo(t + 1)
    OBVIOUS
  <2>2. y \in Nat /\ y \in TradingDays /\ y < t
    BY DaysOfTheYear DEF OpenTo
  <2>3. d >= t + 1 - (2 * BackfillDays + 1)
    <3>1. d \in OpenTo(t + 1)
      BY <1>1
    <3>2. QED
      BY <1>2, <3>1, DaysOfTheYear DEF OpenTo
  <2>4. QED
    BY <1>2, <2>1, <2>2, <2>3, DaysOfTheYear DEF OpenTo
<1> HIDE DEF After, Later
<1>4. /\ IsFiniteSet(Later(d)) /\ Cardinality(Later(d)) \in Nat
      /\ Cardinality(After(d)) \in Nat
  <2>1. t + 1 \in Nat
    OBVIOUS
  <2>2. QED
    BY <1>2, <2>1, DaysOfTheYear DEF After, Later
<1>5. Cardinality(After(d)) < BackfillDays
  <2>1. Cardinality(After(d)) <= Cardinality(Later(d))
    BY <1>3, <1>4, FS_Subset
  <2>2. QED
    BY <1>1, <1>4, <2>1, DaysOfTheYear
<1>6. QED
  BY <1>2, <1>5 DEF Window, NewestOf, After

LEMMA WindowDropsItsFirst ==
    ASSUME NEW t \in Nat, NEW d \in Window(t), NEW e \in Window(t), d < e
    PROVE  e \in Window(t + 1)
<1> DEFINE After(x) == {y \in OpenTo(t) : y > x}
           Later(x) == {y \in OpenTo(t + 1) : y > x}
<1>1. d \in OpenTo(t) /\ Cardinality(After(d)) < BackfillDays /\ e \in OpenTo(t)
  BY DEF Window, NewestOf
<1>2. d \in Nat /\ e \in Nat /\ e \in OpenTo(t + 1)
  BY <1>1, DaysOfTheYear DEF OpenTo
<1>3. /\ After(e) \cup {e} \subseteq After(d) /\ e \notin After(e)
      /\ Later(e) \subseteq After(e) \cup {t} /\ t \notin After(e)
  <2>1. ASSUME NEW y \in OpenTo(t)
        PROVE  y \in Nat /\ y < t
    BY DaysOfTheYear DEF OpenTo
  <2>2. After(e) \subseteq After(d)
    <3>1. SUFFICES ASSUME NEW y \in OpenTo(t), y > e PROVE y > d
      OBVIOUS
    <3>2. QED
      BY <1>2, <2>1, <3>1
  <2>3. e \in After(d) /\ e \notin After(e) /\ t \notin After(e)
    BY <1>1, <1>2, <2>1
  <2>4. Later(e) \subseteq After(e) \cup {t}
    <3>1. SUFFICES ASSUME NEW y \in OpenTo(t + 1), y > e, y # t PROVE y \in OpenTo(t)
      OBVIOUS
    <3>2. y \in TradingDays /\ y \in Nat /\ y < t + 1
      BY DaysOfTheYear DEF OpenTo
    <3>3. y < t
      BY <3>1, <3>2
    <3>4. e >= t - (2 * BackfillDays + 1)
      BY <1>1 DEF OpenTo
    <3>5. QED
      BY <1>2, <3>1, <3>2, <3>3, <3>4, DaysOfTheYear DEF OpenTo
  <2>5. QED
    BY <2>2, <2>3, <2>4
<1> HIDE DEF After, Later
<1>4. /\ IsFiniteSet(After(e)) /\ IsFiniteSet(After(d)) /\ IsFiniteSet(Later(e))
      /\ Cardinality(After(e)) \in Nat /\ Cardinality(After(d)) \in Nat
      /\ Cardinality(Later(e)) \in Nat
  <2>1. t + 1 \in Nat
    OBVIOUS
  <2>2. QED
    BY <1>2, <2>1, DaysOfTheYear DEF After, Later
<1>5. Cardinality(After(e)) + 1 <= Cardinality(After(d))
  <2>1. Cardinality(After(e) \cup {e}) = Cardinality(After(e)) + 1
    BY <1>3, <1>4, FS_AddElement
  <2>2. Cardinality(After(e) \cup {e}) <= Cardinality(After(d))
    BY <1>3, <1>4, FS_Subset
  <2>3. QED
    BY <2>1, <2>2
<1>6. Cardinality(Later(e)) <= Cardinality(After(e)) + 1
  <2>1. /\ IsFiniteSet(After(e) \cup {t})
        /\ Cardinality(After(e) \cup {t}) = Cardinality(After(e)) + 1
    BY <1>3, <1>4, FS_AddElement
  <2>2. Cardinality(Later(e)) <= Cardinality(After(e) \cup {t})
    BY <1>3, <2>1, FS_Subset
  <2>3. QED
    BY <2>1, <2>2
<1>7. Cardinality(Later(e)) < BackfillDays
  BY <1>1, <1>4, <1>5, <1>6, DaysOfTheYear
<1>8. QED
  BY <1>2, <1>7 DEF Window, NewestOf, Later

----------------------------------------------------------------------------
(* The rows and the workers.                                               *)

Row == [words : Words \cup {NoWords}, watching : BOOLEAN, since : Nat,
        unrelated : SUBSET Vehicle, looked : BOOLEAN]

(* A row that is on says since when, which is no earlier than the first day  *)
(* its words were on.                                                       *)
Sound(row, t, a) ==
    /\ row \in Row /\ row.since <= t
    /\ row.watching => /\ row.words \in Words /\ row.since >= 1
                       /\ a[row.words] >= 1 /\ a[row.words] <= row.since

Job == [at : {"list", "day", "mark", "say", "words", "lookup", "looked", "write looked",
              "more", "read", "write"},
        next : {"", "say", "lookup"}, words : Words \cup {NoWords},
        watching : {"same", "on", "off"}, unrelated : SUBSET Vehicle,
        days : SUBSET TradingDays, read : Nat, made : Nat, row : Row]

\* Going through the days of the index.
Reading == {"day", "mark"}

(* What a worker holds on day t, where `watched` is whether there are words  *)
(* to watch: its list is of this day or the day before.                     *)
Fit(j, t, a, watched) ==
    \/ j = AtRest
    \/ /\ j \in Job /\ Sound(j.row, t, a)
       /\ j.at \in Reading => j.made <= t /\ t <= j.made + 1 /\ \A d \in j.days : d < j.made
       /\ j.at = "mark" => j.days # {}
       /\ j.at = "list" \/ j.at \in Reading => j.next \in {"say", "lookup"}
       /\ j.next = "lookup" => j.at = "list" \/ j.at \in Reading
       /\ j.next = "lookup" \/ j.at \in {"words", "lookup"} => j.words \in Words
       /\ j.at \in {"words", "write looked", "write"} => j.row.words \in Words
       /\ (\/ j.next = "lookup"
           \/ j.at \in {"lookup", "looked", "write looked", "more", "read", "write"})
             => watched

Watched == watch.words \in Words
AllFit == /\ work \in [Worker -> {AtRest} \cup Job]
          /\ \A w \in Worker : Fit(work[w], today, asked, Watched)
IndexFit ==
    /\ today \in Nat /\ today >= 2 * BackfillDays + 2
    /\ days \subseteq TradingDays /\ \A d \in days : d < today
    /\ index \subseteq Published /\ said \subseteq index
    /\ found \subseteq [by : Vehicle, listed : BOOLEAN]
    /\ \A e, f \in found : e.by = f.by => e = f
    /\ unlisted \in BOOLEAN
    /\ works \in Nat /\ works <= MaxWorks /\ losses \in Nat /\ losses <= MaxLosses
AskedFit == asked \in [Words -> Nat] /\ \A x \in Words : asked[x] <= today
WatchFit == Sound(watch, today, asked) /\ (watch = NoWatch \/ Watched)

FundsFit == IndexFit /\ AskedFit /\ WatchFit /\ AllFit

\* Nothing that was asked for is forgotten, and nobody's words are.
OnlyLater ==
    /\ today' \in Nat /\ today <= today'
    /\ asked' \in [Words -> Nat]
    /\ \A x \in Words : asked'[x] <= today' /\ (asked[x] >= 1 => asked'[x] = asked[x])

LEMMA SoundStays ==
    ASSUME NEW row, NEW t \in Nat, NEW a, NEW u \in Nat, NEW b,
           Sound(row, t, a), t <= u, \A x \in Words : a[x] >= 1 => b[x] = a[x]
    PROVE  Sound(row, u, b)
<1>1. row \in Row /\ row.since \in Nat
  BY DEF Sound, Row
<1>2. row.since <= u
  BY <1>1 DEF Sound
<1>3. ASSUME row.watching
      PROVE  /\ row.words \in Words /\ row.since >= 1
             /\ b[row.words] >= 1 /\ b[row.words] <= row.since
  BY <1>3 DEF Sound
<1>4. QED
  BY <1>1, <1>2, <1>3 DEF Sound

LEMMA FitStays ==
    ASSUME NEW j, NEW t \in Nat, NEW a, NEW u \in Nat, NEW b,
           NEW k \in BOOLEAN, NEW l \in BOOLEAN,
           Fit(j, t, a, k), t <= u, \A x \in Words : a[x] >= 1 => b[x] = a[x], k => l,
           j.at \in Reading => u <= j.made + 1
    PROVE  Fit(j, u, b, l)
<1>1. CASE j = AtRest
  BY <1>1 DEF Fit
<1>2. CASE j # AtRest
  <2>1. j \in Job /\ Sound(j.row, t, a)
    BY <1>2 DEF Fit
  <2>2. Sound(j.row, u, b)
    BY <2>1, SoundStays
  <2>3. j.made \in Nat
    BY <2>1 DEF Job
  <2>4. j.at \in Reading => j.made <= u /\ u <= j.made + 1 /\ \A d \in j.days : d < j.made
    <3>1. SUFFICES ASSUME j.at \in Reading
                   PROVE  j.made <= u /\ \A d \in j.days : d < j.made
      OBVIOUS
    <3>2. j.made <= t /\ \A d \in j.days : d < j.made
      BY <1>2, <3>1 DEF Fit
    <3>3. QED
      BY <2>3, <3>2
  <2>5. QED
    BY <1>2, <2>1, <2>2, <2>4 DEF Fit
<1>3. QED
  BY <1>1, <1>2

(* A worker's step leaves the others as they were.                          *)
LEMMA OneWorks ==
    ASSUME FundsFit, NEW w \in Worker, NEW j \in {AtRest} \cup Job,
           work' = [work EXCEPT ![w] = j], today' = today, OnlyLater,
           Watched => Watched', Fit(j, today', asked', Watched')
    PROVE  AllFit'
<1>1. work \in [Worker -> {AtRest} \cup Job]
  BY DEF FundsFit, AllFit
<1>2. work' \in [Worker -> {AtRest} \cup Job]
  BY <1>1
<1>3. ASSUME NEW v \in Worker
      PROVE  Fit(work'[v], today', asked', Watched')
  <2>1. CASE v = w
    BY <1>1, <2>1
  <2>2. CASE v # w
    <3>1. work'[v] = work[v] /\ Fit(work[v], today, asked, Watched)
      BY <1>1, <2>2 DEF FundsFit, AllFit
    <3>2. work[v].at \in Reading => today' <= work[v].made + 1
      <4>1. SUFFICES ASSUME work[v].at \in Reading PROVE today <= work[v].made + 1
        OBVIOUS
      <4>2. work[v] # AtRest
        <5>1. AtRest.at = "rest" /\ "rest" \notin Reading
          BY DEF AtRest, Reading
        <5>2. QED
          BY <4>1, <5>1
      <4>3. QED
        BY <3>1, <4>1, <4>2 DEF Fit
    <3>3. Watched \in BOOLEAN /\ Watched' \in BOOLEAN /\ today \in Nat
      BY DEF Watched, FundsFit, IndexFit
    <3>4. Fit(work[v], today', asked', Watched')
      BY <3>1, <3>2, <3>3, FitStays DEF OnlyLater
    <3>5. QED
      BY <3>1, <3>4
  <2>3. QED
    BY <2>1, <2>2
<1>4. QED
  BY <1>2, <1>3 DEF AllFit

LEMMA AtWork ==
    ASSUME FundsFit, NEW w \in Worker, work[w] # AtRest
    PROVE  work[w] \in Job
  BY DEF FundsFit, AllFit

LEMMA NotAtRest ==
    ASSUME NEW w, work[w].at # "rest"
    PROVE  work[w] # AtRest
<1>1. AtRest.at = "rest"
  BY DEF AtRest
<1>2. QED
  BY <1>1

LEMMA NoWatchSound ==
    ASSUME NEW t \in Nat, NEW a
    PROVE  NoWatch \in Row /\ Sound(NoWatch, t, a)
<1>1. NoWatch \in Row
  BY DEF NoWatch, Row
<1>2. QED
  BY <1>1 DEF Sound, NoWatch

LEMMA SameAsked ==
    ASSUME FundsFit, today' = today, asked' = asked
    PROVE  OnlyLater
  BY DEF FundsFit, IndexFit, AskedFit, OnlyLater

LEMMA SameWatch ==
    ASSUME FundsFit, OnlyLater, watch' = watch
    PROVE  WatchFit' /\ AskedFit' /\ (Watched => Watched')
<1>1. today \in Nat /\ today' \in Nat /\ today <= today' /\ Sound(watch, today, asked)
  BY DEF FundsFit, IndexFit, WatchFit, OnlyLater
<1>2. Sound(watch, today', asked')
  BY <1>1, SoundStays DEF OnlyLater
<1>3. QED
  BY <1>2 DEF FundsFit, WatchFit, Watched, AskedFit, OnlyLater

(* A row worked out from the one there is, with words to watch, is sound.    *)
LEMMA SavedSound ==
    ASSUME FundsFit, NEW words \in Words \cup {NoWords}, words \in Words \/ Watched,
           NEW watching \in {"same", "on", "off"}, NEW unrelated \in SUBSET Vehicle,
           NEW looked \in BOOLEAN, NEW row,
           row = Saved(watch, words, watching, unrelated, looked),
           Asks(row), today' = today
    PROVE  OnlyLater /\ Sound(row, today', asked') /\ row.words \in Words /\ row \in Row
<1> DEFINE to == IF words = NoWords THEN watch.words ELSE words
           on == IF watching = "same" THEN watch.watching ELSE watching = "on"
           since == IF StartsAnew(watch, to, on) THEN today ELSE watch.since
           seen == watch.looked \/ looked
<1>1. /\ today \in Nat /\ today >= 1
      /\ asked \in [Words -> Nat] /\ \A x \in Words : asked[x] <= today
  BY FundsAssumption DEF FundsFit, IndexFit, AskedFit
<1>2. /\ Sound(watch, today, asked) /\ watch \in Row
      /\ watch.watching \in BOOLEAN /\ watch.since \in Nat /\ watch.since <= today
  BY DEF FundsFit, WatchFit, Sound, Row
<1>3. to \in Words /\ on \in BOOLEAN /\ seen \in BOOLEAN
  <2>1. to \in Words
    BY FundsAssumption DEF Watched
  <2>2. on \in BOOLEAN
    BY <1>2
  <2>3. seen \in BOOLEAN
    BY <1>2 DEF Row
  <2>4. QED
    BY <2>1, <2>2, <2>3
<1>4. since \in Nat /\ since <= today
  BY <1>1, <1>2
<1>5. row = [words |-> to, watching |-> on, unrelated |-> unrelated, since |-> since,
             looked |-> seen]
  BY DEF Saved
<1>0. since = IF StartsAnew(watch, to, on) THEN today ELSE watch.since
  OBVIOUS
<1> HIDE DEF to, on, since, seen
<1>6. on => /\ since >= 1
            /\ \/ StartsAnew(watch, to, on) /\ since = today
               \/ asked[to] >= 1 /\ asked[to] <= since
  <2>1. SUFFICES ASSUME on
                 PROVE  /\ since >= 1
                        /\ \/ StartsAnew(watch, to, on) /\ since = today
                           \/ asked[to] >= 1 /\ asked[to] <= since
    BY Zenon
  <2>2. CASE StartsAnew(watch, to, on)
    BY <1>0, <1>1, <2>2
  <2>3. CASE ~StartsAnew(watch, to, on)
    <3>1. watch.watching /\ watch.words = to /\ watch.since # 0
      BY <2>1, <2>3, <1>2 DEF StartsAnew
    <3>2. asked[to] >= 1 /\ asked[to] <= watch.since
      BY <3>1, <1>2 DEF Sound
    <3>3. since = watch.since
      BY <1>0, <2>3
    <3>4. QED
      BY <3>1, <3>2, <3>3, <1>2
  <2>4. QED
    BY <2>2, <2>3
<1>7. row \in Row /\ row.words = to /\ row.watching = on /\ row.since = since
  BY <1>3, <1>4, <1>5 DEF Row
<1>8. asked' = IF on /\ asked[to] = 0 THEN [asked EXCEPT ![to] = today] ELSE asked
  BY <1>7 DEF Asks
<1>9. asked' \in [Words -> Nat]
  BY <1>1, <1>3, <1>8
<1>10. \A x \in Words : asked'[x] <= today /\ (asked[x] >= 1 => asked'[x] = asked[x])
  <2>1. CASE on /\ asked[to] = 0
    BY <1>1, <1>3, <1>8, <2>1
  <2>2. CASE ~(on /\ asked[to] = 0)
    BY <1>1, <1>8, <2>2
  <2>3. QED
    BY <2>1, <2>2
<1>11. on => asked'[to] >= 1 /\ asked'[to] <= since
  <2>0. SUFFICES ASSUME on PROVE asked'[to] >= 1 /\ asked'[to] <= since
    BY Zenon
  <2>1. CASE asked[to] = 0
    <3>1. asked'[to] = today
      BY <1>1, <1>3, <1>8, <2>0, <2>1
    <3>2. since = today
      BY <1>1, <1>6, <2>0, <2>1
    <3>3. QED
      BY <3>1, <3>2, <1>1
  <2>2. CASE asked[to] # 0
    <3>1. asked'[to] = asked[to] /\ asked[to] \in Nat /\ asked[to] <= today
      BY <1>1, <1>3, <1>8, <2>2
    <3>2. asked[to] >= 1
      BY <2>2, <3>1
    <3>3. since = today \/ asked[to] <= since
      BY <1>6, <2>0
    <3>4. QED
      BY <1>1, <1>4, <3>1, <3>2, <3>3
  <2>3. QED
    BY <2>1, <2>2
<1>12. OnlyLater
  BY <1>1, <1>9, <1>10 DEF OnlyLater
<1>13. Sound(row, today', asked')
  BY <1>3, <1>4, <1>6, <1>7, <1>11 DEF Sound
<1>14. QED
  BY <1>3, <1>7, <1>12, <1>13

----------------------------------------------------------------------------
(* Each step keeps the rows and the workers fit.                           *)

LEMMA SyncListFits ==
    ASSUME FundsFit, NEW w \in Worker, SyncList(w)
    PROVE  FundsFit'
<1> DEFINE start == IF days = {} THEN today - (2 * BackfillDays + 1) ELSE MaxOf(days) + 1
           open == {d \in TradingDays : d >= start /\ d < today}
<1>1. PICK down \in SUBSET {Quarter[d] : d \in open} :
        LET there == {d \in open : Quarter[d] \notin down}
        IN /\ losses' = losses + (IF down = {} THEN 0 ELSE 1)
           /\ losses' <= MaxLosses
           /\ unlisted' = (unlisted \/ down # {})
           /\ Does(w, [work[w] EXCEPT !.at = "day", !.made = today,
                       !.days = IF days = {} THEN NewestOf(there) ELSE there])
  BY DEF SyncList
<1> DEFINE there == {d \in open : Quarter[d] \notin down}
           list == IF days = {} THEN NewestOf(there) ELSE there
           j == [work[w] EXCEPT !.at = "day", !.made = today, !.days = list]
<1>2. list \in SUBSET TradingDays /\ \A d \in list : d < today
  BY DEF NewestOf
<1>3. /\ losses' \in Nat /\ losses' <= MaxLosses /\ unlisted' \in BOOLEAN
      /\ work' = [work EXCEPT ![w] = j]
      /\ UNCHANGED <<today, said, works, days, index, found, watch, asked>>
  <2>1. /\ losses' = losses + (IF down = {} THEN 0 ELSE 1) /\ losses' <= MaxLosses
        /\ unlisted' = (unlisted \/ down # {})
        /\ Does(w, j)
    BY <1>1
  <2>2. UNCHANGED <<days, index, found, watch, asked>>
    BY DEF SyncList
  <2>3. losses \in Nat
    BY DEF FundsFit, IndexFit
  <2>4. QED
    BY <2>1, <2>2, <2>3 DEF Does
<1> HIDE DEF list
<1>4. /\ work[w] \in Job /\ work[w] # AtRest /\ work[w].at = "list"
      /\ Fit(work[w], today, asked, Watched)
  <2>1. work[w].at = "list"
    BY DEF SyncList
  <2>2. work[w] # AtRest
    BY <2>1, NotAtRest
  <2>3. QED
    BY <2>1, <2>2, AtWork DEF FundsFit, AllFit
<1>5. today \in Nat
  BY DEF FundsFit, IndexFit
<1>6. /\ j \in Job /\ j.at = "day" /\ j.made = today /\ j.days = list
      /\ j.next = work[w].next /\ j.row = work[w].row /\ j.words = work[w].words
  BY <1>2, <1>4, <1>5 DEF Job
<1> HIDE DEF j
<1>7. Fit(j, today, asked, Watched)
  <2>1. /\ Sound(work[w].row, today, asked) /\ work[w].next \in {"say", "lookup"}
        /\ work[w].next = "lookup" => work[w].words \in Words /\ Watched
    BY <1>4 DEF Fit
  <2>2. QED
    BY <1>2, <1>5, <1>6, <2>1 DEF Fit, Reading
<1>8. OnlyLater /\ WatchFit' /\ AskedFit' /\ (Watched => Watched')
  BY <1>3, SameAsked, SameWatch
<1>9. AllFit'
  <2>1. Fit(j, today', asked', Watched')
    BY <1>3, <1>7 DEF Watched
  <2>2. QED
    BY <1>3, <1>6, <1>8, <2>1, OneWorks
<1>10. IndexFit'
  BY <1>3 DEF FundsFit, IndexFit
<1>11. QED
  BY <1>8, <1>9, <1>10 DEF FundsFit

LEMMA ReadDayFits ==
    ASSUME FundsFit, NEW w \in Worker, ReadDay(w)
    PROVE  FundsFit'
<1> DEFINE j == [work[w] EXCEPT !.at = "mark"]
<1>1. work[w] \in Job /\ Fit(work[w], today, asked, Watched) /\ work[w].at = "day"
  <2>1. work[w].at = "day"
    BY DEF ReadDay
  <2>2. work[w] # AtRest
    BY <2>1, NotAtRest
  <2>3. QED
    BY <2>1, <2>2, AtWork DEF FundsFit, AllFit
<1>2. /\ work' = [work EXCEPT ![w] = j]
      /\ UNCHANGED <<today, said, works, days, found, watch, asked, unlisted, losses>>
  BY DEF ReadDay, Does
<1>4. j \in Job /\ j.at = "mark" /\ j.made = work[w].made /\ j.days = work[w].days
      /\ j.next = work[w].next /\ j.row = work[w].row /\ j.words = work[w].words
  BY <1>1 DEF Job
<1> HIDE DEF j
<1>5. today \in Nat
  BY DEF FundsFit, IndexFit
<1>6. Fit(j, today, asked, Watched)
  <2>1. work[w].days # {}
    BY DEF ReadDay, SyncEnds
  <2>2. /\ Sound(work[w].row, today, asked) /\ work[w].next \in {"say", "lookup"}
        /\ work[w].next = "lookup" => work[w].words \in Words /\ Watched
        /\ work[w].made <= today /\ today <= work[w].made + 1
        /\ \A d \in work[w].days : d < work[w].made
    BY <1>1 DEF Fit, AtRest, Reading
  <2>3. QED
    BY <1>4, <2>1, <2>2 DEF Fit, Reading
<1>7. OnlyLater /\ WatchFit' /\ AskedFit' /\ (Watched => Watched')
  BY <1>2, SameAsked, SameWatch
<1>8. AllFit'
  <2>1. Fit(j, today', asked', Watched')
    BY <1>2, <1>6 DEF Watched
  <2>2. QED
    BY <1>2, <1>4, <1>7, <2>1, OneWorks
<1>9. IndexFit'
  <2>1. index' \subseteq Published /\ index \subseteq index'
    BY DEF ReadDay, FiledOn, FundsFit, IndexFit
  <2>2. QED
    BY <1>2, <2>1 DEF FundsFit, IndexFit
<1>10. QED
  BY <1>7, <1>8, <1>9 DEF FundsFit

LEMMA MarkDayFits ==
    ASSUME FundsFit, NEW w \in Worker, MarkDay(w)
    PROVE  FundsFit'
<1> DEFINE FirstDay == FirstOf(work[w].days)
           more == work[w].read + 1
           left == work[w].days \ {FirstDay}
           j == [work[w] EXCEPT !.at = "day", !.read = more, !.days = left]
<1>1. work[w] \in Job /\ Fit(work[w], today, asked, Watched) /\ work[w].at = "mark"
  <2>1. work[w].at = "mark"
    BY DEF MarkDay
  <2>2. work[w] # AtRest
    BY <2>1, NotAtRest
  <2>3. QED
    BY <2>1, <2>2, AtWork DEF FundsFit, AllFit
<1>2. /\ work' = [work EXCEPT ![w] = j]
      /\ UNCHANGED <<today, said, works, index, found, watch, asked, unlisted, losses>>
  BY DEF MarkDay, Does
<1>3. more \in Nat /\ left \in SUBSET TradingDays /\ left \subseteq work[w].days
  <2>1. work[w].read \in Nat /\ work[w].days \in SUBSET TradingDays
    BY <1>1 DEF Job
  <2>2. QED
    BY <2>1
<1> HIDE DEF more, left, FirstDay
<1>4. j \in Job /\ j.at = "day" /\ j.made = work[w].made /\ j.days = left
      /\ j.next = work[w].next /\ j.row = work[w].row /\ j.words = work[w].words
  BY <1>1, <1>3 DEF Job
<1> HIDE DEF j
<1>5. today \in Nat
  BY DEF FundsFit, IndexFit
<1>6. Fit(j, today, asked, Watched)
  <2>1. /\ Sound(work[w].row, today, asked) /\ work[w].next \in {"say", "lookup"}
        /\ work[w].next = "lookup" => work[w].words \in Words /\ Watched
        /\ work[w].made <= today /\ today <= work[w].made + 1
        /\ \A d \in work[w].days : d < work[w].made
    BY <1>1 DEF Fit, AtRest, Reading
  <2>2. QED
    BY <1>3, <1>4, <2>1 DEF Fit, Reading
<1>7. OnlyLater /\ WatchFit' /\ AskedFit' /\ (Watched => Watched')
  BY <1>2, SameAsked, SameWatch
<1>8. AllFit'
  <2>1. Fit(j, today', asked', Watched')
    BY <1>2, <1>6 DEF Watched
  <2>2. QED
    BY <1>2, <1>4, <1>7, <2>1, OneWorks
<1>9. IndexFit'
  <2>1. FirstDay \in TradingDays /\ FirstDay < today
    <3>1. work[w].days # {} /\ work[w].days \subseteq TradingDays
      <4>1. work[w].days \subseteq TradingDays
        BY <1>1 DEF Job
      <4>2. work[w].days # {}
        BY <1>1 DEF Fit, AtRest
      <4>3. QED
        BY <4>1, <4>2
    <3>2. FirstDay \in work[w].days
      BY <3>1, LeastDay, DaysOfTheYear DEF FirstDay
    <3>3. FirstDay < work[w].made /\ work[w].made <= today
      BY <1>1, <3>2 DEF Fit, AtRest, Reading
    <3>4. FirstDay \in Nat /\ work[w].made \in Nat
      BY <1>1, <3>1, <3>2, DaysOfTheYear DEF Job
    <3>5. QED
      BY <1>5, <3>1, <3>2, <3>3, <3>4
  <2>2. days' = days \cup {FirstDay}
    BY DEF MarkDay, FirstDay
  <2>3. QED
    BY <1>2, <2>1, <2>2 DEF FundsFit, IndexFit
<1>10. QED
  BY <1>7, <1>8, <1>9 DEF FundsFit

LEMMA DayUnreadableFits ==
    ASSUME FundsFit, NEW w \in Worker, DayUnreadable(w)
    PROVE  FundsFit'
<1> DEFINE j == [work[w] EXCEPT !.days = {}]
<1>1. work[w] \in Job /\ Fit(work[w], today, asked, Watched) /\ work[w].at = "day"
  <2>1. work[w].at = "day"
    BY DEF DayUnreadable
  <2>2. work[w] # AtRest
    BY <2>1, NotAtRest
  <2>3. QED
    BY <2>1, <2>2, AtWork DEF FundsFit, AllFit
<1>2. /\ work' = [work EXCEPT ![w] = j]
      /\ UNCHANGED <<today, said, works, days, index, found, watch, asked, unlisted>>
  BY DEF DayUnreadable, Does, StopThere
<1>4. j \in Job /\ j.at = "day" /\ j.made = work[w].made /\ j.days = {}
      /\ j.next = work[w].next /\ j.row = work[w].row /\ j.words = work[w].words
  BY <1>1 DEF Job
<1> HIDE DEF j
<1>5. today \in Nat
  BY DEF FundsFit, IndexFit
<1>6. Fit(j, today, asked, Watched)
  <2>1. /\ Sound(work[w].row, today, asked) /\ work[w].next \in {"say", "lookup"}
        /\ work[w].next = "lookup" => work[w].words \in Words /\ Watched
        /\ work[w].made <= today /\ today <= work[w].made + 1
    BY <1>1 DEF Fit, AtRest, Reading
  <2>2. QED
    BY <1>4, <2>1 DEF Fit, Reading
<1>7. OnlyLater /\ WatchFit' /\ AskedFit' /\ (Watched => Watched')
  BY <1>2, SameAsked, SameWatch
<1>8. AllFit'
  <2>1. Fit(j, today', asked', Watched')
    BY <1>2, <1>6 DEF Watched
  <2>2. QED
    BY <1>2, <1>4, <1>7, <2>1, OneWorks
<1>9. IndexFit'
  <2>1. losses' \in Nat /\ losses' <= MaxLosses
    BY FundsAssumption DEF DayUnreadable, FundsFit, IndexFit
  <2>2. QED
    BY <1>2, <2>1 DEF FundsFit, IndexFit
<1>10. QED
  BY <1>7, <1>8, <1>9 DEF FundsFit

LEMMA SyncDoneFits ==
    ASSUME FundsFit, NEW w \in Worker, SyncDone(w)
    PROVE  FundsFit'
<1> DEFINE j == [work[w] EXCEPT !.at = work[w].next, !.next = "", !.days = {}, !.read = 0,
                                 !.made = 0]
<1>1. work[w] \in Job /\ Fit(work[w], today, asked, Watched) /\ work[w].at = "day"
  <2>1. work[w].at = "day"
    BY DEF SyncDone
  <2>2. work[w] # AtRest
    BY <2>1, NotAtRest
  <2>3. QED
    BY <2>1, <2>2, AtWork DEF FundsFit, AllFit
<1>2. /\ work' = [work EXCEPT ![w] = j]
      /\ UNCHANGED <<today, said, works, days, index, found, watch, asked, unlisted, losses>>
  BY DEF SyncDone, Does
<1>3. work[w].next \in {"say", "lookup"}
  BY <1>1 DEF Fit, AtRest, Reading
<1>4. j \in Job /\ j.at = work[w].next /\ j.next = ""
      /\ j.row = work[w].row /\ j.words = work[w].words
  BY <1>1, <1>3 DEF Job
<1> HIDE DEF j
<1>5. today \in Nat
  BY DEF FundsFit, IndexFit
<1>6. Fit(j, today, asked, Watched)
  <2>1. /\ Sound(work[w].row, today, asked)
        /\ work[w].next = "lookup" => work[w].words \in Words /\ Watched
    BY <1>1 DEF Fit, AtRest, Reading
  <2>2. QED
    BY <1>3, <1>4, <2>1 DEF Fit, Reading
<1>7. OnlyLater /\ WatchFit' /\ AskedFit' /\ (Watched => Watched')
  BY <1>2, SameAsked, SameWatch
<1>8. AllFit'
  <2>1. Fit(j, today', asked', Watched')
    BY <1>2, <1>6 DEF Watched
  <2>2. QED
    BY <1>2, <1>4, <1>7, <2>1, OneWorks
<1>9. IndexFit'
  BY <1>2 DEF FundsFit, IndexFit
<1>10. QED
  BY <1>7, <1>8, <1>9 DEF FundsFit

LEMMA LookupFits ==
    ASSUME FundsFit, NEW w \in Worker, Lookup(w)
    PROVE  FundsFit'
<1> DEFINE j == [work[w] EXCEPT !.at = "looked"]
<1>1. work[w] \in Job /\ Fit(work[w], today, asked, Watched) /\ work[w].at = "lookup"
  <2>1. work[w].at = "lookup"
    BY DEF Lookup
  <2>2. work[w] # AtRest
    BY <2>1, NotAtRest
  <2>3. QED
    BY <2>1, <2>2, AtWork DEF FundsFit, AllFit
<1>2. /\ work' = [work EXCEPT ![w] = j]
      /\ UNCHANGED <<today, said, works, days, index, watch, asked, unlisted, losses>>
  BY DEF Lookup, Does
<1>4. j \in Job /\ j.at = "looked" /\ j.next = work[w].next /\ j.row = work[w].row
      /\ j.words = work[w].words
  BY <1>1 DEF Job
<1> HIDE DEF j
<1>5. today \in Nat
  BY DEF FundsFit, IndexFit
<1>6. Fit(j, today, asked, Watched)
  <2>1. /\ Sound(work[w].row, today, asked) /\ work[w].words \in Words /\ Watched
        /\ work[w].next # "lookup"
    BY <1>1 DEF Fit, AtRest, Reading
  <2>2. QED
    BY <1>4, <2>1 DEF Fit, Reading
<1>7. OnlyLater /\ WatchFit' /\ AskedFit' /\ (Watched => Watched')
  BY <1>2, SameAsked, SameWatch
<1>8. AllFit'
  <2>1. Fit(j, today', asked', Watched')
    BY <1>2, <1>6 DEF Watched
  <2>2. QED
    BY <1>2, <1>4, <1>7, <2>1, OneWorks
<1>9. IndexFit'
  <2>1. work[w].words \in Words /\ Named[work[w].words] \subseteq Vehicle
    BY <1>1, FundsAssumption DEF Fit, AtRest
  <2>2. found' = found \cup {[by |-> v, listed |-> FALSE] :
                    v \in {u \in Named[work[w].words] : \A e \in found : e.by # u}}
    BY DEF Lookup
  <2> DEFINE New == {u \in Named[work[w].words] : \A e \in found : e.by # u}
  <2>3. ASSUME NEW e \in found'
        PROVE  e \in found \/ \E v \in New : e = [by |-> v, listed |-> FALSE]
    BY <2>2
  <2>4. found' \subseteq [by : Vehicle, listed : BOOLEAN]
    <3>1. SUFFICES ASSUME NEW e \in found' PROVE e \in [by : Vehicle, listed : BOOLEAN]
      OBVIOUS
    <3>2. found \subseteq [by : Vehicle, listed : BOOLEAN]
      BY DEF FundsFit, IndexFit
    <3>3. CASE e \notin found
      <4>1. PICK v \in New : e = [by |-> v, listed |-> FALSE]
        BY <2>3, <3>3
      <4>2. v \in Vehicle
        BY <2>1
      <4>3. QED
        BY <4>1, <4>2
    <3>4. QED
      BY <3>2, <3>3
  <2>5. ASSUME NEW e \in found', NEW f \in found', e.by = f.by
        PROVE  e = f
    <3>1. \A g, h \in found : g.by = h.by => g = h
      BY DEF FundsFit, IndexFit
    <3>2. \A v \in New : \A g \in found : g.by # v
      OBVIOUS
    <3> HIDE DEF New
    <3>3. CASE e \in found /\ f \in found
      BY <2>5, <3>1, <3>3
    <3>4. CASE e \in found /\ f \notin found
      <4>1. PICK v \in New : f = [by |-> v, listed |-> FALSE]
        BY <2>3, <3>4
      <4>2. f.by = v
        BY <4>1
      <4>3. QED
        BY <2>5, <3>2, <3>4, <4>2
    <3>5. CASE e \notin found /\ f \in found
      <4>1. PICK v \in New : e = [by |-> v, listed |-> FALSE]
        BY <2>3, <3>5
      <4>2. e.by = v
        BY <4>1
      <4>3. QED
        BY <2>5, <3>2, <3>5, <4>2
    <3>6. CASE e \notin found /\ f \notin found
      <4>1. PICK v \in New : e = [by |-> v, listed |-> FALSE]
        BY <2>3, <3>6
      <4>2. PICK u \in New : f = [by |-> u, listed |-> FALSE]
        BY <2>3, <3>6
      <4>3. QED
        BY <2>5, <4>1, <4>2
    <3>7. QED
      BY <3>3, <3>4, <3>5, <3>6
  <2>6. QED
    BY <1>2, <2>4, <2>5 DEF FundsFit, IndexFit
<1>10. QED
  BY <1>7, <1>8, <1>9 DEF FundsFit

LEMMA ListFundFits ==
    ASSUME FundsFit, NEW w \in Worker, ListFund(w)
    PROVE  FundsFit'
<1> DEFINE more == work[w].read + 1
           j == [work[w] EXCEPT !.read = more]
<1>1. work[w] \in Job /\ Fit(work[w], today, asked, Watched) /\ work[w].at = "more"
  <2>1. work[w].at = "more"
    BY DEF ListFund
  <2>2. work[w] # AtRest
    BY <2>1, NotAtRest
  <2>3. QED
    BY <2>1, <2>2, AtWork DEF FundsFit, AllFit
<1>2. /\ work' = [work EXCEPT ![w] = j]
      /\ UNCHANGED <<today, said, works, days, watch, asked, unlisted, losses>>
  BY DEF ListFund, Does
<1>3. more \in Nat
  <2>1. work[w].read \in Nat
    BY <1>1 DEF Job
  <2>2. QED
    BY <2>1
<1> HIDE DEF more
<1>4. j \in Job /\ j.at = "more" /\ j.next = work[w].next /\ j.row = work[w].row
      /\ j.words = work[w].words
  BY <1>1, <1>3 DEF Job
<1> HIDE DEF j
<1>5. today \in Nat
  BY DEF FundsFit, IndexFit
<1>6. Fit(j, today, asked, Watched)
  <2>1. Sound(work[w].row, today, asked) /\ Watched
        /\ work[w].next # "lookup"
    BY <1>1 DEF Fit, AtRest, Reading
  <2>2. QED
    BY <1>4, <2>1 DEF Fit, Reading
<1>7. OnlyLater /\ WatchFit' /\ AskedFit' /\ (Watched => Watched')
  BY <1>2, SameAsked, SameWatch
<1>8. AllFit'
  <2>1. Fit(j, today', asked', Watched')
    BY <1>2, <1>6 DEF Watched
  <2>2. QED
    BY <1>2, <1>4, <1>7, <2>1, OneWorks
<1>9. IndexFit'
  <2>1. PICK e \in Waiting :
          /\ index' = index \cup {f \in Published : f.by = e.by /\ f.day <= today}
          /\ found' = (found \ {e}) \cup {[e EXCEPT !.listed = TRUE]}
    BY DEF ListFund
  <2>2. e \in found /\ e \in [by : Vehicle, listed : BOOLEAN]
    BY DEF Waiting, FundsFit, IndexFit
  <2>3. [e EXCEPT !.listed = TRUE] \in [by : Vehicle, listed : BOOLEAN]
        /\ [e EXCEPT !.listed = TRUE].by = e.by
    BY <2>2
  <2>4. found' \subseteq [by : Vehicle, listed : BOOLEAN]
    BY <2>1, <2>3 DEF FundsFit, IndexFit
  <2>5. \A g, f \in found' : g.by = f.by => g = f
    <3>1. \A g, h \in found : g.by = h.by => g = h
      BY DEF FundsFit, IndexFit
    <3> DEFINE read == [e EXCEPT !.listed = TRUE]
    <3>2. read.by = e.by /\ found' = (found \ {e}) \cup {read}
      BY <2>1, <2>3
    <3> HIDE DEF read
    <3>3. QED
      BY <2>2, <3>1, <3>2
  <2>6. index' \subseteq Published /\ index \subseteq index'
    BY <2>1 DEF FundsFit, IndexFit
  <2>7. QED
    BY <1>2, <2>4, <2>5, <2>6 DEF FundsFit, IndexFit
<1>10. QED
  BY <1>7, <1>8, <1>9 DEF FundsFit

LEMMA MoreDoneFits ==
    ASSUME FundsFit, NEW w \in Worker, MoreDone(w)
    PROVE  FundsFit'
<1> DEFINE j == [work[w] EXCEPT !.at = "read", !.read = 0]
<1>1. work[w] \in Job /\ Fit(work[w], today, asked, Watched) /\ work[w].at = "more"
  <2>1. work[w].at = "more"
    BY DEF MoreDone
  <2>2. work[w] # AtRest
    BY <2>1, NotAtRest
  <2>3. QED
    BY <2>1, <2>2, AtWork DEF FundsFit, AllFit
<1>2. /\ work' = [work EXCEPT ![w] = j]
      /\ UNCHANGED <<today, said, works, days, index, found, watch, asked, unlisted, losses>>
  BY DEF MoreDone, Does
<1>4. j \in Job /\ j.at = "read" /\ j.next = work[w].next /\ j.row = work[w].row
      /\ j.words = work[w].words
  BY <1>1 DEF Job
<1> HIDE DEF j
<1>5. today \in Nat
  BY DEF FundsFit, IndexFit
<1>6. Fit(j, today, asked, Watched)
  <2>1. Sound(work[w].row, today, asked) /\ Watched
        /\ work[w].next # "lookup"
    BY <1>1 DEF Fit, AtRest, Reading
  <2>2. QED
    BY <1>4, <2>1 DEF Fit, Reading
<1>7. OnlyLater /\ WatchFit' /\ AskedFit' /\ (Watched => Watched')
  BY <1>2, SameAsked, SameWatch
<1>8. AllFit'
  <2>1. Fit(j, today', asked', Watched')
    BY <1>2, <1>6 DEF Watched
  <2>2. QED
    BY <1>2, <1>4, <1>7, <2>1, OneWorks
<1>9. IndexFit'
  BY <1>2 DEF FundsFit, IndexFit
<1>10. QED
  BY <1>7, <1>8, <1>9 DEF FundsFit

LEMMA NightlyFits ==
    ASSUME FundsFit, NEW w \in Worker, Nightly(w)
    PROVE  FundsFit'
<1> DEFINE j == Doing("list", "say", NoWords, "same", {})
<1>1. /\ works < MaxWorks /\ works' = works + 1 /\ work' = [work EXCEPT ![w] = j]
      /\ UNCHANGED <<today, days, index, found, watch, said, asked, unlisted, losses>>
  BY DEF Nightly
<1>2. today \in Nat
  BY DEF FundsFit, IndexFit
<1>3. NoWatch \in Row /\ Sound(NoWatch, today, asked)
  BY <1>2, NoWatchSound
<1>4. j \in Job /\ j.at = "list" /\ j.next = "say" /\ j.row = NoWatch
  BY <1>3 DEF Doing, Job
<1> HIDE DEF j
<1>5. Fit(j, today, asked, Watched)
  BY <1>3, <1>4 DEF Fit, Reading
<1>6. OnlyLater /\ WatchFit' /\ AskedFit' /\ (Watched => Watched')
  BY <1>1, SameAsked, SameWatch
<1>7. AllFit'
  <2>1. Fit(j, today', asked', Watched')
    BY <1>1, <1>5 DEF Watched
  <2>2. QED
    BY <1>1, <1>4, <1>6, <2>1, OneWorks
<1>8. IndexFit'
  BY <1>1, FundsAssumption DEF FundsFit, IndexFit
<1>9. QED
  BY <1>6, <1>7, <1>8 DEF FundsFit

LEMMA RequestFits ==
    ASSUME FundsFit, NEW w \in Worker, Request(w)
    PROVE  FundsFit'
<1>1. /\ works < MaxWorks /\ works' = works + 1 /\ watch # NoWatch
      /\ UNCHANGED <<today, days, index, found, watch, said, asked, unlisted, losses>>
  BY DEF Request
<1>2. today \in Nat /\ Watched /\ watch \in Row /\ watch.unrelated \in SUBSET Vehicle
  BY <1>1 DEF FundsFit, IndexFit, WatchFit, Sound, Row
<1>3. NoWatch \in Row /\ Sound(NoWatch, today, asked)
  BY <1>2, NoWatchSound
<1>4. \E at \in {"more", "read"}, given \in {"same", "on", "off"}, out \in SUBSET Vehicle :
          work' = [work EXCEPT ![w] = Doing(at, "", NoWords, given, out)]
  <2>1. CASE work' = [work EXCEPT ![w] = Doing("more", "", NoWords, "same", watch.unrelated)]
    BY <1>2, <2>1
  <2>2. CASE \E given \in {"on", "off"} :
               work' = [work EXCEPT ![w] = Doing("read", "", NoWords, given, watch.unrelated)]
    BY <1>2, <2>2
  <2>3. CASE \E v \in Named[watch.words], ruledOut \in BOOLEAN :
               work' = [work EXCEPT ![w] =
                   Doing("read", "", NoWords, "same",
                         IF ruledOut THEN watch.unrelated \cup {v}
                         ELSE watch.unrelated \ {v})]
    <3>1. PICK v \in Named[watch.words], ruledOut \in BOOLEAN :
               work' = [work EXCEPT ![w] =
                   Doing("read", "", NoWords, "same",
                         IF ruledOut THEN watch.unrelated \cup {v}
                         ELSE watch.unrelated \ {v})]
      BY <2>3
    <3> DEFINE out == IF ruledOut THEN watch.unrelated \cup {v} ELSE watch.unrelated \ {v}
    <3>2. v \in Vehicle
      BY <1>2, FundsAssumption DEF Watched
    <3>3. out \in SUBSET Vehicle
      BY <1>2, <3>2
    <3> HIDE DEF out
    <3>4. work' = [work EXCEPT ![w] = Doing("read", "", NoWords, "same", out)]
      BY <3>1 DEF out
    <3>5. QED
      BY <3>3, <3>4
  <2>4. QED
    BY <2>1, <2>2, <2>3 DEF Request
<1>5. PICK at \in {"more", "read"}, given \in {"same", "on", "off"}, out \in SUBSET Vehicle :
          work' = [work EXCEPT ![w] = Doing(at, "", NoWords, given, out)]
  BY <1>4
<1> DEFINE j == Doing(at, "", NoWords, given, out)
<1>6. j \in Job /\ j.at \in {"more", "read"} /\ j.next = "" /\ j.row = NoWatch
  BY <1>3 DEF Doing, Job
<1> HIDE DEF j
<1>7. Fit(j, today, asked, Watched)
  BY <1>2, <1>3, <1>6 DEF Fit, Reading
<1>8. OnlyLater /\ WatchFit' /\ AskedFit' /\ (Watched => Watched')
  BY <1>1, SameAsked, SameWatch
<1>9. AllFit'
  <2>1. Fit(j, today', asked', Watched')
    BY <1>1, <1>7 DEF Watched
  <2>2. work' = [work EXCEPT ![w] = j]
    BY <1>5 DEF j
  <2>3. QED
    BY <1>1, <1>6, <1>8, <2>1, <2>2, OneWorks
<1>10. IndexFit'
  BY <1>1, FundsAssumption DEF FundsFit, IndexFit
<1>11. QED
  BY <1>8, <1>9, <1>10 DEF FundsFit

LEMMA LookFits ==
    ASSUME FundsFit, NEW w \in Worker, Look(w)
    PROVE  FundsFit'
<1>1. PICK words \in Words :
        LET row == Saved(watch, words, "same", watch.unrelated, FALSE)
        IN /\ work' = [work EXCEPT ![w] =
                 [Doing("words", "", words, "same", {}) EXCEPT !.row = row]]
           /\ Asks(row)
  BY DEF Look
<1> DEFINE row == Saved(watch, words, "same", watch.unrelated, FALSE)
           idle == Doing("words", "", words, "same", {})
           j == [idle EXCEPT !.row = row]
<1>2. /\ works < MaxWorks /\ works' = works + 1
      /\ work' = [work EXCEPT ![w] = j] /\ Asks(row)
      /\ UNCHANGED <<today, days, index, found, watch, said, unlisted, losses>>
  BY <1>1 DEF Look
<1>3. today \in Nat /\ watch.unrelated \in SUBSET Vehicle
  BY DEF FundsFit, IndexFit, WatchFit, Sound, Row
<1> HIDE DEF row
<1>4. OnlyLater /\ Sound(row, today', asked') /\ row.words \in Words /\ row \in Row
  <2>1. row = Saved(watch, words, "same", watch.unrelated, FALSE)
    BY DEF row
  <2>2. QED
    BY <1>2, <1>3, <2>1, SavedSound
<1>5. NoWatch \in Row
  BY <1>3, NoWatchSound
<1>6. idle \in Job /\ idle.at = "words" /\ idle.next = "" /\ idle.words = words
  BY <1>5 DEF Doing, Job
<1> HIDE DEF idle
<1>7. j \in Job /\ j.at = "words" /\ j.next = "" /\ j.row = row /\ j.words \in Words
  BY <1>4, <1>6 DEF Job
<1> HIDE DEF j
<1>8. Fit(j, today', asked', Watched')
  BY <1>4, <1>7 DEF Fit, Reading
<1>9. WatchFit' /\ AskedFit' /\ (Watched => Watched')
  BY <1>2, <1>4, SameWatch
<1>10. AllFit'
  BY <1>2, <1>4, <1>7, <1>8, <1>9, OneWorks
<1>11. IndexFit'
  BY <1>2, FundsAssumption DEF FundsFit, IndexFit
<1>12. QED
  BY <1>9, <1>10, <1>11 DEF FundsFit

(* The row is read and the one to write is held.                            *)
LEMMA ReadRowFits ==
    ASSUME FundsFit, NEW w \in Worker, NEW at \in {"write looked", "write"},
           NEW watching \in {"same", "on", "off"}, NEW unrelated \in SUBSET Vehicle,
           NEW looked \in BOOLEAN, NEW row,
           row = Saved(watch, NoWords, watching, unrelated, looked),
           work[w].at \in {"looked", "read"}, ReadRow(w, at, row),
           UNCHANGED <<index, days, found, watch, unlisted, losses>>
    PROVE  FundsFit'
<1> DEFINE j == [work[w] EXCEPT !.at = at, !.row = row]
<1>1. work[w] \in Job /\ Fit(work[w], today, asked, Watched) /\ work[w] # AtRest
  <2>1. work[w] # AtRest
    BY NotAtRest
  <2>2. QED
    BY <2>1, AtWork DEF FundsFit, AllFit
<1>2. /\ work' = [work EXCEPT ![w] = j] /\ Asks(row)
      /\ UNCHANGED <<today, said, works>>
  BY DEF ReadRow, Does
<1>3. Watched /\ work[w].next # "lookup"
  BY <1>1 DEF Fit, Reading
<1>4. OnlyLater /\ Sound(row, today', asked') /\ row.words \in Words /\ row \in Row
  BY <1>2, <1>3, SavedSound
<1>5. /\ j \in Job /\ j.at = at /\ j.next = work[w].next /\ j.row = row
      /\ j.words = work[w].words
  BY <1>1, <1>4 DEF Job
<1> HIDE DEF j
<1>6. WatchFit' /\ AskedFit' /\ Watched'
  BY <1>3, <1>4, SameWatch
<1>7. Fit(j, today', asked', Watched')
  BY <1>3, <1>4, <1>5, <1>6 DEF Fit, Reading
<1>8. AllFit'
  BY <1>2, <1>4, <1>5, <1>6, <1>7, OneWorks
<1>9. IndexFit'
  BY <1>2 DEF FundsFit, IndexFit
<1>10. QED
  BY <1>6, <1>8, <1>9 DEF FundsFit

LEMMA ReadLookedFits ==
    ASSUME FundsFit, NEW w \in Worker, ReadLooked(w)
    PROVE  FundsFit'
<1>1. watch.unrelated \in SUBSET Vehicle
  BY DEF FundsFit, WatchFit, Sound, Row
<1>2. QED
  BY <1>1, ReadRowFits DEF ReadLooked

LEMMA ReadLastFits ==
    ASSUME FundsFit, NEW w \in Worker, ReadLast(w)
    PROVE  FundsFit'
<1>1. work[w].at = "read" /\ work[w] \in Job
  <2>1. work[w].at = "read"
    BY DEF ReadLast
  <2>2. QED
    BY <2>1, NotAtRest, AtWork
<1>2. work[w].watching \in {"same", "on", "off"} /\ work[w].unrelated \in SUBSET Vehicle
  BY <1>1 DEF Job
<1>3. QED
  BY <1>1, <1>2, ReadRowFits DEF ReadLast

(* The row held is written.                                                 *)
LEMMA WriteFits ==
    ASSUME FundsFit, NEW w \in Worker, NEW j \in {AtRest} \cup Job,
           work[w].at \in {"words", "write looked", "write"}, Write(work[w].row), Does(w, j),
           UNCHANGED <<days, index, found, unlisted, losses>>,
           \/ j = AtRest
           \/ /\ j.row = NoWatch /\ j.at \in {"list", "read"}
              /\ j.at = "list" => j.next = "lookup" /\ work[w].at = "words"
              /\ j.next = "lookup" => j.at = "list" /\ j.words \in Words
    PROVE  FundsFit'
<1>1. work[w] \in Job /\ Fit(work[w], today, asked, Watched) /\ work[w] # AtRest
  <2>1. work[w] # AtRest
    BY NotAtRest
  <2>2. QED
    BY <2>1, AtWork DEF FundsFit, AllFit
<1>2. Sound(work[w].row, today, asked) /\ work[w].row.words \in Words
  BY <1>1 DEF Fit
<1>3. /\ watch' = work[w].row /\ work' = [work EXCEPT ![w] = j]
      /\ UNCHANGED <<asked, today, said, works>>
  BY DEF Write, Does
<1>4. OnlyLater /\ AskedFit' /\ today \in Nat
  BY <1>3, SameAsked DEF FundsFit, AskedFit, IndexFit
<1>5. WatchFit' /\ Watched'
  BY <1>2, <1>3 DEF WatchFit, Watched
<1>6. Fit(j, today', asked', Watched')
  <2>1. Sound(NoWatch, today, asked)
    BY <1>4, NoWatchSound
  <2>2. CASE j = AtRest
    BY <2>2 DEF Fit
  <2>3. CASE j # AtRest
    <3>1. /\ j \in Job /\ j.row = NoWatch /\ j.at \in {"list", "read"}
          /\ j.at = "list" => j.next = "lookup"
          /\ j.next = "lookup" => j.at = "list" /\ j.words \in Words
      BY <2>3
    <3>2. QED
      BY <1>3, <1>5, <2>1, <3>1 DEF Fit, Reading
  <2>4. QED
    BY <2>2, <2>3
<1>7. AllFit'
  BY <1>3, <1>4, <1>5, <1>6, OneWorks
<1>8. IndexFit'
  BY <1>3 DEF FundsFit, IndexFit
<1>9. QED
  BY <1>4, <1>5, <1>7, <1>8 DEF FundsFit

LEMMA WriteWordsFits ==
    ASSUME FundsFit, NEW w \in Worker, WriteWords(w)
    PROVE  FundsFit'
<1> DEFINE j == [work[w] EXCEPT !.at = "list", !.next = "lookup", !.row = NoWatch]
<1>1. work[w].at = "words" /\ work[w] \in Job /\ work[w].words \in Words
  <2>1. work[w].at = "words"
    BY DEF WriteWords
  <2>2. QED
    <3>1. work[w] # AtRest
      BY <2>1, NotAtRest
    <3>2. work[w] \in Job /\ Fit(work[w], today, asked, Watched)
      BY <3>1, AtWork DEF FundsFit, AllFit
    <3>3. QED
      BY <2>1, <3>1, <3>2 DEF Fit
<1>2. NoWatch \in Row
  BY NoWatchSound DEF FundsFit, IndexFit
<1>3. /\ j \in Job /\ j.row = NoWatch /\ j.at = "list" /\ j.next = "lookup"
      /\ j.words = work[w].words
  BY <1>1, <1>2 DEF Job
<1>4. Does(w, j)
  BY DEF WriteWords
<1> HIDE DEF j
<1>5. QED
  BY <1>1, <1>3, <1>4, WriteFits DEF WriteWords

LEMMA WriteLookedFits ==
    ASSUME FundsFit, NEW w \in Worker, WriteLooked(w)
    PROVE  FundsFit'
<1> DEFINE out == work[w].row.unrelated
           j == [work[w] EXCEPT !.at = "read", !.row = NoWatch, !.words = NoWords,
                                !.unrelated = out]
<1>1. work[w].at = "write looked" /\ work[w] \in Job
  <2>1. work[w].at = "write looked"
    BY DEF WriteLooked
  <2>2. QED
    BY <2>1, NotAtRest, AtWork
<1>2. NoWatch \in Row
  BY NoWatchSound DEF FundsFit, IndexFit
<1>3. out \in SUBSET Vehicle
  BY <1>1 DEF Job, Row
<1>4. Does(w, j)
  BY DEF WriteLooked
<1> HIDE DEF out
<1>5. j \in Job /\ j.row = NoWatch /\ j.at = "read" /\ j.next = work[w].next
  BY <1>1, <1>2, <1>3 DEF Job
<1> HIDE DEF j
<1>6. work[w].next # "lookup"
  <2>1. Fit(work[w], today, asked, Watched) /\ work[w] # AtRest
    BY <1>1, NotAtRest DEF FundsFit, AllFit
  <2>2. QED
    BY <1>1, <2>1 DEF Fit, Reading
<1>7. QED
  BY <1>1, <1>4, <1>5, <1>6, WriteFits DEF WriteLooked

LEMMA WriteLastFits ==
    ASSUME FundsFit, NEW w \in Worker, WriteLast(w)
    PROVE  FundsFit'
  BY WriteFits DEF WriteLast

LEMMA LostFits ==
    ASSUME FundsFit, NEW w \in Worker, Lost(w)
    PROVE  FundsFit'
<1>1. /\ work' = [work EXCEPT ![w] = AtRest] /\ losses < MaxLosses /\ losses' = losses + 1
      /\ UNCHANGED <<today, said, works, days, index, found, watch, asked, unlisted>>
  BY DEF Lost, Does
<1>2. OnlyLater /\ WatchFit' /\ AskedFit' /\ (Watched => Watched')
  BY <1>1, SameAsked, SameWatch
<1>3. AllFit'
  <2>1. Fit(AtRest, today', asked', Watched')
    BY DEF Fit
  <2>2. QED
    BY <1>1, <1>2, <2>1, OneWorks
<1>4. IndexFit'
  BY <1>1, FundsAssumption DEF FundsFit, IndexFit
<1>5. QED
  BY <1>2, <1>3, <1>4 DEF FundsFit

LEMMA SayFits ==
    ASSUME FundsFit, NEW w \in Worker, Say(w)
    PROVE  FundsFit'
<1>1. /\ work' = [work EXCEPT ![w] = AtRest] /\ said' = said \cup AlertItems(watch)
      /\ UNCHANGED <<today, works, losses, days, index, found, watch, asked, unlisted>>
  BY DEF Say
<1>2. OnlyLater /\ WatchFit' /\ AskedFit' /\ (Watched => Watched')
  BY <1>1, SameAsked, SameWatch
<1>3. AllFit'
  <2>1. Fit(AtRest, today', asked', Watched')
    BY DEF Fit
  <2>2. QED
    BY <1>1, <1>2, <2>1, OneWorks
<1>4. IndexFit'
  BY <1>1 DEF FundsFit, IndexFit, AlertItems
<1>5. QED
  BY <1>2, <1>3, <1>4 DEF FundsFit

LEMMA EveningFits ==
    ASSUME FundsFit, Evening
    PROVE  FundsFit'
<1>1. /\ today' = today + 1
      /\ \A w \in Worker : work[w].at \in Reading => work[w].made = today
      /\ UNCHANGED <<days, index, found, watch, said, work, asked, unlisted, works, losses>>
  BY DEF Evening, Reading
<1>2. today \in Nat /\ today' \in Nat /\ today <= today'
  BY <1>1 DEF FundsFit, IndexFit
<1>3. OnlyLater
  <2>1. asked \in [Words -> Nat] /\ \A x \in Words : asked[x] <= today
    BY DEF FundsFit, AskedFit
  <2>2. \A x \in Words : asked'[x] <= today' /\ (asked[x] >= 1 => asked'[x] = asked[x])
    BY <1>1, <1>2, <2>1
  <2>3. QED
    BY <1>1, <1>2, <2>1, <2>2 DEF OnlyLater
<1>4. WatchFit' /\ AskedFit' /\ (Watched => Watched')
  BY <1>1, <1>3, SameWatch
<1>5. ASSUME NEW w \in Worker
      PROVE  Fit(work[w], today', asked', Watched')
  <2>1. Fit(work[w], today, asked, Watched) /\ Watched \in BOOLEAN /\ Watched' \in BOOLEAN
    BY DEF FundsFit, AllFit, Watched
  <2>2. work[w].at \in Reading => today' <= work[w].made + 1
    BY <1>1, <1>2
  <2>3. QED
    BY <1>2, <1>3, <1>4, <2>1, <2>2, FitStays DEF OnlyLater
<1>6. AllFit'
  BY <1>1, <1>5 DEF FundsFit, AllFit
<1>7. IndexFit'
  <2>1. days \subseteq Nat /\ BackfillDays \in Nat
    BY DaysOfTheYear DEF FundsFit, IndexFit
  <2>2. today' >= 2 * BackfillDays + 2 /\ \A d \in days : d < today'
    BY <1>1, <1>2, <2>1 DEF FundsFit, IndexFit
  <2>3. QED
    BY <1>1, <1>2, <2>2 DEF FundsFit, IndexFit
<1>8. QED
  BY <1>3, <1>4, <1>6, <1>7 DEF FundsFit

LEMMA FundsOpenFit ==
    ASSUME FundsInit
    PROVE  FundsFit
<1>1. BackfillDays \in Nat /\ MaxWorks \in Nat /\ MaxLosses \in Nat
  BY FundsAssumption
<1>2. today \in Nat /\ today >= 2 * BackfillDays + 2
  BY <1>1 DEF FundsInit
<1>3. AskedFit
  BY <1>2 DEF FundsInit, AskedFit
<1>4. WatchFit /\ found \subseteq [by : Vehicle, listed : BOOLEAN]
      /\ \A e, f \in found : e.by = f.by => e = f
  <2>1. CASE watch = NoWatch /\ found = {}
    BY <1>2, <2>1, NoWatchSound DEF WatchFit
  <2>2. CASE /\ watch = [NoWatch EXCEPT !.words = FirstWords, !.looked = TRUE]
             /\ found = {[by |-> v, listed |-> FALSE] : v \in Named[FirstWords]}
    <3>1. FirstWords \in Words /\ Named[FirstWords] \subseteq Vehicle
      BY FundsAssumption
    <3>2. watch \in Row /\ watch.words \in Words /\ watch.since = 0 /\ watch.watching = FALSE
      BY <2>2, <3>1 DEF NoWatch, Row
    <3>3. WatchFit
      BY <1>2, <3>2 DEF WatchFit, Watched, Sound
    <3>4. found \subseteq [by : Vehicle, listed : BOOLEAN]
      <4>1. SUFFICES ASSUME NEW e \in found PROVE e \in [by : Vehicle, listed : BOOLEAN]
        OBVIOUS
      <4>2. PICK u \in Named[FirstWords] : e = [by |-> u, listed |-> FALSE]
        BY <2>2
      <4>3. QED
        BY <3>1, <4>2
    <3>5. ASSUME NEW e \in found, NEW f \in found, e.by = f.by
          PROVE  e = f
      <4>1. PICK u \in Named[FirstWords] : e = [by |-> u, listed |-> FALSE]
        BY <2>2
      <4>2. PICK v \in Named[FirstWords] : f = [by |-> v, listed |-> FALSE]
        BY <2>2
      <4>3. QED
        BY <3>5, <4>1, <4>2
    <3>6. QED
      BY <3>3, <3>4, <3>5
  <2>3. QED
    BY <2>1, <2>2 DEF FundsInit
<1>5. AllFit
  BY DEF FundsInit, AllFit, Fit
<1>6. IndexFit
  <2>1. /\ days = {} /\ index = {} /\ said = {} /\ unlisted = FALSE /\ works = 0 /\ losses = 0
    BY DEF FundsInit
  <2>2. /\ days \subseteq TradingDays /\ \A d \in days : d < today
        /\ index \subseteq Published /\ said \subseteq index
    BY <2>1
  <2>3. /\ works \in Nat /\ works <= MaxWorks /\ losses \in Nat /\ losses <= MaxLosses
    BY <1>1, <2>1
  <2>4. unlisted \in BOOLEAN
    BY <2>1, Zenon
  <2>5. QED
    BY <1>2, <1>4, <2>2, <2>3, <2>4 DEF IndexFit
<1>7. QED
  BY <1>3, <1>4, <1>5, <1>6 DEF FundsFit

LEMMA FundsStepFits ==
    ASSUME FundsFit, FundsNext
    PROVE  FundsFit'
<1>1. CASE Evening
  BY <1>1, EveningFits
<1>2. CASE \E w \in Worker : Works(w)
  <2>1. PICK w \in Worker : Works(w)
    BY <1>2
  <2>2. QED
    BY <2>1, SyncListFits, ReadDayFits, MarkDayFits, DayUnreadableFits, SyncDoneFits,
       NightlyFits, SayFits, LookFits, WriteWordsFits, LookupFits, ReadLookedFits,
       WriteLookedFits, RequestFits, ListFundFits, MoreDoneFits, ReadLastFits, WriteLastFits,
       LostFits DEF Works
<1>3. QED
  BY <1>1, <1>2 DEF FundsNext

----------------------------------------------------------------------------
(* The days read have no gap, even with what each worker reads next put      *)
(* among them.                                                              *)

Active == {w \in Worker : work[w].at \in Reading /\ work[w].days # {}}
Fronts == {FirstOf(work[w].days) : w \in Active}

Indexed ==
    /\ \A d \in days : FiledOn(d) \subseteq index
    /\ \A w \in Active : work[w].at = "mark" => FiledOn(FirstOf(work[w].days)) \subseteq index

(* A list goes on to the day it was made; before any day was read it is all  *)
(* that a first sync reads.                                                 *)
Whole(j) == \A d \in j.days : \A e \in TradingDays : d < e /\ e < j.made => e \in j.days
Lists ==
    /\ \A w \in Active : Whole(work[w])
    /\ days = {} => \A w \in Active : work[w].days = Window(work[w].made)

NoGap == \A a, z \in days \cup Fronts : \A e \in TradingDays : a < e /\ e < z => e \in days

Unbroken == Indexed /\ (unlisted \/ (Lists /\ NoGap))

(* A step that reads no list and marks no day.                              *)
LEMMA NoDayMarked ==
    ASSUME FundsFit, Unbroken, NEW w \in Worker, NEW j, work' = [work EXCEPT ![w] = j],
           days' = days, index \subseteq index', unlisted' = unlisted,
           j.at \in Reading /\ j.days # {} =>
               /\ work[w].at \in Reading /\ j.days = work[w].days /\ j.made = work[w].made
               /\ j.at = "mark" => FiledOn(FirstOf(j.days)) \subseteq index'
    PROVE  Unbroken'
<1>1. work \in [Worker -> {AtRest} \cup Job]
  BY DEF FundsFit, AllFit
<1>2. ASSUME NEW v \in Active'
      PROVE  /\ v \in Active /\ work'[v].days = work[v].days /\ work'[v].made = work[v].made
             /\ work'[v].at = "mark" => FiledOn(FirstOf(work[v].days)) \subseteq index'
  <2>1. v \in Worker /\ work'[v].at \in Reading /\ work'[v].days # {}
    BY DEF Active
  <2>2. CASE v = w
    <3>1. work'[v] = j
      BY <1>1, <2>2
    <3>2. QED
      BY <2>1, <2>2, <3>1 DEF Active
  <2>3. CASE v # w
    <3>1. work'[v] = work[v]
      BY <1>1, <2>1, <2>3
    <3>2. v \in Active
      BY <2>1, <3>1 DEF Active
    <3>3. work[v].at = "mark" => FiledOn(FirstOf(work[v].days)) \subseteq index
      BY <3>2 DEF Unbroken, Indexed
    <3>4. QED
      BY <3>1, <3>2, <3>3
  <2>4. QED
    BY <2>2, <2>3
<1>3. Indexed'
  BY <1>2 DEF Unbroken, Indexed
<1>4. CASE unlisted
  BY <1>3, <1>4 DEF Unbroken
<1>5. CASE ~unlisted
  <2>1. Lists /\ NoGap
    BY <1>5 DEF Unbroken
  <2>2. \A v \in Active' : Whole(work'[v])
    BY <1>2, <2>1 DEF Lists, Whole
  <2>3. days' = {} => \A v \in Active' : work'[v].days = Window(work'[v].made)
    BY <1>2, <2>1 DEF Lists
  <2>4. Fronts' \subseteq Fronts
    BY <1>2 DEF Fronts
  <2>5. NoGap'
    BY <2>1, <2>4 DEF NoGap
  <2>6. QED
    BY <1>3, <2>2, <2>3, <2>5 DEF Unbroken, Lists
<1>6. QED
  BY <1>4, <1>5

(* A worker that goes through no days.                                      *)
LEMMA OffTheDays ==
    ASSUME FundsFit, Unbroken, NEW w \in Worker, NEW j, work' = [work EXCEPT ![w] = j],
           days' = days, index \subseteq index', unlisted' = unlisted, j.at \notin Reading
    PROVE  Unbroken'
  BY NoDayMarked

LEMMA NightlyUnbroken ==
    ASSUME FundsFit, Unbroken, NEW w \in Worker, Nightly(w)
    PROVE  Unbroken'
<1> DEFINE j == Doing("list", "say", NoWords, "same", {})
<1>1. j.at \notin Reading
  BY DEF Doing, Reading
<1>2. /\ work' = [work EXCEPT ![w] = j] /\ days' = days
      /\ index \subseteq index' /\ unlisted' = unlisted
  BY DEF Nightly
<1> HIDE DEF j
<1>3. QED
  BY <1>1, <1>2, OffTheDays

LEMMA SayUnbroken ==
    ASSUME FundsFit, Unbroken, NEW w \in Worker, Say(w)
    PROVE  Unbroken'
<1>1. AtRest.at \notin Reading
  BY DEF AtRest, Reading
<1>2. /\ work' = [work EXCEPT ![w] = AtRest] /\ days' = days
      /\ index \subseteq index' /\ unlisted' = unlisted
  BY DEF Say
<1>3. QED
  BY <1>1, <1>2, OffTheDays

LEMMA WriteLastUnbroken ==
    ASSUME FundsFit, Unbroken, NEW w \in Worker, WriteLast(w)
    PROVE  Unbroken'
<1>1. AtRest.at \notin Reading
  BY DEF AtRest, Reading
<1>2. /\ work' = [work EXCEPT ![w] = AtRest] /\ days' = days
      /\ index \subseteq index' /\ unlisted' = unlisted
  BY DEF WriteLast, Does
<1>3. QED
  BY <1>1, <1>2, OffTheDays

LEMMA LostUnbroken ==
    ASSUME FundsFit, Unbroken, NEW w \in Worker, Lost(w)
    PROVE  Unbroken'
<1>1. AtRest.at \notin Reading
  BY DEF AtRest, Reading
<1>2. /\ work' = [work EXCEPT ![w] = AtRest] /\ days' = days
      /\ index \subseteq index' /\ unlisted' = unlisted
  BY DEF Lost, Does
<1>3. QED
  BY <1>1, <1>2, OffTheDays

LEMMA RequestUnbroken ==
    ASSUME FundsFit, Unbroken, NEW w \in Worker, Request(w)
    PROVE  Unbroken'
<1>1. /\ days' = days /\ index \subseteq index' /\ unlisted' = unlisted
      /\ \E at \in {"more", "read"} : \E given, out :
            work' = [work EXCEPT ![w] = Doing(at, "", NoWords, given, out)]
  BY DEF Request
<1>2. PICK at \in {"more", "read"} : \E given, out :
            work' = [work EXCEPT ![w] = Doing(at, "", NoWords, given, out)]
  BY <1>1
<1>3. PICK given, out : work' = [work EXCEPT ![w] = Doing(at, "", NoWords, given, out)]
  BY <1>2
<1> DEFINE j == Doing(at, "", NoWords, given, out)
<1>4. j.at \notin Reading
  BY DEF Doing, Reading
<1>5. work' = [work EXCEPT ![w] = j]
  BY <1>3
<1> HIDE DEF j
<1>6. QED
  BY <1>1, <1>4, <1>5, OffTheDays

LEMMA LookUnbroken ==
    ASSUME FundsFit, Unbroken, NEW w \in Worker, Look(w)
    PROVE  Unbroken'
<1>1. PICK words \in Words :
        work' = [work EXCEPT ![w] =
            [Doing("words", "", words, "same", {}) EXCEPT
                !.row = Saved(watch, words, "same", watch.unrelated, FALSE)]]
  BY DEF Look
<1> DEFINE row == Saved(watch, words, "same", watch.unrelated, FALSE)
           j == [Doing("words", "", words, "same", {}) EXCEPT !.row = row]
<1> HIDE DEF row
<1>2. j.at = "words" /\ j.at \notin Reading
  BY DEF Doing, Reading
<1>3. work' = [work EXCEPT ![w] = j]
  BY <1>1 DEF row
<1>4. days' = days /\ index \subseteq index' /\ unlisted' = unlisted
  BY DEF Look
<1> HIDE DEF j
<1>5. QED
  BY <1>2, <1>3, <1>4, OffTheDays

LEMMA WriteWordsUnbroken ==
    ASSUME FundsFit, Unbroken, NEW w \in Worker, WriteWords(w)
    PROVE  Unbroken'
<1> DEFINE j == [work[w] EXCEPT !.at = "list", !.next = "lookup", !.row = NoWatch]
<1>1. work[w].at = "words"
  BY DEF WriteWords
<1>2. work[w] \in Job
  BY <1>1, NotAtRest, AtWork
<1>3. j.at = "list" /\ j.at \notin Reading
  BY <1>1, <1>2 DEF Job, Reading
<1>4. /\ work' = [work EXCEPT ![w] = j] /\ days' = days
      /\ index \subseteq index' /\ unlisted' = unlisted
  BY DEF WriteWords, Does
<1> HIDE DEF j
<1>5. QED
  BY <1>3, <1>4, OffTheDays

LEMMA LookupUnbroken ==
    ASSUME FundsFit, Unbroken, NEW w \in Worker, Lookup(w)
    PROVE  Unbroken'
<1> DEFINE j == [work[w] EXCEPT !.at = "looked"]
<1>1. work[w].at = "lookup"
  BY DEF Lookup
<1>2. work[w] \in Job
  BY <1>1, NotAtRest, AtWork
<1>3. j.at = "looked" /\ j.at \notin Reading
  BY <1>1, <1>2 DEF Job, Reading
<1>4. /\ work' = [work EXCEPT ![w] = j] /\ days' = days
      /\ index \subseteq index' /\ unlisted' = unlisted
  BY DEF Lookup, Does
<1> HIDE DEF j
<1>5. QED
  BY <1>3, <1>4, OffTheDays

LEMMA WriteLookedUnbroken ==
    ASSUME FundsFit, Unbroken, NEW w \in Worker, WriteLooked(w)
    PROVE  Unbroken'
<1> DEFINE j == [work[w] EXCEPT !.at = "read", !.row = NoWatch, !.words = NoWords,
                                !.unrelated = work[w].row.unrelated]
<1>1. work[w].at = "write looked"
  BY DEF WriteLooked
<1>2. work[w] \in Job
  BY <1>1, NotAtRest, AtWork
<1>3. j.at = "read" /\ j.at \notin Reading
  BY <1>1, <1>2 DEF Job, Reading
<1>4. /\ work' = [work EXCEPT ![w] = j] /\ days' = days
      /\ index \subseteq index' /\ unlisted' = unlisted
  BY DEF WriteLooked, Does
<1> HIDE DEF j
<1>5. QED
  BY <1>3, <1>4, OffTheDays

LEMMA ListFundUnbroken ==
    ASSUME FundsFit, Unbroken, NEW w \in Worker, ListFund(w)
    PROVE  Unbroken'
<1> DEFINE more == work[w].read + 1
           j == [work[w] EXCEPT !.read = more]
<1>1. work[w].at = "more"
  BY DEF ListFund
<1>2. work[w] \in Job
  BY <1>1, NotAtRest, AtWork
<1> HIDE DEF more
<1>3. j.at = "more" /\ j.at \notin Reading
  BY <1>1, <1>2 DEF Job, Reading
<1>4. /\ work' = [work EXCEPT ![w] = j] /\ days' = days
      /\ index \subseteq index' /\ unlisted' = unlisted
  BY DEF ListFund, Does, more
<1> HIDE DEF j
<1>5. QED
  BY <1>3, <1>4, OffTheDays

LEMMA MoreDoneUnbroken ==
    ASSUME FundsFit, Unbroken, NEW w \in Worker, MoreDone(w)
    PROVE  Unbroken'
<1> DEFINE j == [work[w] EXCEPT !.at = "read", !.read = 0]
<1>1. work[w].at = "more"
  BY DEF MoreDone
<1>2. work[w] \in Job
  BY <1>1, NotAtRest, AtWork
<1>3. j.at = "read" /\ j.at \notin Reading
  BY <1>1, <1>2 DEF Job, Reading
<1>4. /\ work' = [work EXCEPT ![w] = j] /\ days' = days
      /\ index \subseteq index' /\ unlisted' = unlisted
  BY DEF MoreDone, Does
<1> HIDE DEF j
<1>5. QED
  BY <1>3, <1>4, OffTheDays

LEMMA ReadLookedUnbroken ==
    ASSUME FundsFit, Unbroken, NEW w \in Worker, ReadLooked(w)
    PROVE  Unbroken'
<1> DEFINE row == Saved(watch, NoWords, "same", watch.unrelated, TRUE)
           j == [work[w] EXCEPT !.at = "write looked", !.row = row]
<1>1. work[w].at = "looked"
  BY DEF ReadLooked
<1>2. work[w] \in Job
  BY <1>1, NotAtRest, AtWork
<1> HIDE DEF row
<1>3. j.at = "write looked" /\ j.at \notin Reading
  BY <1>1, <1>2 DEF Job, Reading
<1>4. /\ work' = [work EXCEPT ![w] = j] /\ days' = days
      /\ index \subseteq index' /\ unlisted' = unlisted
  BY DEF ReadLooked, Does, ReadRow, row
<1> HIDE DEF j
<1>5. QED
  BY <1>3, <1>4, OffTheDays

LEMMA ReadLastUnbroken ==
    ASSUME FundsFit, Unbroken, NEW w \in Worker, ReadLast(w)
    PROVE  Unbroken'
<1> DEFINE row == Saved(watch, NoWords, work[w].watching, work[w].unrelated, FALSE)
           j == [work[w] EXCEPT !.at = "write", !.row = row]
<1>1. work[w].at = "read"
  BY DEF ReadLast
<1>2. work[w] \in Job
  BY <1>1, NotAtRest, AtWork
<1> HIDE DEF row
<1>3. j.at = "write" /\ j.at \notin Reading
  BY <1>1, <1>2 DEF Job, Reading
<1>4. /\ work' = [work EXCEPT ![w] = j] /\ days' = days
      /\ index \subseteq index' /\ unlisted' = unlisted
  BY DEF ReadLast, Does, ReadRow, row
<1> HIDE DEF j
<1>5. QED
  BY <1>3, <1>4, OffTheDays

LEMMA SyncDoneUnbroken ==
    ASSUME FundsFit, Unbroken, NEW w \in Worker, SyncDone(w)
    PROVE  Unbroken'
<1> DEFINE j == [work[w] EXCEPT !.at = work[w].next, !.next = "", !.days = {}, !.read = 0,
                                 !.made = 0]
<1>1. work[w].at = "day"
  BY DEF SyncDone
<1>2. work[w] \in Job /\ work[w].next \in {"say", "lookup"}
  <2>1. work[w] # AtRest
    BY <1>1, NotAtRest
  <2>2. work[w] \in Job /\ Fit(work[w], today, asked, Watched)
    BY <2>1, AtWork DEF FundsFit, AllFit
  <2>3. QED
    BY <1>1, <2>1, <2>2 DEF Fit, Reading
<1>3. j.at = work[w].next /\ j.at \notin Reading
  BY <1>2 DEF Job, Reading
<1>4. /\ work' = [work EXCEPT ![w] = j] /\ days' = days
      /\ index \subseteq index' /\ unlisted' = unlisted
  BY DEF SyncDone, Does
<1> HIDE DEF j
<1>5. QED
  BY <1>3, <1>4, OffTheDays

LEMMA DayUnreadableUnbroken ==
    ASSUME FundsFit, Unbroken, NEW w \in Worker, DayUnreadable(w)
    PROVE  Unbroken'
<1> DEFINE j == [work[w] EXCEPT !.days = {}]
<1>1. work[w].at = "day"
  BY DEF DayUnreadable
<1>2. work[w] \in Job
  BY <1>1, NotAtRest, AtWork
<1>3. j.days = {}
  BY <1>2 DEF Job
<1>4. /\ work' = [work EXCEPT ![w] = j] /\ days' = days
      /\ index \subseteq index' /\ unlisted' = unlisted
  BY DEF DayUnreadable, StopThere, Does
<1> HIDE DEF j
<1>5. QED
  BY <1>3, <1>4, NoDayMarked

LEMMA ReadDayUnbroken ==
    ASSUME FundsFit, Unbroken, NEW w \in Worker, ReadDay(w)
    PROVE  Unbroken'
<1> DEFINE j == [work[w] EXCEPT !.at = "mark"]
<1>1. work[w].at = "day"
  BY DEF ReadDay
<1>2. work[w] \in Job
  BY <1>1, NotAtRest, AtWork
<1>3. j.days = work[w].days /\ j.made = work[w].made /\ j.at = "mark"
  BY <1>2 DEF Job
<1>4. /\ work' = [work EXCEPT ![w] = j] /\ days' = days /\ unlisted' = unlisted
      /\ index' = index \cup FiledOn(FirstOf(work[w].days))
  BY DEF ReadDay, Does
<1> HIDE DEF j
<1>5. FiledOn(FirstOf(j.days)) \subseteq index' /\ index \subseteq index' /\ work[w].at \in Reading
  BY <1>1, <1>3, <1>4 DEF Reading
<1>6. QED
  BY <1>3, <1>4, <1>5, NoDayMarked

LEMMA FrontsAreDays ==
    ASSUME FundsFit
    PROVE  /\ \A w \in Active : /\ work[w] \in Job /\ work[w].made \in Nat
                                /\ work[w].days \subseteq TradingDays
                                /\ FirstOf(work[w].days) \in work[w].days
                                /\ \A d \in work[w].days :
                                       FirstOf(work[w].days) <= d /\ d < work[w].made
                                /\ work[w].made <= today /\ today <= work[w].made + 1
           /\ Fronts \subseteq TradingDays /\ days \subseteq TradingDays
<1>1. ASSUME NEW w \in Active
      PROVE  /\ work[w] \in Job /\ work[w].made \in Nat
             /\ work[w].days \subseteq TradingDays
             /\ FirstOf(work[w].days) \in work[w].days
             /\ \A d \in work[w].days : FirstOf(work[w].days) <= d /\ d < work[w].made
             /\ work[w].made <= today /\ today <= work[w].made + 1
  <2>1. w \in Worker /\ work[w].at \in Reading /\ work[w].days # {}
    BY DEF Active
  <2>2. work[w] # AtRest
    <3>1. AtRest.at \notin Reading
      BY DEF AtRest, Reading
    <3>2. QED
      BY <2>1, <3>1
  <2>3. work[w] \in Job /\ Fit(work[w], today, asked, Watched)
    BY <2>1, <2>2, AtWork DEF FundsFit, AllFit
  <2>4. work[w].days \subseteq TradingDays /\ work[w].made \in Nat
    BY <2>3 DEF Job
  <2>5. /\ \A d \in work[w].days : d < work[w].made
        /\ work[w].made <= today /\ today <= work[w].made + 1
    BY <2>1, <2>2, <2>3 DEF Fit
  <2>6. FirstOf(work[w].days) \in work[w].days /\ \A d \in work[w].days : FirstOf(work[w].days) <= d
    BY <2>1, <2>4, DaysOfTheYear, LeastDay
  <2>7. QED
    BY <2>3, <2>4, <2>5, <2>6
<1>2. Fronts \subseteq TradingDays
  BY <1>1 DEF Fronts
<1>3. QED
  BY <1>1, <1>2 DEF FundsFit, IndexFit

LEMMA MarkDayUnbroken ==
    ASSUME FundsFit, Unbroken, NEW w \in Worker, MarkDay(w)
    PROVE  Unbroken'
<1> DEFINE L == work[w].days
           d == FirstOf(L)
           more == work[w].read + 1
           left == L \ {d}
           s == FirstOf(left)
           j == [work[w] EXCEPT !.at = "day", !.read = more, !.days = left]
<1>1. work[w].at = "mark" /\ w \in Active
  <2>1. work[w].at = "mark" /\ work[w].at \in Reading
    BY DEF MarkDay, Reading
  <2>2. work[w] # AtRest
    BY <2>1, NotAtRest
  <2>3. L # {}
    BY <2>1, <2>2 DEF FundsFit, AllFit, Fit
  <2>4. QED
    BY <2>1, <2>3 DEF Active
<1>2. /\ work[w] \in Job /\ work[w].made \in Nat /\ L \subseteq TradingDays
      /\ d \in L /\ \A x \in L : d <= x /\ x < work[w].made
      /\ Fronts \subseteq TradingDays /\ days \subseteq TradingDays
      /\ TradingDays \subseteq Nat
  BY <1>1, FrontsAreDays, DaysOfTheYear
<1>3. /\ work' = [work EXCEPT ![w] = j] /\ days' = days \cup {d}
      /\ index' = index /\ unlisted' = unlisted
  BY DEF MarkDay, Does
<1> HIDE DEF L, d, more, left
<1>4. j.at = "day" /\ j.days = left /\ j.made = work[w].made
  BY <1>2 DEF Job
<1> HIDE DEF j
<1>5. work \in [Worker -> {AtRest} \cup Job]
  BY DEF FundsFit, AllFit
<1>6. ASSUME NEW v \in Active'
      PROVE  \/ v = w /\ work'[v] = j /\ left # {}
             \/ v \in Active /\ work'[v] = work[v]
  <2>1. v \in Worker /\ work'[v].at \in Reading /\ work'[v].days # {}
    BY DEF Active
  <2>2. CASE v = w
    BY <1>3, <1>4, <1>5, <2>1, <2>2
  <2>3. CASE v # w
    <3>1. work'[v] = work[v]
      BY <1>3, <1>5, <2>1, <2>3
    <3>2. QED
      BY <2>1, <3>1 DEF Active
  <2>4. QED
    BY <2>2, <2>3
<1>7. Indexed'
  <2>1. FiledOn(d) \subseteq index
    BY <1>1 DEF Unbroken, Indexed, d, L
  <2>2. \A x \in days' : FiledOn(x) \subseteq index'
    BY <1>3, <2>1 DEF Unbroken, Indexed
  <2>3. \A v \in Active' : work'[v].at = "mark" => FiledOn(FirstOf(work'[v].days)) \subseteq index'
    BY <1>3, <1>4, <1>6 DEF Unbroken, Indexed
  <2>4. QED
    BY <2>2, <2>3 DEF Indexed
<1>8. CASE unlisted
  BY <1>3, <1>7, <1>8 DEF Unbroken
<1>9. CASE ~unlisted
  <2>1. Lists /\ NoGap
    BY <1>9 DEF Unbroken
  <2>2. ASSUME NEW x \in L, NEW e \in TradingDays, x < e, e < work[w].made
        PROVE  e \in L
    BY <1>1, <2>1, <2>2 DEF Lists, Whole, L
  <2>3. left \subseteq L /\ d \notin left /\ L = left \cup {d}
    BY <1>2 DEF left
  <2>4. Whole(j)
    <3>1. SUFFICES ASSUME NEW x \in left, NEW e \in TradingDays, x < e, e < work[w].made
                   PROVE  e \in left
      BY <1>4 DEF Whole
    <3>2. e \in L
      BY <2>2, <2>3, <3>1
    <3>3. d <= x /\ d \in Nat /\ x \in Nat /\ e \in Nat
      BY <1>2, <2>3
    <3>4. e # d
      BY <3>1, <3>3
    <3>5. QED
      BY <2>3, <3>2, <3>4
  <2>5. Lists'
    <3>1. \A v \in Active' : Whole(work'[v])
      BY <1>6, <2>1, <2>4 DEF Lists
    <3>2. days' # {}
      BY <1>3
    <3>3. QED
      BY <3>1, <3>2 DEF Lists
  <2>6. ASSUME left # {}
        PROVE  /\ s \in TradingDays /\ s \in Nat /\ d < s
               /\ \A e \in TradingDays : ~(d < e /\ e < s)
    <3>1. left \subseteq Nat
      BY <1>2, <2>3
    <3>2. s \in left /\ \A x \in left : s <= x
      BY <2>6, <3>1, LeastDay DEF s
    <3>3. s \in L /\ s # d /\ d <= s /\ s < work[w].made /\ s \in Nat /\ d \in Nat
      BY <1>2, <2>3, <3>1, <3>2
    <3>4. ASSUME NEW e \in TradingDays, d < e, e < s
          PROVE  FALSE
      <4>1. e \in Nat /\ e < work[w].made
        BY <1>2, <3>3, <3>4
      <4>2. e \in L /\ e # d
        BY <1>2, <2>2, <3>3, <3>4, <4>1
      <4>3. s <= e
        BY <2>3, <3>2, <4>2
      <4>4. QED
        BY <3>3, <3>4, <4>1, <4>3
    <3>5. d < s
      BY <3>3
    <3>6. QED
      BY <1>2, <3>3, <3>4, <3>5
  <2>7. ASSUME NEW p \in days' \cup Fronts'
        PROVE  p \in days \cup Fronts \/ (p = s /\ left # {})
    <3>1. CASE p \in days'
      <4>1. d \in Fronts
        BY <1>1 DEF Fronts, d, L
      <4>2. QED
        BY <1>3, <3>1, <4>1
    <3>2. CASE p \in Fronts'
      <4>1. PICK v \in Active' : p = FirstOf(work'[v].days)
        BY <3>2 DEF Fronts
      <4>2. CASE v = w /\ work'[v] = j /\ left # {}
        BY <1>4, <4>1, <4>2 DEF s
      <4>3. CASE v \in Active /\ work'[v] = work[v]
        BY <4>1, <4>3 DEF Fronts
      <4>4. QED
        BY <1>6, <4>2, <4>3
    <3>3. QED
      BY <3>1, <3>2
  <2>8. d \in days \cup Fronts /\ d \in Nat /\ \A p \in days \cup Fronts : p \in Nat
    <3>1. d \in Fronts
      BY <1>1 DEF Fronts, d, L
    <3>2. QED
      BY <1>2, <3>1
  <2>9. ASSUME NEW a \in days' \cup Fronts', NEW z \in days' \cup Fronts',
               NEW e \in TradingDays, a < e, e < z
        PROVE  e \in days'
    <3> HIDE DEF s
    <3>1. e \in Nat
      BY <1>2
    <3>2. CASE a \in days \cup Fronts /\ z \in days \cup Fronts
      BY <1>3, <2>1, <2>9, <3>2 DEF NoGap
    <3>3. CASE a = s /\ left # {} /\ z \in days \cup Fronts
      <4>1. d < e
        BY <2>6, <2>8, <2>9, <3>1, <3>3
      <4>2. QED
        BY <1>3, <2>1, <2>8, <2>9, <3>3, <4>1 DEF NoGap
    <3>4. CASE a \in days \cup Fronts /\ z = s /\ left # {}
      <4>1. ~(d < e)
        BY <2>6, <2>9, <3>4
      <4>2. CASE e = d
        BY <1>3, <4>2
      <4>3. CASE e # d
        <5>1. e < d
          BY <2>8, <3>1, <4>1, <4>3
        <5>2. QED
          BY <1>3, <2>1, <2>8, <2>9, <3>4, <5>1 DEF NoGap
      <4>4. QED
        BY <4>2, <4>3
    <3>5. CASE a = s /\ z = s /\ left # {}
      <4>1. s \in Nat
        BY <2>6, <3>5
      <4>2. QED
        BY <2>9, <3>1, <3>5, <4>1
    <3>6. QED
      BY <2>7, <3>2, <3>3, <3>4, <3>5
  <2>10. NoGap'
    BY <2>9 DEF NoGap
  <2>11. QED
    BY <1>7, <2>5, <2>10 DEF Unbroken
<1>10. QED
  BY <1>8, <1>9

(* Two first lists of days that follow each other begin at the same day, or  *)
(* at days that follow each other.                                          *)
LEMMA FirstListsMeet ==
    ASSUME NEW t \in Nat, Window(t) # {}, Window(t + 1) # {}, NEW e \in TradingDays
    PROVE  /\ ~(FirstOf(Window(t)) < e /\ e < FirstOf(Window(t + 1)))
           /\ ~(FirstOf(Window(t + 1)) < e /\ e < FirstOf(Window(t)))
<1> DEFINE x == FirstOf(Window(t))
           f == FirstOf(Window(t + 1))
<1>1. /\ TradingDays \subseteq Nat /\ BackfillDays \in Nat
      /\ \A d \in Window(t) : d \in TradingDays /\ d < t
      /\ \A d \in Window(t + 1) : d \in TradingDays /\ d < t + 1
  BY DaysOfTheYear DEF Window, NewestOf, OpenTo
<1>2. Window(t) \in SUBSET Nat /\ Window(t + 1) \in SUBSET Nat
  BY <1>1
<1>3. /\ x \in Window(t) /\ \A d \in Window(t) : x <= d
      /\ f \in Window(t + 1) /\ \A d \in Window(t + 1) : f <= d
  BY <1>2, LeastDay
<1> HIDE DEF x, f
<1>4. x \in Nat /\ f \in Nat /\ e \in Nat /\ x < t /\ f < t + 1 /\ t + 1 \in Nat
  <2>1. x \in TradingDays /\ x < t
    BY <1>1, <1>3
  <2>2. f \in TradingDays /\ f < t + 1
    BY <1>1, <1>3
  <2>3. t + 1 \in Nat
    OBVIOUS
  <2>4. QED
    BY <1>1, <2>1, <2>2, <2>3
<1>5. ASSUME x < e, e < f
      PROVE  FALSE
  <2>1. e < t
    BY <1>4, <1>5
  <2>2. e \in Window(t)
    BY <1>3, <1>5, <2>1, WindowReachesToday
  <2>3. e \in Window(t + 1)
    BY <1>3, <1>5, <2>2, WindowDropsItsFirst
  <2>4. QED
    BY <1>3, <1>4, <1>5, <2>3
<1>6. ASSUME f < e, e < x
      PROVE  FALSE
  <2>1. e < t /\ e < t + 1
    BY <1>4, <1>6
  <2>2. e \in Window(t + 1)
    BY <1>3, <1>4, <1>6, <2>1, WindowReachesToday
  <2>3. e \in Window(t)
    BY <2>1, <2>2, WindowLooksNoFurther
  <2>4. QED
    BY <1>3, <1>4, <1>6, <2>3
<1>7. QED
  BY <1>5, <1>6 DEF x, f

LEMMA SyncListUnbroken ==
    ASSUME FundsFit, Unbroken, NEW w \in Worker, SyncList(w)
    PROVE  Unbroken'
<1> DEFINE start == IF days = {} THEN today - (2 * BackfillDays + 1) ELSE MaxOf(days) + 1
           open == {d \in TradingDays : d >= start /\ d < today}
<1>1. PICK down \in SUBSET {Quarter[d] : d \in open} :
        LET there == {d \in open : Quarter[d] \notin down}
        IN /\ unlisted' = (unlisted \/ down # {})
           /\ Does(w, [work[w] EXCEPT !.at = "day", !.made = today,
                       !.days = IF days = {} THEN NewestOf(there) ELSE there])
  BY DEF SyncList
<1> DEFINE there == {d \in open : Quarter[d] \notin down}
           list == IF days = {} THEN NewestOf(there) ELSE there
           f == FirstOf(list)
           j == [work[w] EXCEPT !.at = "day", !.made = today, !.days = list]
<1>2. /\ unlisted' = (unlisted \/ down # {}) /\ work' = [work EXCEPT ![w] = j]
      /\ days' = days /\ index' = index
  <2>1. unlisted' = (unlisted \/ down # {}) /\ Does(w, j)
    BY <1>1
  <2>2. QED
    BY <2>1 DEF Does, SyncList
<1>3. /\ days \subseteq TradingDays /\ Fronts \subseteq TradingDays /\ TradingDays \subseteq Nat
      /\ today \in Nat /\ \A d \in days : d < today
  BY FrontsAreDays, DaysOfTheYear DEF FundsFit, IndexFit
<1>4. work[w] \in Job
  <2>1. work[w].at = "list"
    BY DEF SyncList
  <2>2. QED
    BY <2>1, NotAtRest, AtWork
<1>5. down = {} => list = IF days = {} THEN Window(today)
                         ELSE {d \in TradingDays : d >= MaxOf(days) + 1 /\ d < today}
  <2>1. SUFFICES ASSUME down = {} PROVE list = IF days = {} THEN Window(today)
                         ELSE {d \in TradingDays : d >= MaxOf(days) + 1 /\ d < today}
    OBVIOUS
  <2>2. there = open
    BY <2>1
  <2>3. CASE days = {}
    BY <2>2, <2>3 DEF Window, OpenTo
  <2>4. CASE days # {}
    BY <2>2, <2>4
  <2>5. QED
    BY <2>3, <2>4
<1>6. list \in SUBSET TradingDays /\ \A d \in list : d < today
  BY DEF NewestOf
<1> HIDE DEF list, there
<1>7. j.at = "day" /\ j.days = list /\ j.made = today
  BY <1>4 DEF Job
<1> HIDE DEF j
<1>8. work \in [Worker -> {AtRest} \cup Job]
  BY DEF FundsFit, AllFit
<1>9. ASSUME NEW v \in Active'
      PROVE  \/ v = w /\ work'[v] = j /\ list # {}
             \/ v \in Active /\ work'[v] = work[v]
  <2>1. v \in Worker /\ work'[v].at \in Reading /\ work'[v].days # {}
    BY DEF Active
  <2>2. CASE v = w
    BY <1>2, <1>7, <1>8, <2>1, <2>2
  <2>3. CASE v # w
    <3>1. work'[v] = work[v]
      BY <1>2, <1>8, <2>1, <2>3
    <3>2. QED
      BY <2>1, <3>1 DEF Active
  <2>4. QED
    BY <2>2, <2>3
<1>10. Indexed'
  BY <1>2, <1>7, <1>9 DEF Unbroken, Indexed
<1>11. CASE unlisted \/ down # {}
  BY <1>2, <1>10, <1>11 DEF Unbroken
<1>12. CASE ~unlisted /\ down = {}
  <2>1. Lists /\ NoGap
    BY <1>12 DEF Unbroken
  <2>2. list = IF days = {} THEN Window(today)
               ELSE {d \in TradingDays : d >= MaxOf(days) + 1 /\ d < today}
    BY <1>5, <1>12
  <2>3. Whole(j)
    <3>1. SUFFICES ASSUME NEW d \in list, NEW e \in TradingDays, d < e, e < today
                   PROVE  e \in list
      BY <1>7 DEF Whole
    <3>2. CASE days = {}
      BY <1>3, <2>2, <3>1, <3>2, WindowReachesToday
    <3>3. CASE days # {}
      <4>1. d \in TradingDays /\ d >= MaxOf(days) + 1
        BY <2>2, <3>3
      <4>2. MaxOf(days) \in Nat
        <5>1. days \in SUBSET Nat /\ \A x \in days : x <= today
          BY <1>3
        <5>2. QED
          BY <1>3, <3>3, <5>1, LastDayRead
      <4>3. e >= MaxOf(days) + 1
        BY <1>3, <3>1, <4>1, <4>2
      <4>4. QED
        BY <2>2, <3>1, <3>3, <4>3
    <3>4. QED
      BY <3>2, <3>3
  <2>4. Lists'
    <3>1. \A v \in Active' : Whole(work'[v])
      BY <1>9, <2>1, <2>3 DEF Lists
    <3>2. ASSUME days = {}, NEW v \in Active'
          PROVE  work'[v].days = Window(work'[v].made)
      <4>1. CASE v = w /\ work'[v] = j
        BY <1>7, <2>2, <3>2, <4>1
      <4>2. CASE v \in Active /\ work'[v] = work[v]
        BY <2>1, <3>2, <4>2 DEF Lists
      <4>3. QED
        BY <1>9, <4>1, <4>2
    <3>3. QED
      BY <1>2, <3>1, <3>2 DEF Lists
  <2>5. ASSUME NEW p \in days' \cup Fronts'
        PROVE  p \in days \cup Fronts \/ (p = f /\ list # {})
    <3>1. CASE p \in days'
      BY <1>2, <3>1
    <3>2. CASE p \in Fronts'
      <4>1. PICK v \in Active' : p = FirstOf(work'[v].days)
        BY <3>2 DEF Fronts
      <4>2. CASE v = w /\ work'[v] = j /\ list # {}
        BY <1>7, <4>1, <4>2
      <4>3. CASE v \in Active /\ work'[v] = work[v]
        BY <4>1, <4>3 DEF Fronts
      <4>4. QED
        BY <1>9, <4>2, <4>3
    <3>3. QED
      BY <3>1, <3>2
  <2>6. ASSUME list # {}
        PROVE  f \in list /\ f \in Nat /\ \A d \in list : f <= d
    <3>1. list \in SUBSET Nat
      BY <1>3, <1>6
    <3>2. QED
      BY <2>6, <3>1, LeastDay
  <2> HIDE DEF f
  <2>7. ASSUME list # {}, NEW p \in days \cup Fronts, NEW e \in TradingDays,
               (p < e /\ e < f) \/ (f < e /\ e < p)
        PROVE  e \in days
    <3>1. p \in Nat /\ e \in Nat /\ f \in Nat /\ p \in TradingDays
      BY <1>3, <2>6, <2>7
    <3>2. CASE days = {}
      <4>1. PICK v \in Active : p = FirstOf(work[v].days)
        BY <2>7, <3>2 DEF Fronts
      <4>2. /\ work[v].made \in Nat /\ work[v].made <= today /\ today <= work[v].made + 1
            /\ p \in work[v].days
        BY <4>1, FrontsAreDays
      <4>3. work[v].days = Window(work[v].made) /\ list = Window(today)
        BY <2>1, <2>2, <3>2 DEF Lists
      <4>4. CASE work[v].made = today
        <5>1. p = f
          BY <4>1, <4>3, <4>4 DEF f
        <5>2. QED
          BY <2>7, <3>1, <5>1
      <4>5. CASE work[v].made + 1 = today
        <5>1. p = FirstOf(Window(work[v].made)) /\ f = FirstOf(Window(work[v].made + 1))
          BY <4>1, <4>3, <4>5 DEF f
        <5>2. Window(work[v].made) # {} /\ Window(work[v].made + 1) # {}
          BY <2>7, <4>2, <4>3, <4>5
        <5>3. QED
          BY <2>7, <4>2, <5>1, <5>2, FirstListsMeet
      <4>6. QED
        BY <1>3, <4>2, <4>4, <4>5
    <3>3. CASE days # {}
      <4> DEFINE m == MaxOf(days)
      <4>1. m \in days /\ \A x \in days : x <= m
        <5>1. days \in SUBSET Nat /\ \A x \in days : x <= today
          BY <1>3
        <5>2. QED
          BY <1>3, <3>3, <5>1, LastDayRead
      <4>2. list = {d \in TradingDays : d >= m + 1 /\ d < today}
        BY <2>2, <3>3
      <4> HIDE DEF m
      <4>3. m \in Nat /\ f >= m + 1 /\ f < today
        BY <1>3, <2>6, <2>7, <4>1, <4>2
      <4>4. ~(m < e /\ e < f)
        <5>1. SUFFICES ASSUME m < e, e < f PROVE FALSE
          OBVIOUS
        <5>2. e \in list
          BY <1>3, <3>1, <4>2, <4>3, <5>1
        <5>3. QED
          BY <2>6, <2>7, <3>1, <5>1, <5>2
      <4>5. CASE p < e /\ e < f
        <5>1. e = m \/ (p < e /\ e < m)
          BY <3>1, <4>3, <4>4, <4>5
        <5>2. QED
          BY <2>1, <4>1, <5>1 DEF NoGap
      <4>6. CASE f < e /\ e < p
        <5>1. m < e
          BY <3>1, <4>3, <4>6
        <5>2. QED
          BY <2>1, <4>1, <4>6, <5>1 DEF NoGap
      <4>7. QED
        BY <2>7, <4>5, <4>6
    <3>4. QED
      BY <3>2, <3>3
  <2>8. ASSUME NEW a \in days' \cup Fronts', NEW z \in days' \cup Fronts',
               NEW e \in TradingDays, a < e, e < z
        PROVE  e \in days'
    <3>1. CASE a \in days \cup Fronts /\ z \in days \cup Fronts
      BY <1>2, <2>1, <2>8, <3>1 DEF NoGap
    <3>2. CASE a = f /\ list # {} /\ z \in days \cup Fronts
      BY <1>2, <2>7, <2>8, <3>2
    <3>3. CASE a \in days \cup Fronts /\ z = f /\ list # {}
      BY <1>2, <2>7, <2>8, <3>3
    <3>4. CASE a = f /\ z = f /\ list # {}
      <4>1. f \in Nat /\ e \in Nat
        BY <1>3, <2>6, <3>4
      <4>2. QED
        BY <2>8, <3>4, <4>1
    <3>5. QED
      BY <2>5, <3>1, <3>2, <3>3, <3>4
  <2>9. NoGap'
    BY <2>8 DEF NoGap
  <2>10. QED
    BY <1>10, <2>4, <2>9 DEF Unbroken
<1>13. QED
  BY <1>11, <1>12

LEMMA EveningUnbroken ==
    ASSUME FundsFit, Unbroken, Evening
    PROVE  Unbroken'
<1>1. days' = days /\ index' = index /\ work' = work /\ unlisted' = unlisted
  BY DEF Evening
<1>2. Active' = Active
  BY <1>1 DEF Active
<1>3. Fronts' = Fronts
  BY <1>1, <1>2 DEF Fronts
<1>4. QED
  BY <1>1, <1>2, <1>3 DEF Unbroken, Indexed, Lists, NoGap

LEMMA FundsOpenUnbroken ==
    ASSUME FundsInit
    PROVE  Unbroken
<1>1. Active = {}
  <2>1. AtRest.at \notin Reading
    BY DEF AtRest, Reading
  <2>2. QED
    BY <2>1 DEF FundsInit, Active
<1>2. Fronts = {} /\ days = {}
  BY <1>1 DEF Fronts, FundsInit
<1>3. QED
  BY <1>1, <1>2 DEF Unbroken, Indexed, Lists, NoGap

LEMMA FundsStepUnbroken ==
    ASSUME FundsFit, Unbroken, FundsNext
    PROVE  Unbroken'
<1>1. CASE Evening
  BY <1>1, EveningUnbroken
<1>2. CASE \E w \in Worker : Works(w)
  <2>1. PICK w \in Worker : Works(w)
    BY <1>2
  <2>2. QED
    BY <2>1, SyncListUnbroken, ReadDayUnbroken, MarkDayUnbroken, DayUnreadableUnbroken,
       SyncDoneUnbroken, NightlyUnbroken, SayUnbroken, LookUnbroken, WriteWordsUnbroken,
       LookupUnbroken, ReadLookedUnbroken, WriteLookedUnbroken, RequestUnbroken,
       ListFundUnbroken, MoreDoneUnbroken, ReadLastUnbroken, WriteLastUnbroken,
       LostUnbroken DEF Works
<1>3. QED
  BY <1>1, <1>2 DEF FundsNext

----------------------------------------------------------------------------
(* What the properties say.                                                *)

LEMMA FundsFitTypes ==
    ASSUME FundsFit
    PROVE  FundsTypeOK
<1>1. watch \in Row /\ watch.since \in Nat /\ watch.since <= today /\ today \in Nat
  BY DEF FundsFit, WatchFit, Sound, Row, IndexFit
<1>2. watch.words \in Words \cup {NoWords} /\ watch.unrelated \subseteq Vehicle
  BY <1>1 DEF Row
<1>3. watch.watching => watch.words \in Words /\ watch.since \in 1..today
  BY <1>1 DEF FundsFit, WatchFit, Sound
<1>4. QED
  BY <1>2, <1>3 DEF FundsFit, IndexFit, FundsTypeOK

LEMMA NoGapSteps ==
    ASSUME FundsFit, Unbroken
    PROVE  NoDaySteppedOver
<1>1. SUFFICES ASSUME ~unlisted, NEW d \in TradingDays, NEW a \in days, NEW z \in days,
                      a <= d, d <= z
               PROVE  d \in days /\ FiledOn(d) \subseteq index
  BY DEF NoDaySteppedOver
<1>2. a \in Nat /\ d \in Nat /\ z \in Nat
  BY DaysOfTheYear DEF FundsFit, IndexFit
<1>3. d \in days
  <2>1. CASE a = d \/ z = d
    BY <2>1
  <2>2. CASE a < d /\ d < z
    BY <1>1, <2>2 DEF Unbroken, NoGap
  <2>3. QED
    BY <1>1, <1>2, <2>1, <2>2
<1>4. QED
  BY <1>3 DEF Unbroken, Indexed

(* A step says of a filing only what it may.                                *)
LEMMA SaysNoHistory ==
    ASSUME FundsFit, FundsNext, NEW f \in said' \ said
    PROVE  /\ f.by \in Matching(watch)
           /\ asked[watch.words] > 0 /\ f.day >= asked[watch.words]
<1>1. PICK w \in Worker : Say(w)
  <2>1. ~Evening
    BY DEF Evening
  <2>2. PICK w \in Worker : Works(w)
    BY <2>1 DEF FundsNext
  <2>3. \/ said' = said \/ Say(w)
    BY <2>2 DEF Works, SyncList, ReadDay, MarkDay, DayUnreadable, SyncDone, Nightly, Look,
                WriteWords, Lookup, ReadLooked, WriteLooked, Request, ListFund, MoreDone,
                ReadLast, WriteLast, Lost, Does, ReadRow
  <2>4. QED
    BY <2>3
<1>2. f \in AlertItems(watch)
  BY <1>1 DEF Say
<1>3. f \in Published /\ watch.watching /\ f.by \in Matching(watch) /\ f.day >= watch.since
  BY <1>2 DEF AlertItems, FundsFit, IndexFit
<1>4. f.day \in Nat
  BY <1>3, FundsAssumption, DaysOfTheYear
<1>5. /\ watch.words \in Words /\ watch.since \in Nat /\ asked[watch.words] \in Nat
      /\ asked[watch.words] >= 1 /\ asked[watch.words] <= watch.since
  BY <1>3 DEF FundsFit, WatchFit, AskedFit, Sound, Row
<1>6. QED
  BY <1>3, <1>4, <1>5

(***************************************************************************)
(* A firm's forms and a company's notices.                                 *)
(***************************************************************************)

----------------------------------------------------------------------------
(* What a reading holds is on the forms F filed so far, and what a list of  *)
(* notices holds is on the notices N.                                       *)

Filed(part, has, F) == \E i \in DOMAIN F : has = F[i][part]

AReading(s, F) ==
    /\ s \in Snapshot
    /\ s.version = Unread => s.fund = Short(NoFunds) /\ s.owner = Short(NoOwners)
    /\ s.version = Reader => \A part \in Part : s[part].read => Filed(part, s[part].has, F)
ARow(s, F) == s = None \/ AReading(s, F)

AList(s, N) ==
    /\ \E m \in 0..Len(N) : DOMAIN s.filings = Listed(m)
    /\ \A i \in DOMAIN s.filings : s.filings[i] \in {Kept(N[i]), NotReadable}

\* Of two readings the later says the same of a part, or is of a later form.
Follows(part, old, new, F) ==
    \/ old[part].has = new[part].has
    \/ \E j \in DOMAIN F : \E i \in 1..(j - 1) :
          old[part].has = F[i][part] /\ new[part].has = F[j][part]

\* OnTheForms and OnTheNotice, of forms and notices that are given.
OnForms(d, F) ==
    \E j \in DOMAIN F : \E i \in 1..(j - 1) :
        LET was == F[i][d.what][d.which]
            is  == F[j][d.what][d.which]
        IN is = d.new /\ was # is /\ d.old \in {was, None}
OnNotice(d, N) ==
    /\ d.what = "person" => d.who \in N[d.filing].people
    /\ d.what = "place" =>
          /\ d.new = N[d.filing].place /\ d.old # d.new
          /\ \E i \in 1..(d.filing - 1) : N[i].place = d.old

News(S, F, N) ==
    \A d \in S :
        /\ d.what \in Part => OnForms(d, F)
        /\ d.what \notin Part \cup {"filing", "office"} => d.filing \in 1..Len(N) /\ OnNotice(d, N)

\* More has been filed in G than in F.
Longer(F, G) ==
    /\ Len(F) \in Nat /\ Len(G) \in Nat /\ Len(F) <= Len(G)
    /\ DOMAIN F = 1..Len(F) /\ DOMAIN G = 1..Len(G)
    /\ \A i \in 1..Len(F) : G[i] = F[i]

LEMMA LongerAsItIs ==
    ASSUME NEW S, NEW F \in Seq(S)
    PROVE  Longer(F, F) /\ \A x \in S : Longer(F, Append(F, x))
BY DEF Longer

LEMMA ReadingLater ==
    ASSUME NEW F, NEW G, Longer(F, G), NEW s, AReading(s, F)
    PROVE  AReading(s, G)
<1>1. \A part, has : Filed(part, has, F) => Filed(part, has, G)
  BY DEF Filed, Longer
<1>2. QED
  BY <1>1 DEF AReading

LEMMA ListLater ==
    ASSUME NEW N, NEW M, Longer(N, M), NEW s, AList(s, N)
    PROVE  AList(s, M)
<1>1. PICK m \in 0..Len(N) : DOMAIN s.filings = Listed(m)
  BY DEF AList
<1>2. m \in 0..Len(M)
  BY DEF Longer
<1>3. ASSUME NEW i \in DOMAIN s.filings
      PROVE  s.filings[i] \in {Kept(M[i]), NotReadable}
  <2>1. i \in 1..Len(N)
    BY <1>1 DEF Listed, Longer
  <2>2. M[i] = N[i]
    BY <2>1 DEF Longer
  <2>3. QED
    BY <2>2 DEF AList
<1>4. QED
  BY <1>1, <1>2, <1>3 DEF AList

LEMMA FollowsLater ==
    ASSUME NEW F, NEW G, Longer(F, G), NEW part, NEW old, NEW new, Follows(part, old, new, F)
    PROVE  Follows(part, old, new, G)
<1>1. CASE old[part].has = new[part].has
  BY <1>1 DEF Follows
<1>2. CASE old[part].has # new[part].has
  <2>1. PICK j \in DOMAIN F : \E i \in 1..(j - 1) :
           old[part].has = F[i][part] /\ new[part].has = F[j][part]
    BY <1>2 DEF Follows
  <2> PICK i \in 1..(j - 1) : old[part].has = F[i][part] /\ new[part].has = F[j][part]
    BY <2>1
  <2>2. j \in 1..Len(F) /\ i \in 1..Len(F) /\ j \in DOMAIN G
    BY DEF Longer
  <2>3. G[i] = F[i] /\ G[j] = F[j]
    BY <2>2 DEF Longer
  <2>4. QED
    BY <2>2, <2>3 DEF Follows
<1>3. QED
  BY <1>1, <1>2

LEMMA NewsLater ==
    ASSUME NEW F, NEW G, Longer(F, G), NEW N, NEW M, Longer(N, M), NEW S, News(S, F, N)
    PROVE  News(S, G, M)
<1>1. ASSUME NEW d \in S, d.what \in Part
      PROVE  OnForms(d, G)
  <2>1. PICK j \in DOMAIN F : \E i \in 1..(j - 1) :
           LET was == F[i][d.what][d.which]
               is  == F[j][d.what][d.which]
           IN is = d.new /\ was # is /\ d.old \in {was, None}
    BY <1>1 DEF News, OnForms
  <2> PICK i \in 1..(j - 1) :
           LET was == F[i][d.what][d.which]
               is  == F[j][d.what][d.which]
           IN is = d.new /\ was # is /\ d.old \in {was, None}
    BY <2>1
  <2>2. j \in 1..Len(F) /\ i \in 1..Len(F) /\ j \in DOMAIN G
    BY DEF Longer
  <2>3. G[i] = F[i] /\ G[j] = F[j]
    BY <2>2 DEF Longer
  <2>4. QED
    BY <2>2, <2>3 DEF OnForms
<1>2. ASSUME NEW d \in S, d.what \notin Part \cup {"filing", "office"}
      PROVE  d.filing \in 1..Len(M) /\ OnNotice(d, M)
  <2>1. d.filing \in 1..Len(N) /\ OnNotice(d, N)
    BY <1>2 DEF News
  <2>2. \A i \in 1..d.filing : M[i] = N[i]
    BY <2>1 DEF Longer
  <2>3. M[d.filing] = N[d.filing]
    BY <2>1, <2>2
  <2>4. \A i \in 1..(d.filing - 1) : M[i] = N[i]
    BY <2>1, <2>2
  <2>5. d.filing \in 1..Len(M)
    BY <2>1 DEF Longer
  <2>6. QED
    BY <2>1, <2>3, <2>4, <2>5 DEF OnNotice
<1>3. QED
  BY <1>1, <1>2 DEF News

LEMMA RecordIsAReading ==
    ASSUME NEW form \in Form, NEW F
    PROVE  AReading(FromRecord(form), F) /\ FromRecord(form).version = Unread
<1>1. form.day \in Nat /\ form.office \in Office
  BY DEF Form
<1>2. NoFunds \in FundsOf /\ NoOwners \in OwnersOf
  BY DEF NoFunds, NoOwners, FundsOf, OwnersOf
<1>3. Short(NoFunds) \in [read : BOOLEAN, has : FundsOf]
      /\ Short(NoOwners) \in [read : BOOLEAN, has : OwnersOf]
  BY <1>2 DEF Short
<1>4. FromRecord(form) \in Snapshot
  BY <1>1, <1>3 DEF FromRecord, Snapshot
<1>5. QED
  BY <1>4 DEF FromRecord, AReading, Reader, Unread

\* A form not read again: the reading stored stays what it was.
LEMMA SameReading ==
    ASSUME NEW F, NEW s, AReading(s, F), NEW t \in Snapshot,
           t.version = s.version, t.fund = s.fund, t.owner = s.owner
    PROVE  /\ AReading(t, F)
           /\ \A part \in Part : Follows(part, s, t, F)
<1>1. \A part \in Part : t[part] = s[part]
  BY DEF Part
<1>2. QED
  BY <1>1 DEF AReading, Follows

LEMMA CarriedIsAReading ==
    ASSUME NEW F, NEW s, AReading(s, F), NEW snap \in Snapshot, IsUnchanged(s, snap)
    PROVE  /\ AReading(Carried(s, snap), F) /\ Carried(s, snap).version # Unread
           /\ \A part \in Part : Follows(part, s, Carried(s, snap), F)
<1> DEFINE t == Carried(s, snap)
<1>1. s \in Snapshot
  BY DEF AReading
<1>2. t \in Snapshot /\ t.version = s.version /\ t.fund = s.fund /\ t.owner = s.owner
  BY <1>1 DEF Snapshot, Carried
<1>3. t.version # Unread
  BY <1>2 DEF IsUnchanged, Reader, Unread
<1> HIDE DEF t
<1>4. AReading(t, F) /\ \A part \in Part : Follows(part, s, t, F)
  BY <1>2, SameReading
<1>5. QED
  BY <1>3, <1>4 DEF t

LEMMA KeptIsAReading ==
    ASSUME NEW F, NEW s, ARow(s, F), NEW snap, AReading(snap, F), snap.version = Unread
    PROVE  LET t == KeepLastReading(s, snap)
           IN /\ AReading(t, F)
              /\ t.version = Unread => s = None \/ ~s.fund.read
              /\ s # None => \A part \in Part : Compares(part, s, t) => Follows(part, s, t, F)
<1> DEFINE t == KeepLastReading(s, snap)
<1>1. CASE s # None /\ s.fund.read
  <2>1. AReading(s, F) /\ s \in Snapshot /\ snap \in Snapshot
    BY <1>1 DEF ARow, AReading
  <2>2. t = [s EXCEPT !.office = snap.office]
    BY <1>1 DEF KeepLastReading
  <2>3. t \in Snapshot /\ t.version = s.version /\ t.fund = s.fund /\ t.owner = s.owner
    BY <2>1, <2>2 DEF Snapshot
  <2> HIDE DEF t
  <2>4. AReading(t, F) /\ \A part \in Part : Follows(part, s, t, F)
    BY <2>1, <2>3, SameReading
  <2>5. t.version # Unread
    <3>1. s.version # Unread
      BY <1>1, <2>1 DEF AReading, Short
    <3>2. QED
      BY <2>3, <3>1
  <2>6. QED
    BY <2>4, <2>5 DEF t
<1>2. CASE ~(s # None /\ s.fund.read)
  <2>1. t = snap
    BY <1>2 DEF KeepLastReading
  <2>2. \A part \in Part : ~snap[part].read
    BY DEF AReading, Part, Short
  <2>3. QED
    BY <1>2, <2>1, <2>2 DEF Compares
<1>3. QED
  BY <1>1, <1>2

LEMMA FormIsAReading ==
    ASSUME NEW F \in Seq(Form), F # <<>>, NEW s, ARow(s, F), NEW snap \in Snapshot,
           NEW funds \in FundsFound(LastOf(F)), NEW owners \in OwnersFound(LastOf(F))
    PROVE  LET t == WithForm(snap, funds, owners)
           IN /\ AReading(t, F) /\ t.version = Reader
              /\ s # None => \A part \in Part : Compares(part, s, t) => Follows(part, s, t, F)
<1> DEFINE t == WithForm(snap, funds, owners)
           form == LastOf(F)
<1>1. Len(F) \in DOMAIN F /\ Len(F) \in Nat /\ form \in Form /\ F[Len(F)] = form
      /\ DOMAIN F = 1..Len(F)
  BY DEF LastOf
<1> HIDE DEF form
<1>2. form.fund \in FundsOf /\ form.owner \in OwnersOf
  BY <1>1 DEF Form
<1>3. funds \in [read : BOOLEAN, has : FundsOf] /\ (funds.read => funds.has = form.fund)
  <2>1. PICK held \in FundsOf :
           funds = IF held = form.fund THEN Read(held) ELSE Short(held)
    BY DEF FundsFound, form
  <2>2. QED
    BY <2>1 DEF Read, Short
<1>4. owners \in [read : BOOLEAN, has : OwnersOf] /\ (owners.read => owners.has = form.owner)
  <2>1. owners = Read(form.owner) \/ owners = Short(NoOwners)
    BY DEF OwnersFound, form
  <2>2. NoOwners \in OwnersOf
    BY DEF NoOwners, OwnersOf
  <2>3. CASE owners = Read(form.owner)
    <3>1. owners = [read |-> TRUE, has |-> form.owner]
      BY <2>3 DEF Read
    <3>2. QED
      BY <1>2, <3>1
  <2>4. CASE owners = Short(NoOwners)
    <3>1. owners = [read |-> FALSE, has |-> NoOwners]
      BY <2>4 DEF Short
    <3>2. QED
      BY <2>2, <3>1
  <2>5. QED
    BY <2>1, <2>3, <2>4
<1>5. t \in Snapshot /\ t.version = Reader /\ t.fund = funds /\ t.owner = owners
  BY <1>3, <1>4 DEF WithForm, Snapshot, Reader
<1> HIDE DEF t
<1>6. \A part \in Part : t[part].read => t[part].has = F[Len(F)][part]
  BY <1>1, <1>3, <1>4, <1>5 DEF Part
<1>7. AReading(t, F)
  <2>1. \A part \in Part : t[part].read => Filed(part, t[part].has, F)
    BY <1>1, <1>6 DEF Filed
  <2>2. QED
    BY <1>5, <2>1 DEF AReading, Reader, Unread
<1>8. ASSUME s # None, NEW part \in Part, Compares(part, s, t)
      PROVE  Follows(part, s, t, F)
  <2>1. s.version = Reader /\ s[part].read /\ t[part].read
    BY <1>5, <1>8 DEF Compares
  <2>2. PICK i \in DOMAIN F : s[part].has = F[i][part]
    BY <1>8, <2>1 DEF ARow, AReading, Filed
  <2>3. CASE i = Len(F)
    BY <1>6, <2>1, <2>2, <2>3 DEF Follows
  <2>4. CASE i # Len(F)
    <3>1. i \in 1..(Len(F) - 1)
      BY <1>1, <2>4
    <3>2. QED
      BY <1>1, <1>6, <2>1, <2>2, <3>1 DEF Follows
  <2>5. QED
    BY <2>3, <2>4
<1>9. QED
  BY <1>5, <1>7, <1>8 DEF t

LEMMA AdviserNews ==
    ASSUME NEW F, NEW N, NEW old, NEW new,
           old # None =>
             \A part \in Part : Compares(part, old, new) => Follows(part, old, new, F)
    PROVE  News(AdviserChanges(old, new), F, N)
<1>1. SUFFICES ASSUME NEW d \in AdviserChanges(old, new)
               PROVE  /\ d.what \in Part => OnForms(d, F)
                      /\ d.what \notin Part \cup {"filing", "office"} =>
                            d.filing \in 1..Len(N) /\ OnNotice(d, N)
  BY Zenon DEF News
<1>2. old # None
  BY <1>1 DEF AdviserChanges
<1>3. CASE d = Difference("filing", None, old.day, new.day)
           \/ d = Difference("office", None, old.office, new.office)
  BY <1>3 DEF Difference, Part
<1>4. ASSUME NEW part \in Part, Compares(part, old, new),
             d \in Differences(part, old[part].has, new[part].has)
      PROVE  d.what = part /\ OnForms(d, F)
  <2> DEFINE before == old[part].has
             after  == new[part].has
  <2>1. PICK x \in DOMAIN before :
           /\ before[x] # after[x]
           /\ d = Difference(part, x, IF part = "fund" /\ after[x] = Absent
                                      THEN None ELSE before[x], after[x])
    BY <1>4 DEF Differences
  <2>2. /\ d.what = part /\ d.which = x /\ d.new = after[x]
        /\ d.old \in {before[x], None}
    BY <2>1 DEF Difference
  <2>3. before # after
    BY <2>1
  <2>4. PICK j \in DOMAIN F : \E i \in 1..(j - 1) : before = F[i][part] /\ after = F[j][part]
    BY <1>2, <1>4, <2>3 DEF Follows
  <2>5. PICK i \in 1..(j - 1) : before = F[i][part] /\ after = F[j][part]
    BY <2>4
  <2>6. /\ F[j][d.what][d.which] = d.new /\ F[i][d.what][d.which] # F[j][d.what][d.which]
        /\ d.old \in {F[i][d.what][d.which], None}
    BY <2>1, <2>2, <2>5
  <2>7. QED
    BY <2>2, <2>6, Zenon DEF OnForms
<1>5. \/ d = Difference("filing", None, old.day, new.day)
      \/ d = Difference("office", None, old.office, new.office)
      \/ \E part \in Part : /\ Compares(part, old, new)
                            /\ d \in Differences(part, old[part].has, new[part].has)
  BY <1>1, <1>2 DEF AdviserChanges
<1>6. QED
  BY <1>3, <1>4, <1>5

LEMMA NewestIsThere ==
    ASSUME NEW S \in SUBSET Nat, S # {}, NEW n \in Nat, \A d \in S : d <= n
    PROVE  Newest(S) \in S
<1>1. \E m \in S : \A e \in S : e <= m
  BY LastDayRead
<1>2. QED
  BY <1>1, Zenon DEF Newest

\* A list never gives a document older than one it gave before.
LEMMA ListedLater ==
    ASSUME NEW m \in Nat, NEW n \in Nat, m <= n,
           NEW i \in Listed(n) \ Listed(m), NEW j \in Listed(m)
    PROVE  j < i
BY FormDAssumption DEF Listed

LEMMA FilingsAreAList ==
    ASSUME NEW N \in Seq(Notice), NEW old, AList(old, N),
           NEW listed \in {Listed(Len(N)), {}}, NEW failed
    PROVE  LET new == Looked(Filings(old.filings, N, listed, failed))
           IN /\ AList(new, N) /\ new.looked
              /\ \A i \in DOMAIN new.filings \ DOMAIN old.filings :
                    \A j \in DOMAIN old.filings : j < i
<1> DEFINE new == Looked(Filings(old.filings, N, listed, failed))
<1>1. /\ new.looked /\ new.filings = Filings(old.filings, N, listed, failed)
      /\ DOMAIN new.filings = listed
  BY DEF Looked, Filings
<1>2. Len(N) \in Nat
  OBVIOUS
<1>3. Listed(0) = {}
  BY DEF Listed
<1> HIDE DEF new
<1>4. \E m \in 0..Len(N) : DOMAIN new.filings = Listed(m)
  BY <1>1, <1>2, <1>3
<1>5. ASSUME NEW i \in DOMAIN new.filings
      PROVE  new.filings[i] \in {Kept(N[i]), NotReadable}
  <2>1. CASE i \in AlreadyRead(old.filings)
    <3>1. i \in DOMAIN old.filings /\ new.filings[i] = old.filings[i]
      BY <1>1, <1>5, <2>1 DEF Filings, AlreadyRead
    <3>2. QED
      BY <3>1 DEF AList
  <2>2. CASE i \notin AlreadyRead(old.filings)
    BY <1>1, <1>5, <2>2 DEF Filings
  <2>3. QED
    BY <2>1, <2>2
<1>6. ASSUME NEW i \in DOMAIN new.filings \ DOMAIN old.filings, NEW j \in DOMAIN old.filings
      PROVE  j < i
  <2>1. PICK m \in 0..Len(N) : DOMAIN old.filings = Listed(m)
    BY DEF AList
  <2>2. listed = Listed(Len(N))
    BY <1>1, <1>6
  <2>3. QED
    BY <1>1, <1>2, <1>6, <2>1, <2>2, ListedLater
<1>7. QED
  BY <1>1, <1>4, <1>5, <1>6 DEF new, AList

LEMMA KeptSays == \A n : Kept(n).people = n.people /\ Kept(n).place = n.place
BY DEF Kept

LEMMA IssuerNews ==
    ASSUME NEW F, NEW N \in Seq(Notice), NEW old, AList(old, N), NEW new, AList(new, N),
           \A i \in DOMAIN new.filings \ DOMAIN old.filings :
               \A j \in DOMAIN old.filings : j < i
    PROVE  News(IssuerChanges(old, new), F, N)
<1> DEFINE fresh == DOMAIN new.filings \ DOMAIN old.filings
           earlier(i) == {j \in fresh : new.filings[j].readOk /\ j < i}
           before(i) == IF earlier(i) # {} THEN new.filings[Newest(earlier(i))]
                        ELSE old.filings[Newest(DOMAIN old.filings)]
           had(i) == DOMAIN old.filings # {} \/ earlier(i) # {}
<1>1. DOMAIN new.filings \subseteq 1..Len(N) /\ DOMAIN old.filings \subseteq 1..Len(N)
      /\ Len(N) \in Nat
  BY DEF AList, Listed
<1>2. \A i \in DOMAIN new.filings : new.filings[i].readOk => new.filings[i] = Kept(N[i])
  BY DEF AList, NotReadable
<1>3. \A i \in DOMAIN old.filings : old.filings[i].readOk => old.filings[i] = Kept(N[i])
  BY DEF AList, NotReadable
<1>4. ASSUME NEW i \in fresh, had(i), before(i).readOk
      PROVE  \E j \in 1..(i - 1) : before(i).place = N[j].place
  <2>1. CASE earlier(i) # {}
    <3>1. Newest(earlier(i)) \in earlier(i)
      <4>1. earlier(i) \in SUBSET Nat /\ i \in Nat /\ \A d \in earlier(i) : d <= i
        BY <1>1
      <4>2. QED
        BY <2>1, <4>1, NewestIsThere
    <3>2. before(i) = Kept(N[Newest(earlier(i))])
      BY <1>2, <2>1, <3>1
    <3>3. Newest(earlier(i)) \in 1..(i - 1)
      BY <1>1, <3>1
    <3>4. before(i).place = N[Newest(earlier(i))].place
      BY <3>2, KeptSays, Zenon
    <3> HIDE DEF before, earlier
    <3>5. QED
      BY <3>3, <3>4
  <2>2. CASE earlier(i) = {}
    <3>1. Newest(DOMAIN old.filings) \in DOMAIN old.filings
      <4>1. DOMAIN old.filings # {}
        BY <1>4, <2>2
      <4>2. DOMAIN old.filings \in SUBSET Nat /\ \A d \in DOMAIN old.filings : d <= Len(N)
        BY <1>1
      <4>3. QED
        BY <1>1, <4>1, <4>2, NewestIsThere
    <3>2. before(i) = Kept(N[Newest(DOMAIN old.filings)])
      BY <1>3, <1>4, <2>2, <3>1
    <3>3. Newest(DOMAIN old.filings) \in 1..(i - 1)
      BY <1>1, <3>1
    <3>4. before(i).place = N[Newest(DOMAIN old.filings)].place
      BY <3>2, KeptSays, Zenon
    <3> HIDE DEF before, earlier
    <3>5. QED
      BY <3>3, <3>4
  <2>3. QED
    BY <2>1, <2>2
<1>5. SUFFICES ASSUME NEW d \in IssuerChanges(old, new)
               PROVE  /\ d.what \notin Part \cup {"filing", "office"}
                      /\ d.filing \in 1..Len(N) /\ OnNotice(d, N)
  BY DEF News
<1>6. PICK i \in fresh : d \in FilingChanges(old.filings, new.filings, fresh, i)
  BY <1>5 DEF IssuerChanges
<1>7. i \in 1..Len(N)
  BY <1>1
<1>8. CASE d = [what |-> "unread", filing |-> i] \/ d = [what |-> "raise", filing |-> i]
  BY <1>7, <1>8 DEF Part, OnNotice
<1>9. CASE \E p \in new.filings[i].people :
              new.filings[i].readOk /\ d = [what |-> "person", filing |-> i, who |-> p]
  <2>1. new.filings[i].people = N[i].people
    BY <1>2, <1>9, KeptSays
  <2>2. QED
    BY <1>7, <1>9, <2>1 DEF Part, OnNotice
<1>10. CASE /\ new.filings[i].readOk /\ had(i) /\ before(i).readOk
            /\ before(i).place # new.filings[i].place
            /\ d = [what |-> "place", filing |-> i, old |-> before(i).place,
                    new |-> new.filings[i].place]
  <2>1. new.filings[i].place = N[i].place
    BY <1>2, <1>10, KeptSays
  <2>2. PICK j \in 1..(i - 1) : before(i).place = N[j].place
    BY <1>4, <1>10
  <2> HIDE DEF before
  <2>3. /\ d.what = "place" /\ d.filing = i /\ d.new = N[i].place /\ d.old = before(i).place
        /\ d.old # d.new
    BY <1>10, <2>1
  <2>4. QED
    BY <1>7, <2>2, <2>3 DEF Part, OnNotice
<1>11. QED
  <2> HIDE DEF fresh
  <2>1. \/ d = [what |-> "unread", filing |-> i] \/ d = [what |-> "raise", filing |-> i]
        \/ \E p \in new.filings[i].people :
              new.filings[i].readOk /\ d = [what |-> "person", filing |-> i, who |-> p]
        \/ /\ new.filings[i].readOk /\ had(i) /\ before(i).readOk
           /\ before(i).place # new.filings[i].place
           /\ d = [what |-> "place", filing |-> i, old |-> before(i).place,
                   new |-> new.filings[i].place]
    BY <1>6, Zenon DEF FilingChanges
  <2>2. QED
    BY <1>8, <1>9, <1>10, <2>1

----------------------------------------------------------------------------
(* What the news T, told or about to be, says of what changed since a      *)
(* baseline.                                                               *)

PartTold(part, s, base, T) ==
    s = None \/ base[part] = None \/ ~s[part].read \/
        \A x \in DOMAIN base[part] :
            base[part][x] # s[part].has[x] =>
                \E d \in T : d.what = part /\ d.which = x /\ d.new = s[part].has[x]
FilingsTold(s, base, T) ==
    base["filing"] # None =>
        \A i \in DOMAIN s.filings \ base["filing"] :
            \E d \in T : d.what \in {"raise", "unread"} /\ d.filing = i

\* There is a baseline only of what this version of the reader read in full.
Baselined(s, base) ==
    \A part \in Part :
        base[part] # None => /\ s # None /\ s.version = Reader /\ s[part].read
                             /\ DOMAIN base[part] = DOMAIN s[part].has

LEMMA ToldLater ==
    ASSUME NEW T, NEW U, T \subseteq U, NEW s, NEW base
    PROVE  /\ \A part : PartTold(part, s, base, T) => PartTold(part, s, base, U)
           /\ FilingsTold(s, base, T) => FilingsTold(s, base, U)
BY DEF PartTold, FilingsTold

LEMMA AdviserTells ==
    ASSUME NEW s, s # None, NEW t, NEW base, NEW T, NEW part \in Part,
           base[part] # None, Compares(part, s, t),
           PartTold(part, s, base, T),
           DOMAIN s[part].has = DOMAIN base[part]
    PROVE  PartTold(part, t, base, T \cup AdviserChanges(s, t))
<1>1. s[part].read /\ t[part].read
  BY DEF Compares
<1>2. SUFFICES ASSUME NEW x \in DOMAIN base[part], base[part][x] # t[part].has[x]
               PROVE  \E d \in T \cup AdviserChanges(s, t) :
                         d.what = part /\ d.which = x /\ d.new = t[part].has[x]
  BY DEF PartTold
<1>3. CASE s[part].has[x] = t[part].has[x]
  BY <1>1, <1>2, <1>3 DEF PartTold
<1>4. CASE s[part].has[x] # t[part].has[x]
  <2> DEFINE d == Difference(part, x,
                    IF part = "fund" /\ t[part].has[x] = Absent THEN None
                    ELSE s[part].has[x], t[part].has[x])
  <2>1. d \in Differences(part, s[part].has, t[part].has)
    BY <1>2, <1>4 DEF Differences
  <2>2. d \in AdviserChanges(s, t)
    BY <2>1 DEF AdviserChanges
  <2>3. d.what = part /\ d.which = x /\ d.new = t[part].has[x]
    BY DEF Difference
  <2>4. QED
    BY <2>2, <2>3
<1>5. QED
  BY <1>3, <1>4

LEMMA IssuerTells ==
    ASSUME NEW s, NEW t, NEW base, NEW T, s.looked, FilingsTold(s, base, T)
    PROVE  FilingsTold(t, base, T \cup IssuerChanges(s, t))
<1> DEFINE fresh == DOMAIN t.filings \ DOMAIN s.filings
<1>1. SUFFICES ASSUME base["filing"] # None, NEW i \in DOMAIN t.filings \ base["filing"]
               PROVE  \E d \in T \cup IssuerChanges(s, t) :
                         d.what \in {"raise", "unread"} /\ d.filing = i
  BY DEF FilingsTold
<1>2. CASE i \in DOMAIN s.filings
  BY <1>1, <1>2 DEF FilingsTold
<1>3. CASE i \notin DOMAIN s.filings
  <2>1. i \in fresh
    BY <1>1, <1>3
  <2>2. \/ [what |-> "unread", filing |-> i] \in FilingChanges(s.filings, t.filings, fresh, i)
        \/ [what |-> "raise", filing |-> i] \in FilingChanges(s.filings, t.filings, fresh, i)
    <3> HIDE DEF fresh
    <3>1. QED
      BY Zenon DEF FilingChanges
  <2>3. FilingChanges(s.filings, t.filings, fresh, i) \subseteq IssuerChanges(s, t)
    BY <2>1 DEF IssuerChanges
  <2>4. \/ [what |-> "unread", filing |-> i] \in IssuerChanges(s, t)
        \/ [what |-> "raise", filing |-> i] \in IssuerChanges(s, t)
    BY <2>2, <2>3
  <2>5. QED
    BY <2>4
<1>4. QED
  BY <1>2, <1>3

----------------------------------------------------------------------------
(* What the rows and the checks hold at every moment.                      *)

OfFirm(p, F) ==
    /\ ARow(p.previous, F) /\ Baselined(p.previous, p.base)
    /\ p.at = "reading" => AReading(p.current, F) /\ p.current.version = Unread
    /\ p.at = "save" =>
        /\ AReading(p.current, F)
        /\ p.current.version = Unread => p.previous = None \/ ~p.previous.fund.read
        /\ p.previous # None =>
              \A part \in Part : Compares(part, p.previous, p.current) =>
                                    Follows(part, p.previous, p.current, F)

OfCompany(p, N) ==
    /\ AList(p.previous, N)
    /\ p.base["filing"] # None => p.previous.looked
    /\ p.at = "save" =>
        /\ AList(p.current, N) /\ p.current.looked
        /\ \A i \in DOMAIN p.current.filings \ DOMAIN p.previous.filings :
              \A j \in DOMAIN p.previous.filings : j < i

Shaped(p) ==
    p \in [at : {p.at}, previous : {p.previous}, current : {p.current},
           changes : {p.changes}, base : {p.base}]

\* A check of a firm's forms F or a company's notices N.
ProcFit(p, F, N, of) ==
    \/ p = Idle
    \/ /\ Shaped(p)
       /\ \/ p.at = "tell" /\ News(p.changes, F, N)
          \/ p.at \in {"asking", "reading", "save"} /\ of = "firm" /\ OfFirm(p, F)
          \/ p.at \in {"asking", "save"} /\ of = "company" /\ OfCompany(p, N)

RowsFit(a, d, base, F, N, of) ==
    /\ ARow(a, F) /\ AList(d, N)
    /\ of # "company" => d = NoSnapshot
    /\ of = "firm" => Baselined(a, base)
    /\ of = "company" /\ base["filing"] # None => d.looked

Bounded ==
    /\ checks \in Nat /\ checks <= MaxChecks
    /\ filings \in Nat /\ filings <= MaxFilings
    /\ faults \in Nat /\ faults <= MaxFaults

FormsFit ==
    /\ forms \in Seq(Form) /\ forms # <<>> /\ notices \in Seq(Notice)
    /\ subject \in Subject
    /\ RowsFit(adv, formd, first, forms, notices, subject)
    /\ News(told, forms, notices)
    /\ DOMAIN proc = Checker
    /\ \A c \in Checker : ProcFit(proc[c], forms, notices, subject)
    /\ Bounded

LEMMA Held ==
    ASSUME NEW at, NEW a, NEW b, NEW s, NEW base
    PROVE  LET p == Holding(at, a, b, s, base)
           IN Shaped(p) /\ p.at = at /\ p.previous = a /\ p.current = b
              /\ p.changes = s /\ p.base = base
BY DEF Holding, Shaped

LEMMA IdleIsNoCheck ==
    ASSUME NEW at, NEW a, NEW b, NEW s, NEW base, at # "idle"
    PROVE  Holding(at, a, b, s, base) # Idle
<1>1. Holding(at, a, b, s, base).at = at /\ Idle.at = "idle"
  BY DEF Holding, Idle
<1>2. QED
  BY <1>1

LEMMA ProcLater ==
    ASSUME NEW F, NEW G, Longer(F, G), NEW N, NEW M, Longer(N, M), NEW of,
           NEW p, ProcFit(p, F, N, of)
    PROVE  ProcFit(p, G, M, of)
<1>1. \A s : ARow(s, F) => ARow(s, G)
  BY ReadingLater DEF ARow
<1>2. OfFirm(p, F) => OfFirm(p, G)
  BY <1>1, ReadingLater, FollowsLater DEF OfFirm
<1>3. OfCompany(p, N) => OfCompany(p, M)
  BY ListLater DEF OfCompany
<1>4. \A S : News(S, F, N) => News(S, G, M)
  BY NewsLater
<1>5. QED
  BY <1>2, <1>3, <1>4 DEF ProcFit

LEMMA RowsLater ==
    ASSUME NEW F, NEW G, Longer(F, G), NEW N, NEW M, Longer(N, M), NEW of,
           NEW a, NEW d, NEW base, RowsFit(a, d, base, F, N, of)
    PROVE  RowsFit(a, d, base, G, M, of)
BY ReadingLater, ListLater DEF RowsFit, ARow

\* What a step of one check must leave fit.
LEMMA CheckFits ==
    ASSUME FormsFit, NEW c \in Checker, proc' = [proc EXCEPT ![c] = proc'[c]],
           UNCHANGED <<forms, notices, subject>>,
           RowsFit(adv', formd', first', forms, notices, subject),
           News(told', forms, notices),
           ProcFit(proc'[c], forms, notices, subject), Bounded'
    PROVE  FormsFit'
<1>1. DOMAIN proc' = Checker
  BY DEF FormsFit
<1>2. \A d \in Checker : ProcFit(proc'[d], forms, notices, subject)
  <2>1. SUFFICES ASSUME NEW d \in Checker PROVE ProcFit(proc'[d], forms, notices, subject)
    OBVIOUS
  <2>2. CASE d = c
    BY <2>2
  <2>3. CASE d # c
    <3>1. proc'[d] = proc[d]
      BY <2>3 DEF FormsFit
    <3>2. QED
      BY <3>1 DEF FormsFit
  <2>4. QED
    BY <2>2, <2>3
<1>3. QED
  BY <1>1, <1>2 DEF FormsFit

LEMMA FileFormFits ==
    ASSUME FormsFit, FileForm
    PROVE  FormsFit'
<1>1. PICK form \in Amended(LastOf(forms)), later \in 0..1 :
         forms' = Append(forms, [form EXCEPT !.day = @ + later])
  BY DEF FileForm
<1>2. LastOf(forms) \in Form
  BY DEF LastOf, FormsFit
<1>3. form \in Form
  BY <1>2 DEF Amended, Form, FundsOf, OwnersOf
<1>4. [form EXCEPT !.day = @ + later] \in Form
  BY <1>3 DEF Form
<1>5. forms' \in Seq(Form) /\ forms' # <<>> /\ Longer(forms, forms')
  BY <1>1, <1>4, LongerAsItIs DEF FormsFit
<1>6. Longer(notices, notices)
  BY LongerAsItIs DEF FormsFit
<1>7. UNCHANGED <<notices, adv, formd, told, subject, proc, first, checks, faults>>
  BY DEF FileForm
<1>8. RowsFit(adv, formd, first, forms', notices, subject)
  BY <1>5, <1>6, RowsLater DEF FormsFit
<1>9. News(told, forms', notices)
  BY <1>5, <1>6, NewsLater DEF FormsFit
<1>10. \A c \in Checker : ProcFit(proc[c], forms', notices, subject)
  BY <1>5, <1>6, ProcLater DEF FormsFit
<1>11. Bounded'
  BY FormsAssumption DEF FormsFit, Bounded, FileForm
<1>12. QED
  BY <1>5, <1>7, <1>8, <1>9, <1>10, <1>11 DEF FormsFit

LEMMA FileNoticeFits ==
    ASSUME FormsFit, FileNotice
    PROVE  FormsFit'
<1>1. PICK notice \in Notice : notices' = Append(notices, notice)
  BY DEF FileNotice
<1>2. notices' \in Seq(Notice) /\ Longer(notices, notices')
  BY <1>1, LongerAsItIs DEF FormsFit
<1>3. Longer(forms, forms)
  BY LongerAsItIs DEF FormsFit
<1>4. UNCHANGED <<forms, adv, formd, told, subject, proc, first, checks, faults>>
  BY DEF FileNotice
<1>5. RowsFit(adv, formd, first, forms, notices', subject)
  BY <1>2, <1>3, RowsLater DEF FormsFit
<1>6. News(told, forms, notices')
  BY <1>2, <1>3, NewsLater DEF FormsFit
<1>7. \A c \in Checker : ProcFit(proc[c], forms, notices', subject)
  BY <1>2, <1>3, ProcLater DEF FormsFit
<1>8. Bounded'
  BY FormsAssumption DEF FormsFit, Bounded, FileNotice
<1>9. QED
  BY <1>2, <1>4, <1>5, <1>6, <1>7, <1>8 DEF FormsFit

LEMMA ACheckIs ==
    ASSUME NEW p, NEW F, NEW N, NEW of, ProcFit(p, F, N, of), p.at # "idle"
    PROVE  /\ Shaped(p) /\ p.at \in {"asking", "reading", "save", "tell"}
           /\ p.at = "tell" => News(p.changes, F, N)
           /\ p.at = "reading" => of = "firm"
           /\ p.at # "tell" => \/ of = "firm" /\ OfFirm(p, F)
                               \/ of = "company" /\ OfCompany(p, N)
<1>1. p # Idle
  BY DEF Idle
<1>2. QED
  BY <1>1 DEF ProcFit

LEMMA StartFits ==
    ASSUME FormsFit, NEW c \in Checker, Start(c)
    PROVE  FormsFit'
<1> DEFINE q == Holding("asking", Stored, None, {}, first)
<1>1. /\ proc' = [proc EXCEPT ![c] = q] /\ UNCHANGED <<forms, notices, subject, filings>>
      /\ UNCHANGED <<adv, formd, told, first, faults>> /\ checks' = checks + 1
      /\ checks < MaxChecks /\ subject # "funds"
  BY DEF Start, Goes
<1>2. proc'[c] = q /\ proc' = [proc EXCEPT ![c] = proc'[c]]
  <2> HIDE DEF q
  <2>1. QED
    BY <1>1 DEF FormsFit
<1>3. Shaped(q) /\ q.at = "asking" /\ q.previous = Stored /\ q.base = first
  BY Held
<1> HIDE DEF q
<1>4. CASE subject = "firm"
  <2>1. OfFirm(q, forms)
    BY <1>3, <1>4 DEF OfFirm, Stored, FormsFit, RowsFit
  <2>2. QED
    BY <1>1, <1>2, <1>3, <1>4, <2>1, CheckFits, FormsAssumption
    DEF ProcFit, FormsFit, Bounded
<1>5. CASE subject = "company"
  <2>1. OfCompany(q, notices)
    BY <1>3, <1>5 DEF OfCompany, Stored, FormsFit, RowsFit
  <2>2. QED
    BY <1>1, <1>2, <1>3, <1>5, <2>1, CheckFits, FormsAssumption
    DEF ProcFit, FormsFit, Bounded
<1>6. QED
  BY <1>1, <1>4, <1>5 DEF FormsFit, Subject

\* A check that comes to its end leaves the rows as they are.
LEMMA EndFits ==
    ASSUME FormsFit, NEW c \in Checker, proc' = [proc EXCEPT ![c] = Idle],
           UNCHANGED <<forms, notices, subject, adv, formd, first>>,
           News(told', forms, notices), Bounded'
    PROVE  FormsFit'
<1>1. proc'[c] = Idle /\ proc' = [proc EXCEPT ![c] = proc'[c]]
  BY DEF FormsFit
<1>2. ProcFit(proc'[c], forms, notices, subject)
  BY <1>1 DEF ProcFit
<1>3. RowsFit(adv', formd', first', forms, notices, subject)
  BY DEF FormsFit
<1>4. QED
  BY <1>1, <1>2, <1>3, CheckFits

LEMMA UnavailableFits ==
    ASSUME FormsFit, NEW c \in Checker, Unavailable(c)
    PROVE  FormsFit'
<1>1. News(told', forms, notices)
  BY DEF FormsFit, Unavailable
<1>2. Bounded'
  BY FormsAssumption DEF FormsFit, Bounded, Unavailable, Goes
<1>3. QED
  BY <1>1, <1>2, EndFits DEF Unavailable, Goes

LEMMA DieFits ==
    ASSUME FormsFit, NEW c \in Checker, Die(c)
    PROVE  FormsFit'
<1>1. News(told', forms, notices)
  BY DEF FormsFit, Die
<1>2. Bounded'
  BY FormsAssumption DEF FormsFit, Bounded, Die, Goes
<1>3. QED
  BY <1>1, <1>2, EndFits DEF Die, Goes

LEMMA TellFits ==
    ASSUME FormsFit, NEW c \in Checker, Tell(c)
    PROVE  FormsFit'
<1>1. News(proc[c].changes, forms, notices)
  BY ACheckIs DEF FormsFit, Tell
<1>2. News(told', forms, notices)
  BY <1>1 DEF FormsFit, Tell, News
<1>3. Bounded'
  BY FormsAssumption DEF FormsFit, Bounded, Tell, Goes
<1>4. QED
  BY <1>2, <1>3, EndFits DEF Tell, Goes

\* A check that has asked, or read, goes on.
LEMMA GoesOnFits ==
    ASSUME FormsFit, NEW c \in Checker, NEW at, NEW x,
           proc' = [proc EXCEPT ![c] = [proc[c] EXCEPT !.at = at, !.current = x]],
           UNCHANGED <<forms, notices, subject, adv, formd, first, told>>, Bounded',
           \/ subject = "firm" /\ at \in {"reading", "save"}
           \/ subject = "company" /\ at = "save",
           Shaped(proc[c]),
           \A r : (/\ r.at = at /\ r.previous = proc[c].previous /\ r.base = proc[c].base
                  /\ r.current = x)
               => /\ subject = "firm" => OfFirm(r, forms)
                  /\ subject = "company" => OfCompany(r, notices)
    PROVE  FormsFit'
<1> DEFINE q == [proc[c] EXCEPT !.at = at, !.current = x]
<1>1. /\ Shaped(q) /\ q.at = at /\ q.current = x
      /\ q.previous = proc[c].previous /\ q.base = proc[c].base
  <2>1. PICK p : p = proc[c]
    OBVIOUS
  <2>2. p \in [at : {p.at}, previous : {p.previous}, current : {p.current},
               changes : {p.changes}, base : {p.base}]
    BY <2>1 DEF Shaped
  <2>3. q \in [at : {at}, previous : {p.previous}, current : {x},
               changes : {p.changes}, base : {p.base}]
    BY <2>1, <2>2
  <2> HIDE DEF q
  <2>4. q.at = at /\ q.previous = p.previous /\ q.current = x /\ q.changes = p.changes
        /\ q.base = p.base
    BY <2>3
  <2>5. Shaped(q)
    BY <2>3, <2>4 DEF Shaped
  <2>6. QED
    BY <2>1, <2>4, <2>5
<1> HIDE DEF q
<1>2. proc'[c] = q /\ proc' = [proc EXCEPT ![c] = proc'[c]]
  BY DEF FormsFit, q
<1>3. /\ subject = "firm" => OfFirm(q, forms)
      /\ subject = "company" => OfCompany(q, notices)
  BY <1>1
<1>4. ProcFit(q, forms, notices, subject)
  BY <1>1, <1>3 DEF ProcFit
<1>5. RowsFit(adv', formd', first', forms, notices, subject) /\ News(told', forms, notices)
  BY DEF FormsFit
<1>6. QED
  BY <1>2, <1>4, <1>5, CheckFits

LEMMA FirmsRecord ==
    ASSUME FormsFit
    PROVE  LET snap == FromRecord(LastOf(forms))
           IN /\ AReading(snap, forms) /\ snap.version = Unread /\ snap \in Snapshot
<1>1. LastOf(forms) \in Form
  BY DEF LastOf, FormsFit
<1>2. QED
  BY <1>1, RecordIsAReading DEF AReading

LEMMA AskFirmFits ==
    ASSUME FormsFit, NEW c \in Checker, AskFirm(c)
    PROVE  FormsFit'
<1> DEFINE snap == FromRecord(LastOf(forms))
           old == proc[c].previous
<1>1. /\ proc[c].at = "asking" /\ subject = "firm" /\ Shaped(proc[c])
      /\ OfFirm(proc[c], forms)
  BY ACheckIs DEF FormsFit, AskFirm
<1>2. AReading(snap, forms) /\ snap.version = Unread /\ snap \in Snapshot
  BY FirmsRecord
<1>3. UNCHANGED <<forms, notices, subject, adv, formd, first, told>> /\ Bounded'
  BY DEF FormsFit, Bounded, AskFirm, Goes
<1>4. CASE IsUnchanged(old, snap)
  <2> DEFINE x == Carried(old, snap)
  <2>1. proc' = [proc EXCEPT ![c] = [proc[c] EXCEPT !.at = "save", !.current = x]]
    BY <1>4 DEF AskFirm, Goes
  <2>2. AReading(old, forms)
    BY <1>1, <1>4 DEF OfFirm, ARow, IsUnchanged
  <2>3. /\ AReading(x, forms) /\ x.version # Unread
        /\ \A part \in Part : Follows(part, old, x, forms)
    BY <1>2, <1>4, <2>2, CarriedIsAReading
  <2> HIDE DEF snap, x
  <2>4. ASSUME NEW r, r.at = "save", r.previous = proc[c].previous, r.base = proc[c].base,
               r.current = x
        PROVE  OfFirm(r, forms)
    <3>1. \A part \in Part : Follows(part, r.previous, r.current, forms)
      BY <2>3, <2>4
    <3>2. QED
      BY <1>1, <2>3, <2>4, <3>1 DEF OfFirm
  <2>5. QED
    BY <1>1, <1>3, <2>1, <2>4, GoesOnFits
<1>5. CASE ~IsUnchanged(old, snap)
  <2>1. proc' = [proc EXCEPT ![c] = [proc[c] EXCEPT !.at = "reading", !.current = snap]]
    BY <1>5 DEF AskFirm, Goes
  <2> HIDE DEF snap
  <2>2. ASSUME NEW r, r.at = "reading", r.previous = proc[c].previous, r.base = proc[c].base,
               r.current = snap
        PROVE  OfFirm(r, forms)
    BY <1>1, <1>2, <2>2 DEF OfFirm
  <2>3. QED
    BY <1>1, <1>3, <2>1, <2>2, GoesOnFits
<1>6. QED
  BY <1>4, <1>5

LEMMA ReadingAForm ==
    ASSUME FormsFit, NEW c \in Checker, proc[c].at = "reading"
    PROVE  /\ subject = "firm" /\ Shaped(proc[c]) /\ OfFirm(proc[c], forms)
           /\ ARow(proc[c].previous, forms) /\ AReading(proc[c].current, forms)
           /\ proc[c].current.version = Unread /\ proc[c].current \in Snapshot
<1>1. subject = "firm" /\ Shaped(proc[c]) /\ OfFirm(proc[c], forms)
  BY ACheckIs DEF FormsFit
<1>2. QED
  BY <1>1 DEF OfFirm, AReading

LEMMA ReadFormFits ==
    ASSUME FormsFit, NEW c \in Checker, ReadForm(c)
    PROVE  FormsFit'
<1>1. PICK funds \in FundsFound(LastOf(forms)), owners \in OwnersFound(LastOf(forms)) :
         proc' = [proc EXCEPT ![c] =
                    [proc[c] EXCEPT !.at = "save", !.current = WithForm(@, funds, owners)]]
  BY DEF ReadForm, Goes
<1> DEFINE old == proc[c].previous
           x == WithForm(proc[c].current, funds, owners)
<1>2. proc' = [proc EXCEPT ![c] = [proc[c] EXCEPT !.at = "save", !.current = x]]
  BY <1>1
<1>3. UNCHANGED <<forms, notices, subject, adv, formd, first, told>> /\ Bounded'
  BY DEF FormsFit, Bounded, ReadForm, Goes
<1>4. /\ subject = "firm" /\ Shaped(proc[c]) /\ OfFirm(proc[c], forms)
      /\ ARow(old, forms) /\ proc[c].current \in Snapshot
  BY ReadingAForm DEF ReadForm
<1>5. /\ AReading(x, forms) /\ x.version = Reader
      /\ old # None => \A part \in Part : Compares(part, old, x) => Follows(part, old, x, forms)
  BY <1>4, FormIsAReading DEF FormsFit
<1> HIDE DEF x
<1>6. ASSUME NEW r, r.at = "save", r.previous = proc[c].previous, r.base = proc[c].base,
             r.current = x
      PROVE  OfFirm(r, forms)
  BY <1>4, <1>5, <1>6 DEF OfFirm, Reader, Unread
<1>7. QED
  BY <1>2, <1>3, <1>4, <1>6, GoesOnFits

LEMMA FormUnreadableFits ==
    ASSUME FormsFit, NEW c \in Checker, FormUnreadable(c)
    PROVE  FormsFit'
<1> DEFINE old == proc[c].previous
           x == KeepLastReading(old, proc[c].current)
<1>1. proc' = [proc EXCEPT ![c] = [proc[c] EXCEPT !.at = "save", !.current = x]]
  BY DEF FormUnreadable, Goes
<1>2. UNCHANGED <<forms, notices, subject, adv, formd, first, told>> /\ Bounded'
  BY FormsAssumption DEF FormsFit, Bounded, FormUnreadable, Goes
<1>3. /\ subject = "firm" /\ Shaped(proc[c]) /\ OfFirm(proc[c], forms)
      /\ ARow(old, forms) /\ AReading(proc[c].current, forms)
      /\ proc[c].current.version = Unread
  BY ReadingAForm DEF FormUnreadable
<1>4. /\ AReading(x, forms)
      /\ x.version = Unread => old = None \/ ~old.fund.read
      /\ old # None => \A part \in Part : Compares(part, old, x) => Follows(part, old, x, forms)
  BY <1>3, KeptIsAReading
<1> HIDE DEF x
<1>5. ASSUME NEW r, r.at = "save", r.previous = proc[c].previous, r.base = proc[c].base,
             r.current = x
      PROVE  OfFirm(r, forms)
  BY <1>3, <1>4, <1>5 DEF OfFirm
<1>6. QED
  BY <1>1, <1>2, <1>3, <1>5, GoesOnFits

LEMMA AskCompanyFits ==
    ASSUME FormsFit, NEW c \in Checker, AskCompany(c)
    PROVE  FormsFit'
<1> DEFINE old == proc[c].previous
<1>1. PICK listed \in {Listed(Len(notices)), {}} :
      \E failed \in SUBSET (listed \ AlreadyRead(old.filings)) :
         /\ faults' = faults + (IF listed = {} \/ failed # {} THEN 1 ELSE 0)
         /\ faults' <= MaxFaults
         /\ Goes(c, [proc[c] EXCEPT !.at = "save",
                     !.current = Looked(Filings(old.filings, notices, listed, failed))])
  BY DEF AskCompany
<1>2. PICK failed \in SUBSET (listed \ AlreadyRead(old.filings)) :
         /\ faults' = faults + (IF listed = {} \/ failed # {} THEN 1 ELSE 0)
         /\ faults' <= MaxFaults
         /\ Goes(c, [proc[c] EXCEPT !.at = "save",
                     !.current = Looked(Filings(old.filings, notices, listed, failed))])
  BY <1>1
<1> DEFINE x == Looked(Filings(old.filings, notices, listed, failed))
<1>3. proc' = [proc EXCEPT ![c] = [proc[c] EXCEPT !.at = "save", !.current = x]]
  BY <1>2 DEF Goes
<1>4. UNCHANGED <<forms, notices, subject, adv, formd, first, told, checks, filings>>
  BY DEF AskCompany, Goes
<1>5. Bounded'
  BY <1>2, <1>4 DEF FormsFit, Bounded
<1>6. /\ subject = "company" /\ Shaped(proc[c]) /\ OfCompany(proc[c], notices)
      /\ AList(old, notices)
  BY ACheckIs DEF FormsFit, AskCompany, OfCompany
<1>7. /\ AList(x, notices) /\ x.looked
      /\ \A i \in DOMAIN x.filings \ DOMAIN old.filings : \A j \in DOMAIN old.filings : j < i
  BY <1>6, FilingsAreAList DEF FormsFit
<1> HIDE DEF x
<1>8. ASSUME NEW r, r.at = "save", r.previous = proc[c].previous, r.base = proc[c].base,
             r.current = x
      PROVE  OfCompany(r, notices)
  BY <1>6, <1>7, <1>8 DEF OfCompany
<1>9. QED
  BY <1>3, <1>4, <1>5, <1>6, <1>8, GoesOnFits

LEMMA PartsOfASnapshot ==
    ASSUME NEW s \in Snapshot, NEW t \in Snapshot, NEW part \in Part
    PROVE  DOMAIN s[part].has = DOMAIN t[part].has
<1>1. s.fund.has \in FundsOf /\ t.fund.has \in FundsOf
      /\ s.owner.has \in OwnersOf /\ t.owner.has \in OwnersOf
  BY DEF Snapshot
<1>2. /\ DOMAIN s.fund.has = Fund /\ DOMAIN t.fund.has = Fund
      /\ DOMAIN s.owner.has = Owner /\ DOMAIN t.owner.has = Owner
  BY <1>1 DEF FundsOf, OwnersOf
<1>3. QED
  BY <1>2 DEF Part

\* A baseline is left only of a part that was read in full, by this version of the
\* reader; it is what was read now, or the one the check found and that is still there.
LEMMA BaselineLeft ==
    ASSUME FormsFit, subject = "firm", NEW c \in Checker, proc[c].at = "save",
           NEW part \in Part, BaselinesAfter(proc[c])[part] # None
    PROVE  LET p == proc[c]
               left == BaselinesAfter(p)[part]
           IN /\ p.current.version = Reader /\ p.current[part].read
              /\ \/ left = p.current[part].has
                 \/ left = p.base[part]
<1> DEFINE p == proc[c]
           left == BaselinesAfter(p)[part]
<1>1. /\ OfFirm(p, forms) /\ AReading(p.current, forms) /\ p.current \in Snapshot
      /\ p.current.version = Unread => p.previous = None \/ ~p.previous.fund.read
  BY ACheckIs DEF FormsFit, OfFirm, AReading
<1> HIDE DEF p
<1>2. part \in Baselines /\ part # "filing"
  BY DEF Part, Baselines
<1>3. left = IF Ends(part, p) THEN None
             ELSE IF p.current[part].read THEN Baseline(part, p, p.current[part].has)
             ELSE first[part]
  BY <1>2 DEF BaselinesAfter
<1>4. ~Ends(part, p)
  BY <1>3 DEF p
<1>5. p.current.version \in {Unread, OldReader, Reader}
  BY <1>1 DEF Snapshot
<1>6. p.current.version # OldReader
  BY <1>4 DEF Ends
<1>7. p.current[part].read
  BY <1>1, <1>4, <1>5, <1>6 DEF Ends
<1>8. p.current.version # Unread
  BY <1>1, <1>7 DEF AReading, Part, Short
<1>9. p.current.version = Reader
  BY <1>5, <1>6, <1>8
<1>10. left = p.current[part].has \/ left = p.base[part]
  BY <1>3, <1>4, <1>7 DEF Baseline
<1>11. QED
  BY <1>7, <1>9, <1>10 DEF p

\* A change just found is news.
LEMMA ChangesAreNews ==
    ASSUME FormsFit, NEW c \in Checker, proc[c].at = "save"
    PROVE  News(ChangesOf(proc[c]), forms, notices)
<1>1. CASE subject = "firm"
  <2>1. OfFirm(proc[c], forms)
    BY <1>1, ACheckIs DEF FormsFit
  <2>2. News(AdviserChanges(proc[c].previous, proc[c].current), forms, notices)
    BY <2>1, AdviserNews DEF OfFirm
  <2>3. QED
    BY <1>1, <2>2 DEF ChangesOf
<1>2. CASE subject # "firm"
  <2>1. OfCompany(proc[c], notices)
    BY <1>2, ACheckIs DEF FormsFit
  <2>2. News(IssuerChanges(proc[c].previous, proc[c].current), forms, notices)
    BY <2>1, IssuerNews DEF OfCompany, FormsFit
  <2>3. QED
    BY <1>2, <2>2 DEF ChangesOf
<1>3. QED
  BY <1>1, <1>2

LEMMA SavedRowsFit ==
    ASSUME FormsFit, NEW c \in Checker, Save(c)
    PROVE  RowsFit(adv', formd', first', forms, notices, subject)
<1> DEFINE p == proc[c]
<1>1. /\ p.at = "save" /\ first' = BaselinesAfter(p)
      /\ adv' = (IF subject = "firm" THEN p.current ELSE adv)
      /\ formd' = (IF subject = "company" THEN p.current ELSE formd)
  BY DEF Save
<1>2. CASE subject = "firm"
  <2>1. OfFirm(p, forms) /\ AReading(p.current, forms) /\ p.current \in Snapshot
    BY <1>1, <1>2, ACheckIs DEF FormsFit, OfFirm, AReading
  <2>2. adv' = p.current /\ formd' = formd /\ p.current # None
    BY <1>1, <1>2, <2>1, FormsAssumption
  <2>3. Baselined(adv', first')
    <3>1. SUFFICES ASSUME NEW part \in Part, first'[part] # None
                   PROVE  /\ p.current.version = Reader /\ p.current[part].read
                          /\ DOMAIN first'[part] = DOMAIN p.current[part].has
      BY <2>2 DEF Baselined
    <3>2. /\ p.current.version = Reader /\ p.current[part].read
          /\ first'[part] = p.current[part].has \/ first'[part] = p.base[part]
      BY <1>1, <1>2, <3>1, BaselineLeft
    <3>3. CASE first'[part] = p.base[part]
      <4>1. /\ p.previous # None /\ DOMAIN p.base[part] = DOMAIN p.previous[part].has
            /\ p.previous \in Snapshot
        BY <2>1, <3>1, <3>3 DEF OfFirm, Baselined, ARow, AReading
      <4>2. DOMAIN p.previous[part].has = DOMAIN p.current[part].has
        BY <2>1, <4>1, PartsOfASnapshot
      <4>3. QED
        BY <3>2, <3>3, <4>1, <4>2
    <3>4. QED
      BY <3>2, <3>3
  <2>4. QED
    BY <1>2, <2>1, <2>2, <2>3 DEF RowsFit, ARow, FormsFit
<1>3. CASE subject = "company"
  <2>1. OfCompany(p, notices) /\ AList(p.current, notices) /\ p.current.looked
    BY <1>1, <1>3, ACheckIs DEF FormsFit, OfCompany
  <2>2. adv' = adv /\ formd' = p.current
    BY <1>1, <1>3
  <2>3. QED
    BY <1>3, <2>1, <2>2 DEF RowsFit, FormsFit
<1>4. subject \in {"firm", "company"}
  BY <1>1, ACheckIs DEF FormsFit
<1>5. QED
  BY <1>2, <1>3, <1>4

LEMMA SaveFits ==
    ASSUME FormsFit, NEW c \in Checker, Save(c)
    PROVE  FormsFit'
<1> DEFINE changes == ChangesOf(proc[c])
           q == Holding("tell", None, None, changes, NoBaseline)
<1>1. /\ proc' = [proc EXCEPT ![c] = IF changes = {} THEN Idle ELSE q]
      /\ UNCHANGED <<forms, notices, subject, told, checks, filings, faults>>
  BY DEF Save, Goes
<1>2. RowsFit(adv', formd', first', forms, notices, subject)
  BY SavedRowsFit
<1>3. News(changes, forms, notices)
  BY ChangesAreNews DEF Save
<1>4. Shaped(q) /\ q.at = "tell" /\ q.changes = changes
  BY Held
<1> HIDE DEF changes, q
<1>5. proc'[c] = (IF changes = {} THEN Idle ELSE q) /\ proc' = [proc EXCEPT ![c] = proc'[c]]
  BY <1>1 DEF FormsFit
<1>6. ProcFit(proc'[c], forms, notices, subject)
  BY <1>3, <1>4, <1>5 DEF ProcFit
<1>7. News(told', forms, notices) /\ Bounded'
  BY <1>1 DEF FormsFit, Bounded
<1>8. QED
  BY <1>1, <1>2, <1>5, <1>6, <1>7, CheckFits

LEMMA FormsOpenFit ==
    ASSUME Init
    PROVE  FormsFit
<1>1. /\ forms = <<FirstForm>> /\ notices = <<FirstNotice>>
      /\ FirstForm \in Form /\ FirstNotice \in Notice
  BY FormsAssumption DEF Init
<1>2. forms \in Seq(Form) /\ forms # <<>> /\ notices \in Seq(Notice) /\ Len(notices) = 1
  BY <1>1
<1>3. ARow(adv, forms)
  <2>1. SUFFICES ASSUME adv # None PROVE AReading(adv, forms)
    BY DEF ARow
  <2>2. PICK funds \in OldFunds :
           adv = [day |-> FirstForm.day, office |-> FirstForm.office, version |-> OldReader,
                  fund |-> Read(funds), owner |-> Short(NoOwners)]
    BY <2>1 DEF Init
  <2>3. funds \in FundsOf /\ FirstForm.day \in Nat /\ FirstForm.office \in Office
    BY <1>1, FormsAssumption DEF Form
  <2>4. NoOwners \in OwnersOf
    BY DEF NoOwners, OwnersOf
  <2>5. Read(funds) \in [read : BOOLEAN, has : FundsOf]
        /\ Short(NoOwners) \in [read : BOOLEAN, has : OwnersOf]
    BY <2>3, <2>4 DEF Read, Short
  <2>6. adv \in Snapshot /\ adv.version = OldReader
    BY <2>2, <2>3, <2>5 DEF Snapshot
  <2>7. QED
    BY <2>6 DEF AReading, OldReader, Reader, Unread
<1>4. formd = NoSnapshot /\ AList(formd, notices)
  <2>1. formd = NoSnapshot /\ DOMAIN formd.filings = {}
    BY DEF Init, NoSnapshot
  <2>2. Listed(0) = {}
    BY DEF Listed
  <2>3. QED
    BY <1>2, <2>1, <2>2 DEF AList
<1>5. \A b \in Baselines : first[b] = None
  BY DEF Init, NoBaseline
<1>6. RowsFit(adv, formd, first, forms, notices, subject)
  BY <1>3, <1>4, <1>5 DEF RowsFit, Baselined, Baselines, Part
<1>7. News(told, forms, notices)
  BY DEF Init, News
<1>8. DOMAIN proc = Checker /\ \A c \in Checker : ProcFit(proc[c], forms, notices, subject)
  BY DEF Init, ProcFit
<1>9. Bounded
  BY FormsAssumption DEF Init, Bounded
<1>10. QED
  BY <1>2, <1>6, <1>7, <1>8, <1>9 DEF FormsFit, Init

LEMMA FormsStepFits ==
    ASSUME FormsFit, Next
    PROVE  FormsFit'
<1>1. ASSUME NEW c \in Checker, Check(c)
      PROVE  FormsFit'
  BY <1>1, StartFits, UnavailableFits, AskFirmFits, ReadFormFits, FormUnreadableFits,
     AskCompanyFits, SaveFits, TellFits, DieFits DEF Check
<1>2. QED
  BY <1>1, FileFormFits, FileNoticeFits DEF Next

LEMMA FormsRestFit ==
    ASSUME FormsFit, UNCHANGED vars
    PROVE  FormsFit'
BY DEF FormsFit, vars, Bounded

----------------------------------------------------------------------------
(* Nothing is missed: what the rows say was told, and so was what a check  *)
(* found stored when it began.                                             *)

CheckTold(p, of, T) ==
    p.at \in {"asking", "reading", "save"} =>
        /\ of = "firm" => \A part \in Part : PartTold(part, p.previous, p.base, T)
        /\ of = "company" => FilingsTold(p.previous, p.base, T)

RowsTold(a, d, base, of, T) ==
    /\ of = "firm" => \A part \in Part : PartTold(part, a, base, T)
    /\ FilingsTold(d, base, T)

AllTold ==
    ~lapsed =>
        /\ RowsTold(adv, formd, first, subject, Said)
        /\ \A c \in Checker : CheckTold(proc[c], subject, Said)

LEMMA SaidByOne ==
    ASSUME FormsFit, NEW c \in Checker, proc' = [proc EXCEPT ![c] = proc'[c]],
           told \subseteq told', proc[c].at = "tell" => proc[c].changes \subseteq told'
    PROVE  Said \subseteq Said'
<1>1. SUFFICES ASSUME NEW d \in Said PROVE d \in Said'
  OBVIOUS
<1>2. CASE d \in told
  BY <1>2 DEF Said
<1>3. CASE \E e \in Checker : proc[e].at = "tell" /\ d \in proc[e].changes
  <2>1. PICK e \in Checker : proc[e].at = "tell" /\ d \in proc[e].changes
    BY <1>3
  <2>2. CASE e = c
    BY <2>1, <2>2 DEF Said
  <2>3. CASE e # c
    <3>1. proc'[e] = proc[e]
      BY <2>3 DEF FormsFit
    <3>2. QED
      BY <2>1, <3>1 DEF Said
  <2>4. QED
    BY <2>2, <2>3
<1>4. QED
  BY <1>1, <1>2, <1>3 DEF Said

LEMMA RowsToldLater ==
    ASSUME NEW T, NEW U, T \subseteq U, NEW of
    PROVE  /\ \A a, d, base : RowsTold(a, d, base, of, T) => RowsTold(a, d, base, of, U)
           /\ \A p : CheckTold(p, of, T) => CheckTold(p, of, U)
BY ToldLater DEF RowsTold, CheckTold

\* What a step of one check must leave told.
LEMMA CheckTells ==
    ASSUME FormsFit, AllTold, NEW c \in Checker, proc' = [proc EXCEPT ![c] = proc'[c]],
           subject' = subject, ~lapsed, Said \subseteq Said',
           RowsTold(adv', formd', first', subject, Said'),
           CheckTold(proc'[c], subject, Said')
    PROVE  AllTold'
<1>1. \A d \in Checker : CheckTold(proc'[d], subject, Said')
  <2>1. SUFFICES ASSUME NEW d \in Checker PROVE CheckTold(proc'[d], subject, Said')
    OBVIOUS
  <2>2. CASE d = c
    BY <2>2
  <2>3. CASE d # c
    <3>1. proc'[d] = proc[d]
      BY <2>3 DEF FormsFit
    <3>2. CheckTold(proc[d], subject, Said)
      BY DEF AllTold
    <3>3. QED
      BY <3>1, <3>2, RowsToldLater
  <2>4. QED
    BY <2>2, <2>3
<1>2. QED
  BY <1>1 DEF AllTold

\* A step that saves nothing.
LEMMA OthersTell ==
    ASSUME FormsFit, AllTold, NEW c \in Checker, NEW q, proc' = [proc EXCEPT ![c] = q],
           UNCHANGED <<subject, adv, formd, first>>, ~lapsed, told \subseteq told',
           proc[c].at = "tell" => proc[c].changes \subseteq told',
           CheckTold(q, subject, Said)
    PROVE  AllTold'
<1>1. proc'[c] = q /\ proc' = [proc EXCEPT ![c] = proc'[c]]
  BY DEF FormsFit
<1>2. Said \subseteq Said'
  BY <1>1, SaidByOne
<1>3. RowsTold(adv', formd', first', subject, Said)
  BY DEF AllTold
<1>4. RowsTold(adv', formd', first', subject, Said') /\ CheckTold(proc'[c], subject, Said')
  BY <1>1, <1>2, <1>3, RowsToldLater
<1>5. QED
  BY <1>1, <1>2, <1>4, CheckTells

LEMMA IdleToldNothing == \A of, T : CheckTold(Idle, of, T) /\ Idle.at # "tell"
BY DEF CheckTold, Idle

LEMMA StartTells ==
    ASSUME FormsFit, AllTold, NEW c \in Checker, Start(c)
    PROVE  AllTold'
<1> DEFINE q == Holding("asking", Stored, None, {}, first)
<1>1. /\ proc' = [proc EXCEPT ![c] = q] /\ lapsed' = lapsed /\ told' = told
      /\ UNCHANGED <<subject, adv, formd, first>> /\ proc[c] = Idle
  BY DEF Start, Goes
<1>2. SUFFICES ASSUME ~lapsed PROVE AllTold'
  BY <1>1 DEF AllTold
<1>3. q.previous = Stored /\ q.base = first
  BY Held
<1> HIDE DEF q
<1>4. CheckTold(q, subject, Said)
  BY <1>2, <1>3 DEF AllTold, RowsTold, CheckTold, Stored
<1>5. proc[c].at # "tell"
  BY <1>1, IdleToldNothing
<1>6. QED
  BY <1>1, <1>2, <1>4, <1>5, OthersTell

LEMMA EndTells ==
    ASSUME FormsFit, AllTold, NEW c \in Checker, proc' = [proc EXCEPT ![c] = Idle],
           UNCHANGED <<subject, adv, formd, first, lapsed>>, told \subseteq told',
           proc[c].at = "tell" => proc[c].changes \subseteq told'
    PROVE  AllTold'
<1>1. SUFFICES ASSUME ~lapsed PROVE AllTold'
  BY DEF AllTold
<1>2. CheckTold(Idle, subject, Said)
  BY IdleToldNothing
<1>3. QED
  BY <1>1, <1>2, OthersTell

LEMMA DieTells ==
    ASSUME FormsFit, AllTold, NEW c \in Checker, Die(c)
    PROVE  AllTold'
<1>1. CASE proc[c].at = "tell"
  <2>1. lapsed'
    BY <1>1 DEF Die
  <2>2. QED
    BY <2>1 DEF AllTold
<1>2. CASE proc[c].at # "tell"
  <2>1. SUFFICES ASSUME ~lapsed' PROVE AllTold'
    BY DEF AllTold
  <2>2. ~lapsed
    BY <2>1 DEF Die
  <2>3. CheckTold(Idle, subject, Said)
    BY IdleToldNothing
  <2>4. /\ proc' = [proc EXCEPT ![c] = Idle] /\ UNCHANGED <<subject, adv, formd, first>>
        /\ told' = told
    BY DEF Die, Goes
  <2>5. QED
    BY <1>2, <2>2, <2>3, <2>4, OthersTell
<1>3. QED
  BY <1>1, <1>2

LEMMA AskTells ==
    ASSUME FormsFit, AllTold, NEW c \in Checker,
           AskFirm(c) \/ ReadForm(c) \/ FormUnreadable(c) \/ AskCompany(c)
    PROVE  AllTold'
<1>1. /\ UNCHANGED <<subject, adv, formd, first, told, lapsed>>
      /\ proc[c].at \in {"asking", "reading"}
  BY DEF AskFirm, ReadForm, FormUnreadable, AskCompany, Goes
<1>2. \E at \in {"reading", "save"} : \E x :
         proc' = [proc EXCEPT ![c] = [proc[c] EXCEPT !.at = at, !.current = x]]
  <2>1. CASE AskFirm(c)
    <3> DEFINE snap == FromRecord(LastOf(forms))
               kept == Carried(proc[c].previous, snap)
    <3>1. proc' = [proc EXCEPT ![c] =
                     IF IsUnchanged(proc[c].previous, snap)
                     THEN [proc[c] EXCEPT !.at = "save", !.current = kept]
                     ELSE [proc[c] EXCEPT !.at = "reading", !.current = snap]]
      BY <2>1 DEF AskFirm, Goes
    <3> HIDE DEF snap, kept
    <3>2. QED
      BY <3>1
  <2>2. CASE ReadForm(c)
    <3>1. PICK funds \in FundsFound(LastOf(forms)), owners \in OwnersFound(LastOf(forms)) :
             proc' = [proc EXCEPT ![c] =
                        [proc[c] EXCEPT !.at = "save", !.current = WithForm(@, funds, owners)]]
      BY <2>2 DEF ReadForm, Goes
    <3> DEFINE x == WithForm(proc[c].current, funds, owners)
    <3>2. proc' = [proc EXCEPT ![c] = [proc[c] EXCEPT !.at = "save", !.current = x]]
      BY <3>1
    <3> HIDE DEF x
    <3>3. QED
      BY <3>2
  <2>3. CASE FormUnreadable(c)
    <3> DEFINE x == KeepLastReading(proc[c].previous, proc[c].current)
    <3>1. proc' = [proc EXCEPT ![c] = [proc[c] EXCEPT !.at = "save", !.current = x]]
      BY <2>3 DEF FormUnreadable, Goes
    <3> HIDE DEF x
    <3>2. QED
      BY <3>1
  <2>4. CASE AskCompany(c)
    <3>1. PICK x : Goes(c, [proc[c] EXCEPT !.at = "save", !.current = x])
      BY <2>4 DEF AskCompany
    <3>2. QED
      BY <3>1 DEF Goes
  <2>5. QED
    BY <2>1, <2>2, <2>3, <2>4
<1> PICK at \in {"reading", "save"} : \E x :
         proc' = [proc EXCEPT ![c] = [proc[c] EXCEPT !.at = at, !.current = x]]
  BY <1>2, Zenon
<1>3. PICK x : proc' = [proc EXCEPT ![c] = [proc[c] EXCEPT !.at = at, !.current = x]]
  BY Zenon
<1> DEFINE q == [proc[c] EXCEPT !.at = at, !.current = x]
<1>4. Shaped(proc[c])
  BY <1>1, ACheckIs DEF FormsFit
<1>5. q.at = at /\ q.previous = proc[c].previous /\ q.base = proc[c].base
  <2>1. PICK p : p = proc[c]
    OBVIOUS
  <2>2. p \in [at : {p.at}, previous : {p.previous}, current : {p.current},
               changes : {p.changes}, base : {p.base}]
    BY <1>4, <2>1 DEF Shaped
  <2>3. q \in [at : {at}, previous : {p.previous}, current : {x},
               changes : {p.changes}, base : {p.base}]
    BY <2>1, <2>2
  <2> HIDE DEF q
  <2>4. QED
    BY <2>1, <2>3
<1> HIDE DEF q
<1>6. SUFFICES ASSUME ~lapsed PROVE AllTold'
  BY <1>1 DEF AllTold
<1>7. CheckTold(proc[c], subject, Said)
  BY <1>6 DEF AllTold
<1>8. CheckTold(q, subject, Said)
  BY <1>1, <1>5, <1>7 DEF CheckTold
<1>9. proc' = [proc EXCEPT ![c] = q]
  BY <1>3 DEF q
<1>10. QED
  BY <1>1, <1>6, <1>8, <1>9, OthersTell

LEMMA SavedPartTold ==
    ASSUME FormsFit, AllTold, ~lapsed, subject = "firm", NEW c \in Checker,
           proc[c].at = "save", NEW part \in Part
    PROVE  PartTold(part, proc[c].current, BaselinesAfter(proc[c]),
                    Said \cup ChangesOf(proc[c]))
<1> DEFINE p == proc[c]
           left == BaselinesAfter(p)
           T == Said \cup ChangesOf(p)
<1> SUFFICES PartTold(part, p.current, left, T)
  OBVIOUS
<1>1. CASE left[part] = None
  BY <1>1 DEF PartTold
<1>2. CASE left[part] # None
  <2>1. /\ p.current.version = Reader /\ p.current[part].read
        /\ left[part] = p.current[part].has \/ left[part] = p.base[part]
    BY <1>2, BaselineLeft
  <2>2. CASE left[part] = p.current[part].has
    BY <2>2 DEF PartTold
  <2>3. CASE left[part] = p.base[part]
    <3>1. /\ p.previous # None /\ p.previous.version = Reader /\ p.previous[part].read
          /\ DOMAIN p.base[part] = DOMAIN p.previous[part].has /\ p.base[part] # None
      BY <1>2, <2>3, ACheckIs DEF FormsFit, OfFirm, Baselined
    <3>2. Compares(part, p.previous, p.current)
      BY <2>1, <3>1 DEF Compares
    <3>3. PartTold(part, p.previous, p.base, Said)
      BY DEF AllTold, CheckTold
    <3>4. PartTold(part, p.current, p.base, Said \cup AdviserChanges(p.previous, p.current))
      BY <3>1, <3>2, <3>3, AdviserTells
    <3>5. PartTold(part, p.current, p.base, T)
      BY <3>4 DEF ChangesOf
    <3> HIDE DEF left, T, p
    <3>6. QED
      BY <2>3, <3>5 DEF PartTold
  <2>4. QED
    BY <2>1, <2>2, <2>3
<1>3. QED
  BY <1>1, <1>2

LEMMA SavedFilingsTold ==
    ASSUME FormsFit, AllTold, ~lapsed, subject = "company", NEW c \in Checker,
           proc[c].at = "save"
    PROVE  FilingsTold(proc[c].current, BaselinesAfter(proc[c]),
                       Said \cup ChangesOf(proc[c]))
<1> DEFINE p == proc[c]
           left == BaselinesAfter(p)
           T == Said \cup ChangesOf(p)
<1> SUFFICES FilingsTold(p.current, left, T)
  OBVIOUS
<1>1. left["filing"] = Baseline("filing", p, DOMAIN p.current.filings)
  BY DEF BaselinesAfter, Baselines
<1>2. CASE left["filing"] = DOMAIN p.current.filings
  BY <1>2 DEF FilingsTold
<1>3. CASE left["filing"] # DOMAIN p.current.filings
  <2>1. p.base["filing"] # None /\ left["filing"] = p.base["filing"]
    BY <1>1, <1>3 DEF Baseline
  <2>2. p.previous.looked
    BY <2>1, ACheckIs DEF FormsFit, OfCompany
  <2>3. FilingsTold(p.previous, p.base, Said)
    BY DEF AllTold, CheckTold
  <2>4. FilingsTold(p.current, p.base, Said \cup IssuerChanges(p.previous, p.current))
    BY <2>2, <2>3, IssuerTells
  <2>5. FilingsTold(p.current, p.base, T)
    BY <2>4 DEF ChangesOf
  <2> HIDE DEF left, T, p
  <2>6. QED
    BY <2>1, <2>5 DEF FilingsTold
<1>4. QED
  BY <1>2, <1>3

LEMMA SaveTells ==
    ASSUME FormsFit, AllTold, NEW c \in Checker, Save(c)
    PROVE  AllTold'
<1> DEFINE p == proc[c]
           changes == ChangesOf(p)
           q == Holding("tell", None, None, changes, NoBaseline)
<1>1. /\ p.at = "save" /\ first' = BaselinesAfter(p)
      /\ adv' = (IF subject = "firm" THEN p.current ELSE adv)
      /\ formd' = (IF subject = "company" THEN p.current ELSE formd)
      /\ proc' = [proc EXCEPT ![c] = IF changes = {} THEN Idle ELSE q]
      /\ UNCHANGED <<subject, told, lapsed>>
  BY DEF Save, Goes
<1>2. SUFFICES ASSUME ~lapsed PROVE AllTold'
  BY <1>1 DEF AllTold
<1>3. q.at = "tell" /\ q.changes = changes
  BY Held
<1> HIDE DEF changes, q
<1>4. proc'[c] = (IF changes = {} THEN Idle ELSE q) /\ proc' = [proc EXCEPT ![c] = proc'[c]]
  BY <1>1 DEF FormsFit
<1>5. Said \subseteq Said'
  BY <1>1, <1>4, SaidByOne
<1>6. changes \subseteq Said'
  <2>1. CASE changes = {}
    BY <2>1
  <2>2. CASE changes # {}
    <3>1. proc'[c].at = "tell" /\ proc'[c].changes = changes
      BY <1>3, <1>4, <2>2
    <3>2. QED
      BY <3>1 DEF Said
  <2>3. QED
    BY <2>1, <2>2
<1>7. CheckTold(proc'[c], subject, Said')
  BY <1>3, <1>4, IdleToldNothing DEF CheckTold
<1>8. RowsTold(adv', formd', first', subject, Said')
  <2>1. CASE subject = "firm"
    <3>1. adv' = p.current /\ formd' = NoSnapshot
      BY <1>1, <2>1 DEF FormsFit, RowsFit
    <3>2. ASSUME NEW part \in Part
          PROVE  PartTold(part, adv', first', Said')
      <4>1. PartTold(part, p.current, BaselinesAfter(p), Said \cup changes)
        BY <1>1, <1>2, <2>1, SavedPartTold DEF changes
      <4>2. Said \cup changes \subseteq Said'
        BY <1>5, <1>6
      <4>3. PartTold(part, p.current, BaselinesAfter(p), Said')
        BY <4>1, <4>2, ToldLater
      <4>4. QED
        BY <1>1, <3>1, <4>3
    <3>3. DOMAIN formd'.filings = {}
      BY <3>1 DEF NoSnapshot
    <3>4. FilingsTold(formd', first', Said')
      BY <3>3 DEF FilingsTold
    <3>5. QED
      BY <3>2, <3>4 DEF RowsTold
  <2>2. CASE subject = "company"
    <3>1. formd' = p.current
      BY <1>1, <2>2
    <3>2. FilingsTold(p.current, BaselinesAfter(p), Said \cup changes)
      BY <1>1, <1>2, <2>2, SavedFilingsTold DEF changes
    <3>3. Said \cup changes \subseteq Said'
      BY <1>5, <1>6
    <3>4. FilingsTold(p.current, BaselinesAfter(p), Said')
      BY <3>2, <3>3, ToldLater
    <3>5. QED
      BY <1>1, <2>2, <3>1, <3>4 DEF RowsTold
  <2>3. QED
    BY <1>1, <2>1, <2>2, ACheckIs DEF FormsFit
<1>9. QED
  BY <1>1, <1>2, <1>4, <1>5, <1>7, <1>8, CheckTells

LEMMA FormsStepTells ==
    ASSUME FormsFit, AllTold, Next
    PROVE  AllTold'
<1>1. CASE FileForm \/ FileNotice
  <2>1. UNCHANGED <<adv, formd, told, subject, proc, first, lapsed>>
    BY <1>1 DEF FileForm, FileNotice
  <2>2. Said' = Said
    BY <2>1 DEF Said
  <2>3. QED
    BY <2>1, <2>2 DEF AllTold
<1>2. ASSUME NEW c \in Checker, Check(c)
      PROVE  AllTold'
  <2>1. CASE Unavailable(c) \/ Tell(c)
    <3>1. /\ proc' = [proc EXCEPT ![c] = Idle] /\ told \subseteq told'
          /\ UNCHANGED <<subject, adv, formd, first, lapsed>>
          /\ proc[c].at = "tell" => proc[c].changes \subseteq told'
      BY <2>1 DEF Unavailable, Tell, Goes
    <3>2. QED
      BY <3>1, EndTells
  <2>2. CASE Start(c)
    BY <2>2, StartTells
  <2>3. CASE AskFirm(c) \/ ReadForm(c) \/ FormUnreadable(c) \/ AskCompany(c)
    BY <2>3, AskTells
  <2>4. CASE Save(c)
    BY <2>4, SaveTells
  <2>5. CASE Die(c)
    BY <2>5, DieTells
  <2>6. QED
    BY <1>2, <2>1, <2>2, <2>3, <2>4, <2>5 DEF Check
<1>3. QED
  BY <1>1, <1>2 DEF Next

LEMMA FormsRestTells ==
    ASSUME AllTold, UNCHANGED vars
    PROVE  AllTold'
<1>1. Said' = Said
  BY DEF Said, vars
<1>2. QED
  BY <1>1 DEF AllTold, vars

LEMMA FormsOpenTold ==
    ASSUME Init
    PROVE  AllTold
<1>1. \A b \in Baselines : first[b] = None
  BY DEF Init, NoBaseline
<1>2. RowsTold(adv, formd, first, subject, Said)
  BY <1>1 DEF RowsTold, PartTold, FilingsTold, Baselines, Part
<1>3. \A c \in Checker : CheckTold(proc[c], subject, Said)
  BY IdleToldNothing DEF Init
<1>4. QED
  BY <1>2, <1>3 DEF AllTold

----------------------------------------------------------------------------
(* What the properties say.                                                *)

LEMMA FormsFitTypes ==
    ASSUME FormsFit
    PROVE  TypeOK
<1>1. \A s : ARow(s, forms) => WellFormed(s)
  BY DEF ARow, AReading, WellFormed
<1>2. ASSUME NEW s, AList(s, notices)
      PROVE  IssuerWellFormed(s) /\ DOMAIN s.filings \subseteq DOMAIN notices
  <2>1. DOMAIN s.filings \subseteq DOMAIN notices
    BY <1>2 DEF AList, Listed, FormsFit
  <2>2. ASSUME NEW i \in DOMAIN s.filings
        PROVE  s.filings[i] \in Document
    <3>1. notices[i] \in Notice
      BY <2>1 DEF FormsFit
    <3>2. Kept(notices[i]) \in Document
      BY <3>1 DEF Kept, Notice, Document
    <3>3. NotReadable \in Document
      BY DEF NotReadable, Document
    <3>4. QED
      BY <1>2, <3>2, <3>3 DEF AList
  <2>3. QED
    BY <2>1, <2>2 DEF IssuerWellFormed
<1>3. ASSUME NEW c \in Checker, proc[c].at \in {"reading", "save"}
      PROVE  IF subject = "firm" THEN WellFormed(proc[c].current)
             ELSE IssuerWellFormed(proc[c].current)
  <2>1. \/ subject = "firm" /\ OfFirm(proc[c], forms)
        \/ subject = "company" /\ OfCompany(proc[c], notices) /\ proc[c].at = "save"
    BY <1>3, ACheckIs DEF FormsFit
  <2>2. CASE subject = "firm"
    BY <1>1, <1>3, <2>1, <2>2 DEF OfFirm, ARow
  <2>3. CASE subject = "company"
    BY <1>2, <2>1, <2>3 DEF OfCompany
  <2>4. QED
    BY <2>1, <2>2, <2>3
<1>4. \A i \in DOMAIN forms : forms[i] \in Form
  BY DEF FormsFit
<1>5. \A i \in DOMAIN notices : notices[i] \in Notice
  BY DEF FormsFit
<1>6. QED
  BY <1>1, <1>2, <1>3, <1>4, <1>5 DEF FormsFit, RowsFit, Bounded, TypeOK

LEMMA TheNewsIsRight ==
    ASSUME FormsFit, AllTold
    PROVE  NewsIsRight
<1>1. ASSUME NEW d \in told, d.what \in Part
      PROVE  OnTheForms(d)
  BY <1>1 DEF FormsFit, News, OnForms, OnTheForms
<1>2. ASSUME NEW d \in told, d.what \notin Part \cup {"filing", "office"}
      PROVE  OnTheNotice(d)
  <2>1. OnNotice(d, notices)
    BY <1>2 DEF FormsFit, News
  <2>2. QED
    BY <2>1 DEF OnNotice, OnTheNotice
<1>3. ASSUME ~lapsed, subject = "firm", NEW part \in Part
      PROVE  PartSaid(part)
  <2>1. PartTold(part, adv, first, Said)
    BY <1>3 DEF AllTold, RowsTold
  <2>2. QED
    BY <2>1 DEF PartTold, PartSaid
<1>4. ~lapsed => FilingsTold(formd, first, Said)
  BY DEF AllTold, RowsTold
<1>5. QED
  BY <1>1, <1>2, <1>3, <1>4 DEF NewsIsRight, NothingInvented, NothingMissed, FilingsTold

----------------------------------------------------------------------------
(* The three watches together.                                             *)

LEMMA FundsRest ==
    ASSUME FundsFit, Unbroken, UNCHANGED fundsVars
    PROVE  FundsFit' /\ Unbroken'
<1>1. FundsFit'
  BY DEF fundsVars, FundsFit, IndexFit, AskedFit, WatchFit, Watched, AllFit
<1>2. Active' = Active /\ Fronts' = Fronts
  BY DEF fundsVars, Active, Fronts
<1>3. Indexed' /\ Lists' = Lists /\ NoGap' = NoGap
  BY <1>2 DEF fundsVars, Indexed, Lists, NoGap, Unbroken
<1>4. QED
  BY <1>1, <1>3 DEF fundsVars, Unbroken

SecFit == FormsFit /\ AllTold /\ FundsFit /\ Unbroken

LEMMA SecHolds == SecSpec => []SecFit
<1>1. SecInit => SecFit
  BY FormsOpenFit, FormsOpenTold, FundsOpenFit, FundsOpenUnbroken DEF SecInit, SecFit
<1>2. SecFit /\ [SecNext]_<<vars, fundsVars>> => SecFit'
  <2>1. SUFFICES ASSUME SecFit, [SecNext]_<<vars, fundsVars>> PROVE SecFit'
    OBVIOUS
  <2>2. FormsFit' /\ AllTold'
    BY <2>1, FormsStepFits, FormsRestFit, FormsStepTells, FormsRestTells DEF SecNext, SecFit
  <2>3. FundsFit' /\ Unbroken'
    BY <2>1, FundsStepFits, FundsStepUnbroken, FundsRest
    DEF SecNext, SecFit
  <2>4. QED
    BY <2>2, <2>3 DEF SecFit
<1>3. QED
  BY <1>1, <1>2, PTL DEF SecSpec

\* The rows of all three are well formed, whatever two checks at once, or two workers,
\* do to them: of a form never read nothing is held, and a watch that is on has words
\* and a day (save_adv_snapshot, save_formd_snapshot, save_vehicle_watch).
THEOREM SecTypesHold == SecSpec => []SecTypeOK
<1>1. SecFit => SecTypeOK
  BY FormsFitTypes, FundsFitTypes DEF SecFit, SecTypeOK
<1>2. QED
  BY <1>1, SecHolds, PTL

\* What is told of a firm or a company is on two forms, or on a notice, that it filed,
\* and what changed since the first good reading is told or about to be, with any number
\* of checks at once (compare of adv.py and of formd.py, keep_last_reading,
\* refresh_advisers and refresh_issuers).
THEOREM NewsIsWhatChanged == SecSpec => []NewsIsRight
<1>1. SecFit => NewsIsRight
  BY TheNewsIsRight DEF SecFit
<1>2. QED
  BY <1>1, SecHolds, PTL

\* Between the first and the last day read no day that has an index is left out,
\* whatever days there are and however many syncs run at once, stop or die
\* (sync_daily_index, available_days).
THEOREM NoDayIsSteppedOver == SecSpec => []NoDaySteppedOver
<1>1. SecFit => NoDaySteppedOver
  BY NoGapSteps DEF SecFit
<1>2. QED
  BY <1>1, SecHolds, PTL

\* An alert is of a filing made since alerts were first on with the words that match
\* it (save_vehicle_watch, alert_items).
THEOREM OnlyNewFilingsAreNews == SecSpec => HistoryIsNotNews
<1>1. SecFit /\ [SecNext]_<<vars, fundsVars>> =>
         [\A f \in said' \ said :
             /\ f.by \in Matching(watch)
             /\ asked[watch.words] > 0 /\ f.day >= asked[watch.words]]_fundsVars
  <2>1. SUFFICES ASSUME SecFit, [SecNext]_<<vars, fundsVars>>, ~UNCHANGED fundsVars,
                        NEW f \in said' \ said
                 PROVE  /\ f.by \in Matching(watch)
                        /\ asked[watch.words] > 0 /\ f.day >= asked[watch.words]
    OBVIOUS
  <2>2. FundsNext
    BY <2>1 DEF SecNext
  <2>3. QED
    BY <2>1, <2>2, SaysNoHistory DEF SecFit
<1>2. QED
  BY <1>1, SecHolds, PTL DEF SecSpec, HistoryIsNotNews

=============================================================================
