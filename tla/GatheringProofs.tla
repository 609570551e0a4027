--------------------------- MODULE GatheringProofs ---------------------------
(***************************************************************************)
(* What is proved of Gathering, for any runs, contractors, steps, sources, *)
(* waits and bounds: the types, that a source something was not had of is  *)
(* never said to have been checked, that a host at rest is left alone, and *)
(* that no run waits past its deadline.                                    *)
(***************************************************************************)
EXTENDS Gathering, FiniteSetTheorems, TLAPS

----------------------------------------------------------------------------
(* The inductive invariant.                                                *)

Working == {"asking", "sending", "sleeping", "downloading"}
Label(q) == Steps[q.step].label
Kind(q) == Steps[q.step].kind

\* What was said of a source is neither nothing nor that it was checked.
Noted(said) == said \notin {"", "checked"}

(* A step that is at its end has what it needs, or why it has not; where     *)
(* the lists are being read again, the step has said why.                   *)
AtWork(q) ==
    /\ q.step \in DOMAIN Steps
    /\ q.at = "downloading" => Kind(q) = "exclusions"
    /\ q.at = "asking" /\ q.todo = <<>> /\ Kind(q) = "exclusions" /\ q.db # "today" =>
            q.reason \/ q.raised
    /\ q.at = "asking" /\ q.todo = <<>> /\ Kind(q) = "lists" /\ q.lists = "unread" =>
            q.raised /\ ~q.outside
    /\ q.outside => Noted(q.coverage[Label(q)])

\* A run, between its requests, has attempted nothing yet of the next.
Between(r, q) ==
    /\ q \in RunRecord
    /\ q.contractor <= Contractors[r] /\ q.left <= Budget[r]
    /\ q.db = "old" => q.reason
    /\ q.attempt = 0

Fit(r, q) ==
    /\ q \in RunRecord
    /\ q.contractor <= Contractors[r] /\ q.left <= Budget[r]
    /\ q.db = "old" => q.reason
    /\ q.at \in Working => AtWork(q)
    /\ q.at \in {"sending", "sleeping"} => q.todo # <<>>
    /\ q.at \notin {"sending", "sleeping"} => q.attempt = 0
    /\ q.at = "sleeping" => q.attempt < Attempts /\ (Budget[r] > 0 => q.wake < q.left)

\* Why the step will not say "checked".
Trouble(q) == q.raised \/ q.bad # {} \/ (Kind(q) = "exclusions" /\ q.reason)

(* What a run did not get is noted already, or will be when the step ends.   *)
Heard(q, labels) ==
    q.at # "failed" =>
        \A l \in labels : Noted(q.coverage[l]) \/ (q.at \in Working /\ l = Label(q) /\ Trouble(q))

Fits == \A r \in Runs : Fit(r, run[r]) /\ Heard(run[r], lost[r])

\* The runs that wait for their next attempt at a host.
Sleepers(h) == {r \in Runs : run[r].at = "sleeping" /\ Asked(r) = h}

(* While a host rests, who has begun an attempt and who yet may are fewer    *)
(* than the runs: the one it was rested by is neither.                      *)
Rested ==
    \A h \in Hosts :
        IF Resting(h) THEN pressed[h] + Cardinality(Sleepers(h)) < Cardinality(Runs)
        ELSE pressed[h] = 0

IInv == TypeOK /\ Fits /\ Rested

----------------------------------------------------------------------------
(* The steps and the bounds.                                               *)

LEMMA StepFacts ==
    /\ Len(Steps) \in Nat \ {0} /\ DOMAIN Steps = 1..Len(Steps)
    /\ \A i \in DOMAIN Steps :
          /\ Steps[i].label \in Labels
          /\ Steps[i].kind \in {"plain", "exclusions", "lists", "patents"}
          /\ Steps[i].urls \in Seq(Urls)
<1> DEFINE R == [label : Labels, kind : {"plain", "exclusions", "lists", "patents"}, urls : Seq(Urls)]
<1>1. Steps \in Seq(R) /\ Steps # <<>>
  BY StepsAssumption
<1>2. \A i \in DOMAIN Steps : Steps[i] \in R
  <2> HIDE DEF R
  <2> QED
    BY <1>1
<1>3. Len(Steps) \in Nat \ {0} /\ DOMAIN Steps = 1..Len(Steps)
  <2> HIDE DEF R
  <2> QED
    BY <1>1
<1> QED
  BY <1>2, <1>3 DEF R

LEMMA OfacFacts ==
    /\ Len(Ofac) \in Nat /\ DOMAIN Ofac = 1..Len(Ofac)
    /\ \A i \in DOMAIN Ofac : Ofac[i].list \in Urls /\ Ofac[i].aliases \in Urls
<1> DEFINE R == [list : Urls, aliases : Urls]
<1>1. Ofac \in Seq(R)
  BY UrlsAssumption
<1>2. /\ Len(Ofac) \in Nat /\ DOMAIN Ofac = 1..Len(Ofac)
      /\ \A i \in DOMAIN Ofac : Ofac[i] \in R
  <2> HIDE DEF R
  <2> QED
    BY <1>1
<1> QED
  BY <1>2 DEF R

\* A host that failed is not rested for longer than it may be, nor less than it was.
LEMMA FailedFacts ==
    ASSUME TypeOK, NEW h \in Hosts, NEW asked \in Asks
    PROVE  /\ Failed(h, asked) \in [Hosts -> [fails : 0..BreakAfter, rest : 0..MaxPause]]
           /\ \A g \in Hosts \ {h} : Failed(h, asked)[g] = breaker[g]
           /\ Resting(h) => Failed(h, asked)[h].rest > 0
<1> DEFINE b == breaker[h]
           rests == b.fails + 1 >= BreakAfter \/ asked > MaxWait
           new == [fails |-> Least(b.fails + 1, BreakAfter),
                   rest |-> IF rests THEN Least(MaxPause, Most(BreakFor, asked)) ELSE b.rest]
<1>1. b \in [fails : 0..BreakAfter, rest : 0..MaxPause]
  BY DEF TypeOK
<1>2. b.fails \in 0..BreakAfter /\ b.rest \in 0..MaxPause
  BY <1>1
<1>3. /\ asked \in Nat /\ BreakAfter \in Nat \ {0} /\ BreakFor \in Nat \ {0}
      /\ MaxPause \in Nat /\ MaxWait \in Nat
  BY BoundsAssumption
<1>4. new.fails \in 0..BreakAfter /\ new.rest \in 0..MaxPause /\ (b.rest > 0 => new.rest > 0)
  <2> HIDE DEF b
  <2> QED
    BY <1>2, <1>3 DEF Least, Most
<1>5. new \in [fails : 0..BreakAfter, rest : 0..MaxPause]
  BY <1>4
<1>6. Failed(h, asked) = [breaker EXCEPT ![h] = new]
  BY DEF Failed
<1>7. breaker \in [Hosts -> [fails : 0..BreakAfter, rest : 0..MaxPause]]
  BY DEF TypeOK
<1>8. Resting(h) <=> b.rest > 0
  BY DEF Resting
<1> QED
  <2> HIDE DEF new, b
  <2> QED
    BY <1>4, <1>5, <1>6, <1>7, <1>8

----------------------------------------------------------------------------
(* What becomes of a run.                                                  *)

LEMMA OpenedKeeps ==
    ASSUME NEW q \in RunRecord, index \in {"none", "today", "old"}
    PROVE  /\ Opened(q) \in RunRecord
           /\ Opened(q).db = (IF q.db = "closed" /\ index # "none" THEN index ELSE q.db)
           /\ Opened(q) = [q EXCEPT !.db = Opened(q).db]
BY DEF Opened, RunRecord

\* The index that is opened is the day's, or there is a reason, or it is asked for.
LEMMA StartingFits ==
    ASSUME NEW r \in Runs, NEW q, Between(r, q), NEW i \in DOMAIN Steps,
           index \in {"none", "today", "old"}, marker \in BOOLEAN
    PROVE  /\ Fit(r, Starting(q, i))
           /\ Starting(q, i).at = "asking" /\ Starting(q, i).coverage = q.coverage
<1> DEFINE s == Steps[i]
           todo == IF s.kind = "plain" THEN s.urls ELSE NeedsToAsk(q, s.kind)
           got == IF s.kind = "lists" /\ q.lists = "unread" THEN {} ELSE q.got
           new == [q EXCEPT !.at = "asking", !.step = i, !.bad = {}, !.raised = FALSE,
                            !.outside = FALSE, !.got = got, !.todo = todo]
<1>1. q \in RunRecord
  BY DEF Between
<1>2. /\ s.kind \in {"plain", "exclusions", "lists", "patents"} /\ s.urls \in Seq(Urls)
      /\ i \in 0..Len(Steps)
  BY StepFacts
<1>3. /\ todo \in Seq(Urls)
      /\ s.kind = "lists" /\ q.lists = "unread" => todo # <<>>
      /\ s.kind = "exclusions" /\ q.db = "closed" /\ index # "today" /\ ~marker => todo # <<>>
  <2>1. Csl \in Urls /\ SamListing \in Urls
    BY UrlsAssumption
  <2>2. <<Csl>> \in Seq(Urls) /\ <<SamListing>> \in Seq(Urls) /\ <<>> \in Seq(Urls)
        /\ <<Csl>> # <<>> /\ <<SamListing>> # <<>>
    BY <2>1
  <2>3. CASE s.kind = "plain"
    BY <2>3, <1>2
  <2>4. CASE s.kind = "lists"
    <3>1. todo = IF q.lists = "unread" THEN <<Csl>> ELSE <<>>
      BY <2>4 DEF NeedsToAsk
    <3> QED
      <4> HIDE DEF todo
      <4> QED
        BY <3>1, <2>2, <2>4
  <2>5. CASE s.kind = "exclusions"
    <3>1. todo = IF q.db = "closed" /\ index # "today" /\ ~marker THEN <<SamListing>> ELSE <<>>
      BY <2>5 DEF NeedsToAsk
    <3> QED
      <4> HIDE DEF todo
      <4> QED
        BY <3>1, <2>2, <2>5
  <2>6. CASE s.kind = "patents"
    <3>1. todo = <<>>
      BY <2>6 DEF NeedsToAsk
    <3> QED
      <4> HIDE DEF todo
      <4> QED
        BY <3>1, <2>2, <2>6
  <2> QED
    BY <1>2, <2>3, <2>4, <2>5, <2>6
<1>4. got \in SUBSET Urls
  BY <1>1 DEF RunRecord
<1> HIDE DEF todo, got
<1>5. /\ new \in RunRecord
      /\ new.at = "asking" /\ new.step = i /\ new.raised = FALSE /\ new.outside = FALSE
      /\ new.todo = todo /\ new.lists = q.lists /\ new.db = q.db /\ new.reason = q.reason
      /\ new.attempt = q.attempt /\ new.contractor = q.contractor /\ new.left = q.left
      /\ new.coverage = q.coverage
  BY <1>1, <1>2, <1>3, <1>4 DEF RunRecord
<1> HIDE DEF new
<1>6. CASE s.kind # "exclusions"
  <2>1. Starting(q, i) = new
    BY <1>6 DEF Starting, new, todo, got
  <2>2. Kind(new) = s.kind
    BY <1>5 DEF Kind
  <2> QED
    BY <2>1, <2>2, <1>3, <1>5, <1>6 DEF Fit, AtWork, Between, Working
<1>7. CASE s.kind = "exclusions"
  <2>1. Starting(q, i) = Ensured(new)
    BY <1>7 DEF Starting, new, todo, got
  <2>2. Kind(new) = s.kind
    BY <1>5 DEF Kind
  <2>3. CASE new.db # "closed" \/ (index # "today" /\ ~marker)
    <3>1. Ensured(new) = new
      BY <2>3 DEF Ensured
    <3> QED
      BY <3>1, <2>1, <2>2, <2>3, <1>3, <1>5, <1>7 DEF Fit, AtWork, Between, Working, RunRecord
  <2>4. CASE new.db = "closed" /\ index = "today"
    <3>1. Ensured(new) = [new EXCEPT !.db = "today"]
      BY <2>4 DEF Ensured, Opened
    <3> DEFINE e == [new EXCEPT !.db = "today"]
    <3>2. /\ e \in RunRecord
          /\ e.at = "asking" /\ e.step = i /\ e.raised = FALSE /\ e.outside = FALSE
          /\ e.db = "today" /\ e.attempt = q.attempt
          /\ e.contractor = q.contractor /\ e.left = q.left /\ e.coverage = q.coverage
      BY <1>5 DEF RunRecord
    <3>3. Kind(e) = s.kind
      BY <3>2 DEF Kind
    <3> HIDE DEF e
    <3>4. Fit(r, e)
      BY <3>2, <3>3, <1>7 DEF Fit, AtWork, Between, Working
    <3> QED
      BY <3>1, <3>2, <3>4, <2>1 DEF e
  <2>5. CASE new.db = "closed" /\ index # "today" /\ marker
    <3> DEFINE e == [new EXCEPT !.reason = TRUE]
    <3>1. Ensured(new) = Opened(e)
      BY <2>5 DEF Ensured
    <3>2. /\ e \in RunRecord
          /\ e.at = "asking" /\ e.step = i /\ e.raised = FALSE /\ e.outside = FALSE
          /\ e.reason = TRUE /\ e.attempt = q.attempt
          /\ e.contractor = q.contractor /\ e.left = q.left /\ e.coverage = q.coverage
      BY <1>5 DEF RunRecord
    <3> HIDE DEF e
    <3> DEFINE o == Opened(e)
    <3>3. o \in RunRecord /\ o = [e EXCEPT !.db = o.db]
      BY <3>2, OpenedKeeps
    <3> HIDE DEF o
    <3>4. /\ o.at = "asking" /\ o.step = i /\ o.raised = FALSE /\ o.outside = FALSE
          /\ o.reason = TRUE /\ o.attempt = q.attempt
          /\ o.contractor = q.contractor /\ o.left = q.left /\ o.coverage = q.coverage
      BY <3>2, <3>3 DEF RunRecord
    <3>5. Kind(o) = s.kind
      BY <3>4 DEF Kind
    <3>6. Fit(r, o)
      BY <3>3, <3>4, <3>5, <1>7 DEF Fit, AtWork, Between, Working
    <3> QED
      BY <3>1, <3>4, <3>6, <2>1 DEF o
  <2> QED
    BY <2>3, <2>4, <2>5, <1>1 DEF RunRecord
<1> QED
  BY <1>6, <1>7

(* The lists are read, or there is more to ask for.                         *)
LEMMA AfterListsFits ==
    ASSUME NEW r \in Runs, NEW q, Fit(r, q), q.at = "asking", q.todo # <<>>, Kind(q) = "lists",
           NEW u \in Urls, NEW text \in BOOLEAN
    PROVE  /\ Fit(r, AfterLists(q, u, text))
           /\ AfterLists(q, u, text).at = "asking"
           /\ AfterLists(q, u, text).coverage = q.coverage
           /\ AfterLists(q, u, text).step = q.step
           /\ AfterLists(q, u, text).bad = q.bad
           /\ AfterLists(q, u, text).raised = q.raised
           /\ AfterLists(q, u, text).reason = q.reason
<1> DEFINE got == IF text THEN q.got \cup {u} ELSE q.got
           lists == [i \in DOMAIN Ofac |-> Ofac[i].list]
           rest == IF u = Csl /\ ~text THEN lists ELSE Tail(q.todo)
           aliases == {Ofac[i].aliases : i \in {j \in DOMAIN Ofac : text /\ Ofac[j].list = u}}
           one == CHOOSE a \in aliases : TRUE
           todo == IF aliases = {} THEN rest ELSE <<one>> \o rest
           read == IF todo # <<>> THEN "unread"
                   ELSE IF Csl \in got THEN "all"
                   ELSE IF \E i \in DOMAIN Ofac : Ofac[i].list \in got THEN "treasury"
                   ELSE "none"
           new == [q EXCEPT !.got = got, !.todo = todo, !.lists = read]
<1>1. q \in RunRecord
  BY DEF Fit
<1>2. q.todo \in Seq(Urls) /\ q.got \in SUBSET Urls
  BY <1>1 DEF RunRecord
<1>3. rest \in Seq(Urls)
  <2>1. Tail(q.todo) \in Seq(Urls)
    BY <1>2
  <2>2. lists \in [1..Len(Ofac) -> Urls] /\ Len(Ofac) \in Nat
    BY OfacFacts
  <2>3. lists \in Seq(Urls)
    <3> HIDE DEF lists
    <3> QED
      BY <2>2
  <2> HIDE DEF lists
  <2> QED
    BY <2>1, <2>3
<1>4. todo \in Seq(Urls)
  <2>1. aliases \subseteq Urls
    BY OfacFacts
  <2>2. aliases # {} => one \in Urls
    <3> HIDE DEF aliases
    <3> QED
      BY <2>1
  <2> HIDE DEF aliases, one, rest
  <2>3. CASE aliases = {}
    BY <2>3, <1>3
  <2>4. CASE aliases # {}
    <3>1. <<one>> \in Seq(Urls)
      BY <2>2, <2>4
    <3> QED
      BY <3>1, <2>4, <1>3
  <2> QED
    BY <2>3, <2>4
<1>5. got \in SUBSET Urls
  BY <1>2
<1>6. /\ read \in {"unread", "all", "treasury", "none"}
      /\ todo = <<>> => read # "unread"
  <2> HIDE DEF todo, got
  <2> QED
    OBVIOUS
<1> HIDE DEF todo, got, read
<1>7. /\ new \in RunRecord
      /\ new.at = q.at /\ new.step = q.step /\ new.raised = q.raised /\ new.outside = q.outside
      /\ new.todo = todo /\ new.lists = read /\ new.db = q.db /\ new.reason = q.reason
      /\ new.attempt = q.attempt /\ new.contractor = q.contractor /\ new.left = q.left
      /\ new.coverage = q.coverage /\ new.bad = q.bad
  BY <1>1, <1>4, <1>5, <1>6 DEF RunRecord
<1>8. AfterLists(q, u, text) = new
  BY DEF AfterLists, new, read, todo, got
<1> HIDE DEF new
<1>9. Kind(new) = "lists" /\ Label(new) = Label(q)
  BY <1>7 DEF Kind, Label
<1>10. Fit(r, new)
  BY <1>6, <1>7, <1>9 DEF Fit, AtWork, Working
<1> QED
  BY <1>7, <1>8, <1>10

(* What becomes of a step that has an answer, or goes without: it has not    *)
(* forgotten what it did not get.                                           *)
LEMMA GoesOnFits ==
    ASSUME TypeOK, NEW r \in Runs, run[r].at \in Working, run[r].todo # <<>>,
           NEW q, Fit(r, q), q.at = "asking", q.step = run[r].step, q.todo = run[r].todo,
           NEW text \in BOOLEAN
    PROVE  /\ Fit(r, GoesOn(r, q, text))
           /\ GoesOn(r, q, text).at \in {"asking", "downloading"}
           /\ GoesOn(r, q, text).coverage = q.coverage
           /\ GoesOn(r, q, text).step = q.step
           /\ GoesOn(r, q, text).bad = q.bad
           /\ GoesOn(r, q, text).raised = q.raised
           /\ q.reason => GoesOn(r, q, text).reason
<1>1. q \in RunRecord /\ AtWork(q) /\ index \in {"none", "today", "old"}
  BY DEF Fit, Working, TypeOK
<1>2. /\ q.todo \in Seq(Urls) /\ q.todo # <<>> /\ Tail(q.todo) \in Seq(Urls)
      /\ Url(r) \in Urls
  <2>1. q.todo \in Seq(Urls)
    BY <1>1 DEF RunRecord
  <2> QED
    BY <2>1 DEF Url
<1>3. /\ Step(r).kind = Kind(q)
      /\ Kind(q) \in {"plain", "exclusions", "lists", "patents"}
  BY <1>1, StepFacts DEF Step, Kind, AtWork
<1>4. CASE Kind(q) = "lists"
  <2>1. GoesOn(r, q, text) = AfterLists(q, Url(r), text)
    BY <1>3, <1>4 DEF GoesOn
  <2> QED
    BY <2>1, <1>2, <1>4, AfterListsFits
<1>5. CASE Kind(q) = "exclusions" /\ text
  <2> DEFINE new == [q EXCEPT !.at = "downloading", !.todo = <<>>]
  <2>1. GoesOn(r, q, text) = new
    BY <1>3, <1>5 DEF GoesOn
  <2>2. <<>> \in Seq(Urls)
    OBVIOUS
  <2>3. /\ new \in RunRecord
        /\ new.at = "downloading" /\ new.step = q.step /\ new.raised = q.raised
        /\ new.outside = q.outside /\ new.db = q.db /\ new.reason = q.reason
        /\ new.attempt = q.attempt /\ new.contractor = q.contractor /\ new.left = q.left
        /\ new.coverage = q.coverage /\ new.bad = q.bad
    BY <1>1, <2>2 DEF RunRecord
  <2> HIDE DEF new
  <2>4. Kind(new) = "exclusions" /\ Label(new) = Label(q)
    BY <2>3, <1>5 DEF Kind, Label
  <2>5. Fit(r, new)
    BY <1>1, <2>3, <2>4 DEF Fit, AtWork, Working
  <2> QED
    BY <2>1, <2>3, <2>5
<1>6. CASE Kind(q) = "exclusions" /\ ~text
  <2> DEFINE new == [q EXCEPT !.todo = <<>>, !.reason = TRUE]
             end == Opened(new)
  <2>1. GoesOn(r, q, text) = end
    <3>1. new = Unrefreshed([q EXCEPT !.todo = <<>>])
      BY <1>1 DEF Unrefreshed, RunRecord
    <3> HIDE DEF new
    <3> QED
      BY <3>1, <1>3, <1>6 DEF GoesOn
  <2>2. <<>> \in Seq(Urls)
    OBVIOUS
  <2>3. /\ new \in RunRecord
        /\ new.at = "asking" /\ new.step = q.step /\ new.raised = q.raised
        /\ new.outside = q.outside /\ new.reason = TRUE
        /\ new.attempt = q.attempt /\ new.contractor = q.contractor /\ new.left = q.left
        /\ new.coverage = q.coverage /\ new.bad = q.bad
    BY <1>1, <2>2 DEF RunRecord
  <2> HIDE DEF new
  <2>4. end \in RunRecord /\ end = [new EXCEPT !.db = end.db]
    BY <2>3, <1>1, OpenedKeeps
  <2> HIDE DEF end
  <2>5. /\ end.at = "asking" /\ end.step = q.step /\ end.raised = q.raised
        /\ end.outside = q.outside /\ end.reason = TRUE
        /\ end.attempt = q.attempt /\ end.contractor = q.contractor /\ end.left = q.left
        /\ end.coverage = q.coverage /\ end.bad = q.bad
    BY <2>3, <2>4 DEF RunRecord
  <2>6. Kind(end) = "exclusions" /\ Label(end) = Label(q)
    BY <2>5, <1>6 DEF Kind, Label
  <2>7. Fit(r, end)
    BY <1>1, <2>4, <2>5, <2>6 DEF Fit, AtWork, Working
  <2> QED
    BY <2>1, <2>5, <2>7
<1>7. CASE Kind(q) \in {"plain", "patents"}
  <2> DEFINE new == [q EXCEPT !.todo = Tail(q.todo)]
  <2>1. GoesOn(r, q, text) = new
    BY <1>3, <1>7 DEF GoesOn
  <2>2. /\ new \in RunRecord
        /\ new.at = "asking" /\ new.step = q.step /\ new.raised = q.raised
        /\ new.outside = q.outside /\ new.db = q.db /\ new.reason = q.reason
        /\ new.attempt = q.attempt /\ new.contractor = q.contractor /\ new.left = q.left
        /\ new.coverage = q.coverage /\ new.bad = q.bad
    BY <1>1, <1>2 DEF RunRecord
  <2> HIDE DEF new
  <2>3. Kind(new) = Kind(q) /\ Label(new) = Label(q)
    BY <2>2 DEF Kind, Label
  <2>4. Fit(r, new)
    BY <1>1, <1>7, <2>2, <2>3 DEF Fit, AtWork, Working
  <2> QED
    BY <2>1, <2>2, <2>4
<1> QED
  BY <1>3, <1>4, <1>5, <1>6, <1>7

----------------------------------------------------------------------------
(* What the steps of one run leave as it was.                              *)

LEMMA OthersStay ==
    ASSUME IInv, NEW r \in Runs, NEW q, run' = [run EXCEPT ![r] = q],
           Fit(r, q), Heard(q, lost'[r]), \A s \in Runs \ {r} : lost'[s] = lost[s]
    PROVE  /\ Fits'
           /\ run' \in [Runs -> RunRecord]
           /\ \A s \in Runs : run'[s].contractor <= Contractors[s] /\ run'[s].left <= Budget[s]
           /\ \A s \in Runs : run'[s].at \in {"sending", "sleeping"} => run'[s].todo # <<>>
<1>1. run \in [Runs -> RunRecord]
  BY DEF IInv, TypeOK
<1>2. run'[r] = q /\ \A s \in Runs \ {r} : run'[s] = run[s]
  BY <1>1
<1>3. ASSUME NEW s \in Runs PROVE Fit(s, run'[s]) /\ Heard(run'[s], lost'[s])
  BY <1>2 DEF IInv, Fits
<1>4. q \in RunRecord
  BY DEF Fit
<1>5. run' \in [Runs -> RunRecord]
  BY <1>1, <1>4
<1> QED
  BY <1>3, <1>5 DEF Fits, Fit

\* The others sleep as they did.
LEMMA SleepersOf ==
    ASSUME IInv, NEW r \in Runs, NEW q, run' = [run EXCEPT ![r] = q], NEW h \in Hosts
    PROVE  /\ \A s \in Runs \ {r} : s \in Sleepers(h)' <=> s \in Sleepers(h)
           /\ r \in Sleepers(h)' <=> q.at = "sleeping" /\ HostOf[Head(q.todo)] = h
           /\ Sleepers(h) \subseteq Runs /\ Sleepers(h)' \subseteq Runs
<1>1. run \in [Runs -> RunRecord]
  BY DEF IInv, TypeOK
<1>2. run'[r] = q /\ \A s \in Runs \ {r} : run'[s] = run[s]
  BY <1>1
<1> QED
  BY <1>2 DEF Sleepers, Asked, Url

LEMMA FewerAsleep ==
    ASSUME NEW S \in SUBSET Runs, NEW T \in SUBSET S
    PROVE  /\ Cardinality(S) \in Nat /\ Cardinality(T) \in Nat /\ Cardinality(Runs) \in Nat \ {0}
           /\ Cardinality(T) <= Cardinality(S)
           /\ \A r \in S : r \notin T => Cardinality(T) < Cardinality(S)
<1>1. IsFiniteSet(Runs) /\ Runs # {}
  BY RunsAssumption
<1>2. IsFiniteSet(S) /\ IsFiniteSet(T)
  BY <1>1, FS_Subset
<1>3. /\ Cardinality(S) \in Nat /\ Cardinality(T) \in Nat /\ Cardinality(Runs) \in Nat
      /\ Cardinality(T) <= Cardinality(S)
  BY <1>1, <1>2, FS_CardinalityType, FS_Subset
<1>4. Cardinality(Runs) # 0
  BY <1>1, FS_EmptySet
<1>5. ASSUME NEW r \in S, r \notin T PROVE Cardinality(T) < Cardinality(S)
  <2>1. T \subseteq S \ {r}
    BY <1>5
  <2>2. IsFiniteSet(S \ {r}) /\ Cardinality(S \ {r}) = Cardinality(S) - 1
    BY <1>2, FS_RemoveElement
  <2>3. Cardinality(T) <= Cardinality(S \ {r})
    BY <2>1, <2>2, FS_Subset
  <2> QED
    BY <1>3, <2>2, <2>3
<1> QED
  BY <1>3, <1>4, <1>5

(* A run that did not go to sleep leaves fewer who do, so that a host whose  *)
(* rest and attempts are as they were is left alone as it was.              *)
LEMMA StillRested ==
    ASSUME IInv, NEW r \in Runs, NEW q, run' = [run EXCEPT ![r] = q], NEW h \in Hosts,
           q.at = "sleeping" => HostOf[Head(q.todo)] # h,
           breaker'[h].rest = breaker[h].rest, pressed'[h] = pressed[h]
    PROVE  IF Resting(h)' THEN pressed'[h] + Cardinality(Sleepers(h)') < Cardinality(Runs)
           ELSE pressed'[h] = 0
<1>1. Sleepers(h)' \in SUBSET Sleepers(h) /\ Sleepers(h) \in SUBSET Runs
  BY SleepersOf
<1>2. /\ Cardinality(Sleepers(h)) \in Nat /\ Cardinality(Sleepers(h)') \in Nat
      /\ Cardinality(Sleepers(h)') <= Cardinality(Sleepers(h))
      /\ Cardinality(Runs) \in Nat
  BY <1>1, FewerAsleep
<1>3. Resting(h)' <=> Resting(h)
  BY DEF Resting
<1>4. pressed[h] \in Nat
  BY DEF IInv, TypeOK
<1>5. IF Resting(h) THEN pressed[h] + Cardinality(Sleepers(h)) < Cardinality(Runs)
      ELSE pressed[h] = 0
  BY DEF IInv, Rested
<1> QED
  BY <1>2, <1>3, <1>4, <1>5

\* Where nobody went to sleep and no host changed.
LEMMA AllRested ==
    ASSUME IInv, NEW r \in Runs, NEW q, run' = [run EXCEPT ![r] = q],
           q.at # "sleeping", UNCHANGED <<breaker, pressed>>
    PROVE  Rested'
<1>1. ASSUME NEW h \in Hosts
      PROVE  IF Resting(h)' THEN pressed'[h] + Cardinality(Sleepers(h)') < Cardinality(Runs)
             ELSE pressed'[h] = 0
  <2>1. breaker'[h].rest = breaker[h].rest /\ pressed'[h] = pressed[h]
    OBVIOUS
  <2> QED
    BY <2>1, StillRested
<1> QED
  BY <1>1 DEF Rested

----------------------------------------------------------------------------
(* A request.                                                              *)

\* Where a run is while it asks.
LEMMA RunFacts ==
    ASSUME IInv, NEW r \in Runs, run[r].at \in Working
    PROVE  /\ run[r] \in RunRecord /\ Fit(r, run[r]) /\ AtWork(run[r])
           /\ Heard(run[r], lost[r]) /\ lost[r] \subseteq Labels
           /\ Step(r).label = Label(run[r]) /\ Step(r).kind = Kind(run[r])
           /\ Label(run[r]) \in Labels
           /\ Kind(run[r]) \in {"plain", "exclusions", "lists", "patents"}
           /\ run[r].todo # <<>> => Url(r) \in Urls /\ Asked(r) \in Hosts
<1>1. run[r] \in RunRecord /\ lost[r] \in SUBSET Labels
  BY DEF IInv, TypeOK
<1>2. Fit(r, run[r]) /\ Heard(run[r], lost[r])
  BY DEF IInv, Fits
<1>3. AtWork(run[r])
  BY <1>2 DEF Fit
<1>4. Label(run[r]) \in Labels /\ Kind(run[r]) \in {"plain", "exclusions", "lists", "patents"}
  BY <1>3, StepFacts DEF AtWork, Label, Kind
<1>5. run[r].todo \in Seq(Urls)
  BY <1>1 DEF RunRecord
<1>6. run[r].todo # <<>> => Url(r) \in Urls /\ Asked(r) \in Hosts
  BY <1>5 DEF Url, Asked, Hosts
<1> QED
  BY <1>1, <1>2, <1>3, <1>4, <1>6 DEF Step, Label, Kind

LEMMA GoesOnHeard ==
    ASSUME IInv, NEW r \in Runs, run[r].at \in Working, run[r].todo # <<>>,
           NEW q, Fit(r, q), q.at = "asking", q.step = run[r].step, q.todo = run[r].todo,
           NEW text \in BOOLEAN, NEW labels, Heard(q, labels)
    PROVE  Heard(GoesOn(r, q, text), labels)
<1> DEFINE g == GoesOn(r, q, text)
<1>1. TypeOK
  BY DEF IInv
<1>2. /\ g.at \in {"asking", "downloading"} /\ g.coverage = q.coverage /\ g.step = q.step
      /\ g.bad = q.bad /\ g.raised = q.raised /\ (q.reason => g.reason)
  BY <1>1, GoesOnFits
<1> HIDE DEF g
<1>3. Kind(g) = Kind(q) /\ Label(g) = Label(q)
  BY <1>2 DEF Kind, Label
<1>4. Trouble(q) => Trouble(g)
  BY <1>2, <1>3 DEF Trouble
<1>5. Heard(g, labels)
  BY <1>2, <1>3, <1>4 DEF Heard, Working
<1> QED
  BY <1>5 DEF g

(* A request that has ended: the step goes on, and what it did not get is    *)
(* noted or has its trouble.                                                *)
LEMMA Ended ==
    ASSUME IInv, NEW r \in Runs, run[r].at \in Working, run[r].todo # <<>>,
           NEW q, Fit(r, q), q.at = "asking", q.step = run[r].step, q.todo = run[r].todo,
           NEW text \in BOOLEAN, run' = [run EXCEPT ![r] = GoesOn(r, q, text)],
           Heard(q, lost'[r]), \A s \in Runs \ {r} : lost'[s] = lost[s]
    PROVE  /\ Fits'
           /\ run' \in [Runs -> RunRecord]
           /\ \A s \in Runs : run'[s].contractor <= Contractors[s] /\ run'[s].left <= Budget[s]
           /\ \A s \in Runs : run'[s].at \in {"sending", "sleeping"} => run'[s].todo # <<>>
           /\ GoesOn(r, q, text).at # "sleeping"
<1>1. Fit(r, GoesOn(r, q, text)) /\ GoesOn(r, q, text).at # "sleeping"
  BY GoesOnFits DEF IInv
<1>2. Heard(GoesOn(r, q, text), lost'[r])
  BY GoesOnHeard
<1> DEFINE g == GoesOn(r, q, text)
<1>3. Fit(r, g) /\ Heard(g, lost'[r]) /\ run' = [run EXCEPT ![r] = g] /\ g.at # "sleeping"
  BY <1>1, <1>2
<1> HIDE DEF g
<1>4. /\ Fits'
      /\ run' \in [Runs -> RunRecord]
      /\ \A s \in Runs : run'[s].contractor <= Contractors[s] /\ run'[s].left <= Budget[s]
      /\ \A s \in Runs : run'[s].at \in {"sending", "sleeping"} => run'[s].todo # <<>>
  BY <1>3, OthersStay
<1> QED
  BY <1>1, <1>4

LEMMA HitKeeps ==
    ASSUME IInv, NEW r \in Runs, Hit(r)
    PROVE  IInv'
<1>1. run[r].at = "asking" /\ run[r].at \in Working /\ run[r].todo # <<>>
  BY DEF Hit, Ready, Working
<1>2. Fit(r, run[r]) /\ Heard(run[r], lost[r])
  BY <1>1, RunFacts
<1>3. /\ run' = [run EXCEPT ![r] = GoesOn(r, run[r], TRUE)]
      /\ marker' = (marker \/ (Step(r).kind = "exclusions" /\ ~TRUE))
      /\ UNCHANGED <<breaker, copies, index, lost, aged, pressed, faults>>
  BY DEF Hit, Goes, histories
<1>4. /\ Fits'
      /\ run' \in [Runs -> RunRecord]
      /\ \A s \in Runs : run'[s].contractor <= Contractors[s] /\ run'[s].left <= Budget[s]
      /\ \A s \in Runs : run'[s].at \in {"sending", "sleeping"} => run'[s].todo # <<>>
      /\ GoesOn(r, run[r], TRUE).at # "sleeping"
  BY <1>1, <1>2, <1>3, Ended
<1>5. TypeOK'
  BY <1>3, <1>4 DEF IInv, TypeOK
<1>6. Rested'
  BY <1>3, <1>4, AllRested
<1> QED
  BY <1>4, <1>5, <1>6 DEF IInv

\* What goes wrong is counted.
LEMMA FaultyCounts ==
    ASSUME IInv, Faulty
    PROVE  faults' \in 0..MaxFaults
BY BoundsAssumption DEF IInv, TypeOK, Faulty

(* A request that did without: it went on from what the run was, a host      *)
(* against it.                                                              *)
LEMMA SkipKeeps ==
    ASSUME IInv, NEW r \in Runs, Skip(r)
    PROVE  IInv'
<1> DEFINE h == Asked(r)
           old == copies[Url(r)] = "old"
           text == copies[Url(r)] # "none"
           q == IF old THEN run[r] ELSE [run[r] EXCEPT !.bad = @ \cup {h}]
<1>1. run[r].at = "asking" /\ run[r].at \in Working /\ run[r].todo # <<>>
  BY DEF Skip, Ready, Working
<1>2. /\ run[r] \in RunRecord /\ Fit(r, run[r]) /\ AtWork(run[r])
      /\ Heard(run[r], lost[r]) /\ lost[r] \subseteq Labels
      /\ Step(r).label = Label(run[r]) /\ Label(run[r]) \in Labels
      /\ h \in Hosts
  BY <1>1, RunFacts
<1> HIDE DEF h
<1>3. /\ q \in RunRecord
      /\ q.at = "asking" /\ q.step = run[r].step /\ q.raised = run[r].raised
      /\ q.outside = run[r].outside /\ q.todo = run[r].todo /\ q.lists = run[r].lists
      /\ q.db = run[r].db /\ q.reason = run[r].reason /\ q.attempt = run[r].attempt
      /\ q.contractor = run[r].contractor /\ q.left = run[r].left
      /\ q.coverage = run[r].coverage
  <2>1. CASE old
    BY <2>1, <1>1, <1>2
  <2>2. CASE ~old
    BY <2>2, <1>1, <1>2 DEF RunRecord
  <2> QED
    BY <2>1, <2>2
<1>4. (q.bad = run[r].bad \/ q.bad # {}) /\ (~old => q.bad # {})
  BY <1>2 DEF RunRecord
<1>5. /\ run' = [run EXCEPT ![r] = GoesOn(r, q, text)]
      /\ marker' = (marker \/ (Step(r).kind = "exclusions" /\ ~text))
      /\ UNCHANGED <<breaker, copies, index, pressed, faults>>
  <2>1. Goes(r, [q EXCEPT !.at = "asking"], text)
    BY DEF Skip, Without, h
  <2>2. [q EXCEPT !.at = "asking"] = q
    BY <1>3 DEF RunRecord
  <2> HIDE DEF q
  <2> QED
    BY <2>1, <2>2 DEF Goes, Skip
<1>6. /\ ~old => lost' = [lost EXCEPT ![r] = @ \cup {Step(r).label}] /\ aged' = aged
      /\ old => lost' = lost /\ aged' = [aged EXCEPT ![r] = @ \cup {Step(r).label}]
  BY DEF Skip, Loses
<1>7. text \in BOOLEAN
  OBVIOUS
<1> HIDE DEF q, text, old
<1>8. Kind(q) = Kind(run[r]) /\ Label(q) = Label(run[r])
  BY <1>3 DEF Kind, Label
<1>9. Fit(r, q)
  BY <1>1, <1>2, <1>3, <1>8 DEF Fit, AtWork
<1>10. /\ lost \in [Runs -> SUBSET Labels] /\ aged \in [Runs -> SUBSET Labels]
       /\ marker \in BOOLEAN
  BY DEF IInv, TypeOK
<1>11. /\ lost' \in [Runs -> SUBSET Labels] /\ aged' \in [Runs -> SUBSET Labels]
       /\ marker' \in BOOLEAN
       /\ \A s \in Runs \ {r} : lost'[s] = lost[s]
       /\ \A l \in lost'[r] : l \in lost[r] \/ (l = Label(q) /\ ~old)
  BY <1>2, <1>5, <1>6, <1>8, <1>10
<1>12. Heard(q, lost'[r])
  BY <1>1, <1>2, <1>3, <1>4, <1>8, <1>11 DEF Heard, Trouble
<1>13. /\ Fits'
       /\ run' \in [Runs -> RunRecord]
       /\ \A s \in Runs : run'[s].contractor <= Contractors[s] /\ run'[s].left <= Budget[s]
       /\ \A s \in Runs : run'[s].at \in {"sending", "sleeping"} => run'[s].todo # <<>>
       /\ GoesOn(r, q, text).at # "sleeping"
  BY <1>1, <1>3, <1>5, <1>7, <1>9, <1>11, <1>12, Ended
<1>14. TypeOK'
  BY <1>5, <1>11, <1>13 DEF IInv, TypeOK
<1>15. Rested'
  BY <1>5, <1>13, AllRested
<1> QED
  BY <1>13, <1>14, <1>15 DEF IInv

(* An attempt begins, the first at a host that does not rest, or one that    *)
(* was waited for.                                                          *)
LEMMA BeginsKeeps ==
    ASSUME IInv, NEW r \in Runs, Begins(r), run[r].at \in {"asking", "sleeping"},
           run[r].todo # <<>>, Resting(Asked(r)) => run[r].at = "sleeping"
    PROVE  IInv'
<1> DEFINE q == [run[r] EXCEPT !.at = "sending", !.attempt = @ + 1]
<1>1. run[r].at \in Working
  BY DEF Working
<1>2. /\ run[r] \in RunRecord /\ Fit(r, run[r]) /\ AtWork(run[r])
      /\ Heard(run[r], lost[r]) /\ Asked(r) \in Hosts
  BY <1>1, RunFacts
<1>3. run[r].attempt + 1 \in 0..Attempts
  <2>1. run[r].attempt \in 0..Attempts /\ Attempts \in Nat \ {0}
    BY <1>2, BoundsAssumption DEF RunRecord
  <2>2. run[r].attempt < Attempts
    BY <2>1, <1>2 DEF Fit
  <2> QED
    BY <2>1, <2>2
<1>4. /\ q \in RunRecord
      /\ q.at = "sending" /\ q.step = run[r].step /\ q.raised = run[r].raised
      /\ q.outside = run[r].outside /\ q.todo = run[r].todo /\ q.lists = run[r].lists
      /\ q.db = run[r].db /\ q.reason = run[r].reason /\ q.bad = run[r].bad
      /\ q.contractor = run[r].contractor /\ q.left = run[r].left
      /\ q.coverage = run[r].coverage
  BY <1>2, <1>3 DEF RunRecord
<1>5. run' = [run EXCEPT ![r] = q]
  BY DEF Begins, IInv, TypeOK, RunRecord
<1>6. /\ UNCHANGED <<breaker, copies, index, marker, lost, aged, faults>>
      /\ pressed' = IF Resting(Asked(r)) THEN [pressed EXCEPT ![Asked(r)] = @ + 1] ELSE pressed
  BY DEF Begins, shared
<1> HIDE DEF q
<1>7. Kind(q) = Kind(run[r]) /\ Label(q) = Label(run[r])
  BY <1>4 DEF Kind, Label
<1>8. Fit(r, q)
  <2>1. AtWork(q)
    BY <1>2, <1>4, <1>7 DEF AtWork
  <2>2. q.contractor <= Contractors[r] /\ q.left <= Budget[r] /\ (q.db = "old" => q.reason)
    BY <1>2, <1>4 DEF Fit
  <2> QED
    BY <2>1, <2>2, <1>4 DEF Fit
<1>9. Heard(q, lost'[r])
  BY <1>1, <1>2, <1>4, <1>6, <1>7 DEF Heard, Trouble, Working
<1>10. /\ Fits'
       /\ run' \in [Runs -> RunRecord]
       /\ \A s \in Runs : run'[s].contractor <= Contractors[s] /\ run'[s].left <= Budget[s]
       /\ \A s \in Runs : run'[s].at \in {"sending", "sleeping"} => run'[s].todo # <<>>
  BY <1>5, <1>6, <1>8, <1>9, OthersStay
<1>11. pressed \in [Hosts -> Nat]
  BY DEF IInv, TypeOK
<1>12. pressed' \in [Hosts -> Nat]
  BY <1>2, <1>6, <1>11
<1>13. TypeOK'
  BY <1>6, <1>10, <1>12 DEF IInv, TypeOK
<1>14. ASSUME NEW g \in Hosts
       PROVE  IF Resting(g)' THEN pressed'[g] + Cardinality(Sleepers(g)') < Cardinality(Runs)
              ELSE pressed'[g] = 0
  <2>1. CASE g # Asked(r) \/ ~Resting(g)
    <3>1. breaker'[g].rest = breaker[g].rest /\ pressed'[g] = pressed[g]
      BY <2>1, <1>2, <1>6, <1>11
    <3> QED
      BY <3>1, <1>4, <1>5, StillRested
  <2>2. CASE g = Asked(r) /\ Resting(g)
    <3>1. r \in Sleepers(g) /\ r \notin Sleepers(g)' /\ Sleepers(g)' \in SUBSET Sleepers(g)
          /\ Sleepers(g) \in SUBSET Runs
      <4>1. r \in Sleepers(g)
        BY <2>2 DEF Sleepers
      <4> QED
        BY <4>1, <1>4, <1>5, SleepersOf
    <3>2. /\ Cardinality(Sleepers(g)) \in Nat /\ Cardinality(Sleepers(g)') \in Nat
          /\ Cardinality(Sleepers(g)') < Cardinality(Sleepers(g))
          /\ Cardinality(Runs) \in Nat
      BY <3>1, FewerAsleep
    <3>3. pressed[g] + Cardinality(Sleepers(g)) < Cardinality(Runs)
      BY <2>2 DEF IInv, Rested
    <3>4. pressed'[g] = pressed[g] + 1 /\ pressed[g] \in Nat
      BY <2>2, <1>6, <1>11
    <3>5. Resting(g)'
      BY <2>2, <1>6 DEF Resting
    <3> QED
      BY <3>2, <3>3, <3>4, <3>5
  <2> QED
    BY <2>1, <2>2
<1>15. Rested'
  BY <1>14 DEF Rested
<1> QED
  BY <1>10, <1>13, <1>15 DEF IInv

LEMMA SendKeeps ==
    ASSUME IInv, NEW r \in Runs, Send(r)
    PROVE  IInv'
BY BeginsKeeps DEF Send, Ready

LEMMA SendAgainKeeps ==
    ASSUME IInv, NEW r \in Runs, SendAgain(r)
    PROVE  IInv'
<1>1. run[r].at = "sleeping" /\ Begins(r)
  BY DEF SendAgain
<1>2. run[r].todo # <<>>
  BY <1>1 DEF IInv, TypeOK
<1> QED
  BY <1>1, <1>2, BeginsKeeps

(* An answer ends the rest of its host, and with it the attempts that        *)
(* pressed it.                                                              *)
LEMMA AnsweredKeeps ==
    ASSUME IInv, NEW r \in Runs, NEW ok \in BOOLEAN, Answered(r, ok)
    PROVE  IInv'
<1> DEFINE h == Asked(r)
           q == [run[r] EXCEPT !.at = "asking", !.attempt = 0]
<1>1. run[r].at = "sending" /\ run[r].at \in Working /\ run[r].todo # <<>>
  BY DEF Answered, Working, IInv, TypeOK
<1>2. /\ run[r] \in RunRecord /\ Fit(r, run[r]) /\ AtWork(run[r])
      /\ Heard(run[r], lost[r]) /\ Url(r) \in Urls /\ h \in Hosts
  BY <1>1, RunFacts
<1>3. 0 \in 0..Attempts
  BY BoundsAssumption
<1>4. /\ q \in RunRecord
      /\ q.at = "asking" /\ q.step = run[r].step /\ q.raised = run[r].raised
      /\ q.outside = run[r].outside /\ q.todo = run[r].todo /\ q.lists = run[r].lists
      /\ q.db = run[r].db /\ q.reason = run[r].reason /\ q.attempt = 0
      /\ q.contractor = run[r].contractor /\ q.left = run[r].left
      /\ q.coverage = run[r].coverage /\ q.bad = run[r].bad
  BY <1>2, <1>3 DEF RunRecord
<1>5. /\ run' = [run EXCEPT ![r] = GoesOn(r, q, ok)]
      /\ marker' = (marker \/ (Step(r).kind = "exclusions" /\ ~ok))
      /\ breaker' = [breaker EXCEPT ![h] = [fails |-> 0, rest |-> 0]]
      /\ pressed' = [pressed EXCEPT ![h] = 0]
      /\ copies' = IF ok THEN [copies EXCEPT ![Url(r)] = "fresh"] ELSE copies
      /\ faults' = faults \/ Faulty
      /\ UNCHANGED <<index, lost, aged>>
  BY DEF Answered, Goes, Succeeded
<1> HIDE DEF q, h
<1>6. Kind(q) = Kind(run[r]) /\ Label(q) = Label(run[r])
  BY <1>4 DEF Kind, Label
<1>7. Fit(r, q)
  BY <1>1, <1>2, <1>4, <1>6 DEF Fit, AtWork, Working
<1>8. Heard(q, lost'[r])
  BY <1>1, <1>2, <1>4, <1>5, <1>6 DEF Heard, Trouble, Working
<1>9. /\ Fits'
      /\ run' \in [Runs -> RunRecord]
      /\ \A s \in Runs : run'[s].contractor <= Contractors[s] /\ run'[s].left <= Budget[s]
      /\ \A s \in Runs : run'[s].at \in {"sending", "sleeping"} => run'[s].todo # <<>>
      /\ GoesOn(r, q, ok).at # "sleeping"
  BY <1>1, <1>4, <1>5, <1>7, <1>8, Ended
<1>10. /\ breaker \in [Hosts -> [fails : 0..BreakAfter, rest : 0..MaxPause]]
       /\ pressed \in [Hosts -> Nat] /\ copies \in [Urls -> {"none", "fresh", "old"}]
       /\ marker \in BOOLEAN /\ faults \in 0..MaxFaults
  BY DEF IInv, TypeOK
<1>11. /\ breaker' \in [Hosts -> [fails : 0..BreakAfter, rest : 0..MaxPause]]
       /\ breaker'[h].rest = 0 /\ \A g \in Hosts \ {h} : breaker'[g] = breaker[g]
  <2>1. BreakAfter \in Nat /\ MaxPause \in Nat
    BY BoundsAssumption
  <2>2. [fails |-> 0, rest |-> 0] \in [fails : 0..BreakAfter, rest : 0..MaxPause]
    BY <2>1
  <2> QED
    BY <2>2, <1>2, <1>5, <1>10
<1>12. /\ pressed' \in [Hosts -> Nat] /\ pressed'[h] = 0
       /\ \A g \in Hosts \ {h} : pressed'[g] = pressed[g]
       /\ copies' \in [Urls -> {"none", "fresh", "old"}]
       /\ marker' \in BOOLEAN /\ faults' \in 0..MaxFaults
  BY <1>2, <1>5, <1>10, FaultyCounts
<1>13. TypeOK'
  BY <1>5, <1>9, <1>11, <1>12 DEF IInv, TypeOK
<1>14. ASSUME NEW g \in Hosts
       PROVE  IF Resting(g)' THEN pressed'[g] + Cardinality(Sleepers(g)') < Cardinality(Runs)
              ELSE pressed'[g] = 0
  <2>1. CASE g = h
    <3>1. ~Resting(g)'
      BY <2>1, <1>11 DEF Resting
    <3> QED
      BY <3>1, <2>1, <1>12
  <2>2. CASE g # h
    <3>1. breaker'[g].rest = breaker[g].rest /\ pressed'[g] = pressed[g]
      BY <2>2, <1>11, <1>12
    <3> QED
      BY <3>1, <1>5, <1>9, StillRested
  <2> QED
    BY <2>1, <2>2
<1>15. Rested'
  BY <1>14 DEF Rested
<1> QED
  BY <1>9, <1>13, <1>15 DEF IInv

\* A host that has failed is left to those who wait for it already.
LEMMA FailedRests ==
    ASSUME IInv, NEW r \in Runs, run[r].at = "sending", Asked(r) \in Hosts,
           NEW asked \in Asks, NEW q, run' = [run EXCEPT ![r] = q],
           breaker' = Failed(Asked(r), asked), pressed' = pressed,
           q.at = "sleeping" => /\ HostOf[Head(q.todo)] = Asked(r)
                                /\ Failed(Asked(r), asked)[Asked(r)].rest = 0
    PROVE  Rested'
<1> DEFINE h == Asked(r)
<1>1. /\ \A g \in Hosts \ {h} : breaker'[g] = breaker[g]
      /\ Resting(h) => breaker'[h].rest > 0
      /\ breaker'[h].rest \in Nat
  <2>1. /\ Failed(h, asked) \in [Hosts -> [fails : 0..BreakAfter, rest : 0..MaxPause]]
        /\ \A g \in Hosts \ {h} : Failed(h, asked)[g] = breaker[g]
        /\ Resting(h) => Failed(h, asked)[h].rest > 0
    BY FailedFacts DEF IInv
  <2>2. Failed(h, asked)[h].rest \in 0..MaxPause
    BY <2>1
  <2> QED
    BY <2>1, <2>2, BoundsAssumption
<1>2. ASSUME NEW g \in Hosts
      PROVE  IF Resting(g)' THEN pressed'[g] + Cardinality(Sleepers(g)') < Cardinality(Runs)
             ELSE pressed'[g] = 0
  <2>1. CASE g # h
    <3>1. breaker'[g].rest = breaker[g].rest /\ pressed'[g] = pressed[g]
      BY <2>1, <1>1
    <3>2. q.at = "sleeping" => HostOf[Head(q.todo)] # g
      BY <2>1
    <3> QED
      BY <3>1, <3>2, StillRested
  <2>2. CASE g = h /\ ~Resting(g)'
    <3>1. ~Resting(g)
      BY <2>2, <1>1 DEF Resting
    <3> QED
      BY <3>1, <2>2 DEF IInv, Rested
  <2>3. CASE g = h /\ Resting(g)'
    <3>1. q.at # "sleeping"
      BY <2>3 DEF Resting
    <3>2. /\ Sleepers(g)' \in SUBSET Sleepers(g) /\ Sleepers(g) \in SUBSET Runs
          /\ r \notin Sleepers(g)
      <4>1. r \notin Sleepers(g)
        BY DEF Sleepers
      <4> QED
        BY <3>1, <4>1, SleepersOf
    <3>3. pressed[g] \in Nat
      BY DEF IInv, TypeOK
    <3>4. CASE Resting(g)
      <4>1. pressed[g] + Cardinality(Sleepers(g)) < Cardinality(Runs)
        BY <3>4 DEF IInv, Rested
      <4>2. /\ Cardinality(Sleepers(g)) \in Nat /\ Cardinality(Sleepers(g)') \in Nat
            /\ Cardinality(Sleepers(g)') <= Cardinality(Sleepers(g))
            /\ Cardinality(Runs) \in Nat
        BY <3>2, FewerAsleep
      <4> QED
        BY <2>3, <3>3, <4>1, <4>2
    <3>5. CASE ~Resting(g)
      <4>1. pressed[g] = 0
        BY <3>5 DEF IInv, Rested
      <4>2. Sleepers(g)' \in SUBSET Runs /\ r \notin Sleepers(g)' /\ Runs \in SUBSET Runs
        BY <3>2
      <4>3. /\ Cardinality(Sleepers(g)') \in Nat /\ Cardinality(Runs) \in Nat
            /\ Cardinality(Sleepers(g)') < Cardinality(Runs)
        BY <4>2, FewerAsleep
      <4> QED
        BY <2>3, <4>1, <4>3
    <3> QED
      BY <3>4, <3>5
  <2> QED
    BY <2>1, <2>2, <2>3
<1> QED
  BY <1>2 DEF Rested

(* No answer: the run gives up and does without, or waits, no longer than    *)
(* it has and for a host that does not rest.                                *)
LEMMA NotAnsweredKeeps ==
    ASSUME IInv, NEW r \in Runs, NEW asked \in Asks, NotAnswered(r, asked)
    PROVE  IInv'
<1> DEFINE h == Asked(r)
           text == copies[Url(r)] # "none"
           p == [run[r] EXCEPT !.bad = @ \cup {h}]
           wait == Wait(asked)
<1>1. run[r].at = "sending" /\ run[r].at \in Working /\ run[r].todo # <<>>
  BY DEF NotAnswered, Working, IInv, TypeOK
<1>2. /\ run[r] \in RunRecord /\ Fit(r, run[r]) /\ AtWork(run[r])
      /\ Heard(run[r], lost[r]) /\ lost[r] \subseteq Labels
      /\ Step(r).label = Label(run[r]) /\ Label(run[r]) \in Labels
      /\ h \in Hosts
  BY <1>1, RunFacts
<1>3. /\ breaker' = Failed(h, asked) /\ faults' \in 0..MaxFaults
      /\ UNCHANGED <<copies, index, aged, pressed>>
  BY FaultyCounts DEF NotAnswered
<1>4. /\ GivesUp(r, h, asked) => Without(r, [p EXCEPT !.attempt = 0]) /\ Loses(r)
      /\ ~GivesUp(r, h, asked) =>
            /\ run' = [run EXCEPT ![r] = [p EXCEPT !.at = "sleeping", !.wake = wait]]
            /\ UNCHANGED <<marker, lost>>
  BY DEF NotAnswered
<1> HIDE DEF h
<1>5. /\ p \in RunRecord
      /\ p.at = "sending" /\ p.step = run[r].step /\ p.raised = run[r].raised
      /\ p.outside = run[r].outside /\ p.todo = run[r].todo /\ p.lists = run[r].lists
      /\ p.db = run[r].db /\ p.reason = run[r].reason /\ p.attempt = run[r].attempt
      /\ p.contractor = run[r].contractor /\ p.left = run[r].left
      /\ p.coverage = run[r].coverage /\ p.bad # {}
  BY <1>1, <1>2 DEF RunRecord
<1>6. breaker' \in [Hosts -> [fails : 0..BreakAfter, rest : 0..MaxPause]]
  BY <1>2, <1>3, FailedFacts DEF IInv
<1> HIDE DEF p
<1>7. lost \in [Runs -> SUBSET Labels] /\ marker \in BOOLEAN
  BY DEF IInv, TypeOK
<1>8. CASE GivesUp(r, h, asked)
  <2> DEFINE q == [p EXCEPT !.attempt = 0, !.at = "asking"]
  <2>1. 0 \in 0..Attempts
    BY BoundsAssumption
  <2>2. /\ q \in RunRecord
        /\ q.at = "asking" /\ q.step = run[r].step /\ q.raised = run[r].raised
        /\ q.outside = run[r].outside /\ q.todo = run[r].todo /\ q.lists = run[r].lists
        /\ q.db = run[r].db /\ q.reason = run[r].reason /\ q.attempt = 0
        /\ q.contractor = run[r].contractor /\ q.left = run[r].left
        /\ q.coverage = run[r].coverage /\ q.bad # {}
    BY <1>5, <2>1 DEF RunRecord
  <2>3. /\ run' = [run EXCEPT ![r] = GoesOn(r, q, text)]
        /\ marker' = (marker \/ (Step(r).kind = "exclusions" /\ ~text))
        /\ lost' = [lost EXCEPT ![r] = @ \cup {Step(r).label}]
    <3>1. Goes(r, [[p EXCEPT !.attempt = 0] EXCEPT !.at = "asking"], text)
      BY <1>4, <1>8 DEF Without
    <3>2. [[p EXCEPT !.attempt = 0] EXCEPT !.at = "asking"] = q
      BY <1>5 DEF RunRecord
    <3> HIDE DEF q
    <3> QED
      BY <3>1, <3>2, <1>4, <1>8 DEF Goes, Loses
  <2>4. text \in BOOLEAN
    OBVIOUS
  <2> HIDE DEF q, text
  <2>5. Kind(q) = Kind(run[r]) /\ Label(q) = Label(run[r])
    BY <2>2 DEF Kind, Label
  <2>6. Fit(r, q)
    BY <1>1, <1>2, <2>2, <2>5 DEF Fit, AtWork, Working
  <2>7. /\ lost' \in [Runs -> SUBSET Labels] /\ marker' \in BOOLEAN
        /\ \A s \in Runs \ {r} : lost'[s] = lost[s]
        /\ \A l \in lost'[r] : l \in lost[r] \/ l = Label(q)
    BY <1>2, <1>7, <2>3, <2>5
  <2>8. Heard(q, lost'[r])
    BY <1>1, <1>2, <2>2, <2>5, <2>7 DEF Heard, Trouble, Working
  <2>9. /\ Fits'
        /\ run' \in [Runs -> RunRecord]
        /\ \A s \in Runs : run'[s].contractor <= Contractors[s] /\ run'[s].left <= Budget[s]
        /\ \A s \in Runs : run'[s].at \in {"sending", "sleeping"} => run'[s].todo # <<>>
        /\ GoesOn(r, q, text).at # "sleeping"
    BY <1>1, <2>2, <2>3, <2>4, <2>6, <2>7, <2>8, Ended
  <2>10. TypeOK'
    BY <1>3, <1>6, <2>7, <2>9 DEF IInv, TypeOK
  <2>11. Rested'
    BY <1>1, <1>2, <1>3, <2>3, <2>9, FailedRests DEF h
  <2> QED
    BY <2>9, <2>10, <2>11 DEF IInv
<1>9. CASE ~GivesUp(r, h, asked)
  <2> DEFINE q == [p EXCEPT !.at = "sleeping", !.wake = wait]
  <2>1. /\ run[r].attempt < Attempts /\ wait <= MaxWait
        /\ Failed(h, asked)[h].rest = 0 /\ ~OutOfTime(r, wait)
    <3>1. /\ ~(run[r].attempt >= Attempts) /\ ~(wait > MaxWait)
          /\ ~(Failed(h, asked)[h].rest > 0) /\ ~OutOfTime(r, wait)
      BY <1>9 DEF GivesUp
    <3>2. Failed(h, asked)[h].rest \in 0..MaxPause
      BY <1>2, <1>3, <1>6
    <3>3. run[r].attempt \in 0..Attempts /\ Attempts \in Nat /\ MaxWait \in Nat /\ MaxPause \in Nat
      BY <1>2, BoundsAssumption DEF RunRecord
    <3>4. wait \in Nat
      BY BoundsAssumption DEF Wait, Least
    <3> HIDE DEF wait
    <3> QED
      BY <3>1, <3>2, <3>3, <3>4
  <2>2. wait \in 0..MaxWait
    <3>1. wait \in Nat /\ MaxWait \in Nat
      BY BoundsAssumption DEF Wait, Least
    <3> HIDE DEF wait
    <3> QED
      BY <2>1, <3>1
  <2>3. Budget[r] > 0 => wait < run[r].left
    <3>1. wait \in Nat /\ run[r].left \in Nat
      BY <2>2, <1>2 DEF RunRecord
    <3> HIDE DEF wait
    <3> QED
      BY <2>1, <3>1 DEF OutOfTime
  <2> HIDE DEF wait
  <2>4. /\ q \in RunRecord
        /\ q.at = "sleeping" /\ q.step = run[r].step /\ q.raised = run[r].raised
        /\ q.outside = run[r].outside /\ q.todo = run[r].todo /\ q.lists = run[r].lists
        /\ q.db = run[r].db /\ q.reason = run[r].reason /\ q.attempt = run[r].attempt
        /\ q.contractor = run[r].contractor /\ q.left = run[r].left
        /\ q.coverage = run[r].coverage /\ q.bad # {} /\ q.wake = wait
    BY <1>5, <2>2 DEF RunRecord
  <2>5. run' = [run EXCEPT ![r] = q] /\ marker' = marker /\ lost' = lost
    BY <1>4, <1>9
  <2> HIDE DEF q
  <2>6. Kind(q) = Kind(run[r]) /\ Label(q) = Label(run[r])
    BY <2>4 DEF Kind, Label
  <2>7. Fit(r, q)
    BY <1>1, <1>2, <2>1, <2>3, <2>4, <2>6 DEF Fit, AtWork, Working
  <2>8. Heard(q, lost'[r])
    BY <1>1, <1>2, <2>4, <2>5, <2>6 DEF Heard, Trouble, Working
  <2>9. /\ Fits'
        /\ run' \in [Runs -> RunRecord]
        /\ \A s \in Runs : run'[s].contractor <= Contractors[s] /\ run'[s].left <= Budget[s]
        /\ \A s \in Runs : run'[s].at \in {"sending", "sleeping"} => run'[s].todo # <<>>
    BY <2>5, <2>7, <2>8, OthersStay
  <2>10. TypeOK'
    BY <1>3, <1>6, <1>7, <2>5, <2>9 DEF IInv, TypeOK
  <2>11. HostOf[Head(q.todo)] = h
    BY <2>4 DEF h, Asked, Url
  <2>12. Rested'
    BY <1>1, <1>2, <1>3, <2>1, <2>5, <2>11, FailedRests DEF h
  <2> QED
    BY <2>9, <2>10, <2>12 DEF IInv
<1> QED
  BY <1>8, <1>9

----------------------------------------------------------------------------
(* A step, and a contractor.                                               *)

LEMMA DownloadKeeps ==
    ASSUME IInv, NEW r \in Runs, NEW came \in BOOLEAN, Download(r, came)
    PROVE  IInv'
<1>1. run[r].at = "downloading" /\ run[r].at \in Working
  BY DEF Download, Working
<1>2. /\ run[r] \in RunRecord /\ Fit(r, run[r]) /\ AtWork(run[r])
      /\ Heard(run[r], lost[r]) /\ lost[r] \subseteq Labels
      /\ Step(r).label = Label(run[r]) /\ Label(run[r]) \in Labels
      /\ Kind(run[r]) = "exclusions"
  <2>1. /\ run[r] \in RunRecord /\ Fit(r, run[r]) /\ AtWork(run[r])
        /\ Heard(run[r], lost[r]) /\ lost[r] \subseteq Labels
        /\ Step(r).label = Label(run[r]) /\ Label(run[r]) \in Labels
    BY <1>1, RunFacts
  <2> QED
    BY <2>1, <1>1 DEF AtWork
<1>3. /\ lost \in [Runs -> SUBSET Labels] /\ index \in {"none", "today", "old"}
      /\ faults \in 0..MaxFaults
  BY DEF IInv, TypeOK
<1>4. /\ index' \in {"none", "today", "old"} /\ marker' \in BOOLEAN
      /\ faults' \in 0..MaxFaults
      /\ UNCHANGED <<breaker, copies, aged, pressed>>
  BY <1>3, FaultyCounts DEF Download
<1>5. CASE came
  <2> DEFINE q == [run[r] EXCEPT !.at = "asking", !.db = "today"]
  <2>1. /\ q \in RunRecord
        /\ q.at = "asking" /\ q.step = run[r].step /\ q.raised = run[r].raised
        /\ q.outside = run[r].outside /\ q.todo = run[r].todo /\ q.lists = run[r].lists
        /\ q.db = "today" /\ q.reason = run[r].reason /\ q.attempt = run[r].attempt
        /\ q.contractor = run[r].contractor /\ q.left = run[r].left
        /\ q.coverage = run[r].coverage /\ q.bad = run[r].bad
    BY <1>2 DEF RunRecord
  <2>2. run' = [run EXCEPT ![r] = q] /\ lost' = lost
    <3>1. [[run[r] EXCEPT !.at = "asking"] EXCEPT !.db = "today"] = q
      BY <1>2 DEF RunRecord
    <3> HIDE DEF q
    <3> QED
      BY <3>1, <1>5 DEF Download
  <2> HIDE DEF q
  <2>3. Kind(q) = Kind(run[r]) /\ Label(q) = Label(run[r])
    BY <2>1 DEF Kind, Label
  <2>4. Fit(r, q)
    BY <1>1, <1>2, <2>1, <2>3 DEF Fit, AtWork, Working
  <2>5. Heard(q, lost'[r])
    BY <1>1, <1>2, <2>1, <2>2, <2>3 DEF Heard, Trouble, Working
  <2>6. /\ Fits'
        /\ run' \in [Runs -> RunRecord]
        /\ \A s \in Runs : run'[s].contractor <= Contractors[s] /\ run'[s].left <= Budget[s]
        /\ \A s \in Runs : run'[s].at \in {"sending", "sleeping"} => run'[s].todo # <<>>
    BY <2>2, <2>4, <2>5, OthersStay
  <2>7. TypeOK'
    BY <1>4, <2>2, <2>6 DEF IInv, TypeOK
  <2>8. Rested'
    BY <1>4, <2>1, <2>2, AllRested
  <2> QED
    BY <2>6, <2>7, <2>8 DEF IInv
<1>6. CASE ~came
  <2> DEFINE p == [run[r] EXCEPT !.at = "asking", !.reason = TRUE]
             q == Opened(p)
  <2>1. /\ p \in RunRecord
        /\ p.at = "asking" /\ p.step = run[r].step /\ p.raised = run[r].raised
        /\ p.outside = run[r].outside /\ p.reason = TRUE /\ p.attempt = run[r].attempt
        /\ p.contractor = run[r].contractor /\ p.left = run[r].left
        /\ p.coverage = run[r].coverage /\ p.bad = run[r].bad
    BY <1>2 DEF RunRecord
  <2>2. run' = [run EXCEPT ![r] = q] /\ lost' = [lost EXCEPT ![r] = @ \cup {Step(r).label}]
    <3>1. Unrefreshed([run[r] EXCEPT !.at = "asking"]) = p
      BY <1>2 DEF Unrefreshed, RunRecord
    <3> HIDE DEF p
    <3> QED
      BY <3>1, <1>6 DEF Download, Loses
  <2> HIDE DEF p
  <2>3. q \in RunRecord /\ q = [p EXCEPT !.db = q.db]
    BY <2>1, <1>3, OpenedKeeps
  <2> HIDE DEF q
  <2>4. /\ q.at = "asking" /\ q.step = run[r].step /\ q.raised = run[r].raised
        /\ q.outside = run[r].outside /\ q.reason = TRUE /\ q.attempt = run[r].attempt
        /\ q.contractor = run[r].contractor /\ q.left = run[r].left
        /\ q.coverage = run[r].coverage /\ q.bad = run[r].bad
    BY <2>1, <2>3 DEF RunRecord
  <2>5. Kind(q) = "exclusions" /\ Label(q) = Label(run[r])
    BY <1>2, <2>4 DEF Kind, Label
  <2>6. Fit(r, q)
    BY <1>1, <1>2, <2>3, <2>4, <2>5 DEF Fit, AtWork, Working
  <2>7. /\ lost' \in [Runs -> SUBSET Labels]
        /\ \A s \in Runs \ {r} : lost'[s] = lost[s]
        /\ \A l \in lost'[r] : l \in lost[r] \/ l = Label(q)
    BY <1>2, <1>3, <2>2, <2>5
  <2>8. Heard(q, lost'[r])
    BY <1>1, <1>2, <2>4, <2>5, <2>7 DEF Heard, Trouble, Working
  <2>9. /\ Fits'
        /\ run' \in [Runs -> RunRecord]
        /\ \A s \in Runs : run'[s].contractor <= Contractors[s] /\ run'[s].left <= Budget[s]
        /\ \A s \in Runs : run'[s].at \in {"sending", "sleeping"} => run'[s].todo # <<>>
    BY <2>2, <2>6, <2>7, <2>8, OthersStay
  <2>10. TypeOK'
    BY <1>4, <2>7, <2>9 DEF IInv, TypeOK
  <2>11. Rested'
    BY <1>4, <2>2, <2>4, AllRested
  <2> QED
    BY <2>9, <2>10, <2>11 DEF IInv
<1> QED
  BY <1>5, <1>6

(* A step that raised says so when it ends; while the lists are read for     *)
(* `available`, the run fails.                                              *)
LEMMA RaiseKeeps ==
    ASSUME IInv, NEW r \in Runs, Raise(r)
    PROVE  IInv'
<1> DEFINE q == IF run[r].outside THEN [run[r] EXCEPT !.at = "failed"]
                ELSE [run[r] EXCEPT !.raised = TRUE, !.todo = <<>>]
<1>1. run[r].at = "asking" /\ run[r].at \in Working
  BY DEF Raise, Working
<1>2. /\ run[r] \in RunRecord /\ Fit(r, run[r]) /\ AtWork(run[r])
      /\ Heard(run[r], lost[r]) /\ lost[r] \subseteq Labels
      /\ Step(r).label = Label(run[r]) /\ Label(run[r]) \in Labels
  BY <1>1, RunFacts
<1>3. /\ lost \in [Runs -> SUBSET Labels] /\ run \in [Runs -> RunRecord]
  BY DEF IInv, TypeOK
<1>4. run' = [run EXCEPT ![r] = q]
  BY <1>3 DEF Raise
<1>5. /\ faults' \in 0..MaxFaults
      /\ lost' = [lost EXCEPT ![r] = @ \cup {Step(r).label}]
      /\ UNCHANGED <<breaker, copies, index, marker, aged, pressed>>
  BY FaultyCounts DEF Raise, Loses, shared
<1>6. /\ lost' \in [Runs -> SUBSET Labels]
      /\ \A s \in Runs \ {r} : lost'[s] = lost[s]
      /\ \A l \in lost'[r] : l \in lost[r] \/ l = Label(run[r])
  BY <1>2, <1>3, <1>5
<1>7. Fit(r, q) /\ Heard(q, lost'[r]) /\ q.at # "sleeping"
  <2>1. CASE run[r].outside
    <3>1. q = [run[r] EXCEPT !.at = "failed"]
      BY <2>1
    <3> HIDE DEF q
    <3>2. /\ q \in RunRecord
          /\ q.at = "failed" /\ q.db = run[r].db /\ q.reason = run[r].reason
          /\ q.attempt = run[r].attempt
          /\ q.contractor = run[r].contractor /\ q.left = run[r].left
      BY <1>2, <3>1 DEF RunRecord
    <3> QED
      BY <1>1, <1>2, <3>2 DEF Fit, Heard, Working
  <2>2. CASE ~run[r].outside
    <3>1. q = [run[r] EXCEPT !.raised = TRUE, !.todo = <<>>]
      BY <2>2
    <3> HIDE DEF q
    <3>2. <<>> \in Seq(Urls)
      OBVIOUS
    <3>3. /\ q \in RunRecord
          /\ q.at = "asking" /\ q.step = run[r].step /\ q.raised = TRUE
          /\ q.outside = run[r].outside /\ q.lists = run[r].lists
          /\ q.db = run[r].db /\ q.reason = run[r].reason /\ q.attempt = run[r].attempt
          /\ q.contractor = run[r].contractor /\ q.left = run[r].left
          /\ q.coverage = run[r].coverage
      BY <1>1, <1>2, <3>1, <3>2 DEF RunRecord
    <3>4. Kind(q) = Kind(run[r]) /\ Label(q) = Label(run[r])
      BY <3>3 DEF Kind, Label
    <3>5. Fit(r, q)
      BY <1>1, <1>2, <2>2, <3>3, <3>4 DEF Fit, AtWork, Working
    <3>6. Heard(q, lost'[r])
      BY <1>1, <1>2, <1>6, <3>3, <3>4 DEF Heard, Trouble, Working
    <3> QED
      BY <3>3, <3>5, <3>6
  <2> QED
    BY <2>1, <2>2
<1> HIDE DEF q
<1>8. /\ Fits'
      /\ run' \in [Runs -> RunRecord]
      /\ \A s \in Runs : run'[s].contractor <= Contractors[s] /\ run'[s].left <= Budget[s]
      /\ \A s \in Runs : run'[s].at \in {"sending", "sleeping"} => run'[s].todo # <<>>
  BY <1>4, <1>6, <1>7, OthersStay
<1>9. TypeOK'
  BY <1>5, <1>6, <1>8 DEF IInv, TypeOK
<1>10. Rested'
  BY <1>4, <1>5, <1>7, AllRested
<1> QED
  BY <1>8, <1>9, <1>10 DEF IInv

\* What a step says of its source, and what _gather makes of that.
LEMMA SaysFacts ==
    ASSUME NEW q \in RunRecord, NEW label \in Labels
    PROVE  /\ Says(q, label) \in Said \ {""}
           /\ q.raised \/ q.bad # {} \/ Noted(q.coverage[label]) => Noted(Says(q, label))
<1>1. q.coverage[label] \in Said
  BY DEF RunRecord
<1> QED
  BY <1>1 DEF Says, Noted, Said

LEMMA CorrectedFacts ==
    ASSUME NEW q, NEW kind, NEW said \in Said
    PROVE  /\ Corrected(q, kind, said) \in Said
           /\ Noted(said) => Noted(Corrected(q, kind, said))
           /\ kind = "exclusions" /\ q.reason /\ said = "checked" => Noted(Corrected(q, kind, said))
<1> DEFINE a == kind = "exclusions" /\ q.reason /\ said = "checked"
           b == kind = "lists" /\ q.lists = "none"
           c == kind = "lists" /\ q.lists = "treasury"
           d == kind = "patents"
<1>1. CASE a
  <2>1. Corrected(q, kind, said) = "partly"
    BY <1>1 DEF Corrected
  <2> QED
    BY <2>1 DEF Noted, Said
<1>2. CASE b
  <2>1. Corrected(q, kind, said) = "unlisted"
    BY <1>2 DEF Corrected
  <2> QED
    BY <2>1, <1>2 DEF Noted, Said
<1>3. CASE c
  <2>1. Corrected(q, kind, said) = "treasury"
    BY <1>3 DEF Corrected
  <2> QED
    BY <2>1, <1>3 DEF Noted, Said
<1>4. CASE d
  <2>1. Corrected(q, kind, said) = "dated"
    BY <1>4 DEF Corrected
  <2> QED
    BY <2>1, <1>4 DEF Noted, Said
<1>5. CASE ~a /\ ~b /\ ~c /\ ~d
  <2>1. Corrected(q, kind, said) = said
    BY <1>5 DEF Corrected
  <2> QED
    BY <2>1, <1>5
<1> QED
  BY <1>1, <1>2, <1>3, <1>4, <1>5

(* A step's end: of what it did not get it notes something else than that    *)
(* it was checked, and no later step of the same source takes it back.       *)
LEMMA EndStepKeeps ==
    ASSUME IInv, NEW r \in Runs, EndStep(r)
    PROVE  IInv'
<1> DEFINE q == run[r]
           label == Label(q)
           kind == Kind(q)
           said == IF q.outside THEN q.coverage[label] ELSE Says(q, label)
           final == Corrected(q, kind, said)
           again == kind = "lists" /\ q.lists = "unread"
<1>1. q.at = "asking" /\ q.todo = <<>> /\ q.at \in Working
  BY DEF EndStep, Working
<1>2. /\ q \in RunRecord /\ Fit(r, q) /\ AtWork(q)
      /\ Heard(q, lost[r]) /\ lost[r] \subseteq Labels
      /\ Step(r).label = label /\ label \in Labels /\ Step(r).kind = kind
  BY <1>1, RunFacts
<1>3. /\ lost \in [Runs -> SUBSET Labels] /\ index \in {"none", "today", "old"}
      /\ marker \in BOOLEAN
  BY DEF IInv, TypeOK
<1>4. /\ run' = [run EXCEPT ![r] =
              IF again
              THEN [q EXCEPT !.outside = TRUE, !.raised = FALSE, !.todo = <<Csl>>,
                             !.coverage[label] = said]
              ELSE Following([q EXCEPT !.coverage[label] = final])]
      /\ lost' = IF kind = "exclusions" /\ q.db # "today"
                 THEN [lost EXCEPT ![r] = @ \cup {label}] ELSE lost
      /\ UNCHANGED <<breaker, copies, index, marker, aged, pressed, faults>>
  BY <1>2 DEF EndStep, shared
<1>5. /\ q.outside => Noted(q.coverage[label])
      /\ kind = "exclusions" /\ q.db # "today" => q.reason \/ q.raised
      /\ again => q.raised /\ ~q.outside
  BY <1>1, <1>2 DEF AtWork
<1>6. q.coverage \in [Labels -> Said]
  BY <1>2 DEF RunRecord
<1>7. /\ said \in Said \ {""}
      /\ q.raised \/ q.bad # {} \/ Noted(q.coverage[label]) => Noted(said)
  <2>1. /\ Says(q, label) \in Said \ {""}
        /\ q.raised \/ q.bad # {} \/ Noted(q.coverage[label]) => Noted(Says(q, label))
    BY <1>2, SaysFacts
  <2>2. CASE q.outside
    BY <2>2, <1>5, <1>6, <1>2 DEF Noted
  <2>3. CASE ~q.outside
    BY <2>3, <2>1
  <2> QED
    BY <2>2, <2>3
<1>8. /\ lost' \in [Runs -> SUBSET Labels]
      /\ \A s \in Runs \ {r} : lost'[s] = lost[s]
      /\ \A l \in lost'[r] : l \in lost[r] \/ (l = label /\ kind = "exclusions" /\ q.db # "today")
  BY <1>2, <1>3, <1>4
<1> HIDE DEF said
<1>9. /\ final \in Said
      /\ Noted(said) => Noted(final)
      /\ kind = "exclusions" /\ q.reason /\ said = "checked" => Noted(final)
  BY <1>7, CorrectedFacts
<1> HIDE DEF final
<1>10. \A l \in lost'[r] : Noted(q.coverage[l]) \/ (l = label /\ Noted(final))
  <2>1. ASSUME NEW l \in lost'[r], ~Noted(q.coverage[l]) PROVE l = label /\ Noted(final)
    <3>1. l = label /\ (q.raised \/ q.bad # {} \/ (kind = "exclusions" /\ q.reason))
      BY <2>1, <1>1, <1>2, <1>5, <1>8 DEF Heard, Trouble
    <3>2. Noted(said) \/ said = "checked"
      BY <1>7 DEF Noted
    <3> QED
      BY <3>1, <3>2, <1>7, <1>9
  <2> QED
    BY <2>1
<1>11. Noted(q.coverage[label]) => Noted(final)
  BY <1>7, <1>9
<1> HIDE DEF label, kind
<1>12. CASE again
  <2> DEFINE g == [q EXCEPT !.outside = TRUE, !.raised = FALSE, !.todo = <<Csl>>,
                            !.coverage[label] = said]
             cover == [q.coverage EXCEPT ![label] = said]
  <2>1. cover \in [Labels -> Said] /\ cover[label] = said
        /\ \A l \in Labels \ {label} : cover[l] = q.coverage[l]
    BY <1>2, <1>6, <1>7
  <2>2. <<Csl>> \in Seq(Urls) /\ <<Csl>> # <<>>
    BY UrlsAssumption
  <2>3. g = [q EXCEPT !.outside = TRUE, !.raised = FALSE, !.todo = <<Csl>>, !.coverage = cover]
    OBVIOUS
  <2> HIDE DEF cover
  <2>4. /\ g \in RunRecord
        /\ g.at = "asking" /\ g.step = q.step /\ g.raised = FALSE /\ g.outside = TRUE
        /\ g.todo = <<Csl>> /\ g.lists = q.lists /\ g.db = q.db /\ g.reason = q.reason
        /\ g.attempt = q.attempt /\ g.contractor = q.contractor /\ g.left = q.left
        /\ g.coverage = cover
    <3> HIDE DEF g, q
    <3> QED
      BY <1>1, <1>2, <2>1, <2>2, <2>3 DEF RunRecord
  <2>5. run' = [run EXCEPT ![r] = g]
    BY <1>4, <1>12
  <2> HIDE DEF g
  <2>6. Kind(g) = kind /\ Label(g) = label
    BY <2>4 DEF Kind, Label, kind, label
  <2>7. Noted(said)
    BY <1>5, <1>7, <1>12
  <2>8. Fit(r, g)
    <3>1. AtWork(g)
      BY <1>2, <2>1, <2>2, <2>4, <2>6, <2>7, <1>12 DEF AtWork
    <3> HIDE DEF q
    <3> QED
      BY <3>1, <1>1, <1>2, <2>4 DEF Fit, Working
  <2>9. Heard(g, lost'[r])
    <3>1. ASSUME NEW l \in lost'[r] PROVE Noted(g.coverage[l])
      <4>1. l \in Labels
        BY <1>8
      <4>2. l = label \/ Noted(q.coverage[l])
        BY <1>10
      <4> QED
        BY <4>1, <4>2, <2>1, <2>4, <2>7
    <3> QED
      BY <3>1 DEF Heard
  <2>10. /\ Fits'
         /\ run' \in [Runs -> RunRecord]
         /\ \A s \in Runs : run'[s].contractor <= Contractors[s] /\ run'[s].left <= Budget[s]
         /\ \A s \in Runs : run'[s].at \in {"sending", "sleeping"} => run'[s].todo # <<>>
    BY <2>5, <2>8, <2>9, <1>8, OthersStay
  <2>11. TypeOK'
    BY <1>4, <1>8, <2>10 DEF IInv, TypeOK
  <2>12. Rested'
    BY <1>4, <2>4, <2>5, AllRested
  <2> QED
    BY <2>10, <2>11, <2>12 DEF IInv
<1>13. CASE ~again
  <2> DEFINE p == [q EXCEPT !.coverage[label] = final]
             cover == [q.coverage EXCEPT ![label] = final]
             g == Following(p)
  <2>1. cover \in [Labels -> Said] /\ cover[label] = final
        /\ \A l \in Labels \ {label} : cover[l] = q.coverage[l]
    BY <1>2, <1>6, <1>9
  <2>2. p = [q EXCEPT !.coverage = cover]
    OBVIOUS
  <2> HIDE DEF cover
  <2>3. /\ p \in RunRecord /\ p.coverage = cover /\ p.step = q.step /\ p.db = q.db
        /\ p.reason = q.reason /\ p.attempt = q.attempt /\ p.contractor = q.contractor
        /\ p.left = q.left
    <3> HIDE DEF p, q
    <3> QED
      BY <1>2, <2>1, <2>2 DEF RunRecord
  <2>4. run' = [run EXCEPT ![r] = g]
    BY <1>4, <1>13
  <2> HIDE DEF p
  <2>5. Between(r, p)
    <3>1. q.attempt = 0
      BY <1>1, <1>2 DEF Fit
    <3> QED
      BY <3>1, <1>2, <2>3 DEF Between, Fit
  <2>6. Fit(r, g) /\ g.coverage = cover /\ g.at \in {"asking", "next"}
    <3>1. CASE p.step < Len(Steps)
      <4>1. p.step + 1 \in DOMAIN Steps
        <5>1. p.step \in 0..Len(Steps)
          BY <2>3 DEF RunRecord
        <5> QED
          BY <3>1, <5>1, StepFacts
      <4>2. g = Starting(p, p.step + 1)
        BY <3>1 DEF Following
      <4> QED
        BY <4>1, <4>2, <2>3, <2>5, <1>3, StartingFits
    <3>2. CASE ~(p.step < Len(Steps))
      <4>1. g = [p EXCEPT !.at = "next"]
        BY <3>2 DEF Following
      <4> HIDE DEF g
      <4>2. /\ g \in RunRecord /\ g.at = "next" /\ g.coverage = p.coverage /\ g.db = p.db
            /\ g.reason = p.reason /\ g.attempt = p.attempt /\ g.contractor = p.contractor
            /\ g.left = p.left
        BY <4>1, <2>3 DEF RunRecord
      <4> QED
        BY <4>2, <2>3, <2>5 DEF Fit, Between, Working
    <3> QED
      BY <3>1, <3>2
  <2> HIDE DEF g
  <2>7. Heard(g, lost'[r])
    <3>1. ASSUME NEW l \in lost'[r] PROVE Noted(g.coverage[l])
      <4>1. l \in Labels
        BY <1>8
      <4>2. Noted(final) \/ (l # label /\ Noted(q.coverage[l]))
        BY <1>10, <1>11
      <4>3. l # label => Noted(q.coverage[l])
        BY <1>10
      <4> QED
        BY <4>1, <4>2, <4>3, <2>1, <2>6
    <3> QED
      BY <3>1 DEF Heard
  <2>8. /\ Fits'
        /\ run' \in [Runs -> RunRecord]
        /\ \A s \in Runs : run'[s].contractor <= Contractors[s] /\ run'[s].left <= Budget[s]
        /\ \A s \in Runs : run'[s].at \in {"sending", "sleeping"} => run'[s].todo # <<>>
    BY <2>4, <2>6, <2>7, <1>8, OthersStay
  <2>9. TypeOK'
    BY <1>4, <1>8, <2>8 DEF IInv, TypeOK
  <2>10. Rested'
    BY <1>4, <2>4, <2>6, AllRested
  <2> QED
    BY <2>8, <2>9, <2>10 DEF IInv
<1> QED
  BY <1>12, <1>13

LEMMA NextContractorKeeps ==
    ASSUME IInv, NEW r \in Runs, NextContractor(r)
    PROVE  IInv'
<1> DEFINE none == [l \in Labels |-> ""]
           p == [run[r] EXCEPT !.contractor = @ + 1, !.coverage = none]
           over == run[r].contractor = Contractors[r] \/ (Budget[r] > 0 /\ run[r].left < Margin)
           q == IF over THEN [run[r] EXCEPT !.at = "done"] ELSE Starting(p, 1)
<1>1. run[r].at = "next"
  BY DEF NextContractor
<1>2. /\ run[r] \in RunRecord /\ Fit(r, run[r]) /\ run \in [Runs -> RunRecord]
      /\ lost \in [Runs -> SUBSET Labels] /\ aged \in [Runs -> SUBSET Labels]
      /\ index \in {"none", "today", "old"} /\ marker \in BOOLEAN
  BY DEF IInv, TypeOK, Fits
<1>3. /\ run' = [run EXCEPT ![r] = q]
      /\ lost' = [lost EXCEPT ![r] = {}] /\ aged' = [aged EXCEPT ![r] = {}]
      /\ UNCHANGED <<breaker, copies, index, marker, pressed, faults>>
  BY <1>2 DEF NextContractor, shared
<1>4. /\ lost' \in [Runs -> SUBSET Labels] /\ aged' \in [Runs -> SUBSET Labels]
      /\ lost'[r] = {} /\ \A s \in Runs \ {r} : lost'[s] = lost[s]
  BY <1>2, <1>3
<1>5. Fit(r, q) /\ q.at # "sleeping"
  <2>1. CASE over
    <3>1. q = [run[r] EXCEPT !.at = "done"]
      BY <2>1
    <3> HIDE DEF q
    <3>2. /\ q \in RunRecord /\ q.at = "done" /\ q.db = run[r].db /\ q.reason = run[r].reason
          /\ q.attempt = run[r].attempt /\ q.contractor = run[r].contractor
          /\ q.left = run[r].left
      BY <1>2, <3>1 DEF RunRecord
    <3> QED
      BY <1>1, <1>2, <3>2 DEF Fit, Working
  <2>2. CASE ~over
    <3>1. none \in [Labels -> Said]
      BY DEF Said
    <3> HIDE DEF none
    <3>2. /\ p \in RunRecord /\ p.db = run[r].db /\ p.reason = run[r].reason
          /\ p.attempt = run[r].attempt /\ p.contractor = run[r].contractor + 1
          /\ p.left = run[r].left
      <4> DEFINE next == run[r].contractor + 1
      <4>1. next \in Nat
        BY <1>2 DEF RunRecord
      <4>2. p = [run[r] EXCEPT !.contractor = next, !.coverage = none]
        OBVIOUS
      <4> HIDE DEF next, p
      <4>3. /\ p \in RunRecord /\ p.db = run[r].db /\ p.reason = run[r].reason
            /\ p.attempt = run[r].attempt /\ p.contractor = next /\ p.left = run[r].left
        BY <1>2, <3>1, <4>1, <4>2 DEF RunRecord
      <4> QED
        BY <4>3 DEF next
    <3>3. p.contractor <= Contractors[r]
      <4>1. run[r].contractor <= Contractors[r] /\ run[r].contractor # Contractors[r]
        BY <1>2, <2>2 DEF Fit
      <4>2. run[r].contractor \in Nat /\ Contractors[r] \in Nat
        BY <1>2, BoundsAssumption DEF RunRecord
      <4> HIDE DEF p
      <4> QED
        BY <4>1, <4>2, <3>2
    <3> HIDE DEF p
    <3>4. Between(r, p)
      BY <1>1, <1>2, <3>2, <3>3 DEF Between, Fit
    <3>5. 1 \in DOMAIN Steps
      BY StepFacts
    <3>6. Fit(r, Starting(p, 1)) /\ Starting(p, 1).at = "asking"
      BY <1>2, <3>4, <3>5, StartingFits
    <3> QED
      BY <2>2, <3>6
  <2> QED
    BY <2>1, <2>2
<1> HIDE DEF q
<1>6. Heard(q, lost'[r])
  BY <1>4 DEF Heard
<1>7. /\ Fits'
      /\ run' \in [Runs -> RunRecord]
      /\ \A s \in Runs : run'[s].contractor <= Contractors[s] /\ run'[s].left <= Budget[s]
      /\ \A s \in Runs : run'[s].at \in {"sending", "sleeping"} => run'[s].todo # <<>>
  BY <1>3, <1>4, <1>5, <1>6, OthersStay
<1>8. TypeOK'
  BY <1>3, <1>4, <1>7 DEF IInv, TypeOK
<1>9. Rested'
  BY <1>3, <1>5, AllRested
<1> QED
  BY <1>7, <1>8, <1>9 DEF IInv

----------------------------------------------------------------------------
(* Time.                                                                   *)

(* A tick takes from every wait and every deadline alike; a host whose rest  *)
(* is over has nothing against it.                                          *)
LEMMA TickKeeps ==
    ASSUME IInv, Tick
    PROVE  IInv'
<1> DEFINE Less(n) == IF n > 0 THEN n - 1 ELSE 0
<1>1. /\ \A r \in Runs : run[r].at = "sleeping" => run[r].wake > 0
      /\ breaker' = [h \in Hosts |-> [breaker[h] EXCEPT !.rest = Less(@)]]
      /\ pressed' = [h \in Hosts |-> IF breaker[h].rest <= 1 THEN 0 ELSE pressed[h]]
      /\ run' = [r \in Runs |-> [run[r] EXCEPT !.left = Less(@), !.wake = Less(@)]]
      /\ UNCHANGED <<copies, index, marker, lost, aged, faults>>
  BY DEF Tick
<1>2. ASSUME NEW n \in Nat
      PROVE  Less(n) \in Nat /\ Less(n) <= n /\ (n > 0 => Less(n) = n - 1) /\ (n = 0 => Less(n) = 0)
  OBVIOUS
<1> HIDE DEF Less
<1>3. ASSUME NEW r \in Runs
      PROVE  /\ run'[r] \in RunRecord /\ Fit(r, run'[r]) /\ Heard(run'[r], lost'[r])
             /\ run'[r].at = run[r].at /\ run'[r].todo = run[r].todo
  <2> DEFINE p == run[r]
             q == [p EXCEPT !.left = Less(p.left), !.wake = Less(p.wake)]
  <2>1. run'[r] = q
    BY <1>1
  <2>2. p \in RunRecord /\ Fit(r, p) /\ Heard(p, lost[r])
    BY DEF IInv, TypeOK, Fits
  <2>3. p.left \in Nat /\ p.wake \in 0..MaxWait /\ MaxWait \in Nat /\ Budget[r] \in Nat
    BY <2>2, BoundsAssumption DEF RunRecord
  <2>4. /\ Less(p.left) \in Nat /\ Less(p.left) <= p.left /\ Less(p.wake) \in 0..MaxWait
        /\ p.left > 0 => Less(p.left) = p.left - 1
        /\ p.wake > 0 => Less(p.wake) = p.wake - 1
    BY <1>2, <2>3
  <2>5. p.at = "sleeping" => p.wake > 0
    BY <1>1
  <2> HIDE DEF p
  <2>6. /\ q \in RunRecord
        /\ q.at = p.at /\ q.step = p.step /\ q.raised = p.raised
        /\ q.outside = p.outside /\ q.todo = p.todo /\ q.lists = p.lists
        /\ q.db = p.db /\ q.reason = p.reason /\ q.attempt = p.attempt
        /\ q.contractor = p.contractor /\ q.left = Less(p.left) /\ q.wake = Less(p.wake)
        /\ q.coverage = p.coverage /\ q.bad = p.bad
    BY <2>2, <2>4 DEF RunRecord
  <2> HIDE DEF q
  <2>7. Kind(q) = Kind(p) /\ Label(q) = Label(p)
    BY <2>6 DEF Kind, Label
  <2>8. q.left <= Budget[r]
    BY <2>2, <2>3, <2>4, <2>6 DEF Fit
  <2>9. p.at = "sleeping" /\ Budget[r] > 0 => q.wake < q.left
    <3>1. p.at = "sleeping" /\ Budget[r] > 0 => p.wake < p.left /\ p.wake > 0
      BY <2>2, <2>5 DEF Fit
    <3> QED
      BY <3>1, <2>3, <2>4, <2>6
  <2>10. p.at \in Working => AtWork(q)
    BY <2>2, <2>6, <2>7 DEF Fit, AtWork
  <2>11. Fit(r, q)
    BY <2>2, <2>6, <2>8, <2>9, <2>10 DEF Fit
  <2>12. Heard(q, lost'[r])
    BY <1>1, <2>2, <2>6, <2>7 DEF Heard, Trouble
  <2> QED
    BY <2>1, <2>6, <2>11, <2>12 DEF p
<1>4. run' \in [Runs -> RunRecord]
  BY <1>1, <1>3
<1>5. ASSUME NEW h \in Hosts
      PROVE  /\ breaker'[h] \in [fails : 0..BreakAfter, rest : 0..MaxPause]
             /\ pressed'[h] \in Nat
             /\ breaker[h].rest \in Nat
             /\ breaker[h].rest <= 1 => breaker'[h].rest = 0 /\ pressed'[h] = 0
             /\ breaker[h].rest > 1 => pressed'[h] = pressed[h]
  <2> DEFINE b == breaker[h]
             c == [b EXCEPT !.rest = Less(b.rest)]
  <2>1. breaker'[h] = c
    BY <1>1
  <2>2. b \in [fails : 0..BreakAfter, rest : 0..MaxPause] /\ pressed[h] \in Nat
    BY DEF IInv, TypeOK
  <2> HIDE DEF b
  <2>3. b.rest \in 0..MaxPause /\ MaxPause \in Nat
    BY <2>2, BoundsAssumption
  <2>4. /\ Less(b.rest) \in 0..MaxPause
        /\ b.rest <= 1 => Less(b.rest) = 0
    BY <1>2, <2>3
  <2>5. c \in [fails : 0..BreakAfter, rest : 0..MaxPause] /\ c.rest = Less(b.rest)
    BY <2>2, <2>4
  <2>6. pressed'[h] = IF b.rest <= 1 THEN 0 ELSE pressed[h]
    BY <1>1 DEF b
  <2>7. /\ breaker'[h] \in [fails : 0..BreakAfter, rest : 0..MaxPause] /\ b.rest \in Nat
        /\ b.rest <= 1 => breaker'[h].rest = 0
    <3> HIDE DEF c
    <3> QED
      BY <2>1, <2>3, <2>4, <2>5
  <2>8. /\ pressed'[h] \in Nat
        /\ b.rest <= 1 => pressed'[h] = 0
        /\ b.rest > 1 => pressed'[h] = pressed[h]
    BY <2>2, <2>3, <2>6
  <2> QED
    BY <2>7, <2>8 DEF b
<1>6. /\ breaker' \in [Hosts -> [fails : 0..BreakAfter, rest : 0..MaxPause]]
      /\ pressed' \in [Hosts -> Nat]
  BY <1>1, <1>5
<1>7. TypeOK'
  <2>1. \A r \in Runs : run'[r].contractor <= Contractors[r] /\ run'[r].left <= Budget[r]
    BY <1>3 DEF Fit
  <2>2. \A r \in Runs : run'[r].at \in {"sending", "sleeping"} => run'[r].todo # <<>>
    BY <1>3 DEF Fit
  <2> QED
    BY <1>1, <1>4, <1>6, <2>1, <2>2 DEF IInv, TypeOK
<1>8. ASSUME NEW h \in Hosts
      PROVE  IF Resting(h)' THEN pressed'[h] + Cardinality(Sleepers(h)') < Cardinality(Runs)
             ELSE pressed'[h] = 0
  <2>1. Sleepers(h)' = Sleepers(h)
    BY <1>3 DEF Sleepers, Asked, Url
  <2>2. CASE breaker[h].rest <= 1
    BY <2>2, <1>5 DEF Resting
  <2>3. CASE breaker[h].rest > 1
    <3>1. Resting(h)
      BY <2>3, <1>5 DEF Resting
    <3>2. pressed[h] + Cardinality(Sleepers(h)) < Cardinality(Runs)
      BY <3>1 DEF IInv, Rested
    <3>3. breaker'[h].rest > 0
      <4>1. breaker[h].rest \in Nat
        BY <1>5
      <4>2. breaker'[h].rest = Less(breaker[h].rest)
        <5>1. breaker[h] \in [fails : 0..BreakAfter, rest : 0..MaxPause]
          BY DEF IInv, TypeOK
        <5> QED
          BY <5>1, <1>1
      <4> QED
        BY <4>1, <4>2, <2>3, <1>2
    <3> QED
      BY <2>1, <2>3, <3>2, <3>3, <1>5 DEF Resting
  <2> QED
    BY <2>2, <2>3, <1>5
<1>9. Rested'
  BY <1>8 DEF Rested
<1>10. Fits'
  BY <1>3 DEF Fits
<1> QED
  BY <1>7, <1>9, <1>10 DEF IInv

\* Where the runs and the hosts are as they were.
LEMMA AgesKeep ==
    ASSUME IInv, UNCHANGED <<breaker, run, lost, aged, pressed>>,
           copies' \in [Urls -> {"none", "fresh", "old"}],
           index' \in {"none", "today", "old"}, marker' \in BOOLEAN, faults' \in 0..MaxFaults
    PROVE  IInv'
<1>1. TypeOK'
  BY DEF IInv, TypeOK
<1>2. Fits'
  BY DEF IInv, Fits
<1>3. ASSUME NEW h \in Hosts PROVE Sleepers(h)' = Sleepers(h) /\ (Resting(h)' <=> Resting(h))
  BY DEF Sleepers, Asked, Url, Resting
<1>4. Rested'
  BY <1>3 DEF IInv, Rested
<1> QED
  BY <1>1, <1>2, <1>4 DEF IInv

----------------------------------------------------------------------------
(* The invariant.                                                          *)

LEMMA Starts == Init => IInv
<1> SUFFICES ASSUME Init PROVE IInv
  OBVIOUS
<1>1. /\ 0 \in 0..BreakAfter /\ 0 \in 0..MaxPause /\ 0 \in 0..Attempts /\ 0 \in 0..MaxWait
      /\ 0 \in 0..MaxFaults /\ Budget \in [Runs -> Nat] /\ Contractors \in [Runs -> Nat]
  BY BoundsAssumption
<1> DEFINE new(r) == [at |-> "next", contractor |-> 0, step |-> 0, todo |-> <<>>, attempt |-> 0,
                      wake |-> 0, left |-> Budget[r], bad |-> {}, raised |-> FALSE,
                      outside |-> FALSE, got |-> {}, lists |-> "unread", db |-> "closed",
                      reason |-> FALSE, coverage |-> [l \in Labels |-> ""]]
<1>2. ASSUME NEW r \in Runs
      PROVE  /\ run[r] = new(r) /\ run[r] \in RunRecord
             /\ Fit(r, run[r]) /\ Heard(run[r], lost[r])
  <2>1. run[r] = new(r) /\ lost[r] = {}
    BY DEF Init
  <2>2. /\ [l \in Labels |-> ""] \in [Labels -> Said] /\ <<>> \in Seq(Urls)
        /\ 0 \in 0..Len(Steps) /\ Budget[r] \in Nat /\ Contractors[r] \in Nat
    BY <1>1, StepFacts DEF Said
  <2>3. new(r) \in RunRecord
    BY <1>1, <2>2 DEF RunRecord
  <2>4. Fit(r, new(r))
    <3> DEFINE n == new(r)
    <3>1. /\ n \in RunRecord /\ n.at = "next" /\ n.contractor = 0 /\ n.left = Budget[r]
          /\ n.db = "closed" /\ n.attempt = 0
      BY <2>3
    <3> HIDE DEF n
    <3>2. n.contractor <= Contractors[r] /\ n.left <= Budget[r]
      <4>1. Contractors[r] \in Nat /\ Budget[r] \in Nat
        BY <1>1
      <4>2. 0 <= Contractors[r] /\ Budget[r] <= Budget[r]
        BY <4>1
      <4> QED
        BY <4>2, <3>1
    <3>3. n.at \notin Working /\ n.at \notin {"sending", "sleeping"} /\ n.at # "sleeping"
      BY <3>1 DEF Working
    <3>4. Fit(r, n)
      BY <3>1, <3>2, <3>3 DEF Fit
    <3> QED
      BY <3>4 DEF n
  <2>5. Heard(run[r], lost[r])
    BY <2>1 DEF Heard
  <2> HIDE DEF new
  <2> QED
    BY <2>1, <2>3, <2>4, <2>5
<1>3. run \in [Runs -> RunRecord]
  BY <1>2 DEF Init
<1>4. \A h \in Hosts : breaker[h] = [fails |-> 0, rest |-> 0] /\ pressed[h] = 0
  BY DEF Init
<1>5. /\ breaker \in [Hosts -> [fails : 0..BreakAfter, rest : 0..MaxPause]]
      /\ pressed \in [Hosts -> Nat]
  BY <1>1 DEF Init
<1>6. TypeOK
  <2>1. \A r \in Runs : run[r].contractor <= Contractors[r] /\ run[r].left <= Budget[r]
    BY <1>2 DEF Fit
  <2>2. \A r \in Runs : run[r].at \in {"sending", "sleeping"} => run[r].todo # <<>>
    BY <1>2 DEF Fit
  <2> QED
    BY <1>1, <1>3, <1>5, <2>1, <2>2 DEF Init, TypeOK
<1>7. Rested
  BY <1>4 DEF Rested, Resting
<1>8. Fits
  BY <1>2 DEF Fits
<1> QED
  BY <1>6, <1>7, <1>8 DEF IInv

LEMMA ActsKeep ==
    ASSUME IInv, NEW r \in Runs, Acts(r)
    PROVE  IInv'
<1>1. CASE Hit(r)
  BY <1>1, HitKeeps
<1>2. CASE Skip(r)
  BY <1>2, SkipKeeps
<1>3. CASE Send(r)
  BY <1>3, SendKeeps
<1>4. CASE SendAgain(r)
  BY <1>4, SendAgainKeeps
<1>5. ASSUME NEW ok \in BOOLEAN, Answered(r, ok) PROVE IInv'
  BY <1>5, AnsweredKeeps
<1>6. ASSUME NEW came \in BOOLEAN, Download(r, came) PROVE IInv'
  BY <1>6, DownloadKeeps
<1>7. ASSUME NEW asked \in Asks, NotAnswered(r, asked) PROVE IInv'
  BY <1>7, NotAnsweredKeeps
<1>8. CASE Raise(r)
  BY <1>8, RaiseKeeps
<1>9. CASE EndStep(r)
  BY <1>9, EndStepKeeps
<1>10. CASE NextContractor(r)
  BY <1>10, NextContractorKeeps
<1> QED
  BY <1>1, <1>2, <1>3, <1>4, <1>5, <1>6, <1>7, <1>8, <1>9, <1>10 DEF Acts

LEMMA NextKeeps ==
    ASSUME IInv, [Next]_vars
    PROVE  IInv'
<1>1. /\ copies \in [Urls -> {"none", "fresh", "old"}] /\ index \in {"none", "today", "old"}
      /\ marker \in BOOLEAN /\ faults \in 0..MaxFaults
  BY DEF IInv, TypeOK
<1>2. ASSUME NEW r \in Runs, Acts(r) PROVE IInv'
  BY <1>2, ActsKeep
<1>3. CASE Tick
  BY <1>3, TickKeeps
<1>4. CASE IndexAges
  <2>1. faults' \in 0..MaxFaults /\ index' = "old"
        /\ UNCHANGED <<breaker, copies, marker, run, lost, aged, pressed>>
    BY <1>4, FaultyCounts DEF IndexAges, histories
  <2> QED
    BY <2>1, <1>1, AgesKeep
<1>5. CASE MarkerAges
  <2>1. faults' \in 0..MaxFaults /\ marker' = FALSE
        /\ UNCHANGED <<breaker, copies, index, run, lost, aged, pressed>>
    BY <1>5, FaultyCounts DEF MarkerAges, histories
  <2> QED
    BY <2>1, <1>1, AgesKeep
<1>6. ASSUME NEW u \in Urls, CopyAges(u) PROVE IInv'
  <2>1. /\ faults' \in 0..MaxFaults
        /\ copies' = [copies EXCEPT ![u] = IF @ = "fresh" THEN "old" ELSE "none"]
        /\ UNCHANGED <<breaker, index, marker, run, lost, aged, pressed>>
    BY <1>6, FaultyCounts DEF CopyAges, histories
  <2>2. copies' \in [Urls -> {"none", "fresh", "old"}]
    BY <1>1, <2>1
  <2> QED
    BY <2>1, <2>2, <1>1, AgesKeep
<1>7. CASE UNCHANGED vars
  BY <1>1, <1>7, AgesKeep DEF vars
<1> QED
  BY <1>2, <1>3, <1>4, <1>5, <1>6, <1>7 DEF Next

LEMMA Holds == Spec => []IInv
<1>1. IInv /\ [Next]_vars => IInv'
  BY NextKeeps
<1> QED
  BY Starts, <1>1, PTL DEF Spec

(* The caches, the index of exclusions, the hosts and the runs are what the  *)
(* code keeps of them, for any sources, budgets and waits.                  *)
THEOREM GatheringTypes == Spec => []TypeOK
<1>1. IInv => TypeOK
  BY DEF IInv
<1> QED
  BY <1>1, Holds, PTL

(* _gather, step: whatever failed, and in whatever order, a finding does not *)
(* say "checked" of a source that something was not had of, though steps of  *)
(* one source follow each other and connectors outlive the contractor.      *)
THEOREM CheckedWasChecked == Spec => []CheckedIsChecked
<1>1. IInv => CheckedIsChecked
  <2> SUFFICES ASSUME IInv, NEW r \in Runs, run[r].at = "next", NEW l \in lost[r]
               PROVE  run[r].coverage[l] # "checked"
    BY DEF CheckedIsChecked
  <2>1. Heard(run[r], lost[r])
    BY DEF IInv, Fits
  <2> QED
    BY <2>1 DEF Heard, Working, Noted
<1> QED
  BY <1>1, Holds, PTL

(* request, _failed: a host at rest is asked by those alone that waited for  *)
(* it when it began to rest, and nobody waits past the run's deadline; for   *)
(* any number of runs that share the host.                                  *)
THEOREM SourcesSpared == Spec => []Sparing
<1>1. IInv => LeftAlone
  <2> SUFFICES ASSUME IInv, NEW h \in Hosts PROVE pressed[h] < Cardinality(Runs)
    BY DEF LeftAlone
  <2>1. Sleepers(h) \in SUBSET Runs
    BY DEF Sleepers
  <2>2. Cardinality(Sleepers(h)) \in Nat /\ Cardinality(Runs) \in Nat \ {0}
    BY <2>1, FewerAsleep
  <2>3. pressed[h] \in Nat
    BY DEF IInv, TypeOK
  <2>4. IF Resting(h) THEN pressed[h] + Cardinality(Sleepers(h)) < Cardinality(Runs)
        ELSE pressed[h] = 0
    BY DEF IInv, Rested
  <2> QED
    BY <2>2, <2>3, <2>4
<1>2. IInv => InTime
  BY DEF IInv, Fits, Fit, InTime
<1>3. IInv => Sparing
  BY <1>1, <1>2 DEF Sparing
<1> QED
  BY <1>3, Holds, PTL
==============================================================================
