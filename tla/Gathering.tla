------------------------------ MODULE Gathering ------------------------------
(***************************************************************************)
(* Asking the sources about one contractor after another, and what the run  *)
(* says of each (_gather in pipeline.py).  Runs have an HTTP client each    *)
(* (httpclient.py), and share what a process and its disk keep: which hosts *)
(* are being rested, the responses in the cache, and the index of SAM.gov's *)
(* exclusions (connectors/sam_exclusions.py).                               *)
(*                                                                         *)
(* A tick is some seconds: what the client waits, and how long a host is    *)
(* rested, is counted in ticks; what takes hours happens at any time.  A    *)
(* copy in the cache is "fresh" within its lifetime, and then "old" while   *)
(* it may stand in for its source (STALE_MAX_SECONDS).                      *)
(***************************************************************************)
EXTENDS Naturals, Sequences, FiniteSets

CONSTANTS
    Runs,
    Contractors,            \* [Runs -> how many contractors the run screens here]
    Budget,                 \* [Runs -> ticks to the run's deadline, 0 for none]
    Margin,                 \* SCREEN_MARGIN: no new contractor with less than this left
    HostOf,                 \* [URL -> its host]
    Steps,                  \* the steps of _gather: a sequence
    Csl, Ofac,              \* CSL_URL; the files that stand in: [list, aliases], a sequence
    SamListing,             \* LIST_URL
    Attempts,               \* max_retries
    BreakAfter, BreakFor, MaxWait, MaxPause,
    Backoff,
    Asks,                   \* what a Retry-After may ask for: 0 for nothing
    MaxFaults               \* how often something goes wrong here, or gets old

Urls == DOMAIN HostOf
Hosts == {HostOf[u] : u \in Urls}
Labels == {Steps[i].label : i \in DOMAIN Steps}

ASSUME RunsAssumption == IsFiniteSet(Runs) /\ Runs # {}
ASSUME StepsAssumption ==
    /\ Steps # <<>>
    /\ Steps \in Seq([label : Labels, kind : {"plain", "exclusions", "lists", "patents"},
                      urls : Seq(Urls)])
ASSUME UrlsAssumption ==
    /\ {Csl, SamListing} \subseteq Urls
    /\ Ofac \in Seq([list : Urls, aliases : Urls])
ASSUME BoundsAssumption ==
    /\ {Attempts, BreakAfter, BreakFor} \subseteq Nat \ {0}
    /\ {MaxWait, MaxPause, Backoff, Margin} \subseteq Nat
    /\ Asks \subseteq Nat
    /\ {Budget, Contractors} \subseteq [Runs -> Nat]
    /\ MaxFaults \in Nat

VARIABLES
    breaker,        \* _breaker: failed attempts in a row, and for how long the host rests
    copies,         \* cache_dir
    index,          \* sam_exclusions.db: "none", "today" or "old"
    marker,         \* sam_exclusions.failed, less than an hour old
    run,
    \* Histories.
    lost,           \* what the steps of each run did not get, for this contractor: labels
    aged,           \* where an old copy stood in for a host that was not asked
    pressed,        \* attempts that began while their host rested
    faults          \* how often something went wrong

vars == <<breaker, copies, index, marker, run, lost, aged, pressed, faults>>
shared == <<breaker, copies, index, marker>>
histories == <<lost, aged, pressed>>

(* A run: where it is; the requests the step has left; the attempt of the   *)
(* one under way and how long until the next; the hosts that failed since   *)
(* the step began; and what its connectors keep: the lists it matches names *)
(* against, the index it has open and whether it has a reason               *)
(* (unavailable_reason).  got is the files the lists were read from.        *)
Init ==
    /\ breaker = [h \in Hosts |-> [fails |-> 0, rest |-> 0]]
    /\ copies = [u \in Urls |-> "none"]
    /\ index \in {"none", "today", "old"}
    /\ marker = FALSE
    /\ run = [r \in Runs |->
                [at |-> "next", contractor |-> 0, step |-> 0, todo |-> <<>>, attempt |-> 0,
                 wake |-> 0, left |-> Budget[r], bad |-> {}, raised |-> FALSE,
                 outside |-> FALSE, got |-> {}, lists |-> "unread", db |-> "closed",
                 reason |-> FALSE, coverage |-> [l \in Labels |-> ""]]]
    /\ lost = [r \in Runs |-> {}]
    /\ aged = [r \in Runs |-> {}]
    /\ pressed = [h \in Hosts |-> 0]
    /\ faults = 0

Faulty == faults < MaxFaults /\ faults' = faults + 1

Step(r) == Steps[run[r].step]
Url(r) == Head(run[r].todo)
Asked(r) == HostOf[Url(r)]

----------------------------------------------------------------------------
(* The client.                                                             *)

Least(a, b) == IF a < b THEN a ELSE b
Most(a, b) == IF a > b THEN a ELSE b

Resting(h) == breaker[h].rest > 0

\* Mutant: the wait is not counted.
IsOver(r, wait) == Budget[r] > 0 /\ run[r].left = 0

\* _out_of_time
OutOfTime(r, wait) == Budget[r] > 0 /\ wait >= run[r].left

(* _failed: after so many in a row, or when it asks for longer than a        *)
(* request would wait, the host is left alone.                              *)
Failed(h, asked) ==
    LET b == breaker[h]
        rests == b.fails + 1 >= BreakAfter \/ asked > MaxWait
    IN  [breaker EXCEPT ![h] =
            [fails |-> Least(b.fails + 1, BreakAfter),
             rest |-> IF rests THEN Least(MaxPause, Most(BreakFor, asked)) ELSE b.rest]]

\* _succeeded
Succeeded(h) == [breaker EXCEPT ![h] = [fails |-> 0, rest |-> 0]]

\* _retry_after, _backoff
Wait(asked) == IF asked > 0 THEN asked ELSE Least(MaxWait, Backoff)

\* Mutant: a host that has begun to rest is asked again.
Stubborn(r, h, asked) ==
    \/ run[r].attempt >= Attempts \/ Wait(asked) > MaxWait \/ OutOfTime(r, Wait(asked))

\* Mutant: one attempt too many.
OneMore(r, h, asked) ==
    \/ run[r].attempt > Attempts
    \/ Wait(asked) > MaxWait
    \/ Failed(h, asked)[h].rest > 0
    \/ OutOfTime(r, Wait(asked))

\* request: when the attempt that has just failed is the last.
GivesUp(r, h, asked) ==
    \/ run[r].attempt >= Attempts
    \/ Wait(asked) > MaxWait
    \/ Failed(h, asked)[h].rest > 0
    \/ OutOfTime(r, Wait(asked))

----------------------------------------------------------------------------
(* The connectors.                                                         *)

\* A step begins: what it has to ask for.
NeedsToAsk(q, kind) ==
    CASE kind = "lists" -> IF q.lists = "unread" THEN <<Csl>> ELSE <<>>
      [] kind = "exclusions" ->
            IF q.db = "closed" /\ index # "today" /\ ~marker THEN <<SamListing>> ELSE <<>>
      [] kind = "patents" -> <<>>

\* The index there is, if there is one.
Opened(q) == IF q.db = "closed" /\ index # "none" THEN [q EXCEPT !.db = index] ELSE q

(* _ensure_index, before any request: the index of the day, or, when the    *)
(* last download failed within the hour, the one there is.                  *)
Ensured(q) ==
    IF q.db # "closed" THEN q
    ELSE IF index = "today" THEN Opened(q)
    ELSE IF marker THEN Opened([q EXCEPT !.reason = TRUE])
    ELSE q

Starting(q, i) ==
    LET s == Steps[i]
        new == [q EXCEPT !.at = "asking", !.step = i, !.bad = {}, !.raised = FALSE,
                         !.outside = FALSE,
                         !.got = IF s.kind = "lists" /\ q.lists = "unread" THEN {} ELSE @,
                         !.todo = IF s.kind = "plain" THEN s.urls ELSE NeedsToAsk(q, s.kind)]
    IN  IF s.kind = "exclusions" THEN Ensured(new) ELSE new

(* index: the combined list or, failing that, Treasury's files, each with   *)
(* its aliases; a list is read when its own file came.                      *)
AfterLists(q, u, text) ==
    LET got == IF text THEN q.got \cup {u} ELSE q.got
        rest == IF u = Csl /\ ~text THEN [i \in DOMAIN Ofac |-> Ofac[i].list] ELSE Tail(q.todo)
        aliases == {Ofac[i].aliases : i \in {j \in DOMAIN Ofac : text /\ Ofac[j].list = u}}
        todo == IF aliases = {} THEN rest ELSE <<CHOOSE a \in aliases : TRUE>> \o rest
    IN  [q EXCEPT !.got = got, !.todo = todo,
                  !.lists = IF todo # <<>> THEN "unread"
                            ELSE IF Csl \in got THEN "all"
                            ELSE IF \E i \in DOMAIN Ofac : Ofac[i].list \in got THEN "treasury"
                            ELSE "none"]

\* A refresh that failed leaves the index there is, and why.
Unrefreshed(q) == [q EXCEPT !.reason = TRUE]

(* The step goes on from an answer to its request: the text, or none.       *)
GoesOn(r, q, text) ==
    CASE Step(r).kind = "lists" -> AfterLists(q, Url(r), text)
      [] Step(r).kind = "exclusions" ->
            IF text THEN [q EXCEPT !.at = "downloading", !.todo = <<>>]
            ELSE Opened(Unrefreshed([q EXCEPT !.todo = <<>>]))
      [] OTHER -> [q EXCEPT !.todo = Tail(@)]

Goes(r, q, text) ==
    /\ run' = [run EXCEPT ![r] = GoesOn(r, q, text)]
    /\ marker' = (marker \/ (Step(r).kind = "exclusions" /\ ~text))

Loses(r) == lost' = [lost EXCEPT ![r] = @ \cup {Step(r).label}]

\* No answer: an old copy stands in, if there is one.
Without(r, q) == Goes(r, [q EXCEPT !.at = "asking"], copies[Url(r)] # "none")

----------------------------------------------------------------------------
(* A request.                                                              *)

Ready(r) == run[r].at = "asking" /\ run[r].todo # <<>>

\* The cache answers.
Hit(r) ==
    /\ Ready(r)
    /\ copies[Url(r)] = "fresh"
    /\ Goes(r, run[r], TRUE)
    /\ UNCHANGED <<breaker, copies, index, histories, faults>>

(* The host rests, or the run is out of time: an old copy stands in, else   *)
(* the request is skipped, and counted.                                     *)
Skip(r) ==
    LET h == Asked(r)
        old == copies[Url(r)] = "old"
    IN  /\ Ready(r)
        /\ copies[Url(r)] # "fresh"
        /\ Resting(h) \/ OutOfTime(r, 0)
        /\ Without(r, IF old THEN run[r]
                      ELSE [run[r] EXCEPT !.bad = @ \cup {h}])
        /\ IF old THEN aged' = [aged EXCEPT ![r] = @ \cup {Step(r).label}] /\ UNCHANGED lost
           ELSE Loses(r) /\ UNCHANGED aged
        /\ UNCHANGED <<breaker, copies, index, pressed, faults>>

Begins(r) ==
    /\ run' = [run EXCEPT ![r].at = "sending", ![r].attempt = @ + 1]
    /\ pressed' = IF Resting(Asked(r)) THEN [pressed EXCEPT ![Asked(r)] = @ + 1] ELSE pressed
    /\ UNCHANGED <<shared, lost, aged, faults>>

Send(r) ==
    /\ Ready(r)
    /\ copies[Url(r)] # "fresh"
    /\ ~Resting(Asked(r)) /\ ~OutOfTime(r, 0)
    /\ Begins(r)

SendAgain(r) ==
    /\ run[r].at = "sleeping"
    /\ run[r].wake = 0
    /\ Begins(r)

(* An answer ends the rest of its host; a 200 is kept in the cache.  Any     *)
(* other is no failure of the host's, though what was asked did not come.   *)
Answered(r, ok) ==
    /\ run[r].at = "sending"
    /\ breaker' = Succeeded(Asked(r))
    /\ pressed' = [pressed EXCEPT ![Asked(r)] = 0]
    /\ copies' = IF ok THEN [copies EXCEPT ![Url(r)] = "fresh"] ELSE copies
    /\ Goes(r, [run[r] EXCEPT !.at = "asking", !.attempt = 0], ok)
    /\ IF ok THEN UNCHANGED faults ELSE Faulty
    /\ UNCHANGED <<index, lost, aged>>

\* No connection, or one of RETRY_STATUS, which may say how long to wait.
NotAnswered(r, asked) ==
    LET h == Asked(r)
        q == [run[r] EXCEPT !.bad = @ \cup {h}]
    IN  /\ run[r].at = "sending"
        /\ Faulty
        /\ breaker' = Failed(h, asked)
        /\ IF GivesUp(r, h, asked)
           THEN Without(r, [q EXCEPT !.attempt = 0]) /\ Loses(r)
           ELSE /\ run' = [run EXCEPT ![r] = [q EXCEPT !.at = "sleeping", !.wake = Wait(asked)]]
                /\ UNCHANGED <<marker, lost>>
        /\ UNCHANGED <<copies, index, aged, pressed>>

----------------------------------------------------------------------------
(* A step, and a contractor.                                               *)

(* _build, get_bytes: the extract comes and is indexed under a name of its  *)
(* own, which then takes the place of the index; or it does not.            *)
Download(r, came) ==
    LET q == [run[r] EXCEPT !.at = "asking"]
    IN  /\ run[r].at = "downloading"
        /\ index' = IF came THEN "today" ELSE index
        /\ marker' = ~came
        /\ run' = [run EXCEPT ![r] = IF came THEN [q EXCEPT !.db = "today"]
                                     ELSE Opened(Unrefreshed(q))]
        /\ IF came THEN UNCHANGED <<lost, faults>> ELSE Loses(r) /\ Faulty
        /\ UNCHANGED <<breaker, copies, aged, pressed>>

(* A connector raises on what it was given.  Where that was the lists being *)
(* read they are read again, by `available`, and there nothing catches it.  *)
Raise(r) ==
    /\ run[r].at = "asking"
    /\ ~run[r].raised
    /\ Faulty
    /\ run' = [run EXCEPT ![r] = IF @.outside THEN [@ EXCEPT !.at = "failed"]
                                 ELSE [@ EXCEPT !.raised = TRUE, !.todo = <<>>]]
    /\ Loses(r)
    /\ UNCHANGED <<shared, aged, pressed>>

\* Mutant: a step that failed on one domain is checked when the next was read.
LastWord(q, label) == IF q.raised THEN "failed" ELSE IF q.bad # {} THEN "partly" ELSE "checked"

\* step: what it says of its source.
Says(q, label) ==
    IF q.raised THEN "failed"
    ELSE IF q.bad # {} THEN "partly"
    ELSE IF q.coverage[label] = "" THEN "checked"
    ELSE q.coverage[label]

\* What _gather makes of that for the sources it knows more about.
Corrected(q, kind, said) ==
    CASE kind = "exclusions" /\ q.reason /\ said = "checked" -> "partly"
      [] kind = "lists" /\ q.lists = "none" -> "unlisted"
      [] kind = "lists" /\ q.lists = "treasury" -> "treasury"
      [] kind = "patents" -> "dated"
      [] OTHER -> said

Following(q) ==
    IF q.step < Len(Steps) THEN Starting(q, q.step + 1) ELSE [q EXCEPT !.at = "next"]

EndStep(r) ==
    LET q == run[r]
        label == Step(r).label
        kind == Step(r).kind
        said == IF q.outside THEN q.coverage[label] ELSE Says(q, label)
    IN  /\ q.at = "asking" /\ q.todo = <<>>
        /\ run' = [run EXCEPT ![r] =
              IF kind = "lists" /\ q.lists = "unread"
              THEN [q EXCEPT !.outside = TRUE, !.raised = FALSE, !.todo = <<Csl>>,
                             !.coverage[label] = said]
              ELSE Following([q EXCEPT !.coverage[label] = Corrected(q, kind, said)])]
        /\ lost' = IF kind = "exclusions" /\ q.db # "today"
                   THEN [lost EXCEPT ![r] = @ \cup {label}] ELSE lost
        /\ UNCHANGED <<shared, aged, pressed, faults>>

(* The run's next contractor, or its end: a run over a scope stops when     *)
(* little time is left.                                                     *)
NextContractor(r) ==
    LET q == [run[r] EXCEPT !.contractor = @ + 1, !.coverage = [l \in Labels |-> ""]]
    IN  /\ run[r].at = "next"
        /\ run' = [run EXCEPT ![r] =
              IF run[r].contractor = Contractors[r] \/ (Budget[r] > 0 /\ run[r].left < Margin)
              THEN [@ EXCEPT !.at = "done"] ELSE Starting(q, 1)]
        /\ lost' = [lost EXCEPT ![r] = {}]
        /\ aged' = [aged EXCEPT ![r] = {}]
        /\ UNCHANGED <<shared, pressed, faults>>

----------------------------------------------------------------------------
(* Time.                                                                   *)

\* Nobody is late for its next attempt.
Tick ==
    LET Less(n) == IF n > 0 THEN n - 1 ELSE 0
    IN  /\ \A r \in Runs : run[r].at = "sleeping" => run[r].wake > 0
        /\ \/ \E h \in Hosts : Resting(h)
           \/ \E r \in Runs : run[r].at = "sleeping" \/ run[r].left > 0
        /\ breaker' = [h \in Hosts |-> [breaker[h] EXCEPT !.rest = Less(@)]]
        /\ pressed' = [h \in Hosts |-> IF breaker[h].rest <= 1 THEN 0 ELSE pressed[h]]
        /\ run' = [r \in Runs |-> [run[r] EXCEPT !.left = Less(@), !.wake = Less(@)]]
        /\ UNCHANGED <<copies, index, marker, lost, aged, faults>>

CopyAges(u) ==
    /\ copies[u] # "none"
    /\ Faulty
    /\ copies' = [copies EXCEPT ![u] = IF @ = "fresh" THEN "old" ELSE "none"]
    /\ UNCHANGED <<breaker, index, marker, run, histories>>

\* REFRESH_SECONDS
IndexAges ==
    /\ index = "today"
    /\ Faulty
    /\ index' = "old"
    /\ UNCHANGED <<breaker, copies, marker, run, histories>>

\* RETRY_AFTER_SECONDS
MarkerAges ==
    /\ marker
    /\ Faulty
    /\ marker' = FALSE
    /\ UNCHANGED <<breaker, copies, index, run, histories>>

Acts(r) ==
    \/ Hit(r) \/ Skip(r) \/ Send(r) \/ SendAgain(r)
    \/ \E ok \in BOOLEAN : Answered(r, ok) \/ Download(r, ok)
    \/ \E asked \in Asks : NotAnswered(r, asked)
    \/ Raise(r) \/ EndStep(r) \/ NextContractor(r)

Next ==
    \/ \E r \in Runs : Acts(r)
    \/ Tick \/ IndexAges \/ MarkerAges \/ \E u \in Urls : CopyAges(u)

Spec == Init /\ [][Next]_vars

----------------------------------------------------------------------------
Said == {"", "checked", "partly", "failed", "unlisted", "treasury", "dated"}

RunRecord ==
    [at : {"next", "asking", "sending", "sleeping", "downloading", "done", "failed"},
     contractor : Nat, step : 0..Len(Steps), todo : Seq(Urls),
     attempt : 0..Attempts, wake : 0..MaxWait, left : Nat,
     bad : SUBSET Hosts, raised : BOOLEAN, outside : BOOLEAN, got : SUBSET Urls,
     lists : {"unread", "all", "treasury", "none"}, db : {"closed", "today", "old"},
     reason : BOOLEAN, coverage : [Labels -> Said]]

TypeOK ==
    /\ breaker \in [Hosts -> [fails : 0..BreakAfter, rest : 0..MaxPause]]
    /\ copies \in [Urls -> {"none", "fresh", "old"}]
    /\ index \in {"none", "today", "old"}
    /\ marker \in BOOLEAN
    /\ run \in [Runs -> RunRecord]
    /\ \A r \in Runs : run[r].contractor <= Contractors[r] /\ run[r].left <= Budget[r]
    /\ \A r \in Runs : run[r].at \in {"sending", "sleeping"} => run[r].todo # <<>>
    /\ lost \in [Runs -> SUBSET Labels] /\ aged \in [Runs -> SUBSET Labels]
    /\ pressed \in [Hosts -> Nat] /\ faults \in 0..MaxFaults

(* A finding says "checked" of a source only when every request made of it   *)
(* for this contractor was answered, or is in the cache; where its host was  *)
(* not asked, an old copy may have stood in.                                 *)
CheckedIsChecked ==
    \A r \in Runs : run[r].at = "next" =>
        \A l \in lost[r] : run[r].coverage[l] # "checked"

(* "a site that is down cannot spend a whole run's time on retries": while a *)
(* host rests each run but the one it was rested by may begin one attempt    *)
(* more, which it was waiting for.                                           *)
LeftAlone == \A h \in Hosts : pressed[h] < Cardinality(Runs)

(* "nothing is retried past the run's deadline".                             *)
InTime == \A r \in Runs : run[r].at = "sleeping" /\ Budget[r] > 0 => run[r].wake < run[r].left

(* A source that fails costs the runs, and is asked, little.                *)
Sparing == LeftAlone /\ InTime

(* "Marked, and counted against the host, so the run says it used an old     *)
(* copy" (_stale); a source that raised is "recorded" (_gather).             *)
OldCopyIsSaid ==
    \A r \in Runs : run[r].at = "next" =>
        \A l \in aged[r] : run[r].coverage[l] # "checked"

(* "checked against Treasury's sanctions lists only" (ScreeningLists.index):   *)
(* each of the lists that stand in was read.                                 *)
TreasuryWasRead ==
    \A r \in Runs : run[r].at = "next" /\ run[r].lists = "treasury" =>
        \A i \in DOMAIN Ofac : Ofac[i].list \in run[r].got
=============================================================================
