------------------------------- MODULE Awards -------------------------------
(***************************************************************************)
(* The contracts register and the identities of the contractors in it.     *)
(*                                                                         *)
(* Two kinds of run write the register: an agency's run lists the newest   *)
(* awards from USAspending and asks USAspending and FPDS for the detail of *)
(* the first few of each contractor; an office's run reads the actions of  *)
(* the office from FPDS, a month at a time and the newest month first, and *)
(* then screens the contractors it holds.  What differs from the stored    *)
(* row is logged in contract_changes before the row is overwritten, and an *)
(* agency's run says it in the finding.  Each screen also asks which SEC   *)
(* registrant the contractor is, which a reviewer may have decided.        *)
(*                                                                         *)
(* The record of an award is the sequence of its actions, each with who    *)
(* held the award and where that firm is incorporated; action number i was *)
(* signed in month i.  A contractor's key is the member of Holder itself,  *)
(* an award's amount (which only orders the work) is left out.             *)
(***************************************************************************)
EXTENDS Naturals, Sequences, FiniteSets

CONSTANTS
    Award,              \* awards, prime and sub
    Subaward,           \* those that are subawards
    Holder,             \* contractors
    SoleProprietor,     \* those whose SAM registration is a person's
    NamedLikeAPerson,   \* those looks_like_an_individual takes for one
    Seat,               \* countries of incorporation
    ForeignSeat,        \* those FPDS flags as foreign owned and located
    Cik,                \* SEC registrants
    AgencyRun, OfficeRun,   \* workers that screen an agency, an office
    Blank, None,
    Enriched,           \* how many of a contractor's awards are detailed: 4 in the code
    Opening,            \* the actions each award starts with
    Months,             \* months of the record; bounds an award's actions
    MaxModifications, MaxStarts, MaxFaults, MaxDecisions
                        \* bounds: modifications, runs, unanswered requests and deaths, decisions

Action == [holder: Holder, seat: Seat]

\* A contract as a run holds it and as the register stores it.
Facts == [key: Holder, country: Seat \cup {Blank}, foreign: BOOLEAN,
          sole: {"", "yes", "no"}]

ASSUME AwardsAssumption ==
    /\ Opening \in [Award -> Seq(Action)]
    /\ \A a \in Award : Len(Opening[a]) \in 1..Months
    /\ IsFiniteSet(Award) /\ IsFiniteSet(Holder)
    /\ Subaward \subseteq Award
    /\ SoleProprietor \subseteq Holder /\ NamedLikeAPerson \subseteq Holder
    /\ ForeignSeat \subseteq Seat
    /\ Blank \notin Seat \cup Cik \cup Holder \cup BOOLEAN
    /\ None \notin Facts
    /\ AgencyRun \cap OfficeRun = {}
    /\ {Enriched, Months, MaxModifications, MaxStarts, MaxFaults, MaxDecisions} \subseteq Nat

Run == AgencyRun \cup OfficeRun
Link == [status: {"auto", "confirmed", "rejected"}, cik: Cik \cup {Blank}]
Move == [award: Award, field: {"key"}, old: Holder, new: Holder]
          \cup [award: Award, field: {"country"}, old: Seat \cup {Blank}, new: Seat]
          \cup [award: Award, field: {"foreign"}, old: BOOLEAN, new: BOOLEAN]

VARIABLES
    history,    \* what the award record says of each award, oldest action first
    row,        \* the contracts table
    log,        \* the contract_changes table
    link,       \* the entity_links table
    read,       \* scope_index: the months of the office read to the end
    screened,   \* entity_screens
    proc,       \* each worker: where it is and what it holds
    starts, faults, decisions   \* what is left of the bounds

vars == <<history, row, log, link, read, screened, proc, starts, faults, decisions>>
tables == <<row, log, link, read, screened>>
bounds == <<starts, faults, decisions>>

Idle == [pc |-> "idle", held |-> [a \in Award |-> None], keys |-> {}, key |-> None,
         month |-> 0, todo |-> {}, saw |-> None, changes |-> {}, finding |-> {},
         cik |-> Blank]

Init ==
    /\ history = Opening
    /\ row = [a \in Award |-> None]
    /\ log = {}
    /\ link = [k \in Holder |-> None]
    /\ read = {}
    /\ screened = {}
    /\ proc = [p \in Run |-> Idle]
    /\ starts = 0 /\ faults = 0 /\ decisions = 0

----------------------------------------------------------------------------
(* The award record                                                        *)

Latest(a) == history[a][Len(history[a])]

\* A modification of an award: perhaps a novation, perhaps a firm that moved.
Modify(a) ==
    /\ Len(history[a]) < Months
    /\ Cardinality({x \in Award \X (1..Months) :
                      x[2] > Len(Opening[x[1]]) /\ x[2] <= Len(history[x[1]])}) < MaxModifications
    /\ \E x \in Action \ {Latest(a)} : history' = [history EXCEPT ![a] = Append(@, x)]
    /\ UNCHANGED <<tables, proc, bounds>>

Sole(h) == IF h \in SoleProprietor THEN "yes" ELSE "no"

\* USAspending's listing: whose it is, and none of the detail.
Listed(x) == [key |-> x.holder, country |-> Blank, foreign |-> FALSE, sole |-> ""]

\* An FPDS action as an award.
FromEntry(x) == [key |-> x.holder, country |-> x.seat,
                 foreign |-> x.seat \in ForeignSeat, sole |-> Sole(x.holder)]

\* The detail of contract `c`, which USAspending, FPDS or neither answers for.
Detailed(c, x, usaspending, fpds) ==
    [c EXCEPT !.country = IF fpds THEN x.seat ELSE @,
              !.foreign = @ \/ ((usaspending \/ fpds) /\ x.seat \in ForeignSeat),
              !.sole    = IF fpds THEN Sole(x.holder) ELSE @]

----------------------------------------------------------------------------
(* A run of an agency                                                      *)

Set(p, f) == proc' = [proc EXCEPT ![p] = f]
At(p, pc) == proc[p].pc = pc
\* Mutant: the subawards of other primes are taken along.
HeldOrSub(p, k) == {a \in Award : a \in Subaward \/
                        (proc[p].held[a] # None /\ proc[p].held[a].key = k)}
Held(p, k) == {a \in Award : proc[p].held[a] # None /\ proc[p].held[a].key = k}

\* Some n members of a set, or all of it: the largest of a contractor's awards.
Largest(S, n) == CHOOSE T \in SUBSET S :
                    Cardinality(T) = IF Cardinality(S) < n THEN Cardinality(S) ELSE n

\* A subcontractor that FPDS registers as a person is left out; where FPDS has
\* no answer, its name decides.
TakenForAPerson(h, answered) ==
    IF answered THEN h \in SoleProprietor ELSE h \in NamedLikeAPerson

Search(p) ==
    /\ p \in AgencyRun /\ At(p, "idle") /\ starts < MaxStarts
    /\ starts' = starts + 1
    /\ \E answered \in [Holder -> BOOLEAN] :
         LET primes == {Latest(a).holder : a \in Award \ Subaward}
             subs   == {Latest(a).holder : a \in Subaward} \ primes
             taken  == {h \in subs : ~TakenForAPerson(h, answered[h])}
             mine(a) == a \notin Subaward \/ Latest(a).holder \in taken
         IN /\ \A h \in Holder \ subs : answered[h]
            /\ faults + Cardinality({h \in subs : ~answered[h]}) <= MaxFaults
            /\ faults' = faults + Cardinality({h \in subs : ~answered[h]})
            /\ Set(p, [Idle EXCEPT
                 !.pc   = "next",
                 !.held = [a \in Award |-> IF mine(a) THEN Listed(Latest(a)) ELSE None],
                 !.keys = primes \cup taken])
    /\ UNCHANGED <<history, tables, decisions>>

\* The next contractor: its first awards are detailed, and one whose prime
\* award says it is a person is passed over.
NextContractor(p, k) ==
    /\ p \in AgencyRun /\ At(p, "next") /\ k \in proc[p].keys
    /\ LET detailed == Largest(Held(p, k), Enriched) \ Subaward
       IN \E usaspending, fpds \in SUBSET detailed :
            LET held == [a \in Award |->
                            IF a \in detailed
                            THEN Detailed(proc[p].held[a], Latest(a),
                                          a \in usaspending, a \in fpds)
                            ELSE proc[p].held[a]]
                cost == Cardinality(detailed \ usaspending) + Cardinality(detailed \ fpds)
                person == \E a \in Held(p, k) \ Subaward : held[a].sole = "yes"
            IN /\ faults + cost <= MaxFaults
               /\ faults' = faults + cost
               /\ Set(p, [proc[p] EXCEPT
                    !.keys = @ \ {k},
                    !.held = IF person THEN [a \in Award |-> IF a \in Held(p, k)
                                                THEN None ELSE held[a]] ELSE held,
                    !.pc   = IF person THEN "next" ELSE "identity",
                    !.key  = IF person THEN None ELSE k,
                    !.todo = IF person THEN {} ELSE Held(p, k)])
    /\ UNCHANGED <<history, tables, starts, decisions>>

Finish(p) ==
    /\ p \in AgencyRun /\ At(p, "next") /\ proc[p].keys = {}
    /\ Set(p, Idle)
    /\ UNCHANGED <<history, tables, bounds>>

----------------------------------------------------------------------------
(* Which SEC registrant the contractor is                                  *)

Decided(k) == link[k] # None /\ link[k].status \in {"confirmed", "rejected"}
AfterIdentity(p) == IF p \in AgencyRun THEN "save" ELSE "mark"

\* A reviewer's answer outranks the matcher, whose answer (what the screen reads
\* under it is left out) is any registrant or none.
Resolve(p) ==
    /\ At(p, "identity")
    /\ IF Decided(proc[p].key)
       THEN Set(p, [proc[p] EXCEPT !.pc = AfterIdentity(p)])
       ELSE \E c \in Cik \cup {Blank} :
                Set(p, [proc[p] EXCEPT !.pc = "record", !.cik = c])
    /\ UNCHANGED <<history, tables, bounds>>

\* record_auto_link reads the link again, and writes only if nobody decided ...
RecordAutoRead(p) ==
    /\ At(p, "record")
    /\ Set(p, [proc[p] EXCEPT
         !.pc  = IF Decided(proc[p].key) THEN AfterIdentity(p) ELSE "upsert",
         !.cik = IF Decided(proc[p].key) THEN Blank ELSE @])
    /\ UNCHANGED <<history, tables, bounds>>

\* Mutant: the upsert writes the status as well.
UpsertedAuto(old, c) == [status |-> "auto", cik |-> c]

\* ... when it read: the upsert changes the match of whatever row is there.
Upserted(old, c) ==
    IF old = None THEN [status |-> "auto", cik |-> c] ELSE [old EXCEPT !.cik = c]

RecordAutoWrite(p) ==
    /\ At(p, "upsert")
    /\ link' = [link EXCEPT ![proc[p].key] = Upserted(@, proc[p].cik)]
    /\ Set(p, [proc[p] EXCEPT !.pc = AfterIdentity(p), !.cik = Blank])
    /\ UNCHANGED <<history, row, log, read, screened, bounds>>

\* What set_entity_link leaves: the registrant given, or the one there is, and
\* none where it is rejected.
Settled(old, status, given) ==
    [status |-> status,
     cik |-> IF status = "rejected" THEN Blank
             ELSE IF given # Blank \/ old = None THEN given ELSE old.cik]

\* A reviewer confirms a registrant, rejects it, or hands the contractor back to
\* the matcher.
Decide(k, status, given) ==
    /\ decisions < MaxDecisions
    /\ status = "confirmed" => given # Blank \/ (link[k] # None /\ link[k].cik # Blank)
    /\ link' = [link EXCEPT ![k] = Settled(@, status, given)]
    /\ decisions' = decisions + 1
    /\ UNCHANGED <<history, row, log, read, screened, proc, starts, faults>>

----------------------------------------------------------------------------
(* save_contract                                                           *)

\* Mutant: who holds the award is not compared.
MovedButKey(a, old, new) ==
    {m \in {[award |-> a, field |-> "country", old |-> old.country, new |-> new.country],
            [award |-> a, field |-> "foreign", old |-> old.foreign, new |-> new.foreign]} :
        m.new # m.old /\ m.new # Blank}

\* What a new reading changes in the stored row; a value the reading does not
\* carry is no change.
Moved(a, old, new) ==
    {m \in {[award |-> a, field |-> "key", old |-> old.key, new |-> new.key],
            [award |-> a, field |-> "country", old |-> old.country, new |-> new.country],
            [award |-> a, field |-> "foreign", old |-> old.foreign, new |-> new.foreign]} :
        m.new # m.old /\ m.new # Blank}

\* CONTRACT_UPDATE_CLAUSE: a blank never replaces a value.
Overwritten(old, new) ==
    IF old = None THEN new
    ELSE [new EXCEPT !.country = IF @ = Blank THEN old.country ELSE @,
                     !.sole    = IF @ = "" THEN old.sole ELSE @]

Saving(p) == CHOOSE a \in proc[p].todo : TRUE

\* _contract_changes: read the row, log what moved.
Diff(p) ==
    /\ At(p, "save") /\ proc[p].todo # {}
    /\ LET a == Saving(p)
           moved == IF row[a] = None THEN {} ELSE Moved(a, row[a], proc[p].held[a])
       IN /\ log' = log \cup moved
          /\ Set(p, [proc[p] EXCEPT
               !.pc = "write", !.saw = row[a],
               !.changes = IF p \in AgencyRun THEN @ \cup moved ELSE {}])
    /\ UNCHANGED <<history, row, link, read, screened, bounds>>

Write(p) ==
    /\ At(p, "write")
    /\ LET a == Saving(p)
       IN /\ row' = [row EXCEPT ![a] = Overwritten(@, proc[p].held[a])]
          /\ Set(p, [proc[p] EXCEPT !.pc = "save", !.saw = None, !.todo = @ \ {a},
                                    !.held[a] = None])
    /\ UNCHANGED <<history, log, link, read, screened, bounds>>

----------------------------------------------------------------------------
(* The screen                                                              *)

\* Mutant: every novation among what moved.
TellsAll(changes) == {{m \in changes : m.field # "foreign" \/ m.new}}

\* evaluate_contract_changes: one novation of those that moved, every country,
\* and a flag only where it was raised.
Tells(changes) ==
    LET novations == {m \in changes : m.field = "key"}
        rest == {m \in changes : m.field = "country" \/ (m.field = "foreign" /\ m.new)}
    IN IF novations = {} THEN {rest} ELSE {rest \cup {m} : m \in novations}

\* With the contractor's awards saved, an agency's run screens it and an office's
\* run, which drops what moved, has its page in the register.
AllSaved(p) ==
    /\ At(p, "save") /\ proc[p].todo = {}
    /\ IF p \in AgencyRun
       THEN \E told \in Tells(proc[p].changes) :
              Set(p, [proc[p] EXCEPT !.pc = "mark", !.finding = told, !.changes = {}])
       ELSE Set(p, [proc[p] EXCEPT !.pc = "page"])
    /\ UNCHANGED <<history, tables, bounds>>

AfterScreen(p) == [proc[p] EXCEPT !.pc = IF p \in AgencyRun THEN "next" ELSE "candidates",
                                  !.key = None, !.finding = {}]

\* The contractor is recorded as screened first ...
MarkScreened(p) ==
    /\ At(p, "mark")
    /\ screened' = screened \cup {proc[p].key}
    /\ Set(p, [proc[p] EXCEPT !.pc = "keep"])
    /\ UNCHANGED <<history, row, log, link, read, bounds>>

\* ... and then the finding is saved, where it says enough to be kept.
SaveFinding(p) ==
    /\ At(p, "keep")
    /\ Set(p, AfterScreen(p))
    /\ UNCHANGED <<history, tables, bounds>>

----------------------------------------------------------------------------
(* A run of an office                                                      *)

StartScope(p) ==
    /\ p \in OfficeRun /\ At(p, "idle") /\ starts < MaxStarts
    /\ starts' = starts + 1
    /\ Set(p, [Idle EXCEPT !.pc = "month", !.month = Months])
    /\ UNCHANGED <<history, tables, faults, decisions>>

\* Mutant: only what the office awarded to firms.
SignedByFirms(m) == {a \in Award \ Subaward :
    Len(history[a]) >= m /\ history[a][m].holder \notin SoleProprietor}
Signed(m) == {a \in Award \ Subaward : Len(history[a]) >= m}
Below(p) == [proc[p] EXCEPT !.month = @ - 1]

\* A month read to its end is skipped, or read again where it is recent and was
\* read a week ago.
ReadMonth(p) ==
    /\ At(p, "month") /\ proc[p].month > 0
    /\ LET m == proc[p].month
       IN \/ m \in read /\ Set(p, Below(p)) /\ UNCHANGED <<read, faults>>
          \/ /\ read' = read \ {m}
             /\ Set(p, [proc[p] EXCEPT
                   !.pc   = "save",
                   !.todo = Signed(m),
                   !.held = [a \in Award |-> IF a \in Signed(m)
                                             THEN FromEntry(history[a][m]) ELSE None]])
             /\ UNCHANGED faults
          \/ /\ faults < MaxFaults       \* FPDS does not answer: the next run's
             /\ read' = read \ {m} /\ faults' = faults + 1
             /\ Set(p, Below(p))
    /\ UNCHANGED <<history, row, log, link, screened, starts, decisions>>

\* The page is saved: the month is read.
SaveScopeIndex(p) ==
    /\ At(p, "page")
    /\ read' = read \cup {proc[p].month}
    /\ Set(p, [Below(p) EXCEPT !.pc = "month"])
    /\ UNCHANGED <<history, row, log, link, screened, bounds>>

Recorded(k) == {a \in Award : row[a] # None /\ row[a].key = k}

\* No month left, or no time for another: the contractors never screened, and
\* those screened a month ago, are listed.
ReadEnough(p) ==
    /\ At(p, "month")
    /\ \E again \in SUBSET screened :
         Set(p, [proc[p] EXCEPT
            !.pc = "candidates", !.month = 0,
            !.keys = {k \in (Holder \ screened) \cup again : Recorded(k) # {}}])
    /\ UNCHANGED <<history, tables, bounds>>

\* The next of them, from its stored awards; a person is only marked.
Candidate(p, k) ==
    /\ p \in OfficeRun /\ At(p, "candidates") /\ k \in proc[p].keys
    /\ LET person == \E a \in Recorded(k) : row[a].sole = "yes"
           goes   == Recorded(k) # {} /\ ~person
       IN /\ screened' = IF person THEN screened \cup {k} ELSE screened
          /\ Set(p, [proc[p] EXCEPT !.keys = @ \ {k},
                                    !.pc  = IF goes THEN "identity" ELSE "candidates",
                                    !.key = IF goes THEN k ELSE None])
    /\ UNCHANGED <<history, row, log, link, read, bounds>>

\* None left, or no time for another.
EndScope(p) ==
    /\ At(p, "candidates")
    /\ Set(p, Idle)
    /\ UNCHANGED <<history, tables, bounds>>

\* The process is restarted under the run.
Die(p) ==
    /\ ~At(p, "idle") /\ faults < MaxFaults
    /\ faults' = faults + 1
    /\ Set(p, Idle)
    /\ UNCHANGED <<history, tables, starts, decisions>>

----------------------------------------------------------------------------
Next ==
    \/ \E a \in Award : Modify(a)
    \/ \E k \in Holder, s \in {"auto", "confirmed", "rejected"}, c \in Cik \cup {Blank} :
            Decide(k, s, c)
    \/ \E p \in Run :
         \/ Search(p) \/ Finish(p) \/ StartScope(p) \/ ReadMonth(p) \/ SaveScopeIndex(p)
         \/ ReadEnough(p) \/ EndScope(p) \/ Resolve(p) \/ RecordAutoRead(p)
         \/ RecordAutoWrite(p) \/ Diff(p) \/ Write(p) \/ AllSaved(p)
         \/ MarkScreened(p) \/ SaveFinding(p) \/ Die(p)
         \/ \E k \in Holder : NextContractor(p, k) \/ Candidate(p, k)

Spec == Init /\ [][Next]_vars

----------------------------------------------------------------------------
(* Properties                                                              *)

Worker ==
    [pc: {"idle", "next", "identity", "record", "upsert", "save", "write", "mark", "keep",
          "month", "page", "candidates"},
     held: [Award -> Facts \cup {None}], keys: SUBSET Holder, key: Holder \cup {None},
     month: 0..Months, todo: SUBSET Award, saw: Facts \cup {None},
     changes: SUBSET Move, finding: SUBSET Move, cik: Cik \cup {Blank}]

\* The register, the log, the identities and what each worker holds are well
\* formed; what a worker has still to save it holds.
TypeOK ==
    /\ history \in [Award -> Seq(Action)]
    /\ \A a \in Award : Len(history[a]) \in 1..Months
    /\ row \in [Award -> Facts \cup {None}]
    /\ log \subseteq Move
    /\ link \in [Holder -> Link \cup {None}]
    /\ read \subseteq 1..Months /\ screened \subseteq Holder
    /\ proc \in [Run -> Worker]
    /\ \A p \in Run : \A a \in proc[p].todo : proc[p].held[a] # None
    /\ starts \in 0..MaxStarts /\ faults \in 0..MaxFaults /\ decisions \in 0..MaxDecisions

\* A stored holder, country or flag is overwritten by another only once the
\* move is in contract_changes, however runs interleave and die, unless another
\* run wrote the award after this one had compared it.
NoSilentMove ==
    [][\A a \in Award : row[a] # None =>
          \A f \in {"key", "country", "foreign"} : row'[a][f] # row[a][f] =>
             \/ [award |-> a, field |-> f, old |-> row[a][f], new |-> row'[a][f]] \in log'
             \/ \E p \in Run : /\ At(p, "write") /\ proc'[p] # proc[p]
                               /\ Saving(p) = a /\ proc[p].saw # row[a]]_vars

Holders(a) == {history[a][i].holder : i \in 1..Len(history[a])}
Seats(a) == {history[a][i].seat : i \in 1..Len(history[a])}

\* What a finding says moved is a move between values the award's record has
\* had: an unanswered request never reads as a contractor that moved, and a
\* finding tells of one novation.
TellsRealMoves ==
    \A p \in Run : \A m \in proc[p].finding :
        /\ m.field = "key" => /\ {m.old, m.new} \subseteq Holders(m.award)
                              /\ \A n \in proc[p].finding : n.field = "key" => n = m
        /\ m.field = "country" => /\ m.new \in Seats(m.award)
                                  /\ m.old \in Seats(m.award) \cup {Blank}
        /\ m.field = "foreign" => Seats(m.award) \cap ForeignSeat # {}

\* Only a reviewer changes what a reviewer decided about an identity.
DecisionStays ==
    [][\A k \in Holder : Decided(k) /\ link'[k] # link[k] =>
          decisions' = decisions + 1 \/ link'[k].status = link[k].status]_vars

\* Neither a move of an award nor a reviewer's decision is overwritten unseen.
NothingIsLost == NoSilentMove /\ DecisionStays

\* When the first month has been read to its end every award signed in it is
\* in the register, whatever failed, died or was read again on the way.
ReadIsHeld == 1 \in read => \A a \in Award \ Subaward : row[a] # None

\* store.py:2570 of record_auto_link, "Never overwrites a human decision".
ConfirmedStays ==
    [][\A k \in Holder : link[k] # None /\ link[k].status = "confirmed"
            /\ decisions' = decisions => link'[k] = link[k]]_vars

=============================================================================
