---------------------------- MODULE AwardsProofs ----------------------------
(***************************************************************************)
(* What is proved of Awards, for any awards, contractors, workers and      *)
(* bounds: the types, that no move is overwritten unlogged and no decision *)
(* on an identity by anybody but a reviewer, that an office whose first    *)
(* month was read has every award in the register, and that a move a       *)
(* finding tells of was made.                                              *)
(***************************************************************************)
EXTENDS Awards, FiniteSetTheorems, FunctionTheorems, TLAPS

(* The first awards of a contractor, however many it has, are awards of it. *)
LEMMA LargestIsPart ==
    ASSUME NEW S \in SUBSET Award PROVE Largest(S, Enriched) \subseteq S
<1> DEFINE n == IF Cardinality(S) < Enriched THEN Cardinality(S) ELSE Enriched
<1>1. IsFiniteSet(S)
  BY AwardsAssumption, FS_Subset
<1>2. Cardinality(S) \in Nat /\ ExistsBijection(1..Cardinality(S), S)
  BY <1>1, FS_CardinalityType
<1>3. n \in 0..Cardinality(S)
  BY <1>2, AwardsAssumption
<1>4. PICK f : f \in Bijection(1..Cardinality(S), S)
  BY <1>2, Fun_ExistsBij
<1> DEFINE T == {f[i] : i \in 1..n}
           g == [i \in 1..n |-> f[i]]
<1>5. /\ f \in [1..Cardinality(S) -> S]
      /\ \A i, j \in 1..Cardinality(S) : f[i] = f[j] => i = j
  <2> DEFINE D == 1..Cardinality(S)
  <2> HIDE DEF D
  <2>1. f \in Bijection(D, S)
    BY <1>4 DEF D
  <2>2. f \in [D -> S] /\ \A i, j \in D : f[i] = f[j] => i = j
    BY <2>1, Fun_BijectionProperties
  <2> QED
    BY <2>2 DEF D
<1>6. T \in SUBSET S
  BY <1>2, <1>3, <1>5
<1>7. g \in [1..n -> T] /\ (\A i, j \in 1..n : g[i] = g[j] => i = j)
  BY <1>2, <1>3, <1>5
<1>8. \A t \in T : \E i \in 1..n : g[i] = t
  OBVIOUS
<1>9. g \in Bijection(1..n, T)
  <2> HIDE DEF g, T, n
  <2> QED
    BY <1>7, <1>8, Fun_IsBij
<1>10. Cardinality(T) = n
  <2> HIDE DEF g, T, n
  <2>1. ExistsBijection(1..n, T)
    BY <1>9, Fun_ExistsBij
  <2> QED
    BY <2>1, <1>2, <1>3, FS_CountingElements
<1> QED
  BY <1>6, <1>10 DEF Largest

----------------------------------------------------------------------------
(* The inductive invariant: the types, and what a worker holds where.      *)

Named == {"identity", "record", "upsert", "mark", "keep"}
Reading == {"save", "write", "page"}

\* A worker has a contractor where it is about to act on one, an office's worker
\* a month where it saves one, and what it has to save it holds.
Fit(p, w) ==
    /\ \A a \in w.todo : w.held[a] # None
    /\ p \in AgencyRun => w.pc \notin {"month", "page", "candidates"}
    /\ w.pc \in Named \/ (p \in AgencyRun /\ w.pc \in Reading) => w.key \in Holder
    /\ p \in OfficeRun /\ w.pc \in Reading => w.month \in 1..Months
    /\ w.pc = "write" => w.todo # {}

\* What the award about to be written changes in the row that was compared is logged.
Logged(w) ==
    LET a == CHOOSE x \in w.todo : TRUE
    IN  w.pc = "write" /\ w.saw # None => Moved(a, w.saw, w.held[a]) \subseteq log

\* An office's worker that saves the first month has its awards to save, or saved.
Covers(p, w) ==
    p \in OfficeRun /\ w.pc \in Reading /\ w.month = 1 =>
        \A a \in Award \ Subaward : row[a] # None \/ (w.pc # "page" /\ a \in w.todo)

IInv ==
    /\ TypeOK
    /\ \A p \in Run : Fit(p, proc[p]) /\ Logged(proc[p]) /\ Covers(p, proc[p])
    /\ ReadIsHeld

LEMMA IdleIsWorker == Idle \in Worker /\ (\A p \in Run : Fit(p, Idle) /\ Logged(Idle) /\ Covers(p, Idle))
  BY AwardsAssumption DEF Idle, Worker, Fit, Logged, Covers, Named, Reading

LEMMA IInvAtInit == Init => IInv
<1> SUFFICES ASSUME Init PROVE IInv
  OBVIOUS
<1>1. /\ history \in [Award -> Seq(Action)]
      /\ \A a \in Award : Len(history[a]) \in 1..Months
  BY AwardsAssumption DEF Init
<1>2. proc \in [Run -> Worker] /\ \A p \in Run : proc[p] = Idle
  BY IdleIsWorker DEF Init
<1>3. /\ row \in [Award -> Facts \cup {None}] /\ link \in [Holder -> Link \cup {None}]
      /\ log \subseteq Move /\ read \subseteq 1..Months /\ screened \subseteq Holder
      /\ starts \in 0..MaxStarts /\ faults \in 0..MaxFaults /\ decisions \in 0..MaxDecisions
  BY AwardsAssumption DEF Init
<1> QED
  BY <1>1, <1>2, <1>3, IdleIsWorker DEF Init, IInv, TypeOK, ReadIsHeld, Idle

(* One worker goes on: what the others hold stands, as the log only grows  *)
(* and no row goes.                                                        *)
LEMMA OneGoesOn ==
    ASSUME IInv, NEW p \in Run, NEW f \in Worker, Set(p, f), log \subseteq log',
           \A a \in Award : row[a] # None => row'[a] # None,
           Fit(p, f), Logged(f)', Covers(p, f)'
    PROVE  /\ proc' \in [Run -> Worker]
           /\ \A q \in Run : Fit(q, proc'[q]) /\ Logged(proc[q])' /\ Covers(q, proc[q])'
<1>1. proc' \in [Run -> Worker] /\ proc'[p] = f /\ (\A q \in Run \ {p} : proc'[q] = proc[q])
  BY DEF IInv, TypeOK, Set
<1>2. ASSUME NEW q \in Run \ {p}
      PROVE  Fit(q, proc'[q]) /\ Logged(proc[q])' /\ Covers(q, proc[q])'
  <2>1. Fit(q, proc[q]) /\ Logged(proc[q]) /\ Covers(q, proc[q])
    BY DEF IInv
  <2> QED
    BY <1>1, <2>1 DEF Fit, Logged, Covers
<1>3. Fit(p, proc'[p]) /\ Logged(proc[p])' /\ Covers(p, proc[p])'
  BY <1>1 DEF Logged, Covers
<1> QED
  BY <1>1, <1>2, <1>3
\* What is needed of the tables for the invariant, apart from the workers.
Tables ==
    /\ history \in [Award -> Seq(Action)]
    /\ \A a \in Award : Len(history[a]) \in 1..Months
    /\ row \in [Award -> Facts \cup {None}]
    /\ log \subseteq Move
    /\ link \in [Holder -> Link \cup {None}]
    /\ read \subseteq 1..Months /\ screened \subseteq Holder
    /\ starts \in 0..MaxStarts /\ faults \in 0..MaxFaults /\ decisions \in 0..MaxDecisions
    /\ ReadIsHeld

LEMMA Goes ==
    ASSUME IInv, Tables', NEW p \in Run, NEW f \in Worker, Set(p, f), log \subseteq log',
           \A a \in Award : row[a] # None => row'[a] # None,
           Fit(p, f), Logged(f)', Covers(p, f)'
    PROVE  IInv'
<1>1. /\ proc' \in [Run -> Worker]
      /\ \A q \in Run : Fit(q, proc'[q]) /\ Logged(proc[q])' /\ Covers(q, proc[q])'
  BY OneGoesOn
<1>2. \A q \in Run : \A a \in proc'[q].todo : proc'[q].held[a] # None
  BY <1>1 DEF Fit
<1>3. \A q \in Run : Fit(q, proc[q])'
  BY <1>1 DEF Fit
<1> QED
  BY <1>1, <1>2, <1>3 DEF IInv, TypeOK, Tables

LEMMA TablesHold == IInv => Tables
  BY DEF IInv, TypeOK, Tables

LEMMA TablesStand == Tables /\ UNCHANGED <<history, tables, bounds>> => Tables'
  BY DEF Tables, tables, bounds, ReadIsHeld

(* A step that writes no table. *)
LEMMA QuietStep ==
    ASSUME IInv, NEW p \in Run, NEW f \in Worker, Set(p, f),
           UNCHANGED <<history, tables, bounds>>, Fit(p, f), Logged(f), Covers(p, f)
    PROVE  IInv'
<1>1. Tables' /\ log \subseteq log' /\ (\A a \in Award : row[a] # None => row'[a] # None)
  BY TablesHold, TablesStand DEF tables
<1>2. Logged(f)' /\ Covers(p, f)'
  BY DEF Logged, Covers, tables
<1> QED
  BY <1>1, <1>2, Goes

LEMMA QuietKept ==
    ASSUME IInv, NEW p \in Run,
           \/ Finish(p) \/ Resolve(p) \/ RecordAutoRead(p) \/ AllSaved(p)
           \/ SaveFinding(p) \/ ReadEnough(p) \/ EndScope(p)
    PROVE  IInv'
<1> DEFINE w == proc[p]
<1>0. w \in Worker /\ Fit(p, w) /\ Logged(w) /\ Covers(p, w)
  BY DEF IInv, TypeOK
<1>1. CASE Finish(p) \/ EndScope(p)
  BY <1>1, IdleIsWorker, QuietStep DEF Finish, EndScope
<1>2. CASE Resolve(p)
  <2>1. PICK f : /\ Set(p, f)
                 /\ \/ f = [w EXCEPT !.pc = AfterIdentity(p)]
                    \/ \E c \in Cik \cup {Blank} : f = [w EXCEPT !.pc = "record", !.cik = c]
    BY <1>2 DEF Resolve
  <2>2. f \in Worker /\ Fit(p, f) /\ Logged(f) /\ Covers(p, f)
    <3>0. w.pc = "identity"
      BY <1>2 DEF Resolve, At
    <3>1. CASE f = [w EXCEPT !.pc = "save"] /\ p \in AgencyRun
      BY <1>0, <3>0, <3>1, AwardsAssumption DEF Worker, Fit, Logged, Covers, Named, Reading
    <3>2. CASE f = [w EXCEPT !.pc = "mark"] /\ p \notin AgencyRun
      BY <1>0, <3>0, <3>2 DEF Worker, Fit, Logged, Covers, Named, Reading
    <3>3. CASE \E c \in Cik \cup {Blank} : f = [w EXCEPT !.pc = "record", !.cik = c]
      BY <1>0, <3>0, <3>3 DEF Worker, Fit, Logged, Covers, Named, Reading
    <3> QED
      BY <2>1, <3>1, <3>2, <3>3 DEF AfterIdentity
  <2> QED
    BY <1>2, <2>1, <2>2, QuietStep DEF Resolve
<1>3. CASE RecordAutoRead(p)
  <2> DEFINE f == [w EXCEPT
         !.pc  = IF Decided(w.key) THEN AfterIdentity(p) ELSE "upsert",
         !.cik = IF Decided(w.key) THEN Blank ELSE @]
  <2>0. w.pc = "record"
    BY <1>3 DEF RecordAutoRead, At
  <2>1. f \in Worker /\ Fit(p, f) /\ Logged(f) /\ Covers(p, f)
    <3>1. CASE Decided(w.key)
      <4>1. f = [w EXCEPT !.pc = AfterIdentity(p), !.cik = Blank]
        BY <3>1
      <4> HIDE DEF f
      <4>2. CASE p \in AgencyRun
        BY <1>0, <2>0, <4>1, <4>2, AwardsAssumption
           DEF AfterIdentity, Worker, Fit, Logged, Covers, Named, Reading
      <4>3. CASE p \notin AgencyRun
        BY <1>0, <2>0, <4>1, <4>3 DEF AfterIdentity, Worker, Fit, Logged, Covers, Named, Reading
      <4> QED
        BY <4>2, <4>3
    <3>2. CASE ~Decided(w.key)
      <4>1. f = [w EXCEPT !.pc = "upsert"]
        BY <1>0, <3>2 DEF Worker
      <4> HIDE DEF f
      <4> QED
        BY <1>0, <2>0, <4>1 DEF Worker, Fit, Logged, Covers, Named, Reading
    <3> QED
      BY <3>1, <3>2
  <2> QED
    BY <1>3, <2>1, QuietStep DEF RecordAutoRead
<1>4. CASE SaveFinding(p)
  <2>1. /\ AfterScreen(p) \in Worker
        /\ Fit(p, AfterScreen(p)) /\ Logged(AfterScreen(p)) /\ Covers(p, AfterScreen(p))
    <3>0. w.pc = "keep"
      BY <1>4 DEF SaveFinding, At
    <3>1. CASE p \in AgencyRun
      <4>1. AfterScreen(p) = [w EXCEPT !.pc = "next", !.key = None, !.finding = {}]
        BY <3>1 DEF AfterScreen
      <4> QED
        BY <1>0, <3>0, <3>1, <4>1, AwardsAssumption DEF Worker, Fit, Logged, Covers, Named, Reading
    <3>2. CASE p \notin AgencyRun
      <4>1. AfterScreen(p) = [w EXCEPT !.pc = "candidates", !.key = None, !.finding = {}]
        BY <3>2 DEF AfterScreen
      <4> QED
        BY <1>0, <3>0, <3>2, <4>1, AwardsAssumption DEF Worker, Fit, Logged, Covers, Named, Reading
    <3> QED
      BY <3>1, <3>2
  <2> QED
    BY <1>4, <2>1, QuietStep DEF SaveFinding
<1>5. CASE ReadEnough(p)
  <2>1. PICK keys \in SUBSET Holder :
            Set(p, [w EXCEPT !.pc = "candidates", !.month = 0, !.keys = keys])
    BY <1>5 DEF ReadEnough, IInv, TypeOK
  <2> DEFINE f == [w EXCEPT !.pc = "candidates", !.month = 0, !.keys = keys]
  <2>2. f \in Worker
    <3>1. 0 \in 0..Months
      BY AwardsAssumption
    <3> QED
      BY <1>0, <3>1 DEF Worker
  <2>3. Fit(p, f) /\ Logged(f) /\ Covers(p, f)
    BY <1>0, <1>5 DEF ReadEnough, At, Worker, Fit, Logged, Covers, Named, Reading
  <2> QED
    BY <1>5, <2>1, <2>2, <2>3, QuietStep DEF ReadEnough
<1>6. CASE AllSaved(p)
  <2>1. CASE p \in AgencyRun
    <3>1. PICK told \in Tells(w.changes) :
              Set(p, [w EXCEPT !.pc = "mark", !.finding = told, !.changes = {}])
      BY <1>6, <2>1 DEF AllSaved
    <3>2. told \subseteq Move
      BY <1>0 DEF Tells, Worker
    <3> DEFINE f == [w EXCEPT !.pc = "mark", !.finding = told, !.changes = {}]
    <3>3. f \in Worker /\ Fit(p, f) /\ Logged(f) /\ Covers(p, f)
      BY <1>0, <1>6, <2>1, <3>2 DEF AllSaved, At, Worker, Fit, Logged, Covers, Named, Reading
    <3> QED
      BY <1>6, <3>1, <3>3, QuietStep DEF AllSaved
  <2>2. CASE p \notin AgencyRun
    <3> DEFINE f == [w EXCEPT !.pc = "page"]
    <3>1. f \in Worker /\ Fit(p, f) /\ Logged(f) /\ Covers(p, f)
      BY <1>0, <1>6, <2>2 DEF AllSaved, At, Worker, Fit, Logged, Covers, Named, Reading
    <3> QED
      BY <1>6, <2>2, <3>1, QuietStep DEF AllSaved
  <2> QED
    BY <2>1, <2>2
<1> QED
  BY <1>1, <1>2, <1>3, <1>4, <1>5, <1>6

LEMMA LatestIsAction == ASSUME IInv PROVE \A a \in Award : Latest(a) \in Action
<1>1. ASSUME NEW a \in Award PROVE Latest(a) \in Action
  <2>1. history[a] \in Seq(Action) /\ Len(history[a]) \in 1..Months
    BY DEF IInv, TypeOK
  <2>2. Len(history[a]) \in 1..Len(history[a])
    BY <2>1
  <2> QED
    BY <2>1, <2>2 DEF Latest
<1> QED
  BY <1>1

LEMMA SearchKept == ASSUME IInv, NEW p \in Run, Search(p) PROVE IInv'
<1> DEFINE primes == {Latest(a).holder : a \in Award \ Subaward}
           subs   == {Latest(a).holder : a \in Subaward} \ primes
           taken(answered)  == {h \in subs : ~TakenForAPerson(h, answered[h])}
           mine(a, answered) == a \notin Subaward \/ Latest(a).holder \in taken(answered)
           f(answered) == [Idle EXCEPT
                 !.pc   = "next",
                 !.held = [a \in Award |-> IF mine(a, answered) THEN Listed(Latest(a)) ELSE None],
                 !.keys = primes \cup taken(answered)]
<1>1. PICK answered \in [Holder -> BOOLEAN] :
        /\ faults + Cardinality({h \in subs : ~answered[h]}) <= MaxFaults
        /\ faults' = faults + Cardinality({h \in subs : ~answered[h]})
        /\ Set(p, f(answered))
  BY DEF Search
<1>2. \A a \in Award : Latest(a) \in Action
  BY LatestIsAction
<1>3. primes \subseteq Holder /\ subs \subseteq Holder
  BY <1>2, AwardsAssumption DEF Action
<1>4. faults' \in 0..MaxFaults /\ starts' \in 0..MaxStarts
  <2>1. Cardinality({h \in subs : ~answered[h]}) \in Nat
    BY <1>3, AwardsAssumption, FS_Subset, FS_CardinalityType
  <2>2. faults \in 0..MaxFaults /\ starts \in 0..MaxStarts /\ MaxFaults \in Nat /\ MaxStarts \in Nat
    BY AwardsAssumption DEF IInv, TypeOK
  <2>3. starts < MaxStarts /\ starts' = starts + 1
    BY DEF Search
  <2> QED
    BY <1>1, <2>1, <2>2, <2>3
<1>5. [a \in Award |-> IF mine(a, answered) THEN Listed(Latest(a)) ELSE None]
         \in [Award -> Facts \cup {None}]
  BY <1>2 DEF Listed, Action, Facts
<1> DEFINE held == [a \in Award |-> IF mine(a, answered) THEN Listed(Latest(a)) ELSE None]
           keys == primes \cup taken(answered)
<1>6. PICK f1 : f1 = [Idle EXCEPT !.pc = "next", !.held = held, !.keys = keys] /\ Set(p, f1)
  BY <1>1
<1>8. f1 \in Worker /\ Fit(p, f1) /\ Logged(f1)' /\ Covers(p, f1)'
  <2>1. held \in [Award -> Facts \cup {None}] /\ keys \subseteq Holder
    BY <1>3, <1>5
  <2> HIDE DEF held, keys
  <2> QED
    BY <2>1, <1>6, IdleIsWorker DEF Idle, Worker, Fit, Logged, Covers, Named, Reading
<1>7. Tables' /\ log \subseteq log' /\ \A a \in Award : row[a] # None => row'[a] # None
  BY <1>4, TablesHold DEF Search, Tables, tables, ReadIsHeld
<1> QED
  BY <1>6, <1>7, <1>8, Goes

LEMMA NextContractorKept ==
    ASSUME IInv, NEW p \in Run, NEW k \in Holder, NextContractor(p, k) PROVE IInv'
<1> DEFINE w == proc[p]
           mine == Held(p, k)
           detailed == Largest(mine, Enriched) \ Subaward
           held(u, v) == [a \in Award |-> IF a \in detailed
                            THEN Detailed(w.held[a], Latest(a), a \in u, a \in v)
                            ELSE w.held[a]]
           none(h) == [a \in Award |-> IF a \in mine THEN None ELSE h[a]]
<1>0. w \in Worker /\ Fit(p, w)
  BY DEF IInv, TypeOK
<1>1. PICK u \in SUBSET detailed, v \in SUBSET detailed :
        /\ faults + (Cardinality(detailed \ u) + Cardinality(detailed \ v)) <= MaxFaults
        /\ faults' = faults + (Cardinality(detailed \ u) + Cardinality(detailed \ v))
        /\ \/ Set(p, [w EXCEPT !.keys = @ \ {k}, !.held = none(held(u, v)), !.pc = "next",
                               !.key = None, !.todo = {}])
           \/ Set(p, [w EXCEPT !.keys = @ \ {k}, !.held = held(u, v), !.pc = "identity",
                               !.key = k, !.todo = mine])
  BY DEF NextContractor
<1>2. mine \in SUBSET Award /\ \A a \in mine : w.held[a] # None
  BY DEF Held
<1>3. detailed \subseteq mine /\ detailed \subseteq Award
  BY <1>2, LargestIsPart
<1>4. faults' \in 0..MaxFaults
  <2>1. IsFiniteSet(detailed \ u) /\ IsFiniteSet(detailed \ v)
    BY <1>3, AwardsAssumption, FS_Subset
  <2>2. Cardinality(detailed \ u) \in Nat /\ Cardinality(detailed \ v) \in Nat
    BY <2>1, FS_CardinalityType
  <2>3. faults \in 0..MaxFaults /\ MaxFaults \in Nat
    BY AwardsAssumption DEF IInv, TypeOK
  <2> QED
    BY <1>1, <2>2, <2>3
<1>5. /\ held(u, v) \in [Award -> Facts \cup {None}]
      /\ \A a \in mine : held(u, v)[a] # None
  <2>1. ASSUME NEW a \in detailed
        PROVE  Detailed(w.held[a], Latest(a), a \in u, a \in v) \in Facts
    <3>1. w.held[a] \in Facts
      BY <1>0, <1>2, <1>3 DEF Worker
    <3>2. Latest(a) \in Action
      BY <1>3, LatestIsAction
    <3> QED
      BY <3>1, <3>2 DEF Detailed, Facts, Action, Sole
  <2>2. None \notin Facts
    BY AwardsAssumption
  <2> QED
    BY <1>0, <1>2, <1>3, <2>1, <2>2 DEF Worker
<1>6. none(held(u, v)) \in [Award -> Facts \cup {None}]
  BY <1>5
<1>7. Tables' /\ log \subseteq log' /\ \A a \in Award : row[a] # None => row'[a] # None
  BY <1>4, TablesHold DEF NextContractor, Tables, tables, ReadIsHeld
<1>8. p \in AgencyRun /\ p \notin OfficeRun
  BY AwardsAssumption DEF NextContractor
<1>9. PICK h \in [Award -> Facts \cup {None}] :
        \/ Set(p, [w EXCEPT !.keys = @ \ {k}, !.held = h, !.pc = "next", !.key = None, !.todo = {}])
        \/ /\ Set(p, [w EXCEPT !.keys = @ \ {k}, !.held = h, !.pc = "identity",
                               !.key = k, !.todo = mine])
           /\ \A a \in mine : h[a] # None
  BY <1>1, <1>5, <1>6
<1> HIDE DEF mine, held, none, detailed
<1>10. CASE Set(p, [w EXCEPT !.keys = @ \ {k}, !.held = h, !.pc = "next", !.key = None, !.todo = {}])
  <2>0. PICK f : /\ f = [w EXCEPT !.keys = @ \ {k}, !.held = h, !.pc = "next", !.key = None,
                                  !.todo = {}]
                 /\ Set(p, f)
    BY <1>10
  <2>1. f \in Worker
    BY <1>0, <2>0 DEF Worker
  <2>2. Fit(p, f) /\ Logged(f)' /\ Covers(p, f)'
    BY <1>0, <1>8, <2>0 DEF Worker, Fit, Logged, Covers, Named, Reading
  <2> QED
    BY <1>7, <2>0, <2>1, <2>2, Goes
<1>11. CASE /\ Set(p, [w EXCEPT !.keys = @ \ {k}, !.held = h, !.pc = "identity",
                                !.key = k, !.todo = mine])
            /\ \A a \in mine : h[a] # None
  <2>0. PICK f : /\ f = [w EXCEPT !.keys = @ \ {k}, !.held = h, !.pc = "identity",
                                  !.key = k, !.todo = mine]
                 /\ Set(p, f)
    BY <1>11
  <2>1. f \in Worker
    BY <1>0, <1>2, <2>0 DEF Worker
  <2>2. Fit(p, f) /\ Logged(f)' /\ Covers(p, f)'
    BY <1>0, <1>8, <1>11, <2>0 DEF Worker, Fit, Logged, Covers, Named, Reading
  <2> QED
    BY <1>7, <2>0, <2>1, <2>2, Goes
<1> QED
  BY <1>9, <1>10, <1>11

(* What others do to the record and to the identities. *)
LEMMA OthersKept ==
    ASSUME IInv, Tables', UNCHANGED <<proc, row, log>> PROVE IInv'
<1>1. proc' \in [Run -> Worker] /\ (\A p \in Run : \A a \in proc'[p].todo : proc'[p].held[a] # None)
  BY DEF IInv, TypeOK
<1>2. \A p \in Run : (Fit(p, proc[p]) /\ Logged(proc[p]) /\ Covers(p, proc[p]))'
  BY DEF IInv, Fit, Logged, Covers
<1> QED
  BY <1>1, <1>2 DEF IInv, TypeOK, Tables

LEMMA ModifyKept == ASSUME IInv, NEW a \in Award, Modify(a) PROVE IInv'
<1>1. PICK x \in Action : history' = [history EXCEPT ![a] = Append(@, x)]
  BY DEF Modify
<1>2. /\ history \in [Award -> Seq(Action)]
      /\ \A b \in Award : Len(history[b]) \in 1..Months
      /\ Len(history[a]) < Months /\ Months \in Nat
  BY AwardsAssumption DEF Modify, IInv, TypeOK
<1>3. history' \in [Award -> Seq(Action)] /\ \A b \in Award : Len(history'[b]) \in 1..Months
  <2>1. Append(history[a], x) \in Seq(Action) /\ Len(Append(history[a], x)) = Len(history[a]) + 1
    BY <1>2
  <2>2. Len(history[a]) \in 1..Months /\ Len(history[a]) + 1 \in 1..Months
    BY <1>2
  <2> QED
    BY <1>1, <1>2, <2>1, <2>2
<1>4. Tables'
  BY <1>3, TablesHold DEF Modify, Tables, tables, bounds, ReadIsHeld
<1> QED
  BY <1>4, OthersKept DEF Modify, tables

LEMMA DecideKept ==
    ASSUME IInv, NEW k \in Holder, NEW s \in {"auto", "confirmed", "rejected"},
           NEW c \in Cik \cup {Blank}, Decide(k, s, c)
    PROVE  IInv'
<1>1. link[k] \in Link \cup {None} /\ link \in [Holder -> Link \cup {None}]
  BY DEF IInv, TypeOK
<1>2. Settled(link[k], s, c) \in Link
  BY <1>1 DEF Settled, Link
<1>3. link' \in [Holder -> Link \cup {None}]
  BY <1>1, <1>2 DEF Decide
<1>4. decisions' \in 0..MaxDecisions
  <2>1. decisions \in 0..MaxDecisions /\ MaxDecisions \in Nat
    BY AwardsAssumption DEF IInv, TypeOK
  <2> QED
    BY <2>1 DEF Decide
<1>5. Tables'
  BY <1>3, <1>4, TablesHold DEF Decide, Tables, ReadIsHeld
<1> QED
  BY <1>5, OthersKept DEF Decide

LEMMA RecordAutoWriteKept == ASSUME IInv, NEW p \in Run, RecordAutoWrite(p) PROVE IInv'
<1> DEFINE w == proc[p]
<1>0. w \in Worker /\ Fit(p, w) /\ w.pc = "upsert" /\ w.key \in Holder
  BY DEF IInv, TypeOK, RecordAutoWrite, At, Fit, Named
<1>1. PICK f : f = [w EXCEPT !.pc = AfterIdentity(p), !.cik = Blank] /\ Set(p, f)
  BY DEF RecordAutoWrite
<1>2. f \in Worker /\ Fit(p, f) /\ Logged(f)' /\ Covers(p, f)'
  <2>1. CASE p \in AgencyRun
    BY <1>0, <1>1, <2>1, AwardsAssumption
       DEF AfterIdentity, Worker, Fit, Logged, Covers, Named, Reading
  <2>2. CASE p \notin AgencyRun
    BY <1>0, <1>1, <2>2 DEF AfterIdentity, Worker, Fit, Logged, Covers, Named, Reading
  <2> QED
    BY <2>1, <2>2
<1>3. link[w.key] \in Link \cup {None} /\ link \in [Holder -> Link \cup {None}]
  BY <1>0 DEF IInv, TypeOK
<1>4. Upserted(link[w.key], w.cik) \in Link
  BY <1>0, <1>3 DEF Upserted, Link, Worker
<1>5. link' \in [Holder -> Link \cup {None}]
  BY <1>3, <1>4 DEF RecordAutoWrite
<1>6. Tables' /\ log \subseteq log' /\ \A a \in Award : row[a] # None => row'[a] # None
  BY <1>5, TablesHold DEF RecordAutoWrite, Tables, bounds, ReadIsHeld
<1> QED
  BY <1>1, <1>2, <1>6, Goes

LEMMA MarkScreenedKept == ASSUME IInv, NEW p \in Run, MarkScreened(p) PROVE IInv'
<1> DEFINE w == proc[p]
<1>0. w \in Worker /\ Fit(p, w) /\ w.pc = "mark" /\ w.key \in Holder
  BY DEF IInv, TypeOK, MarkScreened, At, Fit, Named
<1>1. PICK f : f = [w EXCEPT !.pc = "keep"] /\ Set(p, f)
  BY DEF MarkScreened
<1>2. f \in Worker /\ Fit(p, f) /\ Logged(f)' /\ Covers(p, f)'
  BY <1>0, <1>1 DEF Worker, Fit, Logged, Covers, Named, Reading
<1>3. Tables' /\ log \subseteq log' /\ \A a \in Award : row[a] # None => row'[a] # None
  BY <1>0, TablesHold DEF MarkScreened, Tables, bounds, ReadIsHeld
<1> QED
  BY <1>1, <1>2, <1>3, Goes

LEMMA DieKept == ASSUME IInv, NEW p \in Run, Die(p) PROVE IInv'
<1>1. PICK f : f = Idle /\ Set(p, f)
  BY DEF Die
<1>2. f \in Worker /\ Fit(p, f) /\ Logged(f)' /\ Covers(p, f)'
  BY <1>1, IdleIsWorker DEF Idle, Logged, Covers, Named, Reading
<1>3. faults' \in 0..MaxFaults
  <2>1. faults \in 0..MaxFaults /\ MaxFaults \in Nat
    BY AwardsAssumption DEF IInv, TypeOK
  <2> QED
    BY <2>1 DEF Die
<1>4. Tables' /\ log \subseteq log' /\ \A a \in Award : row[a] # None => row'[a] # None
  BY <1>3, TablesHold DEF Die, Tables, tables, ReadIsHeld
<1> QED
  BY <1>1, <1>2, <1>4, Goes

LEMMA CandidateKept == ASSUME IInv, NEW p \in Run, NEW k \in Holder, Candidate(p, k) PROVE IInv'
<1> DEFINE w == proc[p]
<1>0. w \in Worker /\ Fit(p, w) /\ w.pc = "candidates" /\ p \in OfficeRun /\ p \notin AgencyRun
  BY AwardsAssumption DEF IInv, TypeOK, Candidate, At
<1>1. PICK f : /\ Set(p, f)
               /\ \/ f = [w EXCEPT !.keys = @ \ {k}, !.pc = "identity", !.key = k]
                  \/ f = [w EXCEPT !.keys = @ \ {k}, !.pc = "candidates", !.key = None]
  <2> DEFINE goes == Recorded(k) # {} /\ ~(\E a \in Recorded(k) : row[a].sole = "yes")
  <2>1. CASE goes
    BY <2>1 DEF Candidate
  <2>2. CASE ~goes
    BY <2>2 DEF Candidate
  <2> QED
    BY <2>1, <2>2
<1>2. f \in Worker /\ Fit(p, f) /\ Logged(f)' /\ Covers(p, f)'
  <2>1. CASE f = [w EXCEPT !.keys = @ \ {k}, !.pc = "identity", !.key = k]
    BY <1>0, <2>1 DEF Worker, Fit, Logged, Covers, Named, Reading
  <2>2. CASE f = [w EXCEPT !.keys = @ \ {k}, !.pc = "candidates", !.key = None]
    BY <1>0, <2>2 DEF Worker, Fit, Logged, Covers, Named, Reading
  <2> QED
    BY <1>1, <2>1, <2>2
<1>3. screened' \subseteq Holder
  BY DEF Candidate, IInv, TypeOK
<1>4. Tables' /\ log \subseteq log' /\ \A a \in Award : row[a] # None => row'[a] # None
  BY <1>3, TablesHold DEF Candidate, Tables, bounds, ReadIsHeld
<1> QED
  BY <1>1, <1>2, <1>4, Goes

LEMMA StartScopeKept == ASSUME IInv, NEW p \in Run, StartScope(p) PROVE IInv'
<1>1. PICK f : f = [Idle EXCEPT !.pc = "month", !.month = Months] /\ Set(p, f)
  BY DEF StartScope
<1>2. f \in Worker /\ Fit(p, f) /\ Logged(f)' /\ Covers(p, f)'
  <2>1. p \in OfficeRun /\ p \notin AgencyRun /\ Months \in 0..Months
    BY AwardsAssumption DEF StartScope
  <2>2. f \in Worker
    BY <1>1, <2>1, IdleIsWorker DEF Worker
  <2>3. f.pc = "month" /\ f.todo = {}
    BY <1>1 DEF Idle
  <2> QED
    BY <2>1, <2>2, <2>3 DEF Fit, Logged, Covers, Named, Reading
<1>3. starts' \in 0..MaxStarts
  <2>1. starts \in 0..MaxStarts /\ MaxStarts \in Nat
    BY AwardsAssumption DEF IInv, TypeOK
  <2> QED
    BY <2>1 DEF StartScope
<1>4. Tables' /\ log \subseteq log' /\ \A a \in Award : row[a] # None => row'[a] # None
  BY <1>3, TablesHold DEF StartScope, Tables, tables, ReadIsHeld
<1> QED
  BY <1>1, <1>2, <1>4, Goes

LEMMA BelowIsWorker ==
    ASSUME NEW w \in Worker, w.month > 0
    PROVE  w.month - 1 \in 0..Months
  BY AwardsAssumption DEF Worker

LEMMA SaveScopeIndexKept == ASSUME IInv, NEW p \in Run, SaveScopeIndex(p) PROVE IInv'
<1> DEFINE w == proc[p]
<1>0. /\ w \in Worker /\ Fit(p, w) /\ Covers(p, w) /\ w.pc = "page"
      /\ p \in OfficeRun /\ p \notin AgencyRun /\ w.month \in 1..Months
  BY AwardsAssumption DEF IInv, TypeOK, SaveScopeIndex, At, Fit, Reading, Run
<1>1. PICK f : f = [w EXCEPT !.month = w.month - 1, !.pc = "month"] /\ Set(p, f)
  BY <1>0 DEF SaveScopeIndex, Below, Worker
<1>2. w.month - 1 \in 0..Months
  BY <1>0, AwardsAssumption
<1>3. f \in Worker
  BY <1>0, <1>1, <1>2 DEF Worker
<1>4. Fit(p, f) /\ Logged(f)' /\ Covers(p, f)'
  BY <1>0, <1>1 DEF Worker, Fit, Logged, Covers, Named, Reading
<1>5. read' \subseteq 1..Months /\ ReadIsHeld'
  <2>1. read' = read \cup {w.month} /\ row' = row /\ read \subseteq 1..Months
    BY DEF SaveScopeIndex, IInv, TypeOK
  <2>2. CASE w.month = 1
    BY <1>0, <2>1, <2>2 DEF Covers, Reading, ReadIsHeld
  <2>3. CASE w.month # 1
    BY <1>0, <2>1, <2>3 DEF IInv, ReadIsHeld
  <2> QED
    BY <1>0, <2>1, <2>2, <2>3
<1>6. Tables' /\ log \subseteq log' /\ \A a \in Award : row[a] # None => row'[a] # None
  BY <1>5, TablesHold DEF SaveScopeIndex, Tables, bounds
<1> QED
  BY <1>1, <1>3, <1>4, <1>6, Goes

LEMMA ReadMonthKept == ASSUME IInv, NEW p \in Run, ReadMonth(p) PROVE IInv'
<1> DEFINE w == proc[p]
           m == w.month
           page == [a \in Award |-> IF a \in Signed(m) THEN FromEntry(history[a][m]) ELSE None]
<1>0. w \in Worker /\ Fit(p, w) /\ w.pc = "month" /\ m \in 1..Months
  BY AwardsAssumption DEF IInv, TypeOK, ReadMonth, At, Worker
<1>a. p \in OfficeRun /\ p \notin AgencyRun
  BY <1>0 DEF Fit, Run
<1>1. PICK f : /\ Set(p, f)
               /\ \/ f = [w EXCEPT !.month = m - 1]
                  \/ f = [w EXCEPT !.pc = "save", !.todo = Signed(m), !.held = page]
  BY <1>0 DEF ReadMonth, Below, Worker
<1>2. Signed(m) \subseteq Award /\ \A a \in Signed(m) : history[a][m] \in Action
  <2>1. ASSUME NEW a \in Signed(m) PROVE history[a][m] \in Action
    <3>1. a \in Award /\ history[a] \in Seq(Action) /\ Len(history[a]) >= m
      BY DEF Signed, IInv, TypeOK
    <3>2. m \in 1..Len(history[a])
      BY <1>0, <3>1
    <3> QED
      BY <3>1, <3>2
  <2> QED
    BY <2>1 DEF Signed
<1>3. \A a \in Signed(m) : FromEntry(history[a][m]) \in Facts
  BY <1>2 DEF FromEntry, Action, Facts, Sole
<1>4. page \in [Award -> Facts \cup {None}] /\ \A a \in Signed(m) : page[a] # None
  BY <1>2, <1>3, AwardsAssumption
<1>5. m = 1 => Signed(m) = Award \ Subaward
  BY DEF Signed, IInv, TypeOK
<1>6. f \in Worker /\ Fit(p, f) /\ Logged(f)' /\ Covers(p, f)'
  <2>1. CASE f = [w EXCEPT !.month = m - 1]
    <3>1. m - 1 \in 0..Months
      BY <1>0, AwardsAssumption
    <3>2. f \in Worker
      BY <1>0, <2>1, <3>1 DEF Worker
    <3> QED
      BY <1>0, <1>a, <2>1, <3>2 DEF Worker, Fit, Logged, Covers, Named, Reading
  <2>2. CASE f = [w EXCEPT !.pc = "save", !.todo = Signed(m), !.held = page]
    <3> HIDE DEF page
    <3>1. f \in Worker
      BY <1>0, <1>2, <1>4, <2>2 DEF Worker
    <3>2. Fit(p, f) /\ Logged(f)'
      BY <1>0, <1>a, <1>4, <2>2 DEF Worker, Fit, Logged, Named, Reading
    <3>3. f.month = m /\ f.todo = Signed(m) /\ f.pc = "save"
      BY <1>0, <2>2 DEF Worker
    <3>4. Covers(p, f)'
      BY <1>5, <3>3 DEF Covers
    <3> QED
      BY <3>1, <3>2, <3>4
  <2> QED
    BY <1>1, <2>1, <2>2
<1>7. faults' \in 0..MaxFaults /\ read' \subseteq 1..Months /\ (1 \in read' => 1 \in read)
  <2>1. faults \in 0..MaxFaults /\ MaxFaults \in Nat /\ read \subseteq 1..Months
    BY AwardsAssumption DEF IInv, TypeOK
  <2> QED
    BY <2>1 DEF ReadMonth
<1>8. Tables' /\ log \subseteq log' /\ \A a \in Award : row[a] # None => row'[a] # None
  BY <1>7, TablesHold DEF ReadMonth, Tables, ReadIsHeld
<1> QED
  BY <1>1, <1>6, <1>8, Goes

(* What is logged of an award is well formed. *)
LEMMA MovedIsMove ==
    ASSUME NEW a \in Award, NEW old \in Facts, NEW new \in Facts
    PROVE  Moved(a, old, new) \subseteq Move
<1>1. ASSUME NEW m \in Moved(a, old, new) PROVE m \in Move
  <2>1. m.new # Blank
    BY DEF Moved
  <2>2. CASE m = [award |-> a, field |-> "key", old |-> old.key, new |-> new.key]
    BY <2>2 DEF Move, Facts
  <2>3. CASE m = [award |-> a, field |-> "country", old |-> old.country, new |-> new.country]
    <3>1. old.country \in Seat \cup {Blank} /\ new.country \in Seat
      BY <2>1, <2>3 DEF Facts
    <3> QED
      BY <2>3, <3>1 DEF Move
  <2>4. CASE m = [award |-> a, field |-> "foreign", old |-> old.foreign, new |-> new.foreign]
    BY <2>4 DEF Move, Facts
  <2> QED
    BY <2>2, <2>3, <2>4 DEF Moved
<1> QED
  BY <1>1

LEMMA SavingIsHeld ==
    ASSUME IInv, NEW p \in Run, proc[p].todo # {}
    PROVE  /\ Saving(p) \in proc[p].todo /\ Saving(p) \in Award
           /\ proc[p].held[Saving(p)] \in Facts
<1>1. Saving(p) \in proc[p].todo
  BY DEF Saving
<1>2. proc[p] \in Worker /\ \A a \in proc[p].todo : proc[p].held[a] # None
  BY DEF IInv, TypeOK
<1> QED
  BY <1>1, <1>2 DEF Worker

LEMMA DiffKept == ASSUME IInv, NEW p \in Run, Diff(p) PROVE IInv'
<1> DEFINE w == proc[p]
           a == Saving(p)
           moved == IF row[a] = None THEN {} ELSE Moved(a, row[a], w.held[a])
<1>0. w \in Worker /\ Fit(p, w) /\ Covers(p, w) /\ w.pc = "save" /\ w.todo # {}
  BY DEF IInv, TypeOK, Diff, At
<1>1. a \in w.todo /\ a \in Award /\ w.held[a] \in Facts /\ row[a] \in Facts \cup {None}
  BY <1>0, SavingIsHeld DEF IInv, TypeOK
<1>2. moved \subseteq Move
  BY <1>1, MovedIsMove
<1>b. PICK c \in SUBSET Move :
         Set(p, [w EXCEPT !.pc = "write", !.saw = row[a], !.changes = c])
  <2>1. w.changes \cup moved \in SUBSET Move
    BY <1>0, <1>2 DEF Worker
  <2> QED
    BY <2>1 DEF Diff
<1>3. PICK f : Set(p, f) /\ f = [w EXCEPT !.pc = "write", !.saw = row[a], !.changes = c]
  BY <1>b
<1>4. log' = log \cup moved
  BY DEF Diff
<1>5. f \in Worker /\ f.pc = "write" /\ f.saw = row[a] /\ f.todo = w.todo /\ f.held = w.held
          /\ f.month = w.month /\ f.key = w.key
  <2> HIDE DEF a, moved
  <2> QED
    BY <1>0, <1>1, <1>3 DEF Worker
<1>6. Fit(p, f) /\ Covers(p, f)'
  BY <1>0, <1>5 DEF Fit, Covers, Named, Reading, Diff
<1>7. Logged(f)'
  <2>1. (CHOOSE x \in f.todo : TRUE) = a
    BY <1>5 DEF Saving
  <2>2. f.saw # None => Moved(a, f.saw, f.held[a]) \subseteq log'
    BY <1>4, <1>5
  <2> QED
    BY <2>1, <2>2 DEF Logged
<1>8. Tables' /\ log \subseteq log' /\ \A b \in Award : row[b] # None => row'[b] # None
  BY <1>2, <1>4, TablesHold DEF Diff, Tables, bounds, ReadIsHeld
<1> QED
  BY <1>3, <1>5, <1>6, <1>7, <1>8, Goes

LEMMA WriteKept == ASSUME IInv, NEW p \in Run, Write(p) PROVE IInv'
<1> DEFINE w == proc[p]
           a == Saving(p)
<1>0. w \in Worker /\ Fit(p, w) /\ Covers(p, w) /\ w.pc = "write" /\ w.todo # {}
  BY DEF IInv, TypeOK, Write, At, Fit
<1>1. a \in w.todo /\ a \in Award /\ w.held[a] \in Facts /\ row[a] \in Facts \cup {None}
  BY <1>0, SavingIsHeld DEF IInv, TypeOK
<1>2. Overwritten(row[a], w.held[a]) \in Facts
  BY <1>1 DEF Overwritten, Facts
<1>3. row' = [row EXCEPT ![a] = Overwritten(row[a], w.held[a])] /\ row \in [Award -> Facts \cup {None}]
  BY DEF Write, IInv, TypeOK
<1>4. /\ row' \in [Award -> Facts \cup {None}] /\ row'[a] # None
      /\ \A b \in Award : row[b] # None => row'[b] # None
  BY <1>1, <1>2, <1>3, AwardsAssumption
<1>5. PICK f : /\ Set(p, f)
               /\ f = [w EXCEPT !.pc = "save", !.saw = None, !.todo = @ \ {a}, !.held[a] = None]
  BY DEF Write
<1>6. /\ f \in Worker /\ f.pc = "save" /\ f.todo = w.todo \ {a} /\ f.month = w.month
      /\ f.key = w.key /\ \A b \in Award \ {a} : f.held[b] = w.held[b]
  BY <1>0, <1>1, <1>5 DEF Worker
<1>7. Fit(p, f) /\ Logged(f)' /\ Covers(p, f)'
  <2>1. Fit(p, f)
    <3>1. w.todo \subseteq Award
      BY <1>0 DEF Worker
    <3> QED
      BY <1>0, <1>6, <3>1 DEF Fit, Named, Reading
  <2>2. Logged(f)'
    BY <1>6 DEF Logged
  <2>3. Covers(p, f)'
    BY <1>0, <1>4, <1>6 DEF Covers, Reading
  <2> QED
    BY <2>1, <2>2, <2>3
<1>8. Tables' /\ log \subseteq log'
  BY <1>4, TablesHold DEF Write, Tables, bounds, ReadIsHeld
<1> QED
  BY <1>4, <1>5, <1>6, <1>7, <1>8, Goes

----------------------------------------------------------------------------
LEMMA IInvKept == IInv /\ [Next]_vars => IInv'
<1> SUFFICES ASSUME IInv, [Next]_vars PROVE IInv'
  OBVIOUS
<1>1. CASE UNCHANGED vars
  <2>1. Tables'
    BY <1>1, TablesHold, TablesStand DEF vars, tables, bounds
  <2> QED
    BY <1>1, <2>1, OthersKept DEF vars
<1>2. CASE \E a \in Award : Modify(a)
  BY <1>2, ModifyKept
<1>3. CASE \E k \in Holder, s \in {"auto", "confirmed", "rejected"}, c \in Cik \cup {Blank} :
              Decide(k, s, c)
  BY <1>3, DecideKept
<1>4. ASSUME NEW p \in Run,
             \/ Search(p) \/ Finish(p) \/ StartScope(p) \/ ReadMonth(p) \/ SaveScopeIndex(p)
             \/ ReadEnough(p) \/ EndScope(p) \/ Resolve(p) \/ RecordAutoRead(p)
             \/ RecordAutoWrite(p) \/ Diff(p) \/ Write(p) \/ AllSaved(p)
             \/ MarkScreened(p) \/ SaveFinding(p) \/ Die(p)
             \/ \E k \in Holder : NextContractor(p, k) \/ Candidate(p, k)
      PROVE  IInv'
  BY <1>4, SearchKept, QuietKept, StartScopeKept, ReadMonthKept, SaveScopeIndexKept,
     RecordAutoWriteKept, DiffKept, WriteKept, MarkScreenedKept, DieKept,
     NextContractorKept, CandidateKept
<1> QED
  BY <1>1, <1>2, <1>3, <1>4 DEF Next

LEMMA Inductive == Spec => []IInv
  BY IInvAtInit, IInvKept, PTL DEF Spec

(* The register, the log, the identities and the workers are well formed,  *)
(* whatever awards, contractors and bounds there are.                      *)
THEOREM RegisterTypes == Spec => []TypeOK
<1>1. IInv => TypeOK
  BY DEF IInv
<1> QED
  BY <1>1, Inductive, PTL

(* An office whose first month was read to its end holds every award signed *)
(* in it.                                                                   *)
THEOREM MonthIsHeld == Spec => []ReadIsHeld
<1>1. IInv => ReadIsHeld
  BY DEF IInv
<1> QED
  BY <1>1, Inductive, PTL

----------------------------------------------------------------------------
(* Nothing is lost: only Write changes a row, and what it changes of the   *)
(* row that was compared was logged; only Decide and the upsert change a   *)
(* link, and the upsert leaves its status.                                 *)

LEMMA RowsWritten == ASSUME [Next]_vars, row' # row
    PROVE  \E p \in Run : Write(p)
<1>1. ASSUME NEW a \in Award, Modify(a) PROVE row' = row
  BY <1>1 DEF Modify, tables
<1>2. ASSUME NEW k \in Holder, NEW s \in {"auto", "confirmed", "rejected"},
             NEW c \in Cik \cup {Blank}, Decide(k, s, c)
      PROVE  row' = row
  BY <1>2 DEF Decide
<1>3. ASSUME NEW p \in Run, Search(p) \/ Finish(p) \/ StartScope(p) \/ EndScope(p) \/ ReadEnough(p)
      PROVE  row' = row
  BY <1>3 DEF tables, Search, Finish, StartScope, EndScope, ReadEnough
<1>4. ASSUME NEW p \in Run, ReadMonth(p) \/ SaveScopeIndex(p) \/ Resolve(p) \/ RecordAutoRead(p)
      PROVE  row' = row
  BY <1>4 DEF tables, ReadMonth, SaveScopeIndex, Resolve, RecordAutoRead
<1>5. ASSUME NEW p \in Run, Diff(p) \/ AllSaved(p) \/ MarkScreened(p) \/ SaveFinding(p) \/ Die(p)
      PROVE  row' = row
  BY <1>5 DEF tables, Diff, AllSaved, MarkScreened, SaveFinding, Die
<1>6. ASSUME NEW p \in Run, RecordAutoWrite(p)
      PROVE  row' = row
  BY <1>6 DEF tables, RecordAutoWrite
<1>7. ASSUME NEW p \in Run, NEW k \in Holder, NextContractor(p, k) \/ Candidate(p, k)
      PROVE  row' = row
  BY <1>7 DEF tables, NextContractor, Candidate
<1>0. Next
  BY DEF vars, tables
<1> QED
  BY <1>0, <1>1, <1>2, <1>3, <1>4, <1>5, <1>6, <1>7 DEF Next

LEMMA LinksWritten == ASSUME [Next]_vars, link' # link
    PROVE  \/ \E k \in Holder, s \in {"auto", "confirmed", "rejected"}, c \in Cik \cup {Blank} :
               Decide(k, s, c)
           \/ \E p \in Run : RecordAutoWrite(p)
<1>1. ASSUME NEW a \in Award, Modify(a) PROVE link' = link
  BY <1>1 DEF Modify, tables
<1>3. ASSUME NEW p \in Run, Search(p) \/ Finish(p) \/ StartScope(p) \/ EndScope(p) \/ ReadEnough(p)
      PROVE  link' = link
  BY <1>3 DEF tables, Search, Finish, StartScope, EndScope, ReadEnough
<1>4. ASSUME NEW p \in Run, ReadMonth(p) \/ SaveScopeIndex(p) \/ Resolve(p) \/ RecordAutoRead(p)
      PROVE  link' = link
  BY <1>4 DEF tables, ReadMonth, SaveScopeIndex, Resolve, RecordAutoRead
<1>5. ASSUME NEW p \in Run, Diff(p) \/ AllSaved(p) \/ MarkScreened(p) \/ SaveFinding(p) \/ Die(p)
      PROVE  link' = link
  BY <1>5 DEF tables, Diff, AllSaved, MarkScreened, SaveFinding, Die
<1>6. ASSUME NEW p \in Run, Write(p)
      PROVE  link' = link
  BY <1>6 DEF tables, Write
<1>7. ASSUME NEW p \in Run, NEW k \in Holder, NextContractor(p, k) \/ Candidate(p, k)
      PROVE  link' = link
  BY <1>7 DEF tables, NextContractor, Candidate
<1>0. Next
  BY DEF vars, tables
<1> QED
  BY <1>0, <1>1, <1>3, <1>4, <1>5, <1>6, <1>7 DEF Next

LEMMA WriteIsLogged ==
    ASSUME IInv, NEW p \in Run, Write(p), NEW a \in Award, row[a] # None,
           NEW f \in {"key", "country", "foreign"}, row'[a][f] # row[a][f],
           ~(\E q \in Run : /\ At(q, "write") /\ proc'[q] # proc[q]
                            /\ Saving(q) = a /\ proc[q].saw # row[a])
    PROVE  [award |-> a, field |-> f, old |-> row[a][f], new |-> row'[a][f]] \in log'
<1> DEFINE w == proc[p]
           b == Saving(p)
<1>0. w \in Worker /\ Fit(p, w) /\ Logged(w) /\ w.pc = "write" /\ w.todo # {}
  BY DEF IInv, TypeOK, Write, At, Fit
<1>1. b \in w.todo /\ b \in Award /\ w.held[b] \in Facts
  BY <1>0, SavingIsHeld
<1>2. /\ row' = [row EXCEPT ![b] = Overwritten(row[b], w.held[b])]
      /\ row \in [Award -> Facts \cup {None}] /\ log' = log
  BY DEF Write, IInv, TypeOK
<1>3. a = b
  BY <1>2
<1>4. row[a] \in Facts /\ row'[a] = Overwritten(row[a], w.held[a])
  BY <1>1, <1>2, <1>3
<1>5. proc'[p] # proc[p]
  <2>1. proc'[p] = [w EXCEPT !.pc = "save", !.saw = None, !.todo = @ \ {b}, !.held[b] = None]
    BY DEF Write, Set, IInv, TypeOK
  <2>2. proc'[p].pc = "save"
    BY <1>0, <2>1 DEF Worker
  <2> QED
    BY <1>0, <2>2
<1>6. w.saw = row[a]
  BY <1>0, <1>3, <1>5 DEF At
<1>7. Moved(a, row[a], w.held[a]) \subseteq log
  <2>1. (CHOOSE x \in w.todo : TRUE) = a
    BY <1>3 DEF Saving
  <2> QED
    BY <1>0, <1>4, <1>6, <2>1, AwardsAssumption DEF Logged
<1>8. row'[a][f] = w.held[a][f] /\ w.held[a][f] # Blank
  <2>1. w.held[a].key \in Holder /\ w.held[a].foreign \in BOOLEAN
    BY <1>1, <1>3 DEF Facts
  <2>0. Blank \notin Holder /\ Blank \notin BOOLEAN
    BY AwardsAssumption
  <2>5. /\ row'[a].key = w.held[a].key /\ row'[a].foreign = w.held[a].foreign
        /\ row'[a].country = IF w.held[a].country = Blank THEN row[a].country
                             ELSE w.held[a].country
    BY <1>1, <1>3, <1>4 DEF Overwritten, Facts
  <2>2. CASE f = "key"
    BY <2>0, <2>1, <2>2, <2>5
  <2>3. CASE f = "country"
    BY <2>3, <2>5
  <2>4. CASE f = "foreign"
    BY <2>0, <2>1, <2>4, <2>5
  <2> QED
    BY <2>2, <2>3, <2>4
<1>9. [award |-> a, field |-> f, old |-> row[a][f], new |-> w.held[a][f]]
         \in Moved(a, row[a], w.held[a])
  <2> DEFINE m == [award |-> a, field |-> f, old |-> row[a][f], new |-> w.held[a][f]]
  <2>1. m.new # m.old /\ m.new # Blank
    BY <1>8
  <2>2. CASE f = "key"
    BY <2>1, <2>2 DEF Moved
  <2>3. CASE f = "country"
    BY <2>1, <2>3 DEF Moved
  <2>4. CASE f = "foreign"
    BY <2>1, <2>4 DEF Moved
  <2> QED
    BY <2>2, <2>3, <2>4
<1> QED
  BY <1>2, <1>7, <1>8, <1>9

LEMMA RowsAreLogged ==
    ASSUME IInv, [Next]_vars, NEW a \in Award, row[a] # None,
           NEW f \in {"key", "country", "foreign"}, row'[a][f] # row[a][f]
    PROVE  \/ [award |-> a, field |-> f, old |-> row[a][f], new |-> row'[a][f]] \in log'
           \/ \E p \in Run : /\ At(p, "write") /\ proc'[p] # proc[p]
                             /\ Saving(p) = a /\ proc[p].saw # row[a]
<1>1. row' # row
  OBVIOUS
<1>2. PICK p \in Run : Write(p)
  BY <1>1, RowsWritten
<1> QED
  BY <1>2, WriteIsLogged

LEMMA DecisionsHold ==
    ASSUME IInv, [Next]_vars, NEW k \in Holder, Decided(k), link'[k] # link[k]
    PROVE  decisions' = decisions + 1 \/ link'[k].status = link[k].status
<1>1. link' # link
  OBVIOUS
<1>2. \/ \E h \in Holder, s \in {"auto", "confirmed", "rejected"}, c \in Cik \cup {Blank} :
            Decide(h, s, c)
      \/ \E p \in Run : RecordAutoWrite(p)
  BY <1>1, LinksWritten
<1>3. CASE \E h \in Holder, s \in {"auto", "confirmed", "rejected"}, c \in Cik \cup {Blank} :
              Decide(h, s, c)
  BY <1>3 DEF Decide
<1>4. ASSUME NEW p \in Run, RecordAutoWrite(p)
      PROVE  link'[k].status = link[k].status
  <2> DEFINE h == proc[p].key
  <2>1. link \in [Holder -> Link \cup {None}] /\ link[k] \in Link
    BY DEF IInv, TypeOK, Decided
  <2>2. link' = [link EXCEPT ![h] = Upserted(link[h], proc[p].cik)]
    BY <1>4 DEF RecordAutoWrite
  <2>3. h = k
    BY <2>1, <2>2
  <2>4. link'[k] = [link[k] EXCEPT !.cik = proc[p].cik]
    BY <2>1, <2>2, <2>3 DEF Upserted, Decided
  <2> QED
    BY <2>1, <2>4 DEF Link
<1> QED
  BY <1>2, <1>3, <1>4

(* Neither a move of an award nor a decision on an identity is overwritten *)
(* unseen, however runs interleave and die.                                *)
THEOREM Kept == Spec => NothingIsLost
<1>1. IInv /\ [Next]_vars =>
        /\ [\A a \in Award : row[a] # None =>
              \A f \in {"key", "country", "foreign"} : row'[a][f] # row[a][f] =>
                 \/ [award |-> a, field |-> f, old |-> row[a][f], new |-> row'[a][f]] \in log'
                 \/ \E p \in Run : /\ At(p, "write") /\ proc'[p] # proc[p]
                                   /\ Saving(p) = a /\ proc[p].saw # row[a]]_vars
        /\ [\A k \in Holder : Decided(k) /\ link'[k] # link[k] =>
              decisions' = decisions + 1 \/ link'[k].status = link[k].status]_vars
  BY RowsAreLogged, DecisionsHold
<1> QED
  BY <1>1, Inductive, PTL DEF Spec, NothingIsLost, NoSilentMove, DecisionStays

----------------------------------------------------------------------------
(* What a finding says moved is of the record: what is stored and what a   *)
(* worker holds was once said there, so what differs between them is too.  *)

Recalled(a, c) ==
    /\ c.key \in Holders(a)
    /\ c.country \in Seats(a) \cup {Blank}
    /\ c.foreign => Seats(a) \cap ForeignSeat # {}

RealMove(m) ==
    /\ m.field = "key" => {m.old, m.new} \subseteq Holders(m.award)
    /\ m.field = "country" => m.new \in Seats(m.award) /\ m.old \in Seats(m.award) \cup {Blank}
    /\ m.field = "foreign" => Seats(m.award) \cap ForeignSeat # {}

\* A worker holds nothing but what the record said, and tells of one novation.
Recalls(w) ==
    /\ \A a \in Award : w.held[a] # None => Recalled(a, w.held[a])
    /\ \A m \in w.changes \cup w.finding : RealMove(m)
    /\ \A m, n \in w.finding : m.field = "key" /\ n.field = "key" => n = m

FromRecord ==
    /\ \A a \in Award : row[a] # None => Recalled(a, row[a])
    /\ \A p \in Run : Recalls(proc[p])

(* The record only grows. *)
LEMMA RecordGrows ==
    ASSUME IInv, [Next]_vars
    PROVE  \A a \in Award : Holders(a) \subseteq Holders(a)' /\ Seats(a) \subseteq Seats(a)'
<1>1. ASSUME NEW b \in Award, Modify(b), NEW a \in Award
      PROVE  Holders(a) \subseteq Holders(a)' /\ Seats(a) \subseteq Seats(a)'
  <2>1. PICK x \in Action : history' = [history EXCEPT ![b] = Append(@, x)]
    BY <1>1 DEF Modify
  <2>2. history \in [Award -> Seq(Action)]
    BY DEF IInv, TypeOK
  <2>3. history'[a] = history[a] \/ history'[a] = Append(history[a], x)
    BY <2>1, <2>2
  <2>4. ASSUME NEW i \in 1..Len(history[a])
        PROVE  i \in 1..Len(history'[a]) /\ history'[a][i] = history[a][i]
    BY <2>2, <2>3
  <2> QED
    BY <2>4 DEF Holders, Seats
<1>2. ASSUME \A b \in Award : ~Modify(b)
      PROVE  history' = history
  <2>1. ASSUME NEW p \in Run, Search(p) \/ Finish(p) \/ StartScope(p) \/ ReadMonth(p)
                              \/ SaveScopeIndex(p) \/ ReadEnough(p) \/ EndScope(p)
        PROVE  history' = history
    BY <2>1 DEF Search, Finish, StartScope, ReadMonth, SaveScopeIndex, ReadEnough, EndScope
  <2>2. ASSUME NEW p \in Run, Resolve(p) \/ RecordAutoRead(p) \/ RecordAutoWrite(p) \/ Diff(p)
                              \/ Write(p) \/ AllSaved(p)
        PROVE  history' = history
    BY <2>2 DEF Resolve, RecordAutoRead, RecordAutoWrite, Diff, Write, AllSaved
  <2>3. ASSUME NEW p \in Run, MarkScreened(p) \/ SaveFinding(p) \/ Die(p)
        PROVE  history' = history
    BY <2>3 DEF MarkScreened, SaveFinding, Die
  <2>4. ASSUME NEW p \in Run, NEW k \in Holder, NextContractor(p, k) \/ Candidate(p, k)
        PROVE  history' = history
    BY <2>4 DEF NextContractor, Candidate
  <2>5. ASSUME NEW k \in Holder, NEW s \in {"auto", "confirmed", "rejected"},
               NEW c \in Cik \cup {Blank}, Decide(k, s, c)
        PROVE  history' = history
    BY <2>5 DEF Decide
  <2> QED
    BY <1>2, <2>1, <2>2, <2>3, <2>4, <2>5 DEF Next, vars
<1>3. history' = history => \A a \in Award : Holders(a)' = Holders(a) /\ Seats(a)' = Seats(a)
  BY DEF Holders, Seats
<1> QED
  BY <1>1, <1>2, <1>3

LEMMA RecalledStays ==
    ASSUME IInv, [Next]_vars
    PROVE  /\ \A a \in Award : \A c \in Facts : Recalled(a, c) => Recalled(a, c)'
           /\ \A m \in Move : RealMove(m) => RealMove(m)'
<1>1. ASSUME NEW a \in Award, NEW c \in Facts, Recalled(a, c) PROVE Recalled(a, c)'
  BY <1>1, RecordGrows DEF Recalled
<1>2. ASSUME NEW m \in Move, RealMove(m) PROVE RealMove(m)'
  <2>1. m.award \in Award
    BY DEF Move
  <2> QED
    BY <1>2, <2>1, RecordGrows DEF RealMove
<1> QED
  BY <1>1, <1>2

LEMMA RecallsStays ==
    ASSUME IInv, [Next]_vars, NEW w \in Worker, Recalls(w)
    PROVE  Recalls(w)'
<1>1. \A a \in Award : w.held[a] # None => Recalled(a, w.held[a])'
  <2>1. \A a \in Award : w.held[a] \in Facts \cup {None}
    BY DEF Worker
  <2> QED
    BY <2>1, RecalledStays DEF Recalls
<1>2. \A m \in w.changes \cup w.finding : RealMove(m)'
  <2>1. w.changes \cup w.finding \subseteq Move
    BY DEF Worker
  <2> QED
    BY <2>1, RecalledStays DEF Recalls
<1> QED
  BY <1>1, <1>2 DEF Recalls

(* One worker goes on with what the record said. *)
LEMMA OneRecalls ==
    ASSUME IInv, IInv', FromRecord, [Next]_vars, NEW p \in Run,
           \A q \in Run \ {p} : proc'[q] = proc[q], Recalls(proc'[p]),
           \A a \in Award : row'[a] = row[a] \/ Recalled(a, row'[a])
    PROVE  FromRecord'
<1>1. ASSUME NEW q \in Run PROVE Recalls(proc[q])'
  <2>1. proc'[q] \in Worker /\ Recalls(proc'[q])
    BY DEF IInv, TypeOK, FromRecord
  <2>2. PICK w : w = proc'[q]
    OBVIOUS
  <2>3. Recalls(w)'
    BY <2>1, <2>2, RecallsStays
  <2> QED
    BY <2>2, <2>3 DEF Recalls
<1>2. ASSUME NEW a \in Award, row'[a] # None PROVE Recalled(a, row[a])'
  <2>1. row'[a] \in Facts /\ Recalled(a, row'[a])
    BY <1>2 DEF IInv, TypeOK, FromRecord
  <2>2. PICK c : c = row'[a]
    OBVIOUS
  <2>3. Recalled(a, c)'
    BY <2>1, <2>2, RecalledStays
  <2> QED
    BY <2>2, <2>3 DEF Recalled
<1> QED
  BY <1>1, <1>2 DEF FromRecord

\* What holds no more than before recalls no more.
LEMMA LessRecalls ==
    ASSUME NEW w, NEW f, Recalls(w), \A a \in Award : f.held[a] \in {None, w.held[a]},
           f.changes \subseteq w.changes, f.finding \subseteq w.finding
    PROVE  Recalls(f)
BY DEF Recalls

LEMMA LatestIsOnRecord ==
    ASSUME IInv, NEW a \in Award
    PROVE  /\ Latest(a) \in Action /\ Latest(a).holder \in Holders(a) /\ Latest(a).seat \in Seats(a)
<1>1. history[a] \in Seq(Action) /\ Len(history[a]) \in 1..Months
  BY DEF IInv, TypeOK
<1>2. Len(history[a]) \in 1..Len(history[a])
  BY <1>1
<1> QED
  BY <1>2, LatestIsAction DEF Latest, Holders, Seats

LEMMA MovedIsReal ==
    ASSUME NEW a \in Award, NEW old \in Facts, NEW new \in Facts, Recalled(a, old), Recalled(a, new)
    PROVE  \A m \in Moved(a, old, new) : RealMove(m)
<1>1. ASSUME NEW m \in Moved(a, old, new) PROVE RealMove(m)
  <2>1. m.new # Blank /\ m.new # m.old
    BY DEF Moved
  <2>2. CASE m = [award |-> a, field |-> "key", old |-> old.key, new |-> new.key]
    BY <2>2 DEF RealMove, Recalled
  <2>3. CASE m = [award |-> a, field |-> "country", old |-> old.country, new |-> new.country]
    BY <2>1, <2>3 DEF RealMove, Recalled
  <2>4. CASE m = [award |-> a, field |-> "foreign", old |-> old.foreign, new |-> new.foreign]
    <3>1. old.foreign \in BOOLEAN /\ new.foreign \in BOOLEAN /\ old.foreign # new.foreign
      BY <2>1, <2>4 DEF Facts
    <3>2. old.foreign \/ new.foreign
      BY <3>1
    <3>3. m.field = "foreign" /\ m.award = a
      BY <2>4
    <3> QED
      BY <3>2, <3>3 DEF RealMove, Recalled
  <2> QED
    BY <2>2, <2>3, <2>4 DEF Moved
<1> QED
  BY <1>1

LEMMA TellsOneNovation ==
    ASSUME NEW changes, NEW told \in Tells(changes)
    PROVE  /\ told \subseteq changes
           /\ \A m, n \in told : m.field = "key" /\ n.field = "key" => n = m
BY DEF Tells

LEMMA SetTo ==
    ASSUME IInv, NEW p \in Run, NEW f, Set(p, f)
    PROVE  proc'[p] = f /\ \A q \in Run \ {p} : proc'[q] = proc[q]
BY DEF IInv, TypeOK, Set

\* These steps hold no more than before.
LEMMA QuietRecalls ==
    ASSUME IInv, NEW p \in Run,
           \/ Finish(p) \/ StartScope(p) \/ EndScope(p) \/ Die(p)
           \/ Resolve(p) \/ RecordAutoRead(p) \/ RecordAutoWrite(p)
           \/ ReadEnough(p) \/ SaveScopeIndex(p) \/ MarkScreened(p) \/ SaveFinding(p)
           \/ Write(p) \/ \E k \in Holder : Candidate(p, k)
    PROVE  /\ \A q \in Run \ {p} : proc'[q] = proc[q]
           /\ \A a \in Award : proc'[p].held[a] \in {None, proc[p].held[a]}
           /\ proc'[p].changes \subseteq proc[p].changes
           /\ proc'[p].finding \subseteq proc[p].finding
<1> DEFINE w == proc[p]
<1>0. w \in Worker /\ proc \in [Run -> Worker]
  BY DEF IInv, TypeOK
<1>1. CASE Finish(p) \/ StartScope(p) \/ EndScope(p) \/ Die(p)
  <2>1. PICK f \in {Idle, [Idle EXCEPT !.pc = "month", !.month = Months]} : Set(p, f)
    BY <1>1 DEF Finish, StartScope, EndScope, Die
  <2>2. (\A a \in Award : f.held[a] = None) /\ f.changes = {} /\ f.finding = {}
    <3>1. CASE f = Idle
      BY <3>1 DEF Idle
    <3>2. CASE f = [Idle EXCEPT !.pc = "month", !.month = Months]
      BY <3>2 DEF Idle
    <3> QED
      BY <2>1, <3>1, <3>2
  <2> QED
    BY <2>1, <2>2, SetTo
<1>2. CASE \/ Resolve(p) \/ RecordAutoRead(p) \/ RecordAutoWrite(p) \/ ReadEnough(p)
           \/ SaveScopeIndex(p) \/ MarkScreened(p) \/ \E k \in Holder : Candidate(p, k)
  <2>1. /\ proc'[p].held = w.held
        /\ proc'[p].changes = w.changes /\ proc'[p].finding = w.finding
        /\ \A q \in Run \ {p} : proc'[q] = proc[q]
    <3>1. CASE Resolve(p)
      <4>1. CASE Decided(w.key)
        BY <1>0, <3>1, <4>1 DEF Resolve, Worker, Set
      <4>2. CASE ~Decided(w.key)
        <5>1. PICK c : Set(p, [w EXCEPT !.pc = "record", !.cik = c])
          BY <3>1, <4>2 DEF Resolve
        <5> QED
          BY <1>0, <5>1 DEF Worker, Set
      <4> QED
        BY <4>1, <4>2
    <3>2. CASE RecordAutoRead(p)
      BY <1>0, <3>2 DEF RecordAutoRead, Worker, Set
    <3>3. CASE RecordAutoWrite(p)
      BY <1>0, <3>3 DEF RecordAutoWrite, Worker, Set
    <3>4. CASE ReadEnough(p)
      BY <1>0, <3>4 DEF ReadEnough, Worker, Set
    <3>5. CASE SaveScopeIndex(p)
      BY <1>0, <3>5 DEF SaveScopeIndex, Below, Worker, Set
    <3>6. CASE MarkScreened(p)
      BY <1>0, <3>6 DEF MarkScreened, Worker, Set
    <3>7. CASE \E k \in Holder : Candidate(p, k)
      <4>1. PICK keys, pc, key : Set(p, [w EXCEPT !.keys = keys, !.pc = pc, !.key = key])
        BY <3>7 DEF Candidate
      <4> QED
        BY <1>0, <4>1 DEF Worker, Set
    <3> QED
      BY <1>2, <3>1, <3>2, <3>3, <3>4, <3>5, <3>6, <3>7
  <2> QED
    BY <2>1
<1>3. CASE SaveFinding(p)
  <2>1. Set(p, AfterScreen(p))
    BY <1>3 DEF SaveFinding
  <2>2. /\ AfterScreen(p).held = w.held
        /\ AfterScreen(p).changes = w.changes
        /\ AfterScreen(p).finding = {}
    BY <1>0 DEF AfterScreen, Worker
  <2> QED
    BY <2>1, <2>2, SetTo
<1>4. CASE Write(p)
  <2> DEFINE f == [w EXCEPT !.pc = "save", !.saw = None, !.todo = @ \ {Saving(p)},
                            !.held[Saving(p)] = None]
  <2>1. Set(p, f)
    BY <1>4 DEF Write
  <2>2. /\ \A a \in Award : f.held[a] \in {None, w.held[a]}
        /\ f.changes = w.changes /\ f.finding = w.finding
    BY <1>0 DEF Worker
  <2> HIDE DEF f
  <2> QED
    BY <2>1, <2>2, SetTo
<1> QED
  BY <1>1, <1>2, <1>3, <1>4

LEMMA SearchRecalls ==
    ASSUME IInv, NEW p \in Run, Search(p)
    PROVE  Recalls(proc'[p]) /\ \A q \in Run \ {p} : proc'[q] = proc[q]
<1>1. /\ proc'[p].changes = {} /\ proc'[p].finding = {}
      /\ \A a \in Award : proc'[p].held[a] \in {None, Listed(Latest(a))}
      /\ \A q \in Run \ {p} : proc'[q] = proc[q]
  BY DEF Search, Idle, Set, IInv, TypeOK
<1>2. \A a \in Award : Recalled(a, Listed(Latest(a)))
  BY LatestIsOnRecord DEF Recalled, Listed
<1> QED
  BY <1>1, <1>2 DEF Recalls

LEMMA NextContractorRecalls ==
    ASSUME IInv, FromRecord, NEW p \in Run, NEW k \in Holder, NextContractor(p, k)
    PROVE  Recalls(proc'[p]) /\ \A q \in Run \ {p} : proc'[q] = proc[q]
<1> DEFINE w == proc[p]
           detailed == Largest(Held(p, k), Enriched) \ Subaward
<1>0. w \in Worker /\ Recalls(w)
  BY DEF IInv, TypeOK, FromRecord
<1>1. detailed \subseteq Award /\ \A a \in detailed : w.held[a] # None
  <2>1. Held(p, k) \in SUBSET Award
    BY DEF Held
  <2>2. Largest(Held(p, k), Enriched) \subseteq Held(p, k)
    BY <2>1, LargestIsPart
  <2> QED
    BY <2>1, <2>2 DEF Held
<1> HIDE DEF detailed
<1> DEFINE with(u, v) == [a \in Award |-> IF a \in detailed
                                           THEN Detailed(w.held[a], Latest(a), a \in u, a \in v)
                                           ELSE w.held[a]]
<1>2. PICK u \in SUBSET detailed, v \in SUBSET detailed :
        LET person == \E a \in Held(p, k) \ Subaward : with(u, v)[a].sole = "yes"
        IN  Set(p, [w EXCEPT
              !.keys = @ \ {k},
              !.held = IF person THEN [a \in Award |-> IF a \in Held(p, k)
                                          THEN None ELSE with(u, v)[a]] ELSE with(u, v),
              !.pc   = IF person THEN "next" ELSE "identity",
              !.key  = IF person THEN None ELSE k,
              !.todo = IF person THEN {} ELSE Held(p, k)])
  BY DEF NextContractor, detailed
<1> DEFINE f == proc'[p]
<1>6. /\ f.changes = w.changes /\ f.finding = w.finding
      /\ \A a \in Award : f.held[a] \in {None, with(u, v)[a]}
      /\ \A q \in Run \ {p} : proc'[q] = proc[q]
  <2> HIDE DEF with
  <2>1. PICK h : h = with(u, v)
    OBVIOUS
  <2> QED
    BY <1>0, <1>2 DEF Set, Worker, IInv, TypeOK
<1>3. ASSUME NEW a \in detailed
      PROVE  Recalled(a, Detailed(w.held[a], Latest(a), a \in u, a \in v))
  <2>1. /\ a \in Award /\ w.held[a] \in Facts /\ Recalled(a, w.held[a])
        /\ Latest(a) \in Action /\ Latest(a).seat \in Seats(a)
    BY <1>0, <1>1, LatestIsOnRecord DEF Worker, Recalls
  <2>2. PICK c \in Facts : c = w.held[a]
    BY <2>1
  <2>3. PICK d : d = Detailed(c, Latest(a), a \in u, a \in v)
    OBVIOUS
  <2>4. /\ d.key = c.key
        /\ d.country \in {c.country, Latest(a).seat}
        /\ d.foreign => c.foreign \/ Latest(a).seat \in ForeignSeat
    BY <2>3 DEF Detailed, Facts
  <2>5. Recalled(a, d)
    BY <2>1, <2>2, <2>4 DEF Recalled
  <2> QED
    BY <2>2, <2>3, <2>5
<1>4. \A a \in Award : f.held[a] # None => Recalled(a, f.held[a])
  BY <1>0, <1>3, <1>6 DEF Recalls
<1>5. Recalls(f)
  BY <1>0, <1>6, <1>4 DEF Recalls
<1> QED
  BY <1>6, <1>5

LEMMA ReadMonthRecalls ==
    ASSUME IInv, FromRecord, NEW p \in Run, ReadMonth(p)
    PROVE  Recalls(proc'[p]) /\ \A q \in Run \ {p} : proc'[q] = proc[q]
<1> DEFINE w == proc[p]
           m == w.month
           page == [a \in Award |-> IF a \in Signed(m) THEN FromEntry(history[a][m]) ELSE None]
<1>0. w \in Worker /\ Recalls(w) /\ m \in 1..Months
  BY AwardsAssumption DEF IInv, TypeOK, FromRecord, ReadMonth, Worker
<1> DEFINE f == proc'[p]
<1>1. /\ f.changes = w.changes /\ f.finding = w.finding
      /\ f.held = w.held \/ f.held = page
      /\ \A q \in Run \ {p} : proc'[q] = proc[q]
  <2>1. PICK g \in {Below(p), [w EXCEPT !.pc = "save", !.todo = Signed(m), !.held = page]} : Set(p, g)
    BY DEF ReadMonth
  <2>2. /\ g.changes = w.changes /\ g.finding = w.finding
        /\ g.held = w.held \/ g.held = page
    <3> HIDE DEF page
    <3> QED
      BY <1>0, <2>1 DEF Below, Worker
  <2> QED
    BY <2>1, <2>2, SetTo
<1>2. ASSUME NEW a \in Signed(m)
      PROVE  Recalled(a, FromEntry(history[a][m]))
  <2>1. a \in Award /\ history[a] \in Seq(Action) /\ Len(history[a]) >= m
    BY DEF Signed, IInv, TypeOK
  <2>2. m \in 1..Len(history[a])
    BY <1>0, <2>1
  <2>3. history[a][m].holder \in Holders(a) /\ history[a][m].seat \in Seats(a)
    BY <2>2 DEF Holders, Seats
  <2> QED
    BY <2>3 DEF Recalled, FromEntry
<1>3. \A a \in Award : page[a] # None => Recalled(a, page[a])
  BY <1>2
<1> HIDE DEF page
<1>4. Recalls(f)
  BY <1>0, <1>1, <1>3 DEF Recalls
<1> QED
  BY <1>1, <1>4

LEMMA DiffRecalls ==
    ASSUME IInv, FromRecord, NEW p \in Run, Diff(p)
    PROVE  Recalls(proc'[p]) /\ \A q \in Run \ {p} : proc'[q] = proc[q]
<1> DEFINE w == proc[p]
           a == Saving(p)
           moved == IF row[a] = None THEN {} ELSE Moved(a, row[a], w.held[a])
<1>0. w \in Worker /\ Recalls(w) /\ w.todo # {}
  BY DEF IInv, TypeOK, FromRecord, Diff
<1>1. /\ a \in Award /\ w.held[a] \in Facts /\ row[a] \in Facts \cup {None}
      /\ Recalled(a, w.held[a]) /\ (row[a] # None => Recalled(a, row[a]))
  <2>1. a \in Award /\ w.held[a] \in Facts
    BY <1>0, SavingIsHeld
  <2>2. None \notin Facts
    BY AwardsAssumption
  <2> QED
    BY <1>0, <2>1, <2>2 DEF IInv, TypeOK, FromRecord, Recalls
<1> HIDE DEF a
<1>2. \A m \in moved : RealMove(m)
  BY <1>1, MovedIsReal
<1> DEFINE f == proc'[p]
<1>3. /\ f.held = w.held /\ f.finding = w.finding
      /\ f.changes \subseteq w.changes \cup moved
      /\ \A q \in Run \ {p} : proc'[q] = proc[q]
  BY <1>0 DEF Diff, Worker, a, Set, IInv, TypeOK
<1> HIDE DEF moved
<1>4. Recalls(f)
  BY <1>0, <1>2, <1>3 DEF Recalls
<1> QED
  BY <1>3, <1>4

LEMMA AllSavedRecalls ==
    ASSUME IInv, FromRecord, NEW p \in Run, AllSaved(p)
    PROVE  Recalls(proc'[p]) /\ \A q \in Run \ {p} : proc'[q] = proc[q]
<1> DEFINE w == proc[p]
<1>0. w \in Worker /\ Recalls(w)
  BY DEF IInv, TypeOK, FromRecord
<1>1. CASE p \in AgencyRun
  <2>1. PICK told \in Tells(w.changes) :
            Set(p, [w EXCEPT !.pc = "mark", !.finding = told, !.changes = {}])
    BY <1>1 DEF AllSaved
  <2>2. proc'[p].held = w.held /\ proc'[p].finding = told /\ proc'[p].changes = {}
    BY <1>0, <2>1 DEF Worker, Set, IInv, TypeOK
  <2>3. Recalls(proc'[p])
    BY <1>0, <2>2, TellsOneNovation DEF Recalls
  <2> QED
    BY <2>1, <2>3, SetTo
<1>2. CASE p \notin AgencyRun
  <2>1. /\ Set(p, [w EXCEPT !.pc = "page"])
        /\ proc'[p].held = w.held /\ proc'[p].finding = w.finding
        /\ proc'[p].changes = w.changes
    BY <1>0, <1>2 DEF AllSaved, Worker, Set, IInv, TypeOK
  <2>2. Recalls(proc'[p])
    BY <1>0, <2>1 DEF Recalls
  <2> QED
    BY <2>1, <2>2, SetTo
<1> QED
  BY <1>1, <1>2

\* What is written is what was held, with what was stored where that was blank.
LEMMA WriteRecalls ==
    ASSUME IInv, FromRecord, NEW p \in Run, Write(p)
    PROVE  \A a \in Award : row'[a] = row[a] \/ Recalled(a, row'[a])
<1> DEFINE w == proc[p]
           a == Saving(p)
<1>0. w \in Worker /\ Recalls(w) /\ w.todo # {}
  BY DEF IInv, TypeOK, FromRecord, Write, At, Fit
<1>1. a \in Award /\ w.held[a] \in Facts /\ row[a] \in Facts \cup {None}
  BY <1>0, SavingIsHeld DEF IInv, TypeOK
<1>2. Recalled(a, w.held[a]) /\ (row[a] # None => Recalled(a, row[a]))
  BY <1>0, <1>1, AwardsAssumption DEF FromRecord, Recalls
<1>3. row' = [row EXCEPT ![a] = Overwritten(row[a], w.held[a])] /\ row \in [Award -> Facts \cup {None}]
  BY DEF Write, IInv, TypeOK
<1> HIDE DEF a
<1>4. PICK c : c = Overwritten(row[a], w.held[a])
  OBVIOUS
<1>5. /\ c.key = w.held[a].key
      /\ c.country = w.held[a].country \/ (row[a] # None /\ c.country = row[a].country)
      /\ c.foreign = w.held[a].foreign
  BY <1>1, <1>4 DEF Overwritten, Facts
<1>6. Recalled(a, c)
  BY <1>2, <1>5 DEF Recalled
<1> QED
  BY <1>1, <1>3, <1>4, <1>6

LEMMA FromRecordKept == ASSUME IInv, IInv', FromRecord, [Next]_vars PROVE FromRecord'
<1>1. ASSUME NEW p \in Run,
             \/ Finish(p) \/ StartScope(p) \/ EndScope(p) \/ Die(p)
             \/ Resolve(p) \/ RecordAutoRead(p) \/ RecordAutoWrite(p)
             \/ ReadEnough(p) \/ SaveScopeIndex(p) \/ MarkScreened(p) \/ SaveFinding(p)
             \/ Write(p) \/ \E k \in Holder : Candidate(p, k)
      PROVE  FromRecord'
  <2>1. Recalls(proc[p])
    BY DEF FromRecord
  <2>2. Recalls(proc'[p]) /\ \A q \in Run \ {p} : proc'[q] = proc[q]
    BY <1>1, <2>1, QuietRecalls, LessRecalls
  <2>3. \A a \in Award : row'[a] = row[a] \/ Recalled(a, row'[a])
    BY <1>1, WriteRecalls DEF Finish, StartScope, EndScope, Die, Resolve, RecordAutoRead,
       RecordAutoWrite, ReadEnough, SaveScopeIndex, MarkScreened, SaveFinding, Candidate, tables
  <2> QED
    BY <2>2, <2>3, OneRecalls
<1>2. ASSUME NEW p \in Run,
             \/ Search(p) \/ ReadMonth(p) \/ Diff(p) \/ AllSaved(p)
             \/ \E k \in Holder : NextContractor(p, k)
      PROVE  FromRecord'
  <2>1. Recalls(proc'[p]) /\ \A q \in Run \ {p} : proc'[q] = proc[q]
    BY <1>2, SearchRecalls, ReadMonthRecalls, DiffRecalls, AllSavedRecalls, NextContractorRecalls
  <2>2. row' = row
    BY <1>2 DEF Search, ReadMonth, Diff, AllSaved, NextContractor, tables
  <2> QED
    BY <2>1, <2>2, OneRecalls
<1>3. ASSUME UNCHANGED <<proc, row>> PROVE FromRecord'
  <2>1. \A p \in Run : Recalls(proc[p])'
    <3>1. ASSUME NEW p \in Run PROVE Recalls(proc[p])'
      <4>1. PICK w \in Worker : w = proc[p]
        BY DEF IInv, TypeOK
      <4>2. Recalls(w)'
        BY <4>1, RecallsStays DEF FromRecord
      <4> QED
        BY <1>3, <4>1, <4>2 DEF Recalls
    <3> QED
      BY <3>1
  <2>2. ASSUME NEW a \in Award, row[a] # None PROVE Recalled(a, row[a])'
    <3>1. PICK c \in Facts : c = row[a]
      BY <2>2 DEF IInv, TypeOK
    <3>2. Recalled(a, c)'
      BY <2>2, <3>1, RecalledStays DEF FromRecord
    <3> QED
      BY <1>3, <3>1, <3>2 DEF Recalled
  <2> QED
    BY <1>3, <2>1, <2>2 DEF FromRecord
<1>4. \A a \in Award : Modify(a) => UNCHANGED <<proc, row>>
  BY DEF Modify, tables
<1>5. \A k \in Holder, s \in {"auto", "confirmed", "rejected"}, c \in Cik \cup {Blank} :
          Decide(k, s, c) => UNCHANGED <<proc, row>>
  BY DEF Decide
<1>6. UNCHANGED vars => UNCHANGED <<proc, row>>
  BY DEF vars
<1> QED
  BY <1>1, <1>2, <1>3, <1>4, <1>5, <1>6 DEF Next

(* A finding tells of moves between values the award's record has had, and *)
(* of one novation, however many runs read and write the awards, whatever  *)
(* USAspending and FPDS leave unanswered and whoever dies.                 *)
THEOREM RealMovesAreTold == Spec => []TellsRealMoves
<1>1. Init => FromRecord
  BY DEF Init, Idle, FromRecord, Recalls
<1>2. IInv /\ FromRecord /\ [Next]_vars => FromRecord'
  BY IInvKept, FromRecordKept
<1>3. FromRecord => TellsRealMoves
  BY DEF FromRecord, Recalls, RealMove, TellsRealMoves
<1> QED
  BY <1>1, <1>2, <1>3, Inductive, PTL DEF Spec
=============================================================================
