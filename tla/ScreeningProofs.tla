-------------------------- MODULE ScreeningProofs ---------------------------
(***************************************************************************)
(* What is proved of Screening and of the policy it works under, for any   *)
(* number of workspaces, screens, documents and pieces of evidence, and    *)
(* for whatever is sent as settings: the screens first, then the settings  *)
(* page, what a watchlist takes from its workspace and what is always      *)
(* told; then what scores make of a finding, the runs in which screens are *)
(* carried out, and last how one contractor's website is read in a screen. *)
(***************************************************************************)
EXTENDS Screening, Scoring, RunLifecycle, Website, FiniteSetTheorems, TLAPS

(* Whatever is stored, what a screen works under is a policy that does not *)
(* contradict itself: every reading of the settings ends in from_dict.     *)
LEMMA FromDictIsPolicy == \A raw : FromDict(raw) \in Policies /\ Consistent(FromDict(raw))
<1> TAKE raw
<1>1. Default.notice_min_severity \in NOTICE_SEVERITIES /\ Default.notice_mode \in NOTICE_MODES
  BY DEF Default, NOTICE_SEVERITIES, NOTICE_MODES
<1>2. /\ OneOf(raw, "notice_min_severity", NOTICE_SEVERITIES) \in NOTICE_SEVERITIES
      /\ OneOf(raw, "notice_mode", NOTICE_MODES) \in NOTICE_MODES
  BY <1>1 DEF OneOf, Default
<1> QED
  BY <1>2 DEF FromDict, Policies, Consistent, Producible

LEMMA MergeIsPolicy == \A t, o : Merge(t, o) \in Policies /\ Consistent(Merge(t, o))
<1> TAKE t, o
<1> DEFINE raw == Updated(FromDict(t), o)
<1>1. Merge(t, o) = FromDict(raw)
  BY DEF Merge
<1> QED
  BY <1>1, FromDictIsPolicy

LEMMA PolicyIsPolicy ==
    \A t, listed : PolicyFor(t, listed) \in Policies /\ Consistent(PolicyFor(t, listed))
  BY MergeIsPolicy, Zenon DEF PolicyFor

(* The settings of a screen are consistent in whatever order they were     *)
(* saved and cleared.                                                      *)
THEOREM SettingsAgree == Spec => []EffectiveIsConsistent
<1>1. EffectiveIsConsistent
  BY PolicyIsPolicy DEF EffectiveIsConsistent
<1> QED
  BY <1>1, PTL DEF Spec

----------------------------------------------------------------------------
(* Signals and what is made of them.                                       *)

\* A signal is what the rules say of its evidence, news with its score.
Genuine(s) ==
    /\ s.category = About[s.id].category
    /\ s.event = About[s.id].event
    /\ s.new => s.severity = About[s.id].fresh

LEMMA SignalIsGenuine ==
    \A e \in Evidence, isNew \in BOOLEAN :
        SignalOf(e, isNew) \in Signals /\ Genuine(SignalOf(e, isNew))
  BY EvidenceAssumption DEF SignalOf, Signals, Genuine

LEMMA FiredIsGenuine ==
    ASSUME NEW d \in Docs, NEW seen \in Revisions, NEW now \in SUBSET Evidence
    PROVE  /\ Fired(d, seen, now) \in SUBSET Signals
           /\ \A s \in Fired(d, seen, now) : Genuine(s)
<1>1. Added(seen, now) \in SUBSET Evidence /\ Headlines(d) \in SUBSET Evidence
  BY DEF Added, Headlines
<1> QED
  BY <1>1, SignalIsGenuine DEF Fired

\* Damping takes news away, except from what is critical.
LEMMA DampedIsGenuine ==
    ASSUME NEW signals \in SUBSET Signals, \A s \in signals : Genuine(s),
           NEW seenBefore \in BOOLEAN
    PROVE  /\ Damped(signals, seenBefore) \in SUBSET Signals
           /\ \A s \in Damped(signals, seenBefore) :
                 /\ Genuine(s)
                 /\ ~seenBefore /\ s.new => About[s.id].fresh = "critical"
                 /\ \E r \in signals : r.id = s.id /\ r.category = s.category
<1>1. CASE seenBefore
  BY <1>1 DEF Damped
<1>2. CASE ~seenBefore
  <2> SUFFICES ASSUME NEW s \in Damped(signals, seenBefore)
               PROVE  /\ s \in Signals
                      /\ Genuine(s)
                      /\ s.new => About[s.id].fresh = "critical"
                      /\ \E r \in signals : r.id = s.id /\ r.category = s.category
    BY <1>2
  <2>1. PICK r \in signals : s = IF r.severity = "critical" THEN r ELSE [r EXCEPT !.new = FALSE]
    BY <1>2 DEF Damped
  <2>2. r \in Signals /\ Genuine(r)
    OBVIOUS
  <2>3. CASE r.severity = "critical"
    BY <2>1, <2>2, <2>3 DEF Genuine, Signals
  <2>4. CASE r.severity # "critical"
    BY <2>1, <2>2, <2>4 DEF Genuine, Signals
  <2> QED
    BY <2>3, <2>4
<1> QED
  BY <1>1, <1>2

LEMMA RankIsPlace ==
    \A severity \in SEVERITIES : Rank(severity) \in 1..5
<1> SUFFICES ASSUME NEW severity \in SEVERITIES
             PROVE  \E i \in 1..5 : SEVERITY_ORDER[i] = severity
  BY DEF Rank
<1>1. /\ SEVERITY_ORDER[1] = "info" /\ SEVERITY_ORDER[2] = "low"
      /\ SEVERITY_ORDER[3] = "medium" /\ SEVERITY_ORDER[4] = "high"
      /\ SEVERITY_ORDER[5] = "critical"
  BY DEF SEVERITY_ORDER
<1> QED
  BY <1>1 DEF SEVERITIES

LEMMA HighestPlace ==
    ASSUME NEW R \in SUBSET (1..5), R # {}
    PROVE  \E r \in R : \A q \in R : q <= r
<1>1. CASE 5 \in R
  BY <1>1
<1>2. CASE 5 \notin R /\ 4 \in R
  BY <1>2
<1>3. CASE 5 \notin R /\ 4 \notin R /\ 3 \in R
  BY <1>3
<1>4. CASE 5 \notin R /\ 4 \notin R /\ 3 \notin R /\ 2 \in R
  BY <1>4
<1>5. CASE 5 \notin R /\ 4 \notin R /\ 3 \notin R /\ 2 \notin R
  <2>1. \A r \in R : r = 1
    BY <1>5
  <2>2. PICK r \in R : r = 1
    BY <2>1
  <2>3. \A q \in R : q <= r
    BY <2>1, <2>2
  <2> QED
    BY <2>3
<1> QED
  BY <1>1, <1>2, <1>3, <1>4, <1>5

LEMMA SeveritiesType ==
    ASSUME NEW signals \in SUBSET Signals
    PROVE  Severities(signals) \in SUBSET SEVERITIES
<1> DEFINE R == {Rank(s.severity) : s \in signals}
<1> DEFINE top == CHOOSE r \in R : \A s \in signals : Rank(s.severity) <= r
<1> DEFINE corroborated == Cardinality({s \in signals : Rank(s.severity) = top}) >= 2
<1>1. CASE signals = {}
  BY <1>1 DEF Severities, SEVERITIES
<1>2. CASE signals # {}
  <2>1. R \in SUBSET (1..5) /\ R # {}
    BY <1>2, RankIsPlace DEF Signals
  <2>2. \E r \in R : \A s \in signals : Rank(s.severity) <= r
    <3>1. PICK r \in R : \A q \in R : q <= r
      BY <2>1, HighestPlace
    <3> QED
      BY <3>1
  <2>3. top \in 1..5
    <3>1. top \in R
      BY <2>2
    <3> QED
      BY <3>1, <2>1
  <2>4. \A r \in 1..5 : SEVERITY_ORDER[r] \in SEVERITIES
    BY DEF SEVERITY_ORDER, SEVERITIES
  <2>5. Severities(signals) = {SEVERITY_ORDER[r] :
                                 r \in {top} \cup (IF corroborated /\ top < 5
                                                   THEN {top + 1} ELSE {})}
    BY <1>2, Zenon DEF Severities
  <2> HIDE DEF top, corroborated
  <2>6. {top} \cup (IF corroborated /\ top < 5 THEN {top + 1} ELSE {}) \subseteq 1..5
    BY <2>3
  <2> QED
    BY <2>4, <2>5, <2>6
<1> QED
  BY <1>1, <1>2

\* What tips a finding is in it, is not covered, and is wanted.
LEMMA DecideNoticeTips ==
    ASSUME NEW severity, NEW signals, NEW policy, NEW notified
    PROVE  \A e \in DecideNotice(severity, signals, policy, notified) :
              /\ e \in Ids(signals) /\ e \notin notified
              /\ \E s \in signals :
                    /\ s.id = e
                    /\ \/ Eligible(s, policy)
                       \/ /\ s.category \in policy.notice_categories
                          /\ policy.notice_mode = "changes_only" => s.new
  BY Zenon DEF DecideNotice, Ids

----------------------------------------------------------------------------
(* Type correctness.                                                       *)

(* A row is held only of a document that is still to be evaluated, and     *)
(* what has fired is what the rules say of its evidence.                   *)
ReadingStands(w) ==
    run[w].at = "observing" =>
        /\ \A row \in run[w].row : row.doc \in DOMAIN run[w].got
        /\ \A s \in run[w].fired : Genuine(s)

\* Which record a screen is, by where it stands.
LEMMA RunIsRecord ==
    ASSUME TypeOK, NEW w \in Screens
    PROVE  /\ HomeOf[w] \in Workspaces
           /\ run[w].at = "observing" => run[w] \in Observing
           /\ run[w].at = "screened" => run[w] \in Screened
           /\ run[w].at = "decided" => run[w] \in Decided
  BY HomeAssumption DEF TypeOK, Idle, Observing, Screened, Decided

LEMMA TypesAtInit == Init => TypeOK
  BY DEF Init, TypeOK, AtMostOne, Revisions

LEMMA SettingTypes ==
    ASSUME TypeOK, NEW t \in Workspaces, Setting(t)
    PROVE  TypeOK'
<1>1. ASSUME NEW body \in Bodies, SetPolicy(t, body)
      PROVE  TypeOK'
  BY <1>1, FromDictIsPolicy DEF TypeOK, SetPolicy, AtMostOne
<1>2. CASE ResetPolicy(t)
  BY <1>2 DEF TypeOK, ResetPolicy, AtMostOne
<1>3. ASSUME NEW body \in Overrides, SetWatchlistPolicy(t, body)
      PROVE  TypeOK'
  <2> DEFINE override == CleanOverride(Stored(tenantRow[t]), body)
  <2>1. listRow' = [listRow EXCEPT ![t] = IF DOMAIN override = {} THEN {} ELSE {override}]
    BY <1>3 DEF SetWatchlistPolicy
  <2>2. UNCHANGED <<text, snapshot, tenantRow, onFile, screened, notices, run>>
    BY <1>3 DEF SetWatchlistPolicy
  <2> HIDE DEF override
  <2> QED
    BY <2>1, <2>2 DEF TypeOK, AtMostOne
<1>4. CASE ClearWatchlistPolicy(t)
  BY <1>4 DEF TypeOK, ClearWatchlistPolicy, AtMostOne
<1> QED
  BY <1>1, <1>2, <1>3, <1>4 DEF Setting

LEMMA WorldTypes ==
    ASSUME TypeOK, World
    PROVE  TypeOK'
<1>1. ASSUME NEW d \in Docs, Publish(d)
      PROVE  TypeOK'
  BY <1>1 DEF TypeOK, Publish, settings, Revisions
<1>2. ASSUME NEW d \in Docs, NEW e \in Evidence, Revise(d, e)
      PROVE  TypeOK'
  <2>1. text[d] \in SUBSET Evidence
    BY <1>2 DEF TypeOK, Revise, Revisions
  <2>2. text' \in [Docs -> Revisions]
    BY <1>2, <2>1 DEF TypeOK, Revise, Revisions
  <2> QED
    BY <1>2, <2>2 DEF TypeOK, Revise, settings
<1> QED
  BY <1>1, <1>2 DEF World

LEMMA GatherTypes ==
    ASSUME TypeOK, NEW w \in Screens, NEW reached \in SUBSET Docs, Gather(w, reached)
    PROVE  TypeOK' /\ run'[w].at = "observing" /\ ReadingStands(w)'
<1> DEFINE policy == PolicyFor(HomeOf[w], w \in ByWatchlist)
<1> DEFINE D == {x \in reached : Wanted(x, policy)}
<1>1. policy \in Policies
  BY PolicyIsPolicy
<1>2. run' = [run EXCEPT ![w] = [at |-> "observing", policy |-> policy,
                                 got |-> [d \in D |-> text[d]], row |-> {}, fired |-> {},
                                 again |-> screened[HomeOf[w]]]]
  BY DEF Gather
<1>3. UNCHANGED <<text, snapshot, settings, onFile, screened, notices>>
  BY DEF Gather
<1>4. \A d \in D : text[d] \in SUBSET Evidence
  BY DEF Wanted, TypeOK, Revisions
<1>5. screened[HomeOf[w]] \in BOOLEAN
  BY RunIsRecord DEF TypeOK
<1> HIDE DEF policy
<1>6. [d \in D |-> text[d]] \in [D -> SUBSET Evidence] /\ D \in SUBSET Docs
  BY <1>4
<1> HIDE DEF D
<1>7. [at |-> "observing", policy |-> policy, got |-> [d \in D |-> text[d]], row |-> {},
       fired |-> {}, again |-> screened[HomeOf[w]]] \in Observing
  BY <1>1, <1>5, <1>6 DEF Observing
<1>8. ReadingStands(w)'
  BY <1>2 DEF TypeOK, ReadingStands
<1> QED
  BY <1>2, <1>3, <1>7, <1>8 DEF TypeOK, settings

LEMMA ReadSnapshotTypes ==
    ASSUME TypeOK, NEW w \in Screens, NEW d \in Docs, ReadingStands(w), ReadSnapshot(w, d)
    PROVE  TypeOK' /\ run'[w].at = "observing" /\ ReadingStands(w)'
<1>1. run[w] \in Observing
  BY RunIsRecord DEF ReadSnapshot
<1> DEFINE row == {[doc |-> d, seen |-> snapshot[d]]}
<1>2. row \in SUBSET [doc : Docs, seen : Revisions]
  BY DEF TypeOK
<1>3. run' = [run EXCEPT ![w] = [run[w] EXCEPT !.row = row]]
  BY DEF ReadSnapshot
<1> HIDE DEF row
<1>4. /\ [run[w] EXCEPT !.row = row] \in Observing
      /\ [run[w] EXCEPT !.row = row].fired = run[w].fired
      /\ [run[w] EXCEPT !.row = row].at = "observing"
      /\ [run[w] EXCEPT !.row = row].got = run[w].got
      /\ [run[w] EXCEPT !.row = row].row = row
  BY <1>1, <1>2 DEF Observing
<1> DEFINE after == [run[w] EXCEPT !.row = row]
<1>5. run'[w] = after
  BY <1>3 DEF TypeOK
<1> HIDE DEF after
<1>6. ReadingStands(w)'
  <2>1. /\ run'[w].row = row /\ run'[w].got = run[w].got
        /\ run'[w].fired = run[w].fired
    BY <1>4, <1>5 DEF after
  <2>2. \A r \in row : r.doc \in DOMAIN run[w].got
    BY DEF ReadSnapshot, row
  <2> QED
    BY <2>1, <2>2 DEF ReadingStands, ReadSnapshot, Genuine
<1> QED
  BY <1>3, <1>4, <1>5, <1>6 DEF TypeOK, ReadSnapshot, settings, after

LEMMA ObserveTypes ==
    ASSUME TypeOK, NEW w \in Screens, ReadingStands(w), Observe(w)
    PROVE  /\ TypeOK'
           /\ run'[w].at = "observing" /\ ReadingStands(w)'
<1>1. run[w] \in Observing
  BY RunIsRecord DEF Observe
<1>2. PICK row \in run[w].row :
          /\ snapshot' = IF row.seen = run[w].got[row.doc] THEN snapshot
                         ELSE [snapshot EXCEPT ![row.doc] = run[w].got[row.doc]]
          /\ run' = [run EXCEPT ![w].row = {},
                                ![w].got = [x \in DOMAIN run[w].got \ {row.doc} |-> run[w].got[x]],
                                ![w].fired = @ \cup Fired(row.doc, row.seen,
                                                          run[w].got[row.doc])]
  BY DEF Observe
<1>3. row.doc \in Docs /\ row.seen \in Revisions
  BY <1>1, <1>2 DEF Observing
<1>4. PICK D \in SUBSET Docs : run[w].got \in [D -> SUBSET Evidence]
  BY <1>1 DEF Observing
<1>5. run[w].got[row.doc] \in SUBSET Evidence
  BY <1>4 DEF ReadingStands, Observe
<1> DEFINE new == Fired(row.doc, row.seen, run[w].got[row.doc])
<1> DEFINE rest == DOMAIN run[w].got \ {row.doc}
<1> DEFINE left == [x \in rest |-> run[w].got[x]]
<1>6. new \in SUBSET Signals /\ \A s \in new : Genuine(s)
  BY <1>3, <1>5, FiredIsGenuine
<1>7. rest \in SUBSET Docs /\ left \in [rest -> SUBSET Evidence]
  BY <1>4
<1>8. run' = [run EXCEPT ![w] = [run[w] EXCEPT !.row = {}, !.got = left,
                                               !.fired = run[w].fired \cup new]]
  BY <1>1, <1>2 DEF TypeOK, Observing
<1> HIDE DEF new, left
<1> DEFINE after == [run[w] EXCEPT !.row = {}, !.got = left, !.fired = run[w].fired \cup new]
<1>9. /\ after \in Observing /\ after.at = "observing" /\ after.row = {}
      /\ after.fired = run[w].fired \cup new
  <2>1. left \in UNION {[E -> SUBSET Evidence] : E \in SUBSET Docs}
    BY <1>7
  <2> QED
    BY <1>1, <1>6, <2>1 DEF Observing
<1> HIDE DEF after
<1>10. run'[w] = after /\ run' \in [Screens -> {Idle} \cup Observing \cup Screened \cup Decided]
  BY <1>8, <1>9 DEF TypeOK, after
<1>11. snapshot' \in [Docs -> Revisions]
  BY <1>2, <1>3, <1>5 DEF TypeOK, Revisions
<1>12. UNCHANGED <<text, settings, onFile, screened, notices>>
  BY DEF Observe
<1>13. ReadingStands(w)'
  BY <1>6, <1>9, <1>10 DEF ReadingStands, Observe, Genuine
<1> QED
  BY <1>9, <1>10, <1>11, <1>12, <1>13 DEF TypeOK, settings

(* What a screen made of the contractor: at most one finding, whose        *)
(* signals are of the categories it looked for.                            *)
FindingStands(w) ==
    run[w].at = "screened" =>
        /\ AtMostOne(run[w].finding)
        /\ \A f \in run[w].finding : \A s \in f.signals :
              /\ Genuine(s)
              /\ s.category \in run[w].policy.categories
              /\ ~run[w].seenBefore /\ s.new => About[s.id].fresh = "critical"

LEMMA ConcludeTypes ==
    ASSUME TypeOK, NEW w \in Screens, ReadingStands(w), Conclude(w)
    PROVE  /\ TypeOK'
           /\ run'[w].at = "screened" /\ FindingStands(w)'
<1>1. run[w] \in Observing /\ HomeOf[w] \in Workspaces
  BY RunIsRecord DEF Conclude
<1> DEFINE t == HomeOf[w]
<1> DEFINE policy == run[w].policy
<1> DEFINE seenBefore == onFile[t] # {}
<1> DEFINE wanted == FilterSignals(run[w].fired, policy)
<1> DEFINE signals == Damped(wanted, seenBefore)
<1>2. /\ wanted \in SUBSET Signals
      /\ \A s \in wanted : Genuine(s) /\ s.category \in policy.categories
  BY <1>1 DEF FilterSignals, Observing, ReadingStands, Conclude
<1> HIDE DEF wanted
<1>3. /\ signals \in SUBSET Signals
      /\ \A s \in signals :
            /\ Genuine(s)
            /\ s.category \in policy.categories
            /\ ~seenBefore /\ s.new => About[s.id].fresh = "critical"
  <2>1. seenBefore \in BOOLEAN
    OBVIOUS
  <2> HIDE DEF seenBefore, policy
  <2>2. /\ signals \in SUBSET Signals
        /\ \A s \in signals :
              /\ Genuine(s)
              /\ ~seenBefore /\ s.new => About[s.id].fresh = "critical"
              /\ \E r \in wanted : r.id = s.id /\ r.category = s.category
    BY <1>2, <2>1, DampedIsGenuine
  <2> QED
    BY <1>2, <2>2
<1>4. PICK severity \in Severities(signals) :
          LET kept == Kept(severity, signals, policy)
              finding == IF kept THEN {[severity |-> severity, signals |-> signals]} ELSE {}
          IN  /\ onFile' = IF kept THEN [onFile EXCEPT ![t] = @ \cup Ids(signals)] ELSE onFile
              /\ run' = [run EXCEPT ![w] = [at |-> "screened", policy |-> policy,
                                            fired |-> run[w].fired, again |-> run[w].again,
                                            seenBefore |-> seenBefore, finding |-> finding]]
  BY DEF Conclude, wanted
<1>5. severity \in SEVERITIES
  BY <1>3, <1>4, SeveritiesType
<1>6. Ids(signals) \in SUBSET Evidence
  BY <1>3 DEF Ids, Signals
<1> HIDE DEF signals
<1> DEFINE kept == Kept(severity, signals, policy)
<1> DEFINE finding == IF kept THEN {[severity |-> severity, signals |-> signals]} ELSE {}
<1>7. /\ finding \in SUBSET Findings /\ AtMostOne(finding)
      /\ \A f \in finding : f.signals = signals
  BY <1>3, <1>5 DEF Findings, AtMostOne
<1>8. onFile' \in [Workspaces -> SUBSET Evidence]
  BY <1>1, <1>4, <1>6 DEF TypeOK
<1> DEFINE after == [at |-> "screened", policy |-> policy, fired |-> run[w].fired,
                     again |-> run[w].again, seenBefore |-> seenBefore, finding |-> finding]
<1>9. run' = [run EXCEPT ![w] = after]
  BY <1>4
<1> HIDE DEF finding
<1>10. after \in Screened
  BY <1>1, <1>7 DEF Screened, Observing
<1>11. run' \in [Screens -> {Idle} \cup Observing \cup Screened \cup Decided] /\ run'[w] = after
  BY <1>9, <1>10 DEF TypeOK
<1>12. screened' = [screened EXCEPT ![t] = TRUE] /\ UNCHANGED <<text, snapshot, settings, notices>>
  BY DEF Conclude
<1>13. TypeOK'
  BY <1>1, <1>8, <1>11, <1>12 DEF TypeOK, settings
<1>14. FindingStands(w)'
  <2>1. /\ run'[w].finding = finding /\ run'[w].policy = policy
        /\ run'[w].seenBefore = seenBefore
    BY <1>11
  <2> QED
    BY <1>3, <1>7, <2>1 DEF FindingStands, Genuine
<1> QED
  BY <1>11, <1>13, <1>14

(* The draft made of that finding, if any: what tips it is in it, and is   *)
(* what the settings read for it want told.                                *)
DraftStands(w) ==
    run[w].at = "decided" =>
        /\ AtMostOne(run[w].drafts)
        /\ \A n \in run[w].drafts :
              /\ n.tipped \subseteq n.evidence
              /\ \A e \in n.evidence : About[e].category \in run[w].policy.categories
              /\ \A e \in n.tipped :
                    /\ \/ About[e].category \in run[w].asked.notice_categories
                       \/ About[e].event \in run[w].asked.notice_always
                    /\ ~run[w].seenBefore /\ run[w].asked.notice_mode = "changes_only" =>
                          \/ About[e].fresh = "critical"
                          \/ /\ About[e].event \in run[w].asked.notice_always
                             /\ ~RequiresNew(About[e].event)

LEMMA DecideTypes ==
    ASSUME TypeOK, NEW w \in Screens, FindingStands(w), Decide(w)
    PROVE  /\ TypeOK'
           /\ run'[w].at = "decided" /\ DraftStands(w)'
           /\ \A n \in run'[w].drafts : n.tipped \cap Covered(HomeOf[w]) = {}
<1>1. run[w] \in Screened /\ HomeOf[w] \in Workspaces
  BY RunIsRecord DEF Decide
<1> DEFINE asked == PolicyFor(HomeOf[w], w \in ByWatchlist)
<1> DEFINE tips(f) == DecideNotice(f.severity, f.signals, asked, Covered(HomeOf[w]))
<1> DEFINE draft(f) == [status |-> "pending", evidence |-> Ids(f.signals), tipped |-> tips(f)]
<1> DEFINE drafts == {draft(f) : f \in {g \in run[w].finding : tips(g) # {}}}
<1> DEFINE after == [at |-> "decided", policy |-> run[w].policy, asked |-> asked,
                     fired |-> run[w].fired, again |-> run[w].again,
                     seenBefore |-> run[w].seenBefore, drafts |-> drafts]
<1>2. /\ run' = [run EXCEPT ![w] = after]
      /\ UNCHANGED <<text, snapshot, settings, onFile, screened, notices>>
  BY DEF Decide
<1>3. asked \in Policies
  BY PolicyIsPolicy
<1> HIDE DEF asked
<1>4. ASSUME NEW f \in run[w].finding
      PROVE  /\ draft(f) \in Notices
             /\ draft(f).tipped \subseteq draft(f).evidence
             /\ draft(f).tipped \cap Covered(HomeOf[w]) = {}
             /\ \A e \in draft(f).evidence : About[e].category \in run[w].policy.categories
             /\ \A e \in draft(f).tipped :
                   /\ \/ About[e].category \in asked.notice_categories
                      \/ About[e].event \in asked.notice_always
                   /\ ~run[w].seenBefore /\ asked.notice_mode = "changes_only" =>
                         \/ About[e].fresh = "critical"
                         \/ About[e].event \in asked.notice_always /\ ~RequiresNew(About[e].event)
  <2>1. Ids(f.signals) \in SUBSET Evidence
    <3>1. f \in Findings
      BY <1>1 DEF Screened
    <3>2. f.signals \in SUBSET Signals
      BY <3>1 DEF Findings
    <3> QED
      BY <3>2 DEF Signals, Ids
  <2>2. tips(f) \subseteq Ids(f.signals) /\ tips(f) \cap Covered(HomeOf[w]) = {}
    BY DecideNoticeTips
  <2>3. \A s \in f.signals :
           /\ Genuine(s) /\ s.category \in run[w].policy.categories
           /\ ~run[w].seenBefore /\ s.new => About[s.id].fresh = "critical"
    BY DEF FindingStands, Decide
  <2>4. \A e \in Ids(f.signals) : About[e].category \in run[w].policy.categories
    BY <2>3 DEF Ids, Genuine
  <2>5. ASSUME NEW e \in tips(f)
        PROVE  /\ \/ About[e].category \in asked.notice_categories
                  \/ About[e].event \in asked.notice_always
               /\ ~run[w].seenBefore /\ asked.notice_mode = "changes_only" =>
                     \/ About[e].fresh = "critical"
                     \/ About[e].event \in asked.notice_always /\ ~RequiresNew(About[e].event)
    <3>1. PICK s \in f.signals :
              /\ s.id = e
              /\ \/ Eligible(s, asked)
                 \/ /\ s.category \in asked.notice_categories
                    /\ asked.notice_mode = "changes_only" => s.new
      BY DecideNoticeTips
    <3> QED
      BY <2>3, <3>1 DEF Genuine, Eligible
  <2> HIDE DEF tips
  <2>6. draft(f) \in Notices
    BY <2>1, <2>2 DEF Notices
  <2> QED
    BY <2>2, <2>4, <2>5, <2>6
<1>5. AtMostOne(run[w].finding)
  BY DEF FindingStands, Decide
<1> HIDE DEF draft, tips
<1>6. drafts \in SUBSET Notices /\ AtMostOne(drafts)
  BY <1>4, <1>5 DEF AtMostOne
<1>7. \A n \in drafts : \E f \in run[w].finding : n = draft(f)
  OBVIOUS
<1> HIDE DEF drafts
<1>8. after \in Decided
  BY <1>1, <1>3, <1>6 DEF Screened, Decided
<1>9. run' \in [Screens -> {Idle} \cup Observing \cup Screened \cup Decided] /\ run'[w] = after
  BY <1>2, <1>8 DEF TypeOK
<1>10. TypeOK'
  BY <1>2, <1>9 DEF TypeOK, settings
<1>11. DraftStands(w)'
  <2>1. /\ run'[w].drafts = drafts /\ run'[w].policy = run[w].policy
        /\ run'[w].asked = asked /\ run'[w].seenBefore = run[w].seenBefore
    BY <1>9
  <2> QED
    BY <1>4, <1>6, <1>7, <2>1 DEF DraftStands
<1> QED
  BY <1>4, <1>7, <1>9, <1>10, <1>11

LEMMA RaiseNotices ==
    ASSUME TypeOK, NEW w \in Screens, Raise(w)
    PROVE  /\ HomeOf[w] \in Workspaces
           /\ run[w] \in Decided
           /\ run' = [run EXCEPT ![w] = Idle]
           /\ notices' = IF run[w].drafts = {} THEN notices
                         ELSE [notices EXCEPT ![HomeOf[w]] =
                                  {Retired(n) : n \in notices[HomeOf[w]]} \cup run[w].drafts]
  BY RunIsRecord DEF Raise

LEMMA RetiredType ==
    \A n \in Notices :
        /\ Retired(n) \in Notices /\ Retired(n).status # "pending"
        /\ Retired(n).evidence = n.evidence /\ Retired(n).tipped = n.tipped
  BY DEF Retired, Notices

LEMMA RaiseTypes ==
    ASSUME TypeOK, NEW w \in Screens, Raise(w)
    PROVE  TypeOK'
<1>1. notices' \in [Workspaces -> SUBSET Notices]
  <2> DEFINE after == {Retired(n) : n \in notices[HomeOf[w]]} \cup run[w].drafts
  <2>1. after \in SUBSET Notices
    BY RaiseNotices, RetiredType DEF TypeOK, Decided
  <2> HIDE DEF after
  <2> QED
    BY <2>1, RaiseNotices DEF TypeOK, after
<1> QED
  BY <1>1, RaiseNotices DEF TypeOK, Raise, settings

LEMMA ReviewTypes ==
    ASSUME TypeOK, NEW t \in Workspaces, NEW n \in notices[t], Review(t, n)
    PROVE  TypeOK'
<1>1. [n EXCEPT !.status = "decided"] \in Notices
  BY DEF TypeOK, Notices
<1> QED
  BY <1>1 DEF TypeOK, Review, settings

LEMMA DieTypes ==
    ASSUME TypeOK, NEW w \in Screens, Die(w)
    PROVE  TypeOK'
  BY DEF TypeOK, Die, settings

----------------------------------------------------------------------------
(* The inductive invariant.                                                *)

ScreensStand == \A w \in Screens : ReadingStands(w) /\ FindingStands(w) /\ DraftStands(w)

\* What tips a notice is in it, so that Covered has it.
TippedIsCovered == \A t \in Workspaces : \A n \in notices[t] : n.tipped \subseteq n.evidence

\* No two screens work for one workspace.
Alone == \A v, w \in Screens : HomeOf[v] = HomeOf[w] => v = w

\* Nobody else raises a notice between a screen's decision and its draft.
DraftIsNews ==
    \A w \in Screens : run[w].at = "decided" =>
        \A n \in run[w].drafts : n.tipped \cap Covered(HomeOf[w]) = {}

Apart == \A t \in Workspaces : \A n, m \in notices[t] : n # m => n.tipped \cap m.tipped = {}

IInv == TypeOK /\ ScreensStand /\ TippedIsCovered /\ (Alone => DraftIsNews /\ Apart)

LEMMA IInvAtInit == Init => IInv
  BY TypesAtInit DEF Init, IInv, ScreensStand, ReadingStands, FindingStands, DraftStands,
                     Idle, TippedIsCovered, DraftIsNews, Apart

\* A step of one screen leaves the others where they were.
LEMMA OthersStand ==
    ASSUME ScreensStand, NEW w \in Screens, NEW after, run' = [run EXCEPT ![w] = after],
           DOMAIN run = Screens, ReadingStands(w)', FindingStands(w)', DraftStands(w)'
    PROVE  ScreensStand'
<1> SUFFICES ASSUME NEW v \in Screens, v # w
             PROVE  ReadingStands(v)' /\ FindingStands(v)' /\ DraftStands(v)'
  BY DEF ScreensStand
<1>1. run'[v] = run[v]
  OBVIOUS
<1> QED
  BY <1>1 DEF ScreensStand, ReadingStands, FindingStands, DraftStands, Genuine

LEMMA ScreensKept ==
    ASSUME TypeOK, ScreensStand, NEW w \in Screens, Step(w) \/ Die(w)
    PROVE  TypeOK' /\ ScreensStand'
<1> DEFINE Stands == TypeOK /\ ReadingStands(w) /\ FindingStands(w) /\ DraftStands(w)
<1>1. Stands /\ DOMAIN run = Screens
  BY DEF ScreensStand, TypeOK
<1>2. ASSUME NEW reached \in SUBSET Docs, Gather(w, reached)
      PROVE  TypeOK' /\ ScreensStand'
  <2>1. Stands'
    BY <1>2, GatherTypes DEF FindingStands, DraftStands
  <2> QED
    BY <1>1, <1>2, <2>1, OthersStand DEF Gather
<1>3. ASSUME NEW d \in Docs, ReadSnapshot(w, d)
      PROVE  TypeOK' /\ ScreensStand'
  <2>1. Stands'
    BY <1>1, <1>3, ReadSnapshotTypes DEF FindingStands, DraftStands
  <2> QED
    BY <1>1, <1>3, <2>1, OthersStand DEF ReadSnapshot
<1>4. CASE Observe(w)
  <2>1. Stands'
    BY <1>1, <1>4, ObserveTypes DEF FindingStands, DraftStands
  <2> QED
    BY <1>1, <1>4, <2>1, OthersStand DEF Observe
<1>5. CASE Conclude(w)
  <2>1. Stands'
    BY <1>1, <1>5, ConcludeTypes DEF ReadingStands, DraftStands
  <2> QED
    BY <1>1, <1>5, <2>1, OthersStand DEF Conclude
<1>6. CASE Decide(w)
  <2>1. Stands'
    BY <1>1, <1>6, DecideTypes DEF ReadingStands, FindingStands
  <2> QED
    BY <1>1, <1>6, <2>1, OthersStand DEF Decide
<1>7. CASE Raise(w) \/ Die(w)
  <2>1. run' = [run EXCEPT ![w] = Idle]
    BY <1>7, RaiseNotices DEF Die
  <2>2. ReadingStands(w)' /\ FindingStands(w)' /\ DraftStands(w)'
    BY <1>1, <2>1 DEF ReadingStands, FindingStands, DraftStands, Idle
  <2> QED
    BY <1>1, <1>7, <2>1, <2>2, OthersStand, RaiseTypes, DieTypes
<1> QED
  BY <1>2, <1>3, <1>4, <1>5, <1>6, <1>7 DEF Step

\* What tips notices stays in them and, of a lone screen, apart.
LEMMA RaiseKeepsApart ==
    ASSUME IInv, NEW w \in Screens, Raise(w)
    PROVE  TippedIsCovered' /\ (Alone => DraftIsNews' /\ Apart')
<1> USE DEF IInv
<1> DEFINE t == HomeOf[w]
<1> DEFINE retired == {Retired(n) : n \in notices[t]}
<1>1. t \in Workspaces /\ run' = [run EXCEPT ![w] = Idle] /\ DOMAIN run = Screens
  BY RaiseNotices DEF TypeOK
<1>2. ASSUME Alone, NEW v \in Screens, run'[v].at = "decided"
      PROVE  v # w /\ run'[v] = run[v] /\ HomeOf[v] # t
  BY <1>1, <1>2 DEF Alone, Idle
<1>3. CASE run[w].drafts = {}
  <2>1. notices' = notices
    BY <1>3, RaiseNotices
  <2> QED
    BY <1>2, <2>1 DEF TippedIsCovered, DraftIsNews, Apart, Covered
<1>4. CASE run[w].drafts # {}
  <2>1. notices' = [notices EXCEPT ![t] = retired \cup run[w].drafts]
    BY <1>4, RaiseNotices
  <2>2. ASSUME NEW d \in run[w].drafts
        PROVE  /\ d.tipped \subseteq d.evidence
               /\ Alone => d.tipped \cap Covered(t) = {}
               /\ \A c \in run[w].drafts : c = d
    BY DEF ScreensStand, DraftStands, DraftIsNews, Raise, AtMostOne
  <2>3. ASSUME NEW r \in retired
        PROVE  \E n \in notices[t] :
                  r = Retired(n) /\ r.tipped = n.tipped /\ r.evidence = n.evidence
    BY <1>1, RetiredType DEF TypeOK
  <2>4. ASSUME NEW r \in retired
        PROVE  r.tipped \subseteq r.evidence /\ r.tipped \subseteq Covered(t)
    BY <1>1, <2>3 DEF TippedIsCovered, Covered
  <2>5. ASSUME Alone, NEW r \in retired, NEW q \in retired, r # q
        PROVE  r.tipped \cap q.tipped = {}
    <3>1. PICK n \in notices[t] : r = Retired(n) /\ r.tipped = n.tipped
      BY <2>3
    <3>2. PICK m \in notices[t] : q = Retired(m) /\ q.tipped = m.tipped
      BY <2>3
    <3> QED
      BY <1>1, <2>5, <3>1, <3>2 DEF Apart
  <2>6. TippedIsCovered'
    BY <1>1, <2>1, <2>2, <2>4 DEF TypeOK, TippedIsCovered
  <2>7. ASSUME Alone, NEW n \in retired \cup run[w].drafts,
               NEW m \in retired \cup run[w].drafts, n # m
        PROVE  n.tipped \cap m.tipped = {}
    <3> HIDE DEF retired, t
    <3> QED
      BY <2>2, <2>4, <2>5, <2>7
  <2>8. ASSUME Alone
        PROVE  Apart'
    <3> SUFFICES ASSUME NEW u \in Workspaces, NEW n \in notices'[u], NEW m \in notices'[u], n # m
                 PROVE  n.tipped \cap m.tipped = {}
      BY DEF Apart
    <3>1. CASE u = t
      BY <2>1, <2>7, <2>8, <3>1 DEF TypeOK
    <3>2. CASE u # t
      BY <2>1, <2>8, <3>2 DEF TypeOK, Apart
    <3> QED
      BY <3>1, <3>2
  <2>9. ASSUME Alone
        PROVE  DraftIsNews'
    <3> SUFFICES ASSUME NEW v \in Screens, run'[v].at = "decided", NEW n \in run'[v].drafts
                 PROVE  n.tipped \cap Covered(HomeOf[v])' = {}
      BY DEF DraftIsNews
    <3>1. run'[v] = run[v] /\ HomeOf[v] # t
      BY <1>2, <2>9
    <3>2. notices'[HomeOf[v]] = notices[HomeOf[v]]
      BY <2>1, <3>1, HomeAssumption DEF TypeOK
    <3> QED
      BY <2>9, <3>1, <3>2 DEF DraftIsNews, Covered
  <2> QED
    BY <2>6, <2>8, <2>9
<1> QED
  BY <1>3, <1>4

LEMMA ReviewKeepsApart ==
    ASSUME IInv, NEW t \in Workspaces, NEW n \in notices[t], Review(t, n)
    PROVE  TippedIsCovered' /\ (Alone => DraftIsNews' /\ Apart')
<1> USE DEF IInv
<1> DEFINE decided == [n EXCEPT !.status = "decided"]
<1>1. notices' = [notices EXCEPT ![t] = (notices[t] \ {n}) \cup {decided}] /\ run' = run
  BY DEF Review
<1>2. decided.evidence = n.evidence /\ decided.tipped = n.tipped
  BY DEF TypeOK, Notices
<1> HIDE DEF decided
<1>3. notices'[t] = (notices[t] \ {n}) \cup {decided}
  BY <1>1 DEF TypeOK
<1>4. \A u \in Workspaces \ {t} : notices'[u] = notices[u]
  BY <1>1 DEF TypeOK
<1>5. \A m \in notices'[t] : \E o \in notices[t] :
          /\ m.evidence = o.evidence /\ m.tipped = o.tipped
          /\ m = IF o = n THEN decided ELSE o
  BY <1>2, <1>3
<1>6. TippedIsCovered'
  BY <1>4, <1>5 DEF TippedIsCovered
<1>7. ASSUME Alone
      PROVE  Apart'
  BY <1>4, <1>5, <1>7 DEF Apart
<1>8. \A u \in Workspaces : Covered(u)' \subseteq Covered(u)
  BY <1>4, <1>5 DEF Covered
<1>9. ASSUME Alone
      PROVE  DraftIsNews'
  BY <1>1, <1>8, <1>9, HomeAssumption DEF DraftIsNews
<1> QED
  BY <1>6, <1>7, <1>9

\* Any other step leaves the notices, and decides on news alone.
LEMMA QuietKeepsApart ==
    ASSUME IInv, UNCHANGED notices,
           NEW w, \A v \in Screens : v = w \/ run'[v] = run[v],
           (w \in Screens /\ Decide(w)) \/ run'[w].at # "decided" \/ run'[w] = run[w]
    PROVE  TippedIsCovered' /\ (Alone => DraftIsNews' /\ Apart')
<1>1. TippedIsCovered' /\ (Alone => Apart')
  BY DEF IInv, TippedIsCovered, Apart
<1>2. ASSUME Alone
      PROVE  DraftIsNews'
  <2>1. ASSUME NEW v \in Screens, run'[v].at = "decided", run'[v] = run[v]
        PROVE  \A n \in run'[v].drafts : n.tipped \cap Covered(HomeOf[v])' = {}
    BY <1>2, <2>1 DEF IInv, DraftIsNews, Covered
  <2>2. ASSUME w \in Screens, Decide(w)
        PROVE  \A n \in run'[w].drafts : n.tipped \cap Covered(HomeOf[w])' = {}
    BY <2>2, DecideTypes DEF IInv, ScreensStand, Covered
  <2> QED
    BY <2>1, <2>2 DEF DraftIsNews
<1> QED
  BY <1>1, <1>2

LEMMA IInvKept == IInv /\ [Next]_vars => IInv'
<1> SUFFICES ASSUME IInv, [Next]_vars
             PROVE  IInv'
  OBVIOUS
<1>1. ASSUME NEW w \in Screens, Step(w) \/ Die(w)
      PROVE  IInv'
  <2>1. TypeOK' /\ ScreensStand'
    BY <1>1, ScreensKept DEF IInv
  <2>2. CASE Raise(w)
    BY <2>1, <2>2, RaiseKeepsApart DEF IInv
  <2>3. CASE ~Raise(w)
    <3>1. UNCHANGED notices
      BY <1>1, <2>3 DEF Step, Gather, ReadSnapshot, Observe, Conclude, Decide, Die
    <3>2. \A v \in Screens : v = w \/ run'[v] = run[v]
      BY <1>1, <2>3 DEF Step, Gather, ReadSnapshot, Observe, Conclude, Decide, Die,
                        IInv, TypeOK
    <3>3. Decide(w) \/ run'[w].at # "decided"
      <4>1. ASSUME NEW reached \in SUBSET Docs, Gather(w, reached)
            PROVE  run'[w].at # "decided"
        BY <4>1, GatherTypes DEF IInv
      <4>2. ASSUME NEW d \in Docs, ReadSnapshot(w, d)
            PROVE  run'[w].at # "decided"
        BY <4>2, ReadSnapshotTypes DEF IInv, ScreensStand
      <4>3. Observe(w) => run'[w].at # "decided"
        BY ObserveTypes DEF IInv, ScreensStand
      <4>4. Conclude(w) => run'[w].at # "decided"
        BY ConcludeTypes DEF IInv, ScreensStand
      <4>5. Die(w) => run'[w].at # "decided"
        BY DEF Die, Idle, IInv, TypeOK
      <4> QED
        BY <1>1, <2>3, <4>1, <4>2, <4>3, <4>4, <4>5 DEF Step
    <3> QED
      BY <2>1, <3>1, <3>2, <3>3, QuietKeepsApart DEF IInv
  <2> QED
    BY <2>2, <2>3
<1>2. ASSUME UNCHANGED run
      PROVE  ScreensStand'
  BY <1>2 DEF IInv, ScreensStand, ReadingStands, FindingStands, DraftStands, Genuine
<1>3. ASSUME UNCHANGED <<run, notices>>
      PROVE  TippedIsCovered' /\ (Alone => DraftIsNews' /\ Apart')
  BY <1>3, QuietKeepsApart
<1>4. ASSUME NEW t \in Workspaces, Setting(t)
      PROVE  IInv'
  <2>1. UNCHANGED <<run, notices>>
    BY <1>4 DEF Setting, SetPolicy, ResetPolicy, SetWatchlistPolicy, ClearWatchlistPolicy
  <2> QED
    BY <1>2, <1>3, <1>4, <2>1, SettingTypes DEF IInv
<1>5. ASSUME NEW t \in Workspaces, NEW n \in notices[t], Review(t, n)
      PROVE  IInv'
  <2>1. UNCHANGED run
    BY <1>5 DEF Review
  <2> QED
    BY <1>2, <1>5, <2>1, ReviewTypes, ReviewKeepsApart DEF IInv
<1>6. CASE World
  <2>1. UNCHANGED <<run, notices>>
    BY <1>6 DEF World, Publish, Revise
  <2> QED
    BY <1>2, <1>3, <1>6, <2>1, WorldTypes DEF IInv
<1>7. CASE UNCHANGED vars
  BY <1>2, <1>3, <1>7 DEF vars, TypeOK, IInv
<1> QED
  BY <1>1, <1>4, <1>5, <1>6, <1>7 DEF Next

LEMMA Invariant == Spec => []IInv
  BY IInvAtInit, IInvKept, PTL DEF Spec

----------------------------------------------------------------------------
(* The theorems.                                                           *)

\* Every state is well typed, for any evidence, documents and settings.
THEOREM ScreeningTypes == Spec => []TypeOK
<1>1. IInv => TypeOK
  BY DEF IInv
<1> QED
  BY <1>1, Invariant, PTL

(* Each piece of evidence notifies once, however revisions, reviews,       *)
(* settings and deaths interleave with the one screen of each workspace.   *)
THEOREM NotifiedOnce == Spec => []OneNoticePerEvidence
<1>1. IInv => OneNoticePerEvidence
  BY DEF IInv, Alone, Apart, OneNoticePerEvidence
<1> QED
  BY <1>1, Invariant, PTL

\* What a step raises is the draft the screen decided on.
LEMMA RaisedIsDraft ==
    ASSUME IInv, NEW w \in Screens, Raise(w),
           NEW n \in notices'[HomeOf[w]] \ notices[HomeOf[w]], n.status = "pending"
    PROVE  n \in run[w].drafts /\ DraftStands(w) /\ run[w].at = "decided"
  BY RaiseNotices, RetiredType DEF IInv, TypeOK, ScreensStand, Raise

(* A notice is about what the screen looked for, and is raised over what   *)
(* the settings read for it want told.                                     *)
THEOREM ToldAsAsked == Spec => NoticesAreWanted
<1>1. ASSUME IInv, NEW w \in Screens, Raise(w)
      PROVE  DraftsAreWanted(w)
  BY <1>1, RaisedIsDraft DEF DraftsAreWanted, DraftStands
<1>2. IInv /\ [Next]_vars => [\A w \in Screens : Raise(w) => DraftsAreWanted(w)]_vars
  BY <1>1
<1> QED
  BY <1>2, Invariant, PTL DEF Spec, NoticesAreWanted

(* Under "changes_only" the screen of a contractor with nothing on file    *)
(* tells of nothing but critical evidence and events that need no news.    *)
THEOREM BaselineIsSilent == Spec => SilentBaseline
<1>1. ASSUME IInv, NEW w \in Screens, Raise(w)
      PROVE  DraftsAreLoud(w)
  <2> SUFFICES ASSUME run[w].asked.notice_mode = "changes_only", ~run[w].seenBefore,
                      NEW n \in notices'[HomeOf[w]] \ notices[HomeOf[w]],
                      n.status = "pending", NEW e \in n.tipped
               PROVE  \/ About[e].fresh = "critical"
                      \/ /\ About[e].event \in run[w].asked.notice_always
                         /\ ~RequiresNew(About[e].event)
    BY DEF DraftsAreLoud
  <2> QED
    BY <1>1, RaisedIsDraft DEF DraftStands
<1>2. IInv /\ [Next]_vars => [\A w \in Screens : Raise(w) => DraftsAreLoud(w)]_vars
  BY <1>1
<1> QED
  BY <1>2, Invariant, PTL DEF Spec, SilentBaseline

----------------------------------------------------------------------------
(* The functions of policy.py.                                             *)
None == [f \in {} |-> {}]

\* What is read of a setting, of two bodies one on top of the other.
LEMMA GivenOfUpdated ==
    ASSUME NEW base, NEW over, NEW f, f \in DOMAIN base
    PROVE  Given(Updated(base, over), f) = IF f \in DOMAIN over THEN over[f] ELSE base[f]
  BY DEF Given, Updated

\* from_dict reads the six settings, and nothing else.
LEMMA FromDictReads ==
    ASSUME NEW raw, NEW sent, \A f \in POLICY_FIELDS : Given(raw, f) = Given(sent, f)
    PROVE  FromDict(raw) = FromDict(sent)
<1>1. /\ Given(raw, "categories") = Given(sent, "categories")
      /\ Given(raw, "release_kinds") = Given(sent, "release_kinds")
      /\ Given(raw, "notice_min_severity") = Given(sent, "notice_min_severity")
      /\ Given(raw, "notice_mode") = Given(sent, "notice_mode")
      /\ Given(raw, "notice_categories") = Given(sent, "notice_categories")
      /\ Given(raw, "notice_always") = Given(sent, "notice_always")
  BY DEF POLICY_FIELDS
<1> QED
  BY <1>1, Zenon DEF FromDict, OneOf

LEMMA PolicyFields ==
    ASSUME NEW raw
    PROVE  /\ DOMAIN FromDict(raw) = POLICY_FIELDS
           /\ FromDict(raw).categories = Given(raw, "categories") \cap CATEGORIES
           /\ FromDict(raw).release_kinds = Given(raw, "release_kinds") \cap RELEASE_KINDS
           /\ FromDict(raw).notice_min_severity
                = OneOf(raw, "notice_min_severity", NOTICE_SEVERITIES)
           /\ FromDict(raw).notice_mode = OneOf(raw, "notice_mode", NOTICE_MODES)
           /\ FromDict(raw).notice_categories
                = Given(raw, "notice_categories") \cap FromDict(raw).categories
           /\ FromDict(raw).notice_always
                = {e \in Given(raw, "notice_always") \cap EVENTS :
                      Producible(e, FromDict(raw).categories, FromDict(raw).release_kinds)}
  BY DEF FromDict, POLICY_FIELDS

LEMMA SameSettings ==
    ASSUME NEW p \in Policies, NEW q \in Policies,
           p.categories = q.categories, p.release_kinds = q.release_kinds,
           p.notice_min_severity = q.notice_min_severity, p.notice_mode = q.notice_mode,
           p.notice_categories = q.notice_categories, p.notice_always = q.notice_always
    PROVE  p = q
  BY DEF Policies

(* clean_override keeps of what was sent the settings as they came out, and *)
(* from those the same policy comes out: for a watchlist's own settings,   *)
(* what the page is answered is what its runs will read.                   *)
LEMMA CleanIsEnough ==
    ASSUME NEW tenant, NEW body
    PROVE  Merge(tenant, CleanOverride(tenant, body)) = Merge(tenant, body)
<1> DEFINE base == FromDict(tenant)
           sent == Updated(base, body)
           policy == FromDict(sent)
           clean == CleanOverride(tenant, body)
           kept == Updated(base, clean)
<1>1. DOMAIN clean = DOMAIN body \cap POLICY_FIELDS
      /\ \A f \in DOMAIN clean : clean[f] = policy[f]
  BY DEF CleanOverride, Merge
<1>2. DOMAIN base = POLICY_FIELDS
  BY PolicyFields
<1>3. \A f \in POLICY_FIELDS : \/ Given(kept, f) = Given(sent, f)
                               \/ Given(kept, f) = policy[f]
  <2> SUFFICES ASSUME NEW f \in POLICY_FIELDS
               PROVE  Given(kept, f) = Given(sent, f) \/ Given(kept, f) = policy[f]
    OBVIOUS
  <2> HIDE DEF base, clean, policy
  <2>1. Given(kept, f) = IF f \in DOMAIN clean THEN clean[f] ELSE base[f]
    BY <1>2, GivenOfUpdated
  <2>2. Given(sent, f) = IF f \in DOMAIN body THEN body[f] ELSE base[f]
    BY <1>2, GivenOfUpdated
  <2> QED
    BY <1>1, <2>1, <2>2
<1>4. policy \in Policies /\ FromDict(kept) \in Policies /\ Consistent(policy)
  BY FromDictIsPolicy
<1>5. policy = FromDict(kept)
  <2> DEFINE again == FromDict(kept)
  <2> HIDE DEF base, clean, kept, sent
  <2>1. /\ policy.categories = Given(sent, "categories") \cap CATEGORIES
        /\ policy.release_kinds = Given(sent, "release_kinds") \cap RELEASE_KINDS
        /\ policy.notice_min_severity = OneOf(sent, "notice_min_severity", NOTICE_SEVERITIES)
        /\ policy.notice_mode = OneOf(sent, "notice_mode", NOTICE_MODES)
        /\ policy.notice_categories = Given(sent, "notice_categories") \cap policy.categories
        /\ policy.notice_always = {e \in Given(sent, "notice_always") \cap EVENTS :
                      Producible(e, policy.categories, policy.release_kinds)}
    BY PolicyFields
  <2>2. /\ again.categories = Given(kept, "categories") \cap CATEGORIES
        /\ again.release_kinds = Given(kept, "release_kinds") \cap RELEASE_KINDS
        /\ again.notice_min_severity = OneOf(kept, "notice_min_severity", NOTICE_SEVERITIES)
        /\ again.notice_mode = OneOf(kept, "notice_mode", NOTICE_MODES)
        /\ again.notice_categories = Given(kept, "notice_categories") \cap again.categories
        /\ again.notice_always = {e \in Given(kept, "notice_always") \cap EVENTS :
                      Producible(e, again.categories, again.release_kinds)}
    BY PolicyFields
  <2> HIDE DEF policy, again
  <2>3. policy \in Policies /\ again \in Policies
    BY <1>4 DEF again
  <2>4. \A f \in POLICY_FIELDS : Given(kept, f) = Given(sent, f) \/ Given(kept, f) = policy[f]
    BY <1>3
  <2>5. /\ "categories" \in POLICY_FIELDS /\ "release_kinds" \in POLICY_FIELDS
        /\ "notice_min_severity" \in POLICY_FIELDS /\ "notice_mode" \in POLICY_FIELDS
        /\ "notice_categories" \in POLICY_FIELDS /\ "notice_always" \in POLICY_FIELDS
    BY DEF POLICY_FIELDS
  <2>6. again.categories = policy.categories
    BY <2>1, <2>2, <2>4, <2>5
  <2>7. again.release_kinds = policy.release_kinds
    BY <2>1, <2>2, <2>4, <2>5
  <2>8. again.notice_min_severity = policy.notice_min_severity
    BY <2>1, <2>2, <2>3, <2>4, <2>5 DEF OneOf, Policies
  <2>9. again.notice_mode = policy.notice_mode
    BY <2>1, <2>2, <2>3, <2>4, <2>5 DEF OneOf, Policies
  <2>10. again.notice_categories = policy.notice_categories
    <3>1. CASE Given(kept, "notice_categories") = Given(sent, "notice_categories")
      BY <2>1, <2>2, <2>6, <3>1
    <3>2. CASE Given(kept, "notice_categories") = policy.notice_categories
      BY <2>1, <2>2, <2>6, <3>2
    <3> QED
      BY <2>4, <2>5, <3>1, <3>2
  <2>11. again.notice_always = policy.notice_always
    <3>1. CASE Given(kept, "notice_always") = Given(sent, "notice_always")
      BY <2>1, <2>2, <2>6, <2>7, <3>1
    <3>2. CASE Given(kept, "notice_always") = policy.notice_always
      BY <2>1, <2>2, <2>6, <2>7, <3>2
    <3> QED
      BY <2>4, <2>5, <3>1, <3>2
  <2>12. policy = again
    BY <2>3, <2>6, <2>7, <2>8, <2>9, <2>10, <2>11, SameSettings
  <2> QED
    BY <2>12 DEF again
<1> QED
  BY <1>5 DEF Merge

\* An override of none of the settings is no override.
LEMMA NothingOverridden ==
    ASSUME NEW tenant, NEW body, DOMAIN body \cap POLICY_FIELDS = {}
    PROVE  Merge(tenant, body) = Merge(tenant, None)
<1> DEFINE base == FromDict(tenant)
<1>1. DOMAIN base = POLICY_FIELDS
  BY PolicyFields
<1> HIDE DEF base
<1>2. DOMAIN None = {}
  BY DEF None
<1>3. \A f \in POLICY_FIELDS : Given(Updated(base, body), f) = Given(Updated(base, None), f)
  BY <1>1, <1>2, GivenOfUpdated
<1> QED
  BY <1>3, FromDictReads DEF Merge, base

----------------------------------------------------------------------------
(* Settings and screens.                                                   *)
LEMMA StoredRow == ASSUME NEW r PROVE Stored({r}) = r /\ Stored({}) = None
  BY DEF Stored, None

\* A body saved for a watchlist, as its next run reads it.
LEMMA SavedIsRead ==
    ASSUME TypeOK, NEW t \in Workspaces, NEW body, SetWatchlistPolicy(t, body)
    PROVE  PolicyFor(t, TRUE)' = Merge(Stored(tenantRow[t]), body)
<1> DEFINE tenant == Stored(tenantRow[t])
           clean == CleanOverride(tenant, body)
           row == IF DOMAIN clean = {} THEN {} ELSE {clean}
<1>1. listRow' = [listRow EXCEPT ![t] = row] /\ UNCHANGED tenantRow
  BY DEF SetWatchlistPolicy
<1>2. listRow'[t] = row
  BY <1>1 DEF TypeOK
<1>3. PolicyFor(t, TRUE)' = Merge(Stored(tenantRow'[t]), Stored(listRow'[t]))
  BY DEF PolicyFor
<1>4. Stored(tenantRow'[t]) = tenant
  BY <1>1
<1> HIDE DEF tenant
<1>5. CASE DOMAIN clean = {}
  <2>1. DOMAIN body \cap POLICY_FIELDS = {}
    BY <1>5 DEF CleanOverride
  <2>2. Stored(row) = None
    BY <1>5, StoredRow
  <2> QED
    BY <1>2, <1>3, <1>4, <2>1, <2>2, NothingOverridden DEF tenant
<1>6. CASE DOMAIN clean # {}
  <2>1. Stored(row) = clean
    BY <1>6, StoredRow
  <2> QED
    BY <1>2, <1>3, <1>4, <2>1, CleanIsEnough DEF tenant
<1> QED
  BY <1>5, <1>6

\* A watchlist's row holds settings that were sent.
SentSettings == UNION {DOMAIN body : body \in Overrides}

RowsAreSent == \A t \in Workspaces : \A row \in listRow[t] : DOMAIN row \subseteq SentSettings

LEMMA RowsKept == ASSUME TypeOK, RowsAreSent, [Next]_vars PROVE RowsAreSent'
<1>1. CASE UNCHANGED listRow
  BY <1>1 DEF RowsAreSent
<1>2. ASSUME NEW t \in Workspaces, NEW body \in Overrides, SetWatchlistPolicy(t, body)
      PROVE  RowsAreSent'
  <2> DEFINE clean == CleanOverride(Stored(tenantRow[t]), body)
  <2>1. DOMAIN clean \subseteq SentSettings
    BY DEF CleanOverride, SentSettings
  <2>2. listRow' = [listRow EXCEPT ![t] = IF DOMAIN clean = {} THEN {} ELSE {clean}]
    BY <1>2 DEF SetWatchlistPolicy
  <2> HIDE DEF clean
  <2> QED
    BY <2>1, <2>2 DEF RowsAreSent, TypeOK
<1>3. ASSUME NEW t \in Workspaces, ClearWatchlistPolicy(t) PROVE RowsAreSent'
  BY <1>3 DEF ClearWatchlistPolicy, RowsAreSent, TypeOK
<1>4. ASSUME NEW t \in Workspaces, Setting(t) PROVE RowsAreSent'
  BY <1>1, <1>2, <1>3, <1>4 DEF Setting, SetPolicy, ResetPolicy
<1>5. ASSUME NEW w \in Screens, Step(w) \/ Die(w) PROVE UNCHANGED listRow
  BY <1>5 DEF Step, Die, Gather, ReadSnapshot, Observe, Conclude, Decide, Raise, settings
<1>6. ASSUME NEW t \in Workspaces, NEW n \in notices[t], Review(t, n) PROVE UNCHANGED listRow
  BY <1>6 DEF Review, settings
<1>7. CASE World
  BY <1>1, <1>7 DEF World, Publish, Revise, settings
<1>8. CASE UNCHANGED vars
  BY <1>1, <1>8 DEF vars
<1> QED
  BY <1>1, <1>4, <1>5, <1>6, <1>7, <1>8 DEF Next

\* from_dict of a policy is the policy.
LEMMA NormalStays ==
    ASSUME NEW raw
    PROVE  FromDict(Updated(FromDict(raw), None)) = FromDict(raw)
<1> DEFINE base == FromDict(raw)
           again == Updated(base, None)
<1>1. DOMAIN base = POLICY_FIELDS /\ DOMAIN None = {} /\ base \in Policies /\ Consistent(base)
  BY PolicyFields, FromDictIsPolicy DEF None
<1> HIDE DEF base
<1>2. \A f \in POLICY_FIELDS : Given(again, f) = base[f]
  BY <1>1, GivenOfUpdated
<1>3. /\ Given(again, "categories") = base.categories
      /\ Given(again, "release_kinds") = base.release_kinds
      /\ Given(again, "notice_min_severity") = base.notice_min_severity
      /\ Given(again, "notice_mode") = base.notice_mode
      /\ Given(again, "notice_categories") = base.notice_categories
      /\ Given(again, "notice_always") = base.notice_always
  BY <1>2 DEF POLICY_FIELDS
<1>4. FromDict(again) \in Policies
  BY FromDictIsPolicy
<1>5. FromDict(again).categories = base.categories
  <2>1. FromDict(again).categories = base.categories \cap CATEGORIES
    BY <1>3, PolicyFields
  <2>2. base.categories \subseteq CATEGORIES
    BY <1>1 DEF Policies
  <2> QED
    BY <2>1, <2>2
<1>6. FromDict(again).release_kinds = base.release_kinds
  <2>1. FromDict(again).release_kinds = base.release_kinds \cap RELEASE_KINDS
    BY <1>3, PolicyFields
  <2>2. base.release_kinds \subseteq RELEASE_KINDS
    BY <1>1 DEF Policies
  <2> QED
    BY <2>1, <2>2
<1>7. FromDict(again).notice_min_severity = base.notice_min_severity
  BY <1>1, <1>3, PolicyFields DEF Policies, OneOf
<1>8. FromDict(again).notice_mode = base.notice_mode
  BY <1>1, <1>3, PolicyFields DEF Policies, OneOf
<1>9. FromDict(again).notice_categories = base.notice_categories
  <2>1. FromDict(again).notice_categories = base.notice_categories \cap base.categories
    BY <1>3, <1>5, PolicyFields
  <2> QED
    BY <1>1, <2>1 DEF Consistent
<1>10. FromDict(again).notice_always = base.notice_always
  <2>1. FromDict(again).notice_always = {e \in base.notice_always \cap EVENTS :
                      Producible(e, base.categories, base.release_kinds)}
    BY <1>3, <1>5, <1>6, PolicyFields
  <2> QED
    BY <1>1, <2>1 DEF Consistent, Producible, Policies
<1>11. FromDict(again) = base
  BY <1>1, <1>4, <1>5, <1>6, <1>7, <1>8, <1>9, <1>10, SameSettings
<1> QED
  BY <1>11 DEF base

(* A watchlist's policy next to its workspace's.                           *)
LEMMA ListFollows ==
    ASSUME NEW tenant, NEW over, NEW named, DOMAIN over \subseteq named
    PROVE  LET mine == Merge(tenant, over)
               theirs == Merge(tenant, None)
           IN  /\ \A f \in {"categories", "release_kinds", "notice_min_severity", "notice_mode"} :
                     f \notin named => mine[f] = theirs[f]
               /\ "notice_categories" \notin named =>
                     mine.notice_categories = theirs.notice_categories \cap mine.categories
               /\ "notice_always" \notin named =>
                     mine.notice_always = {e \in theirs.notice_always :
                                             Producible(e, mine.categories, mine.release_kinds)}
<1> DEFINE base == FromDict(tenant)
           raw == Updated(base, over)
           mine == FromDict(raw)
<1>1. DOMAIN base = POLICY_FIELDS /\ base \in Policies /\ Consistent(base)
  BY PolicyFields, FromDictIsPolicy
<1>2. Merge(tenant, over) = mine /\ Merge(tenant, None) = base
  BY NormalStays DEF Merge
<1> HIDE DEF base
<1>3. \A f \in POLICY_FIELDS : f \notin named => Given(raw, f) = base[f]
  BY <1>1, GivenOfUpdated
<1>4. /\ "categories" \notin named => Given(raw, "categories") = base.categories
      /\ "release_kinds" \notin named => Given(raw, "release_kinds") = base.release_kinds
      /\ "notice_min_severity" \notin named =>
            Given(raw, "notice_min_severity") = base.notice_min_severity
      /\ "notice_mode" \notin named => Given(raw, "notice_mode") = base.notice_mode
      /\ "notice_categories" \notin named =>
            Given(raw, "notice_categories") = base.notice_categories
      /\ "notice_always" \notin named => Given(raw, "notice_always") = base.notice_always
  BY <1>3 DEF POLICY_FIELDS
<1> HIDE DEF raw
<1>5. /\ mine.categories = Given(raw, "categories") \cap CATEGORIES
      /\ mine.release_kinds = Given(raw, "release_kinds") \cap RELEASE_KINDS
      /\ mine.notice_min_severity = OneOf(raw, "notice_min_severity", NOTICE_SEVERITIES)
      /\ mine.notice_mode = OneOf(raw, "notice_mode", NOTICE_MODES)
      /\ mine.notice_categories = Given(raw, "notice_categories") \cap mine.categories
      /\ mine.notice_always = {e \in Given(raw, "notice_always") \cap EVENTS :
                      Producible(e, mine.categories, mine.release_kinds)}
  BY PolicyFields
<1> HIDE DEF mine
<1>6. "categories" \notin named => mine.categories = base.categories
  BY <1>1, <1>4, <1>5 DEF Policies
<1>7. "release_kinds" \notin named => mine.release_kinds = base.release_kinds
  BY <1>1, <1>4, <1>5 DEF Policies
<1>8. "notice_min_severity" \notin named => mine.notice_min_severity = base.notice_min_severity
  BY <1>1, <1>4, <1>5 DEF Policies, OneOf
<1>9. "notice_mode" \notin named => mine.notice_mode = base.notice_mode
  BY <1>1, <1>4, <1>5 DEF Policies, OneOf
<1>10. "notice_categories" \notin named =>
          mine.notice_categories = base.notice_categories \cap mine.categories
  BY <1>4, <1>5
<1>11. "notice_always" \notin named =>
          mine.notice_always = {e \in base.notice_always :
                                  Producible(e, mine.categories, mine.release_kinds)}
  BY <1>1, <1>4, <1>5 DEF Policies
<1> QED
  BY <1>2, <1>6, <1>7, <1>8, <1>9, <1>10, <1>11

LEMMA RowsFollow == ASSUME TypeOK, RowsAreSent PROVE FollowsTenant
<1> SUFFICES ASSUME NEW t \in Workspaces
             PROVE  LET named == UNION {DOMAIN body : body \in Overrides}
                        mine == PolicyFor(t, TRUE)
                        theirs == PolicyFor(t, FALSE)
                    IN  /\ \A f \in {"categories", "release_kinds", "notice_min_severity", "notice_mode"} :
                              f \notin named => mine[f] = theirs[f]
                        /\ "notice_categories" \notin named =>
                              mine.notice_categories = theirs.notice_categories \cap mine.categories
                        /\ "notice_always" \notin named =>
                              mine.notice_always = {e \in theirs.notice_always :
                                                      Producible(e, mine.categories, mine.release_kinds)}
  BY DEF FollowsTenant
<1> DEFINE tenant == Stored(tenantRow[t])
           over == Stored(listRow[t])
<1>1. PolicyFor(t, TRUE) = Merge(tenant, over) /\ PolicyFor(t, FALSE) = Merge(tenant, None)
  BY DEF PolicyFor, None
<1>2. DOMAIN over \subseteq SentSettings
  <2>1. CASE listRow[t] = {}
    BY <2>1, StoredRow DEF None
  <2>2. CASE listRow[t] # {}
    <3>1. over \in listRow[t]
      BY <2>2 DEF Stored
    <3> QED
      BY <3>1 DEF RowsAreSent
  <2> QED
    BY <2>1, <2>2
<1> HIDE DEF tenant, over
<1>3. LET mine == Merge(tenant, over)
          theirs == Merge(tenant, None)
      IN  /\ \A f \in {"categories", "release_kinds", "notice_min_severity", "notice_mode"} :
                f \notin SentSettings => mine[f] = theirs[f]
          /\ "notice_categories" \notin SentSettings =>
                mine.notice_categories = theirs.notice_categories \cap mine.categories
          /\ "notice_always" \notin SentSettings =>
                mine.notice_always = {e \in theirs.notice_always :
                                        Producible(e, mine.categories, mine.release_kinds)}
  BY <1>2, ListFollows
<1> QED
  BY <1>1, <1>3, Zenon DEF SentSettings

(* Whatever was sent as settings, and in whatever order: a watchlist's runs *)
(* and its workspace's work under policies that agree with themselves and  *)
(* with each other (policy.py).                                            *)
THEOREM SettingsHold == Spec => []PoliciesAgree
<1>1. Init => RowsAreSent
  BY DEF Init, RowsAreSent
<1>2. TypeOK /\ RowsAreSent /\ [Next]_vars => RowsAreSent'
  BY RowsKept
<1>3. TypeOK /\ RowsAreSent /\ EffectiveIsConsistent => PoliciesAgree
  BY RowsFollow DEF PoliciesAgree
<1> QED
  BY <1>1, <1>2, <1>3, SettingsAgree, ScreeningTypes, PTL DEF Spec

----------------------------------------------------------------------------
(* Releases the settings always want told.                                 *)

\* The releases a screen saw as new and that its own settings always want told.
Always(w) == {s \in run[w].fired : /\ s.new
                                   /\ s.event \in Releases
                                   /\ s.event \in run[w].policy.notice_always}

\* They are in the finding, and then in the draft if they are not covered.
ReleaseStands(w) ==
    /\ run[w].at = "observing" => Consistent(run[w].policy)
    /\ run[w].at = "screened" /\ run[w].seenBefore =>
          \A s \in Always(w) : \E f \in run[w].finding : s \in f.signals
    /\ run[w].at = "decided" /\ run[w].seenBefore =>
          \A e \in NewReleases(w) :
              e \in Covered(HomeOf[w]) \/ \E n \in run[w].drafts : e \in n.evidence

\* No step takes evidence out of all notices.
LEMMA CoveredGrows ==
    ASSUME TypeOK, [Next]_vars, NEW t \in Workspaces
    PROVE  Covered(t) \subseteq Covered(t)'
<1>1. CASE UNCHANGED notices
  BY <1>1 DEF Covered
<1>2. ASSUME NEW w \in Screens, Raise(w)
      PROVE  Covered(t) \subseteq Covered(t)'
  <2>1. CASE run[w].drafts = {} \/ t # HomeOf[w]
    <3>1. notices'[t] = notices[t]
      BY <1>2, <2>1, RaiseNotices DEF TypeOK
    <3> QED
      BY <3>1 DEF Covered
  <2>2. CASE run[w].drafts # {} /\ t = HomeOf[w]
    <3>1. notices'[t] = {Retired(n) : n \in notices[t]} \cup run[w].drafts
      BY <1>2, <2>2, RaiseNotices DEF TypeOK
    <3>2. \A n \in notices[t] : Retired(n) \in notices'[t] /\ Retired(n).evidence = n.evidence
      BY <3>1, RetiredType DEF TypeOK
    <3> QED
      BY <3>2 DEF Covered
  <2> QED
    BY <2>1, <2>2
<1>3. ASSUME NEW u \in Workspaces, NEW n \in notices[u], Review(u, n)
      PROVE  Covered(t) \subseteq Covered(t)'
  <2> DEFINE decided == [n EXCEPT !.status = "decided"]
  <2>1. decided.evidence = n.evidence
    BY DEF TypeOK, Notices
  <2>2. notices' = [notices EXCEPT ![u] = (notices[u] \ {n}) \cup {decided}]
    BY <1>3 DEF Review
  <2> HIDE DEF decided
  <2>3. \A m \in notices[t] : \E o \in notices'[t] : o.evidence = m.evidence
    BY <2>1, <2>2 DEF TypeOK
  <2> QED
    BY <2>3 DEF Covered
<1>4. ASSUME NEW w \in Screens, Step(w) \/ Die(w), ~Raise(w)
      PROVE  UNCHANGED notices
  BY <1>4 DEF Step, Gather, ReadSnapshot, Observe, Conclude, Decide, Die
<1>5. ASSUME NEW u \in Workspaces, Setting(u)
      PROVE  UNCHANGED notices
  BY <1>5 DEF Setting, SetPolicy, ResetPolicy, SetWatchlistPolicy, ClearWatchlistPolicy
<1>6. CASE World
  BY <1>1, <1>6 DEF World, Publish, Revise
<1>7. CASE UNCHANGED vars
  BY <1>1, <1>7 DEF vars
<1> QED
  BY <1>1, <1>2, <1>3, <1>4, <1>5, <1>6, <1>7 DEF Next

\* The settings a screen starts with agree with themselves, and it keeps them.
LEMMA GatheredStands ==
    ASSUME TypeOK, NEW w \in Screens, ReleaseStands(w),
           (\E reached \in SUBSET Docs : Gather(w, reached))
             \/ (\E d \in Docs : ReadSnapshot(w, d)) \/ Observe(w)
    PROVE  ReleaseStands(w)'
<1>1. ASSUME NEW reached \in SUBSET Docs, Gather(w, reached)
      PROVE  run'[w].at = "observing" /\ Consistent(run'[w].policy)
  BY <1>1, PolicyIsPolicy, Zenon DEF Gather, TypeOK
<1>2. ASSUME NEW d \in Docs, ReadSnapshot(w, d)
      PROVE  run'[w].at = "observing" /\ run'[w].policy = run[w].policy /\ run[w].at = "observing"
  <2>1. run[w] \in Observing /\ run[w].at = "observing"
    BY <1>2, RunIsRecord DEF ReadSnapshot
  <2> QED
    BY <1>2, <2>1 DEF ReadSnapshot, Observing, TypeOK
<1>3. ASSUME Observe(w)
      PROVE  run'[w].at = "observing" /\ run'[w].policy = run[w].policy /\ run[w].at = "observing"
  <2>1. run[w] \in Observing /\ run[w].at = "observing"
    BY <1>3, RunIsRecord DEF Observe
  <2>2. PICK row \in run[w].row :
            run' = [run EXCEPT ![w].row = {},
                               ![w].got = [x \in DOMAIN run[w].got \ {row.doc} |-> run[w].got[x]],
                               ![w].fired = @ \cup Fired(row.doc, row.seen, run[w].got[row.doc])]
    BY <1>3 DEF Observe
  <2> QED
    BY <2>1, <2>2 DEF Observing, TypeOK
<1>4. run'[w].at = "observing" /\ Consistent(run'[w].policy)
  BY <1>1, <1>2, <1>3 DEF ReleaseStands
<1> QED
  BY <1>4 DEF ReleaseStands

(* _screen_entity: such a release passes the filter, since settings that    *)
(* want it told look for its category, is not damped, and has its finding  *)
(* kept, whatever the finding's severity.                                  *)
LEMMA ConcludedStands ==
    ASSUME TypeOK, NEW w \in Screens, ReadingStands(w), ReleaseStands(w), Conclude(w)
    PROVE  ReleaseStands(w)'
<1>1. run[w] \in Observing /\ HomeOf[w] \in Workspaces /\ run[w].at = "observing"
  BY RunIsRecord DEF Conclude
<1> DEFINE policy == run[w].policy
<1> DEFINE seenBefore == onFile[HomeOf[w]] # {}
<1> DEFINE signals == Damped(FilterSignals(run[w].fired, policy), seenBefore)
<1>2. PICK severity \in Severities(signals) :
          run' = [run EXCEPT ![w] =
                    [at |-> "screened", policy |-> policy, fired |-> run[w].fired,
                     again |-> run[w].again, seenBefore |-> seenBefore,
                     finding |-> IF Kept(severity, signals, policy)
                                 THEN {[severity |-> severity, signals |-> signals]} ELSE {}]]
  BY DEF Conclude
<1> DEFINE finding == IF Kept(severity, signals, policy)
                      THEN {[severity |-> severity, signals |-> signals]} ELSE {}
<1>3. ASSUME seenBefore, NEW s \in Always(w)
      PROVE  \E f \in finding : s \in f.signals
  <2>1. /\ s \in run[w].fired /\ s \in Signals /\ Genuine(s) /\ s.new
        /\ s.event \in Releases /\ s.event \in policy.notice_always
    BY <1>1 DEF Always, Observing, ReadingStands
  <2>2. s.category = SourceOf(s.event)
    BY <2>1, EventsAssumption DEF Genuine, Signals, Releases
  <2>3. s.category \in policy.categories
    BY <1>1, <2>1, <2>2 DEF ReleaseStands, Consistent
  <2>4. s \in signals
    BY <1>3, <2>1, <2>3 DEF FilterSignals, Damped
  <2>5. Eligible(s, policy)
    BY <2>1 DEF Eligible
  <2> HIDE DEF signals, policy
  <2>6. Kept(severity, signals, policy)
    BY <2>4, <2>5 DEF Kept, CarriesEvent
  <2> QED
    BY <2>4, <2>6
<1> HIDE DEF finding, signals
<1>4. run'[w] = [at |-> "screened", policy |-> policy, fired |-> run[w].fired,
                 again |-> run[w].again, seenBefore |-> seenBefore, finding |-> finding]
  BY <1>2 DEF TypeOK, finding
<1>5. /\ run'[w].at = "screened" /\ run'[w].seenBefore = seenBefore
      /\ run'[w].finding = finding /\ Always(w)' = Always(w)
  BY <1>4 DEF Always
<1> QED
  BY <1>3, <1>5 DEF ReleaseStands

(* raise_notices: an event that is always wanted told and is not covered   *)
(* tips the finding, and the draft covers all of it.                       *)
LEMMA DecidedStands ==
    ASSUME TypeOK, NEW w \in Screens, ReleaseStands(w), Decide(w)
    PROVE  ReleaseStands(w)'
<1>1. run[w] \in Screened /\ HomeOf[w] \in Workspaces /\ run[w].at = "screened"
  BY RunIsRecord DEF Decide
<1> DEFINE asked == PolicyFor(HomeOf[w], w \in ByWatchlist)
<1> DEFINE tips(f) == DecideNotice(f.severity, f.signals, asked, Covered(HomeOf[w]))
<1> DEFINE drafts == {[status |-> "pending", evidence |-> Ids(f.signals), tipped |-> tips(f)] :
                         f \in {g \in run[w].finding : tips(g) # {}}}
<1>2. /\ run' = [run EXCEPT ![w] =
                    [at |-> "decided", policy |-> run[w].policy, asked |-> asked,
                     fired |-> run[w].fired, again |-> run[w].again,
                     seenBefore |-> run[w].seenBefore, drafts |-> drafts]]
      /\ UNCHANGED notices
  BY DEF Decide
<1> HIDE DEF asked
<1>3. ASSUME run[w].seenBefore, NEW s \in Always(w), s.event \in asked.notice_always,
             s.id \notin Covered(HomeOf[w])
      PROVE  \E n \in drafts : s.id \in n.evidence
  <2>1. PICK f \in run[w].finding : s \in f.signals
    BY <1>1, <1>3 DEF ReleaseStands
  <2>2. Eligible(s, asked)
    BY <1>3 DEF Eligible, Always
  <2>3. tips(f) # {}
    <3> DEFINE unseen == {x \in f.signals : x.id \notin Covered(HomeOf[w])}
    <3> DEFINE events == {x \in unseen : Eligible(x, asked)}
    <3>1. s \in events
      BY <1>3, <2>1, <2>2
    <3>2. tips(f) = Ids(events)
      BY <3>1, Zenon DEF DecideNotice
    <3> QED
      BY <3>1, <3>2 DEF Ids
  <2>4. s.id \in Ids(f.signals)
    BY <2>1 DEF Ids
  <2> HIDE DEF tips
  <2>5. [status |-> "pending", evidence |-> Ids(f.signals), tipped |-> tips(f)] \in drafts
    BY <2>3
  <2> QED
    BY <2>4, <2>5
<1> HIDE DEF drafts
<1>4. /\ run'[w].at = "decided" /\ run'[w].seenBefore = run[w].seenBefore
      /\ run'[w].drafts = drafts /\ run'[w].fired = run[w].fired
      /\ run'[w].policy = run[w].policy /\ run'[w].asked = asked
  BY <1>2 DEF TypeOK
<1>5. ASSUME NEW e \in NewReleases(w)'
      PROVE  \E s \in Always(w) : s.id = e /\ s.event \in asked.notice_always
  BY <1>4, <1>5 DEF NewReleases, Always
<1>6. Covered(HomeOf[w])' = Covered(HomeOf[w])
  BY <1>2 DEF Covered
<1> QED
  BY <1>3, <1>4, <1>5, <1>6 DEF ReleaseStands

\* A screen that has come to its end holds nothing.
LEMMA EndedStands ==
    ASSUME TypeOK, NEW w \in Screens, Raise(w) \/ Die(w)
    PROVE  ReleaseStands(w)'
<1>1. run'[w] = Idle
  BY RaiseNotices DEF Die, TypeOK
<1> QED
  BY <1>1 DEF ReleaseStands, Idle

\* What others do leaves a screen what it holds.
LEMMA UntouchedStands ==
    ASSUME TypeOK, [Next]_vars, NEW w \in Screens, ReleaseStands(w), run'[w] = run[w]
    PROVE  ReleaseStands(w)'
<1>1. HomeOf[w] \in Workspaces
  BY HomeAssumption
<1>2. Covered(HomeOf[w]) \subseteq Covered(HomeOf[w])'
  BY <1>1, CoveredGrows
<1>3. NewReleases(w)' = NewReleases(w) /\ Always(w)' = Always(w)
  BY DEF NewReleases, Always
<1> QED
  BY <1>2, <1>3 DEF ReleaseStands, Consistent

ReleasesStand == \A w \in Screens : ReleaseStands(w)

LEMMA ReleasesKept ==
    ASSUME IInv, ReleasesStand, [Next]_vars
    PROVE  ReleasesStand'
<1> SUFFICES ASSUME NEW w \in Screens
             PROVE  ReleaseStands(w)'
  BY DEF ReleasesStand
<1>1. TypeOK /\ ReadingStands(w) /\ ReleaseStands(w)
  BY DEF IInv, ScreensStand, ReleasesStand
<1>2. CASE Step(w) \/ Die(w)
  BY <1>1, <1>2, GatheredStands, ConcludedStands, DecidedStands, EndedStands DEF Step
<1>3. CASE run'[w] = run[w]
  BY <1>1, <1>3, UntouchedStands
<1>4. ASSUME NEW v \in Screens, v # w, Step(v) \/ Die(v)
      PROVE  run'[w] = run[w]
  BY <1>1, <1>4 DEF Step, Gather, ReadSnapshot, Observe, Conclude, Decide, Raise, Die, TypeOK
<1>5. ASSUME NEW t \in Workspaces, Setting(t)
      PROVE  UNCHANGED run
  BY <1>5 DEF Setting, SetPolicy, ResetPolicy, SetWatchlistPolicy, ClearWatchlistPolicy
<1>6. ASSUME NEW t \in Workspaces, NEW n \in notices[t], Review(t, n)
      PROVE  UNCHANGED run
  BY <1>6 DEF Review
<1>7. World => UNCHANGED run
  BY DEF World, Publish, Revise
<1>8. UNCHANGED vars => UNCHANGED run
  BY DEF vars
<1> QED
  BY <1>2, <1>3, <1>4, <1>5, <1>6, <1>7, <1>8 DEF Next

LEMMA RaisedIsTold ==
    ASSUME IInv, ReleasesStand, [Next]_vars, NEW w \in Screens, Raise(w), run[w].seenBefore
    PROVE  NewReleases(w) \subseteq Covered(HomeOf[w])'
<1>1. TypeOK /\ ReleaseStands(w) /\ run[w].at = "decided" /\ HomeOf[w] \in Workspaces
  BY RaiseNotices DEF IInv, ReleasesStand, Raise
<1>2. Covered(HomeOf[w]) \subseteq Covered(HomeOf[w])'
  BY <1>1, CoveredGrows
<1>3. \A n \in run[w].drafts : n.evidence \subseteq Covered(HomeOf[w])'
  <2>1. run[w].drafts \subseteq notices'[HomeOf[w]]
    BY <1>1, RaiseNotices DEF TypeOK
  <2> QED
    BY <2>1 DEF Covered
<1> QED
  BY <1>1, <1>2, <1>3 DEF ReleaseStands

(* What the settings page shows is what a run works under, a notice is of  *)
(* what the settings ask, a first screen is silent where it should be, and *)
(* a new release the settings always want told is told, for any settings   *)
(* sent at any moment of any screen (policy.py, _screen_entity,            *)
(* raise_notices).                                                         *)
THEOREM Told == Spec => ToldAsSet
<1>1. ASSUME TypeOK
      PROVE  [\A t \in Workspaces : \A body \in Overrides :
                listRow' # listRow /\ SetWatchlistPolicy(t, body) =>
                    PolicyFor(t, TRUE)' = Merge(Stored(tenantRow[t]), body)]_vars
  BY <1>1, SavedIsRead
<1>2. TypeOK => [\A t \in Workspaces : \A body \in Overrides :
                   listRow' # listRow /\ SetWatchlistPolicy(t, body) =>
                       PolicyFor(t, TRUE)' = Merge(Stored(tenantRow[t]), body)]_vars
  BY <1>1
<1>3. Init => ReleasesStand
  BY DEF Init, ReleasesStand, ReleaseStands, Idle
<1>4. IInv /\ ReleasesStand /\ [Next]_vars => ReleasesStand'
  BY ReleasesKept
<1>5. IInv /\ ReleasesStand /\ [Next]_vars =>
          [\A w \in Screens : Raise(w) /\ run[w].seenBefore =>
              NewReleases(w) \subseteq Covered(HomeOf[w])']_vars
  BY RaisedIsTold
<1>6. Spec => ShownIsApplied
  BY <1>2, ScreeningTypes, PTL DEF ShownIsApplied
<1>7. Spec => ReleaseIsTold
  BY <1>3, <1>4, <1>5, Invariant, PTL DEF Spec, ReleaseIsTold
<1> QED
  BY <1>6, <1>7, ToldAsAsked, BaselineIsSilent, PTL DEF ToldAsSet

----------------------------------------------------------------------------
(***************************************************************************)
(* What a finding is made of (risk/engine.py, Scoring): first what becomes *)
(* of a rule that a workspace has retired (apply_rule_settings).           *)
(***************************************************************************)

\* What one rule makes of what it reads, as a signal.
Signal(s, c, ipSensitive) ==
    LET score == Score(c.category, c.weight, IsNew(s), ipSensitive)
    IN  [rule |-> c.rule, category |-> c.category, foreign |-> c.foreign,
         about |-> {s.fact}, score |-> score, new |-> IsNew(s),
         severity |-> IF c.label = "" THEN Band(score) ELSE c.label]

\* Most rules make one claim of each fact they read.
LEMMA RulesClaimOnce ==
    ASSUME NEW f
    PROVE  /\ \E k : IpCollateral(f) = {k}
           /\ \E k : IpTransfer(f) = {k}
           /\ \E k : UsptoSecurityInterest(f) = {k}
           /\ \E k : ContractStructural(f) = {k}
           /\ \E k : ContractChanges(f) = {k}
           /\ \E k : SanctionsHit(f) = {k}
           /\ \E k : SamExclusion(f) = {k}
           /\ \E k : AdviserForeignDomicile(f) = {k}
           /\ \E k : OwnershipForeignHolder(f) = {k}
           /\ \E k : Edgar8KItems(f) = {k}
<1>1. \E k : IpCollateral(f) = {k}
  BY Zenon DEF IpCollateral
<1>2. \E k : IpTransfer(f) = {k}
  BY Zenon DEF IpTransfer
<1>3. \E k : UsptoSecurityInterest(f) = {k}
  BY Zenon DEF UsptoSecurityInterest
<1>4. \E k : ContractStructural(f) = {k}
  BY Zenon DEF ContractStructural
<1>5. \E k : ContractChanges(f) = {k}
  BY Zenon DEF ContractChanges
<1>6. \E k : SanctionsHit(f) = {k}
  BY Zenon DEF SanctionsHit
<1>7. \E k : SamExclusion(f) = {k}
  BY Zenon DEF SamExclusion
<1>8. \E k : AdviserForeignDomicile(f) = {k}
  BY Zenon DEF AdviserForeignDomicile
<1>9. \E k : OwnershipForeignHolder(f) = {k}
  BY Zenon DEF OwnershipForeignHolder
<1>10. \E k : Edgar8KItems(f) = {k}
  BY Zenon DEF Edgar8KItems
<1>11. QED
  BY <1>1, <1>2, <1>3, <1>4, <1>5, <1>6, <1>7, <1>8, <1>9, <1>10, Zenon

\* Of one fact at most one rule speaks, and once.
LEMMA OneClaim ==
    ASSUME NEW f, f.kind \in FactKinds, NEW c \in Claims(f), NEW d \in Claims(f)
    PROVE  c = d
<1>1. CASE f.kind = "jurisdiction"
  <2>1. Claims(f) = FociJurisdiction(f)
    BY <1>1 DEF Claims
  <2>2. FociJurisdiction(f) = {} \/ \E k : FociJurisdiction(f) = {k}
    BY DEF FociJurisdiction
  <2>3. QED
    BY <2>1, <2>2
<1>2. CASE f.kind # "jurisdiction"
  <2>1. \E k : Claims(f) = {k}
    BY <1>2, RulesClaimOnce DEF Claims, FactKinds
  <2>2. QED
    BY <2>1
<1>3. QED
  BY <1>1, <1>2

\* What is found is what the claims on each fact come to.
LEMMA EvaluatedIs ==
    ASSUME NEW seen, NEW ipSensitive, NEW x
    PROVE  x \in Evaluated(seen, ipSensitive)
              <=> \E s \in seen : \E c \in Claims(s.fact) : x = Signal(s, c, ipSensitive)
<1>1. Evaluated(seen, ipSensitive) = UNION {{Signal(s, c, ipSensitive) : c \in Claims(s.fact)} : s \in seen}
  BY Zenon DEF Evaluated, Signal
<1>2. QED
  BY <1>1

\* The settings of all rules but one.
Without(given, rule) == [q \in DOMAIN given \ {rule} |-> given[q]]
Allowed(signals, given) ==
    {x \in signals : x.rule \in DOMAIN given => given[x.rule].enabled}
Weighed(s, given) == IF s.rule \in DOMAIN given THEN Rescaled(s, given[s.rule]) ELSE s

\* A signal stays unless its rule is disabled, with the weight its rule is given.
LEMMA SettingsApplied ==
    ASSUME NEW signals, NEW given
    PROVE  ApplyRuleSettings(signals, given)
              = {Weighed(s, given) : s \in Allowed(signals, given)}
BY Zenon DEF ApplyRuleSettings, Weighed, Allowed

\* To apply the settings to what was found is to have read nothing that the rule claims.
LEMMA RetiredIsUnread ==
    ASSUME NEW seen, \A s \in seen : s.fact.kind \in FactKinds,
           NEW given, NEW rule, rule \in DOMAIN given, ~given[rule].enabled,
           NEW ipSensitive
    PROVE  ApplyRuleSettings(Evaluated(seen, ipSensitive), given)
              = ApplyRuleSettings(Evaluated({s \in seen : rule \notin RulesOf(s)}, ipSensitive),
                                  Without(given, rule))
<1> DEFINE unread == {s \in seen : rule \notin RulesOf(s)}
           others == Without(given, rule)
           E == Evaluated(seen, ipSensitive)
           U == Evaluated(unread, ipSensitive)
<1>1. DOMAIN others = DOMAIN given \ {rule}
      /\ \A q \in DOMAIN given \ {rule} : others[q] = given[q]
  BY DEF Without
<1> HIDE DEF others
<1>2. ASSUME NEW x
      PROVE  x \in U <=> x \in E /\ x.rule # rule
  <2>1. ASSUME NEW s \in seen, NEW c \in Claims(s.fact), x = Signal(s, c, ipSensitive)
        PROVE  x.rule = c.rule /\ (c.rule # rule <=> s \in unread)
    <3>1. x.rule = c.rule
      BY <2>1 DEF Signal
    <3>2. \A d \in Claims(s.fact) : d = c
      BY OneClaim, Zenon
    <3>3. RulesOf(s) = {c.rule}
      BY <3>2 DEF RulesOf
    <3>4. QED
      BY <3>1, <3>3
  <2>2. ASSUME x \in U PROVE x \in E /\ x.rule # rule
    <3>1. PICK s \in unread : \E c \in Claims(s.fact) : x = Signal(s, c, ipSensitive)
      BY <2>2, EvaluatedIs DEF U
    <3>2. PICK c \in Claims(s.fact) : x = Signal(s, c, ipSensitive)
      BY <3>1
    <3>3. s \in seen
      OBVIOUS
    <3>4. x \in E
      BY <3>2, <3>3, EvaluatedIs, Zenon
    <3>5. QED
      BY <3>2, <3>3, <3>4, <2>1
  <2>3. ASSUME x \in E, x.rule # rule PROVE x \in U
    <3>1. PICK s \in seen : \E c \in Claims(s.fact) : x = Signal(s, c, ipSensitive)
      BY <2>3, EvaluatedIs DEF E
    <3>2. PICK c \in Claims(s.fact) : x = Signal(s, c, ipSensitive)
      BY <3>1
    <3>3. s \in unread
      BY <2>1, <2>3, <3>2
    <3>4. QED
      BY <3>2, <3>3, EvaluatedIs, Zenon
  <2>4. QED
    BY <2>2, <2>3
<1> HIDE DEF E, U
<1>3. Allowed(E, given) = Allowed(U, others)
  BY <1>1, <1>2 DEF Allowed
<1>4. ASSUME NEW x \in Allowed(U, others)
      PROVE  Weighed(x, given) = Weighed(x, others)
  <2>1. x.rule # rule
    BY <1>2 DEF Allowed
  <2>2. QED
    BY <2>1, <1>1 DEF Weighed
<1>5. {Weighed(s, given) : s \in Allowed(E, given)}
        = {Weighed(s, others) : s \in Allowed(U, others)}
  BY <1>3, <1>4
<1>6. QED
  BY <1>5, SettingsApplied, Zenon DEF E, U, others

\* A rule that is disabled leaves no trace in a finding: neither by itself, nor in the
\* compound rule, nor in the sum or its cap.  It is as if there had been nothing for it
\* to read, whatever the other rules' settings, on a first screen and on later ones
\* (apply_rule_settings: "a disabled rule cannot reach the compound rule either").
THEOREM RetiredLeavesNoTrace ==
    ASSUME NEW seen, \A s \in seen : s.fact.kind \in FactKinds,
           NEW given, NEW rule, rule \in DOMAIN given, ~given[rule].enabled,
           NEW categories, NEW seenBefore \in BOOLEAN, NEW ipSensitive \in BOOLEAN
    PROVE  ScreenEntity(seen, given, categories, seenBefore, ipSensitive)
              = ScreenEntity({s \in seen : rule \notin RulesOf(s)}, Without(given, rule),
                             categories, seenBefore, ipSensitive)
<1>1. ApplyRuleSettings(Evaluated(seen, ipSensitive), given)
        = ApplyRuleSettings(Evaluated({s \in seen : rule \notin RulesOf(s)}, ipSensitive),
                            Without(given, rule))
  BY RetiredIsUnread
<1>2. QED
  BY <1>1, Zenon DEF ScreenEntity

----------------------------------------------------------------------------
(***************************************************************************)
(* Signals can be put in order, the heaviest first: each goes to the place *)
(* after all that go before it.                                            *)
(***************************************************************************)
LEMMA OrderExists ==
    ASSUME NEW S, IsFiniteSet(S), \A s \in S : s.score \in Int
    PROVE  \E order \in [1..Cardinality(S) -> S] :
               \A i, j \in 1..Cardinality(S) :
                   i < j => order[i] # order[j] /\ order[i].score >= order[j].score
<1> DEFINE n == Cardinality(S)
           D == 1..n
<1>1. n \in Nat /\ ExistsBijection(D, S)
  BY FS_CardinalityType
<1>2. PICK f \in Bijection(D, S) : TRUE
  BY <1>1 DEF ExistsBijection
<1> HIDE DEF n
<1>3. f \in [D -> S] /\ \A i, j \in D : f[i] = f[j] => i = j
  BY <1>2 DEF Bijection, Injection, IsInjective
<1> DEFINE Before(i, j) == f[i].score > f[j].score \/ (f[i].score = f[j].score /\ i < j)
           Those(j) == {i \in D : Before(i, j)}
           pos == [j \in D |-> Cardinality(Those(j)) + 1]
<1>4. IsFiniteSet(D) /\ Cardinality(D) = n
  BY <1>1, FS_Interval
<1>5. \A i \in D : f[i].score \in Int
  BY <1>3
<1>6. ASSUME NEW j \in D
      PROVE  IsFiniteSet(Those(j)) /\ Cardinality(Those(j)) \in Nat /\ pos[j] \in D
  <2>1. Those(j) \subseteq D \ {j}
    BY <1>5
  <2>2. IsFiniteSet(D \ {j}) /\ Cardinality(D \ {j}) = n - 1
    BY <1>1, <1>4, FS_RemoveElement
  <2>3. IsFiniteSet(Those(j)) /\ Cardinality(Those(j)) <= n - 1
    BY <2>1, <2>2, FS_Subset
  <2>4. Cardinality(Those(j)) \in Nat
    BY <2>3, FS_CardinalityType
  <2>5. QED
    BY <2>3, <2>4, <1>1
<1>7. ASSUME NEW i \in D, NEW j \in D, Before(i, j)
      PROVE  pos[i] < pos[j]
  <2>1. Those(i) \subseteq Those(j) /\ i \in Those(j) /\ i \notin Those(i)
    BY <1>5, <1>7
  <2>2. IsFiniteSet(Those(j) \ {i}) /\ Cardinality(Those(j) \ {i}) = Cardinality(Those(j)) - 1
    BY <2>1, <1>6, FS_RemoveElement
  <2>3. Those(i) \subseteq Those(j) \ {i}
    BY <2>1
  <2>4. Cardinality(Those(i)) <= Cardinality(Those(j)) - 1
    BY <2>2, <2>3, FS_Subset
  <2>5. Cardinality(Those(i)) \in Nat /\ Cardinality(Those(j)) \in Nat
    BY <1>6
  <2>6. pos[i] = Cardinality(Those(i)) + 1 /\ pos[j] = Cardinality(Those(j)) + 1
    BY Zenon
  <2>7. QED
    BY <2>4, <2>5, <2>6
<1>8. \A i, j \in D : i # j => Before(i, j) \/ Before(j, i)
  BY <1>5
<1> HIDE DEF Before, pos
<1>9. pos \in Injection(D, D)
  <2>1. pos \in [D -> D]
    BY <1>6 DEF pos
  <2>2. ASSUME NEW i \in D, NEW j \in D, pos[i] = pos[j], i # j PROVE FALSE
    <3>1. pos[i] < pos[j] \/ pos[j] < pos[i]
      BY <2>2, <1>7, <1>8
    <3>2. pos[i] \in Int /\ pos[j] \in Int
      BY <2>1, <1>1
    <3>3. QED
      BY <3>1, <3>2, <2>2
  <2>3. QED
    BY <2>1, <2>2 DEF Injection, IsInjective
<1>10. pos \in Surjection(D, D)
  BY <1>9, <1>4, FS_Injection
<1> DEFINE who == [k \in D |-> CHOOSE i \in D : pos[i] = k]
           order == [k \in D |-> f[who[k]]]
<1>11. \A k \in D : who[k] \in D /\ pos[who[k]] = k
  <2>1. \A k \in D : \E i \in D : pos[i] = k
    BY <1>10 DEF Surjection
  <2>2. QED
    BY <2>1
<1> HIDE DEF who
<1>12. order \in [D -> S]
  BY <1>3, <1>11
<1>13. ASSUME NEW k \in D, NEW l \in D, k < l
       PROVE  order[k] # order[l] /\ order[k].score >= order[l].score
  <2>1. who[k] \in D /\ who[l] \in D /\ who[k] # who[l] /\ ~(pos[who[l]] < pos[who[k]])
    BY <1>11, <1>13, <1>1
  <2>2. Before(who[k], who[l])
    BY <2>1, <1>7, <1>8
  <2>3. f[who[k]].score >= f[who[l]].score
    BY <2>1, <2>2, <1>5 DEF Before
  <2>4. f[who[k]] # f[who[l]]
    BY <2>1, <1>3
  <2>5. order[k] = f[who[k]] /\ order[l] = f[who[l]]
    OBVIOUS
  <2>6. QED
    BY <2>3, <2>4, <2>5, Zenon
<1> HIDE DEF order, D
<1>14. QED
  BY <1>12, <1>13 DEF n, D

\* What build_finding puts in order is each signal once.
LEMMA HeaviestFirst ==
    ASSUME NEW S, IsFiniteSet(S), \A s \in S : s.score \in Int
    PROVE  /\ Heaviest(S) \in [1..Cardinality(S) -> S]
           /\ \A i, j \in 1..Cardinality(S) : i < j => Heaviest(S)[i] # Heaviest(S)[j]
<1> DEFINE D == 1..Cardinality(S)
           Sorts(order) == \A i, j \in DOMAIN order :
                               i < j => order[i] # order[j] /\ order[i].score >= order[j].score
<1>1. \E order \in [D -> S] : Sorts(order)
  <2>1. PICK order \in [D -> S] : \A i, j \in D :
                   i < j => order[i] # order[j] /\ order[i].score >= order[j].score
    BY OrderExists
  <2>2. DOMAIN order = D
    OBVIOUS
  <2>3. QED
    BY <2>1, <2>2
<1>2. Heaviest(S) = CHOOSE order \in [D -> S] : Sorts(order)
  BY DEF Heaviest
<1> HIDE DEF Sorts
<1>3. Heaviest(S) \in [D -> S] /\ Sorts(Heaviest(S))
  BY <1>1, <1>2
<1>4. DOMAIN Heaviest(S) = D
  BY <1>3
<1>5. QED
  BY <1>3, <1>4 DEF Sorts

----------------------------------------------------------------------------
(***************************************************************************)
(* The scores and severities of what the rules find.                       *)
(***************************************************************************)
Weights == Nat \X (Nat \ {0})
Scored == {"FOCI", "IP_COLLATERAL", "IP_TRANSFER", "SANCTIONS", "STRUCTURE"}

\* Weights are fractions, and stay so.
LEMMA TimesType ==
    ASSUME NEW a \in Weights, NEW b \in Weights
    PROVE  Times(a, b) \in Weights
<1>1. a[1] \in Nat /\ b[1] \in Nat /\ a[2] \in Nat \ {0} /\ b[2] \in Nat \ {0}
  BY DEF Weights
<1>2. a[1] * b[1] \in Nat
  BY <1>1
<1>3. a[2] * b[2] \in Nat \ {0}
  BY <1>1
<1>4. QED
  BY <1>2, <1>3 DEF Times, Weights

LEMMA TierWeight == \A tier \in Tiers : JurisdictionMultiplier(tier) \in Weights
BY DEF Tiers, JurisdictionMultiplier, Weights

LEMMA RoundedType ==
    ASSUME NEW n \in Nat, NEW d \in Nat \ {0}
    PROVE  Rounded(n, d) \in Int
BY DEF Rounded

LEMMA CaveatsWeight == \A caveats : EvidenceWeight(caveats) \in Weights
<1> SUFFICES ASSUME NEW caveats PROVE EvidenceWeight(caveats) \in Weights
  OBVIOUS
<1> DEFINE a == IF "periodic" \in caveats THEN <<7, 20>> ELSE <<1, 1>>
           b == IF "hedged" \in caveats THEN <<1, 2>> ELSE <<1, 1>>
           c == IF "definition" \in caveats THEN <<2, 5>> ELSE <<1, 1>>
<1>1. a \in Weights /\ b \in Weights /\ c \in Weights
  BY DEF Weights
<1>2. EvidenceWeight(caveats) = Times(a, Times(b, c))
  BY Zenon DEF EvidenceWeight
<1> HIDE DEF a, b, c
<1>3. QED
  BY <1>1, <1>2, TimesType

\* What a claim says of a category, and of a severity where it has its own.
ClaimFit(c) == /\ c.category \in Scored
               /\ c.weight \in Weights
               /\ c.label \in {""} \cup SEVERITIES

LEMMA ClaimIsFit ==
    ASSUME NEW rule, NEW category \in Scored, NEW weight \in Weights, NEW foreign
    PROVE  ClaimFit(Claim(rule, category, weight, foreign))
BY DEF Claim, ClaimFit

\* Whatever the branch a rule takes.
LEMMA ClaimsFit ==
    ASSUME NEW f, WellFormed(f), NEW c \in Claims(f)
    PROVE  ClaimFit(c)
<1> USE DEF Scored
<1>1. Tiered(f) => JurisdictionMultiplier(f.tier) \in Weights
  BY TierWeight DEF WellFormed
<1>2. EvidenceWeight(f.caveats) \in Weights
  BY CaveatsWeight
<1>3. \A n \in Nat, d \in Nat \ {0} : <<n, d>> \in Weights
  BY DEF Weights
<1>4. <<7, 10>> \in Weights /\ <<9, 20>> \in Weights /\ <<1, 1>> \in Weights
      /\ <<13, 10>> \in Weights /\ <<4, 5>> \in Weights /\ <<3, 2>> \in Weights
      /\ <<2, 1>> \in Weights /\ <<5, 2>> \in Weights /\ <<6, 5>> \in Weights
      /\ <<13, 5>> \in Weights /\ <<8, 5>> \in Weights /\ <<9, 10>> \in Weights
      /\ <<3, 10>> \in Weights /\ <<3, 5>> \in Weights /\ <<7, 5>> \in Weights
  BY <1>3
<1>5. CASE f.kind = "jurisdiction"
  <2>1. JurisdictionMultiplier(f.tier) \in Weights
    BY <1>1, <1>5 DEF Tiered
  <2>2. Times(JurisdictionMultiplier(f.tier), <<7, 10>>) \in Weights
        /\ Times(JurisdictionMultiplier(f.tier), EvidenceWeight(f.caveats)) \in Weights
        /\ Times(JurisdictionMultiplier(f.tier), Times(<<9, 20>>, EvidenceWeight(f.caveats)))
              \in Weights
    BY <2>1, <1>2, <1>4, TimesType
  <2>3. c \in FociJurisdiction(f)
    BY <1>5 DEF Claims
  <2>4. QED
    BY <2>2, <2>3, ClaimIsFit DEF FociJurisdiction
<1>6. CASE f.kind = "lien"
  <2>1. c = Claim("IPCOL-01", "IP_COLLATERAL",
                  Times(IF f.strong THEN <<1, 1>> ELSE <<9, 20>>, EvidenceWeight(f.caveats)), FALSE)
    BY <1>6 DEF Claims, IpCollateral
  <2>2. (IF f.strong THEN <<1, 1>> ELSE <<9, 20>>) \in Weights
    BY <1>4
  <2>3. QED
    BY <2>1, <2>2, <1>2, TimesType, ClaimIsFit
<1>7. CASE f.kind = "transfer"
  <2>1. c = Claim("IPXFER-01", "IP_TRANSFER",
                  Times(IF f.distress THEN <<13, 10>> ELSE <<4, 5>>, EvidenceWeight(f.caveats)), FALSE)
    BY <1>7 DEF Claims, IpTransfer
  <2>2. (IF f.distress THEN <<13, 10>> ELSE <<4, 5>>) \in Weights
    BY <1>4
  <2>3. QED
    BY <2>1, <2>2, <1>2, TimesType, ClaimIsFit
<1>8. CASE f.kind = "conveyance"
  <2>1. Times(<<3, 2>>, JurisdictionMultiplier(f.tier)) \in Weights
    BY <1>1, <1>4, <1>8, TimesType DEF Tiered
  <2>2. QED
    BY <1>8, <2>1, ClaimIsFit DEF Claims, UsptoSecurityInterest
<1>9. CASE f.kind = "award"
  <2>1. f.says = "country" => JurisdictionMultiplier(f.tier) \in Weights
    BY <1>1, <1>9 DEF Tiered
  <2>2. f.says \in {"country", "foreign owned", "government", "funds"}
    BY <1>9 DEF WellFormed
  <2>3. QED
    BY <1>9, <2>1, <2>2, <1>4, ClaimIsFit DEF Claims, ContractStructural
<1>10. CASE f.kind = "change"
  <2>1. f.moved = "country" => (IF f.tier = "none" THEN <<4, 5>> ELSE JurisdictionMultiplier(f.tier)) \in Weights
    BY <1>1, <1>4, <1>10 DEF Tiered
  <2>2. f.moved \in {"holder", "country", "owned"}
    BY <1>10 DEF WellFormed
  <2>3. QED
    BY <1>10, <2>1, <2>2, <1>4, ClaimIsFit DEF Claims, ContractChanges
<1>11. CASE f.kind = "list"
  <2> DEFINE grade == IF f.whose = "contractor" THEN <<1, 1>> ELSE <<4, 5>>
             kind == IF f.match # "exact" /\ f.abroad THEN "abroad" ELSE f.match
             graded(rule, severity, weight) ==
                 [Claim(rule, "SANCTIONS", Times(weight, grade), FALSE) EXCEPT !.label = severity]
  <2>1. kind \in {"exact", "core", "variant", "abroad"}
    BY <1>11 DEF WellFormed
  <2>2. grade \in Weights
    BY <1>4
  <2>3. c \in {CASE kind = "exact" -> graded("SANCTION-01", "critical", <<13, 5>>)
                 [] kind = "core" -> graded("SANCTION-02", "high", <<8, 5>>)
                 [] kind = "variant" -> graded("SANCTION-03", "medium", <<9, 10>>)
                 [] kind = "abroad" -> graded("SANCTION-04", "low", <<3, 10>>)}
    <3>1. c \in SanctionsHit(f)
      BY <1>11 DEF Claims
    <3>2. QED
      BY <3>1, Zenon DEF SanctionsHit
  <2> HIDE DEF grade, kind
  <2>4. ASSUME NEW rule, NEW severity \in SEVERITIES, NEW weight \in Weights
        PROVE  ClaimFit(graded(rule, severity, weight))
    <3>1. Times(weight, grade) \in Weights
      BY <2>2, TimesType
    <3>2. QED
      BY <3>1 DEF Claim, ClaimFit
  <2> HIDE DEF graded
  <2>5. \/ c = graded("SANCTION-01", "critical", <<13, 5>>)
        \/ c = graded("SANCTION-02", "high", <<8, 5>>)
        \/ c = graded("SANCTION-03", "medium", <<9, 10>>)
        \/ c = graded("SANCTION-04", "low", <<3, 10>>)
    BY <2>1, <2>3
  <2>6. QED
    BY <2>4, <2>5, <1>4 DEF SEVERITIES
<1>12. CASE f.kind = "exclusion"
  <2>1. f.by \in {"parent", "identifier", "name"}
    BY <1>12 DEF WellFormed
  <2>2. QED
    BY <1>12, <2>1, <1>4, ClaimIsFit DEF Claims, SamExclusion
<1>13. CASE f.kind = "adviser"
  <2>1. Times(JurisdictionMultiplier(f.tier), <<4, 5>>) \in Weights
    BY <1>1, <1>4, <1>13, TimesType DEF Tiered
  <2>2. QED
    BY <1>13, <2>1, ClaimIsFit DEF Claims, AdviserForeignDomicile
<1>14. CASE f.kind = "holder"
  <2> DEFINE may == IF f.active THEN <<1, 1>> ELSE <<3, 5>>
  <2>1. may \in Weights
    BY <1>4
  <2>2. c = Claim("FOCI-OWNER-01", "FOCI", Times(JurisdictionMultiplier(f.tier), may), TRUE)
    BY <1>14 DEF Claims, OwnershipForeignHolder
  <2> HIDE DEF may
  <2>3. Times(JurisdictionMultiplier(f.tier), may) \in Weights
    BY <1>1, <2>1, <1>14, TimesType DEF Tiered
  <2>4. QED
    BY <2>2, <2>3, ClaimIsFit
<1>15. CASE f.kind = "item"
  <2>1. f.item \in {"5.01", "1.03", "2.03", "3.02"}
    BY <1>15 DEF WellFormed
  <2>2. EIGHT_K_ITEMS[f.item] \in {<<"FOCI", <<2, 1>>>>, <<"IP_TRANSFER", <<2, 1>>>>,
                                   <<"IP_COLLATERAL", <<7, 5>>>>, <<"FOCI", <<6, 5>>>>}
    BY <2>1 DEF EIGHT_K_ITEMS
  <2>3. EIGHT_K_ITEMS[f.item][1] \in Scored /\ EIGHT_K_ITEMS[f.item][2] \in Weights
    BY <2>2, <1>4
  <2>4. QED
    BY <1>15, <2>3, ClaimIsFit DEF Claims, Edgar8KItems
<1>16. QED
  BY <1>5, <1>6, <1>7, <1>8, <1>9, <1>10, <1>11, <1>12, <1>13, <1>14, <1>15
     DEF WellFormed, FactKinds

\* The severities and their places.
LEMMA RanksOfSeverities ==
    /\ \A severity \in SEVERITIES : Rank(severity) \in 1..5
    /\ Rank("info") = 1 /\ Rank("medium") = 3
    /\ \A r \in 1..5 : Rank(SEVERITY_ORDER[r]) = r /\ SEVERITY_ORDER[r] \in SEVERITIES
<1>1. /\ SEVERITY_ORDER[1] = "info" /\ SEVERITY_ORDER[2] = "low" /\ SEVERITY_ORDER[3] = "medium"
      /\ SEVERITY_ORDER[4] = "high" /\ SEVERITY_ORDER[5] = "critical"
  BY DEF SEVERITY_ORDER
<1>2. \A i \in 1..5 : i = 1 \/ i = 2 \/ i = 3 \/ i = 4 \/ i = 5
  OBVIOUS
<1>3. \A i, j \in 1..5 : SEVERITY_ORDER[i] = SEVERITY_ORDER[j] => i = j
  BY <1>1, <1>2
<1>4. \A r \in 1..5 : Rank(SEVERITY_ORDER[r]) = r
  <2> SUFFICES ASSUME NEW r \in 1..5 PROVE Rank(SEVERITY_ORDER[r]) = r
    OBVIOUS
  <2>1. \A i \in 1..5 : SEVERITY_ORDER[i] = SEVERITY_ORDER[r] => i = r
    BY <1>3
  <2> DEFINE place == SEVERITY_ORDER[r]
  <2>2. SEVERITY_ORDER[r] = place
    OBVIOUS
  <2>3. \A i \in 1..5 : SEVERITY_ORDER[i] = place => i = r
    BY <2>1
  <2> HIDE DEF place
  <2>4. Rank(place) = r
    BY <2>2, <2>3 DEF Rank
  <2>5. QED
    BY <2>4 DEF place
<1>5. \A r \in 1..5 : SEVERITY_ORDER[r] \in SEVERITIES
  BY <1>1, <1>2 DEF SEVERITIES
<1>6. \A severity \in SEVERITIES : Rank(severity) \in 1..5
  BY RankIsPlace
<1>7. Rank("info") = 1 /\ Rank("medium") = 3
  BY <1>1, <1>4
<1>8. QED
  BY <1>4, <1>5, <1>6, <1>7

\* A score has a band.
LEMMA BandType == \A score : Band(score) \in SEVERITIES
<1> SUFFICES ASSUME NEW score PROVE Band(score) \in SEVERITIES
  OBVIOUS
<1> DEFINE reached == {i \in DOMAIN SEVERITY_BANDS : score >= SEVERITY_BANDS[i][1]}
           first == CHOOSE i \in reached : \A j \in reached : i <= j
<1>1. reached \subseteq {1, 2, 3, 4}
  BY DEF SEVERITY_BANDS
<1>2. \A i \in {1, 2, 3, 4} : SEVERITY_BANDS[i][2] \in SEVERITIES
  BY DEF SEVERITY_BANDS, SEVERITIES
<1> HIDE DEF reached
<1>3. ASSUME reached # {} PROVE first \in reached
  <2>1. \E i \in reached : \A j \in reached : i <= j
    <3>1. CASE 1 \in reached
      BY <3>1, <1>1
    <3>2. CASE 1 \notin reached /\ 2 \in reached
      BY <3>2, <1>1
    <3>3. CASE 1 \notin reached /\ 2 \notin reached /\ 3 \in reached
      BY <3>3, <1>1
    <3>4. CASE 1 \notin reached /\ 2 \notin reached /\ 3 \notin reached
      <4>1. reached = {4}
        BY <3>4, <1>1, <1>3
      <4>2. QED
        BY <4>1
    <3>5. QED
      BY <3>1, <3>2, <3>3, <3>4
  <2>2. QED
    BY <2>1
<1>4. Band(score) = IF reached = {} THEN "info" ELSE SEVERITY_BANDS[first][2]
  BY DEF Band, reached
<1> HIDE DEF first
<1>5. QED
  BY <1>1, <1>2, <1>3, <1>4 DEF SEVERITIES

LEMMA ScoreType ==
    ASSUME NEW category \in Scored, NEW weight \in Weights, NEW new, NEW ipSensitive
    PROVE  Score(category, weight, new, ipSensitive) \in Int
<1> DEFINE base == BASE_WEIGHTS(category)
           fresh == IF new THEN 16 ELSE 10
           n == 100 * base * weight[1] * fresh
           threatened == ipSensitive /\ category \in {"IP_COLLATERAL", "IP_TRANSFER"}
           harm == IF threatened THEN 14 ELSE 10
<1>1. base \in Nat
  BY DEF BASE_WEIGHTS, Scored
<1>2. weight[1] \in Nat /\ weight[2] * 100 \in Nat \ {0}
  BY DEF Weights
<1>3. fresh \in Nat /\ harm \in Nat
  OBVIOUS
<1>4. Score(category, weight, new, ipSensitive) = Rounded(n * harm, weight[2] * 100)
  BY Zenon DEF Score
<1> HIDE DEF base, fresh, harm
<1>5. 100 * base * weight[1] \in Nat
  BY <1>1, <1>2
<1>6. n \in Nat
  BY <1>3, <1>5
<1> HIDE DEF n
<1>7. n * harm \in Nat
  BY <1>3, <1>6
<1>8. QED
  BY <1>2, <1>4, <1>7, RoundedType

\* A score to order by, a severity, a category.
SignalFit(x) == x.score \in Int /\ x.severity \in SEVERITIES /\ x.category \in Scored

\* Of finitely much that is read there are finitely many signals, each with a score.
LEMMA EvaluatedFits ==
    ASSUME NEW seen, IsFiniteSet(seen), \A s \in seen : WellFormed(s.fact), NEW ipSensitive
    PROVE  /\ IsFiniteSet(Evaluated(seen, ipSensitive))
           /\ \A x \in Evaluated(seen, ipSensitive) : SignalFit(x)
<1> DEFINE E == Evaluated(seen, ipSensitive)
           read == {s \in seen : Claims(s.fact) # {}}
           claim(s) == CHOOSE c \in Claims(s.fact) : TRUE
           f == [s \in read |-> Signal(s, claim(s), ipSensitive)]
<1>1. \A x \in E : SignalFit(x)
  <2>1. SUFFICES ASSUME NEW x \in E PROVE SignalFit(x)
    OBVIOUS
  <2>2. PICK s \in seen : \E c \in Claims(s.fact) : x = Signal(s, c, ipSensitive)
    BY EvaluatedIs
  <2>3. PICK c \in Claims(s.fact) : x = Signal(s, c, ipSensitive)
    BY <2>2
  <2>4. ClaimFit(c)
    BY ClaimsFit
  <2>5. Score(c.category, c.weight, IsNew(s), ipSensitive) \in Int
    BY <2>4, ScoreType DEF ClaimFit
  <2>6. x.score = Score(c.category, c.weight, IsNew(s), ipSensitive) /\ x.category = c.category
        /\ x.severity = IF c.label = "" THEN Band(x.score) ELSE c.label
    BY <2>3 DEF Signal
  <2>7. x.severity \in SEVERITIES
    BY <2>4, <2>6, BandType DEF ClaimFit
  <2>8. QED
    BY <2>4, <2>5, <2>6, <2>7 DEF ClaimFit, SignalFit
<1>2. IsFiniteSet(read)
  <2>1. read \subseteq seen
    OBVIOUS
  <2>2. QED
    BY <2>1, FS_Subset
<1>3. \A s \in read : claim(s) \in Claims(s.fact)
  OBVIOUS
<1>4. \A s \in read : \A c \in Claims(s.fact) : c = claim(s)
  <2>1. SUFFICES ASSUME NEW s \in read, NEW c \in Claims(s.fact) PROVE c = claim(s)
    OBVIOUS
  <2>2. s.fact.kind \in FactKinds
    BY DEF WellFormed
  <2>3. QED
    BY <2>2, <1>3, OneClaim
<1> HIDE DEF claim
<1>5. f \in [read -> E]
  <2>1. \A s \in read : Signal(s, claim(s), ipSensitive) \in E
    BY <1>3, EvaluatedIs
  <2> HIDE DEF E, read
  <2>2. QED
    BY <2>1
<1>6. \A x \in E : \E s \in read : f[s] = x
  <2>1. SUFFICES ASSUME NEW x \in E PROVE \E s \in read : f[s] = x
    OBVIOUS
  <2>2. PICK s \in seen : \E c \in Claims(s.fact) : x = Signal(s, c, ipSensitive)
    BY EvaluatedIs
  <2>3. PICK c \in Claims(s.fact) : x = Signal(s, c, ipSensitive)
    BY <2>2
  <2>4. s \in read /\ c = claim(s)
    BY <1>4
  <2> HIDE DEF E, read
  <2>5. f[s] = x
    BY <2>3, <2>4
  <2>6. QED
    BY <2>4, <2>5
<1> HIDE DEF f, read, E
<1>7. f \in Surjection(read, E)
  BY <1>5, <1>6 DEF Surjection
<1>8. IsFiniteSet(E)
  BY <1>2, <1>7, FS_Surjection
<1>9. QED
  BY <1>1, <1>8 DEF E

\* Where no rule has a setting, the finding is of all that was found.
LEMMA LookedIs ==
    ASSUME NEW seen, \A x \in Evaluated(seen, FALSE) : x.category \in Scored
    PROVE  Looked(seen, << >>) = Finding(Evaluated(seen, FALSE))
<1> DEFINE E == Evaluated(seen, FALSE)
           set == ApplyRuleSettings(E, << >>)
           wanted == {s \in set : s.category \in CATEGORIES}
<1>1. DOMAIN << >> = {}
  OBVIOUS
<1>2. set = E
  <2> DEFINE none == << >>
  <2>1. Allowed(E, none) = E
    BY <1>1, Zenon DEF Allowed
  <2>2. \A s : Weighed(s, none) = s
    BY <1>1, Zenon DEF Weighed
  <2>3. set = {Weighed(s, none) : s \in E}
    BY <2>1, SettingsApplied
  <2> HIDE DEF none, set, E
  <2>4. QED
    BY <2>2, <2>3
<1> HIDE DEF set
<1>3. wanted = E
  BY <1>2 DEF CATEGORIES, Scored
<1>4. {IF TRUE \/ s.severity = "critical" THEN s ELSE [s EXCEPT !.new = FALSE] : s \in wanted} = wanted
  OBVIOUS
<1>5. Looked(seen, << >>)
        = Finding({IF TRUE \/ s.severity = "critical" THEN s ELSE [s EXCEPT !.new = FALSE] : s \in wanted})
  BY Zenon DEF Looked, ScreenEntity, set
<1> HIDE DEF wanted
<1>6. QED
  BY <1>3, <1>4, <1>5, Zenon

\* No half of a compound below medium, and neither half, no compound.
LEMMA NoCompound ==
    ASSUME NEW hits,
           \A f, i \in hits :
               ~(/\ f.foreign /\ AtLeast(f.severity, "medium")
                 /\ i.category \in {"IP_COLLATERAL", "IP_TRANSFER"}
                 /\ AtLeast(i.severity, "medium"))
    PROVE  Correlate(hits) = {}
<1> DEFINE foci == {s \in Halves(hits, {"FOCI", "STRUCTURE"}) :
                       s.foreign /\ s.rule # "FOCI-MENTION-01"}
           ip == Halves(hits, {"IP_COLLATERAL", "IP_TRANSFER"})
<1>1. foci = {} \/ ip = {}
  <2>1. SUFFICES ASSUME NEW f \in foci, NEW i \in ip PROVE FALSE
    OBVIOUS
  <2>2. f \in hits /\ f.foreign /\ AtLeast(f.severity, "medium")
    BY Zenon DEF Halves, AtLeast
  <2>3. i \in hits /\ i.category \in {"IP_COLLATERAL", "IP_TRANSFER"} /\ AtLeast(i.severity, "medium")
    BY Zenon DEF Halves, AtLeast
  <2>4. QED
    BY <2>2, <2>3
<1>2. QED
  BY <1>1, Zenon DEF Correlate

\* A finding is no worse than its heaviest signal allows (the cap of build_finding).
LEMMA CapHolds ==
    ASSUME NEW hits, IsFiniteSet(hits), \A s \in hits : SignalFit(s),
           NEW w \in hits, \A o \in hits : Rank(o.severity) <= Rank(w.severity),
           Correlate(hits) = {}
    PROVE  Rank(Finding(hits).severity) <=
               Rank(w.severity)
               + (IF Cardinality({s \in hits : \A o \in hits :
                                    Rank(o.severity) <= Rank(s.severity)}) >= 2 THEN 1 ELSE 0)
<1> DEFINE worst == {s \in hits : \A o \in hits : Rank(o.severity) <= Rank(s.severity)}
           kept == Dedupe(hits \cup Correlate(hits))
           ordered == Heaviest(kept)
           n == Cardinality(kept)
           total == Total(ordered)
           band == Rank(Band(total))
           cap == Cap(ordered)
           place == IF band > cap THEN cap ELSE band
<1>1. kept \subseteq hits
  BY DEF Dedupe
<1>2. IsFiniteSet(kept) /\ \A s \in kept : s.score \in Int
  BY <1>1, FS_Subset DEF SignalFit
<1>3. Finding(hits).severity = IF kept = {} THEN "info" ELSE SEVERITY_ORDER[place]
  <2>1. Finding(hits) = [signals |-> kept, score |-> total,
                          severity |-> IF kept = {} THEN "info" ELSE SEVERITY_ORDER[place]]
    BY Zenon DEF Finding
  <2> HIDE DEF kept, total, place
  <2>2. QED
    BY <2>1
<1> HIDE DEF kept
<1>4. n \in Nat /\ (kept # {} => n >= 1)
  BY <1>2, FS_CardinalityType, FS_EmptySet
<1>5. /\ ordered \in [1..n -> kept]
      /\ \A i, j \in 1..n : i < j => ordered[i] # ordered[j]
  BY <1>2, HeaviestFirst
<1>6. band \in 1..5
  BY BandType, RanksOfSeverities
<1> HIDE DEF n, ordered, total, band
<1>7. \A s \in hits : Rank(s.severity) \in 1..5
  BY RanksOfSeverities DEF SignalFit
<1>8. IsFiniteSet(worst) /\ Cardinality(worst) \in Nat
  <2>1. worst \subseteq hits
    OBVIOUS
  <2>2. QED
    BY <2>1, FS_Subset, FS_CardinalityType
<1>9. CASE kept = {}
  <2>1. Rank(Finding(hits).severity) = 1
    BY <1>3, <1>9, RanksOfSeverities
  <2>2. Rank(w.severity) >= 1
    BY <1>7
  <2> HIDE DEF worst
  <2>3. QED
    BY <2>1, <2>2, <1>7
<1>10. CASE kept # {}
  <2> DEFINE top == Rank(ordered[1].severity)
             asBad == {i \in DOMAIN ordered : Rank(ordered[i].severity) >= top}
  <2>1. 1 \in 1..n /\ ordered[1] \in hits
    BY <1>1, <1>4, <1>5, <1>10
  <2>2. top \in 1..5 /\ top <= Rank(w.severity)
    BY <2>1, <1>7
  <2>3. cap = IF Cardinality(asBad) >= 2 /\ top < 5 THEN top + 1 ELSE top
    BY Zenon DEF Cap
  <2>4. DOMAIN ordered = 1..n
    BY <1>5
  <2>5. ASSUME Cardinality(asBad) >= 2, top = Rank(w.severity)
        PROVE  Cardinality(worst) >= 2
    <3>1. IsFiniteSet(asBad)
      <4>1. asBad \subseteq 1..n /\ IsFiniteSet(1..n)
        BY <2>4, <1>4, FS_Interval
      <4>2. QED
        BY <4>1, FS_Subset
    <3>2. PICK i \in asBad, j \in asBad : i # j
      <4>1. SUFFICES ASSUME \A i, j \in asBad : i = j PROVE FALSE
        OBVIOUS
      <4>2. asBad = {} \/ \E i \in asBad : asBad = {i}
        BY <4>1
      <4> HIDE DEF asBad
      <4>3. Cardinality(asBad) = 0 \/ Cardinality(asBad) = 1
        BY <4>2, FS_EmptySet, FS_Singleton
      <4>4. QED
        BY <4>3, <2>5
    <3>3. i \in 1..n /\ j \in 1..n /\ ordered[i] # ordered[j]
      <4>1. i \in 1..n /\ j \in 1..n
        BY <2>4
      <4>2. i < j \/ j < i
        BY <4>1, <3>2, <1>4
      <4>3. QED
        BY <4>1, <4>2, <1>5
    <3>4. \A k \in asBad : ordered[k] \in worst
      <4>1. SUFFICES ASSUME NEW k \in asBad PROVE ordered[k] \in worst
        OBVIOUS
      <4>2. ordered[k] \in hits /\ Rank(ordered[k].severity) >= Rank(w.severity)
        BY <2>4, <2>5, <1>1, <1>5
      <4>3. ASSUME NEW o \in hits PROVE Rank(o.severity) <= Rank(ordered[k].severity)
        <5>1. Rank(o.severity) <= Rank(w.severity)
          OBVIOUS
        <5>2. Rank(o.severity) \in Int /\ Rank(w.severity) \in Int /\ Rank(ordered[k].severity) \in Int
          BY <4>2, <1>7
        <5>3. QED
          BY <4>2, <5>1, <5>2
      <4>4. QED
        BY <4>2, <4>3
    <3> HIDE DEF worst, asBad
    <3>5. {ordered[i], ordered[j]} \subseteq worst
      BY <3>4
    <3>6. Cardinality({ordered[i], ordered[j]}) = 2
      <4>1. IsFiniteSet({ordered[i]}) /\ Cardinality({ordered[i]}) = 1
        BY FS_Singleton
      <4>2. Cardinality({ordered[i]} \cup {ordered[j]}) = 2
        <5>1. ordered[j] \notin {ordered[i]}
          BY <3>3
        <5>2. Cardinality({ordered[i]} \cup {ordered[j]}) = Cardinality({ordered[i]}) + 1
          BY <4>1, <5>1, FS_AddElement
        <5>3. QED
          BY <4>1, <5>2
      <4>3. {ordered[i]} \cup {ordered[j]} = {ordered[i], ordered[j]}
        OBVIOUS
      <4>4. QED
        BY <4>2, <4>3
    <3>7. Cardinality({ordered[i], ordered[j]}) <= Cardinality(worst)
      BY <3>5, <1>8, FS_Subset
    <3>8. QED
      BY <3>6, <3>7
  <2> HIDE DEF asBad, worst, top, cap
  <2>6. cap \in 1..5 /\ cap <= Rank(w.severity) + (IF Cardinality(worst) >= 2 THEN 1 ELSE 0)
    <3>1. Rank(w.severity) \in 1..5
      BY <1>7
    <3>2. CASE Cardinality(asBad) >= 2 /\ top < 5 /\ top = Rank(w.severity)
      BY <3>1, <3>2, <2>2, <2>3, <2>5
    <3>3. CASE Cardinality(asBad) >= 2 /\ top < 5 /\ top # Rank(w.severity)
      BY <3>1, <3>3, <2>2, <2>3
    <3>4. CASE ~(Cardinality(asBad) >= 2 /\ top < 5)
      BY <3>1, <3>4, <2>2, <2>3
    <3>5. QED
      BY <3>2, <3>3, <3>4
  <2>7. place \in 1..5 /\ place <= cap
    BY <2>6, <1>6
  <2>8. Rank(Finding(hits).severity) = place
    BY <1>3, <1>10, <2>7, RanksOfSeverities
  <2> HIDE DEF place
  <2>9. QED
    BY <2>6, <2>7, <2>8, <1>7 DEF worst
<1>11. QED
  BY <1>9, <1>10

\* However much a screen comes upon, its finding is one band above its worst signal at
\* most, and that only where two signals are as bad, unless both halves of a compound
\* are medium at least (the cap of build_finding, correlate).
THEOREM WeakFindingsStayWeak ==
    ASSUME NEW seen, IsFiniteSet(seen), \A s \in seen : WellFormed(s.fact)
    PROVE  WeakStaysWeak(seen)
<1> DEFINE hits == Evaluated(seen, FALSE)
           worst == {s \in hits : \A o \in hits : Rank(o.severity) <= Rank(s.severity)}
           Compounds == \E f, i \in hits : /\ f.foreign /\ AtLeast(f.severity, "medium")
                                            /\ i.category \in {"IP_COLLATERAL", "IP_TRANSFER"}
                                            /\ AtLeast(i.severity, "medium")
           above == IF Cardinality(worst) >= 2 THEN 1 ELSE 0
<1>1. IsFiniteSet(hits) /\ \A x \in hits : SignalFit(x)
  BY EvaluatedFits
<1>2. Looked(seen, << >>) = Finding(hits)
  BY <1>1, LookedIs DEF SignalFit
<1> HIDE DEF hits
<1>3. ASSUME NEW w \in worst, ~Compounds
      PROVE  Rank(Finding(hits).severity) <= Rank(w.severity) + above
  <2>1. Correlate(hits) = {}
    BY <1>3, NoCompound
  <2>2. w \in hits /\ \A o \in hits : Rank(o.severity) <= Rank(w.severity)
    OBVIOUS
  <2>3. QED
    BY <2>1, <2>2, <1>1, CapHolds
<1>4. \A w \in worst : Compounds \/ Rank(Looked(seen, << >>).severity) <= Rank(w.severity) + above
  BY <1>2, <1>3
<1>5. QED
  BY <1>4, Zenon DEF WeakStaysWeak, hits

----------------------------------------------------------------------------
(***************************************************************************)
(* The run of a screen: its row, its job and the backend that works on it, *)
(* for any number of screens and any limits (RunLifecycle).                *)
(***************************************************************************)

LEMMA WindowType == LimitAlone \in Nat /\ Window \in Nat /\ Grace \in Nat /\ Host \in Nat /\ Wait \in Nat
BY TimesAssumption DEF LimitAlone, Window

(* The backend is picked once. *)
LEMMA BackendKept == [RunNext]_runVars => backend' = backend
BY DEF RunNext, runVars, CreateScreen, ClaimScheduledRun, Enqueue, ExecuteScreen, StartQueued,
       MarkRunning, FinishRun, StopAtLimit, CutOff, DropHandler, DeleteScreen, Crash, Boot,
       Looks, CloseStaleRuns, Tick

(* A write of a run's status keeps the type of the column. *)
LEMMA WriteType ==
    ASSUME RunTypeOK, NEW r \in Runs, NEW value \in Statuses, Write(r, value)
    PROVE  status' \in [Runs -> Statuses]
BY DEF RunTypeOK, Write

LEMMA BeginType ==
    ASSUME RunTypeOK, NEW r \in Runs, Begin(r)
    PROVE  starts' \in [Runs -> 0..2]
BY DEF RunTypeOK, Begin

LEMMA TypeKept == RunTypeOK /\ [RunNext]_runVars => RunTypeOK'
<1> SUFFICES ASSUME RunTypeOK, [RunNext]_runVars PROVE RunTypeOK'
  OBVIOUS
<1> USE WindowType
<1>1. ASSUME NEW r \in Runs, CreateScreen(r) PROVE RunTypeOK'
  BY <1>1 DEF RunTypeOK, CreateScreen, Statuses, Open, Desks
<1>2. ASSUME NEW r \in Runs, ClaimScheduledRun(r) PROVE RunTypeOK'
  BY <1>2 DEF RunTypeOK, ClaimScheduledRun, Statuses, Open, Desks
<1>3. ASSUME NEW r \in Runs, Enqueue(r) PROVE RunTypeOK'
  BY <1>3 DEF RunTypeOK, Enqueue, Desks, Jobs
<1>4. ASSUME NEW r \in Runs, ClaimRun(r)
      PROVE  /\ status' \in [Runs -> Statuses] /\ job' \in [Runs -> Jobs]
             /\ spent' \in [Runs -> 0..Host] /\ starts' \in [Runs -> 0..2]
  BY <1>4, BeginType DEF RunTypeOK, ClaimRun, Statuses, Open, Jobs
<1>5. ASSUME NEW r \in Runs, ExecuteScreen(r) \/ StartQueued(r) PROVE RunTypeOK'
  BY <1>4, <1>5 DEF RunTypeOK, ExecuteScreen, StartQueued, Desks
<1>6. ASSUME NEW r \in Runs, MarkRunning(r) PROVE RunTypeOK'
  BY <1>6, WriteType, BeginType DEF RunTypeOK, MarkRunning, Statuses, Open, Jobs
<1>7. ASSUME NEW r \in Runs, FinishRun(r) \/ StopAtLimit(r) PROVE RunTypeOK'
  <2>1. PICK value \in Final : Write(r, value)
    BY <1>7 DEF FinishRun, StopAtLimit, Outcomes, Final
  <2> QED BY <1>7, <2>1, WriteType DEF RunTypeOK, FinishRun, StopAtLimit, Statuses, Final, Jobs
<1>8. ASSUME NEW r \in Runs, CutOff(r) \/ DropHandler(r) \/ DeleteScreen(r) PROVE RunTypeOK'
  BY <1>8 DEF RunTypeOK, CutOff, DropHandler, DeleteScreen, Statuses, Desks, Jobs
<1>9. CASE Crash \/ Boot \/ Looks
  BY <1>9 DEF RunTypeOK, Crash, Boot, Looks, CloseStaleRuns, Statuses, Final, Desks, Jobs
<1>10. CASE Tick
  BY <1>10 DEF RunTypeOK, Tick
<1>11. CASE UNCHANGED runVars
  BY <1>11 DEF RunTypeOK, runVars
<1> QED BY <1>1, <1>2, <1>3, <1>5, <1>6, <1>7, <1>8, <1>9, <1>10, <1>11 DEF RunNext

(* Every state of a run's row and of its job is well typed (runs.status,   *)
(* mark_running, finish_run).                                              *)
THEOREM RunTypes == RunSpec => []RunTypeOK
<1>1. RunInit => RunTypeOK
  BY WindowType DEF RunInit, RunTypeOK, Statuses, Desks, Jobs
<1> QED BY <1>1, TypeKept, PTL DEF RunSpec

----------------------------------------------------------------------------
(* Who may be at work on a run, by what its row says.                      *)

NotStarted(r) ==
    status[r] \in {"none", "scheduled"} => job[r] = "none" /\ desk[r] = "none"

Unclaimed(r) ==
    status[r] = "queued" => /\ job[r] \in {"none", "waiting", "over"}
                            /\ backend = "request" => job[r] = "none"

\* A thread's or a worker's job is made by the handler that holds the run.
InHand(r) ==
    backend # "request" /\ desk[r] # "none" =>
        job[r] = "none" /\ status[r] \in {"queued", "deleted"}

Counted(r) == starts[r] <= 1 /\ (job[r] \in {"none", "waiting"} => starts[r] = 0)

Ownership(r) == NotStarted(r) /\ Unclaimed(r) /\ InHand(r) /\ Counted(r)

Owned == \A r \in Runs : Ownership(r)

LEMMA OwnedKept == RunTypeOK /\ Owned /\ [RunNext]_runVars => Owned'
<1> SUFFICES ASSUME RunTypeOK, Owned, [RunNext]_runVars PROVE Owned'
  OBVIOUS
<1> USE DEF Owned, Ownership, NotStarted, Unclaimed, InHand, Counted, RunTypeOK
<1>1. ASSUME NEW r \in Runs, CreateScreen(r) PROVE Owned'
  BY <1>1 DEF CreateScreen
<1>2. ASSUME NEW r \in Runs, ClaimScheduledRun(r) PROVE Owned'
  BY <1>2 DEF ClaimScheduledRun, StillScheduled
<1>3. ASSUME NEW r \in Runs, Enqueue(r) PROVE Owned'
  BY <1>3 DEF Enqueue
<1>4. ASSUME NEW r \in Runs, ExecuteScreen(r) PROVE Owned'
  BY <1>4 DEF ExecuteScreen, ClaimRun, StillQueued, Begin
<1>5. ASSUME NEW r \in Runs, StartQueued(r) PROVE Owned'
  BY <1>5 DEF StartQueued, ClaimRun, StillQueued, Begin
<1>6. ASSUME NEW r \in Runs, MarkRunning(r) PROVE Owned'
  BY <1>6 DEF MarkRunning, Write, Begin
<1>7. ASSUME NEW r \in Runs, FinishRun(r) \/ StopAtLimit(r) PROVE Owned'
  <2>1. PICK value \in Final : Write(r, value)
    BY <1>7 DEF FinishRun, StopAtLimit, Outcomes, Final
  <2> QED BY <1>7, <2>1 DEF FinishRun, StopAtLimit, Write, Final
<1>8. ASSUME NEW r \in Runs, CutOff(r) \/ DropHandler(r) \/ DeleteScreen(r) PROVE Owned'
  BY <1>8 DEF CutOff, DropHandler, DeleteScreen
<1>9. CASE Crash
  BY <1>9 DEF Crash, Live
<1>10. CASE Boot \/ Looks
  <2>1. UNCHANGED <<job, desk, starts, backend>>
    BY <1>10 DEF Boot, Looks, CloseStaleRuns
  <2>2. \A r \in Runs : \/ status'[r] = status[r]
                         \/ /\ status'[r] = "interrupted"
                            /\ backend = "request" \/ status[r] = "running"
    BY <1>10 DEF Boot, Looks, CloseStaleRuns
  <2> QED BY <2>1, <2>2
<1>11. CASE Tick \/ UNCHANGED runVars
  BY <1>11 DEF Tick, runVars
<1> QED BY <1>1, <1>2, <1>3, <1>4, <1>5, <1>6, <1>7, <1>8, <1>9, <1>10, <1>11 DEF RunNext

LEMMA OwnedInit == RunInit => Owned
<1> SUFFICES ASSUME RunInit, NEW r \in Runs PROVE Ownership(r)
  BY DEF Owned
<1>1. status[r] = "none" /\ job[r] = "none" /\ desk[r] = "none" /\ starts[r] = 0
  BY DEF RunInit
<1> QED BY <1>1 DEF Ownership, NotStarted, Unclaimed, InHand, Counted

(* Whatever tabs and sweeps ask for it, a run is worked on at most once    *)
(* (claim_run, claim_scheduled_run).                                       *)
THEOREM WorkedOnOnce == RunSpec => []RunsOnce
<1>1. Owned => RunsOnce
  BY DEF Owned, Ownership, Counted, RunsOnce
<1> QED BY <1>1, OwnedInit, OwnedKept, RunTypes, PTL DEF RunSpec
----------------------------------------------------------------------------
(* A sweep closes only what is dead.                                       *)

Down == ~up => backend = "thread" /\ \A r \in Runs : ~Live(r) /\ desk[r] = "none"

\* A request's job is no older than the wait for it and the job together.
Timed(r) ==
    backend = "request" => /\ job[r] # "waiting"
                           /\ Live(r) => age[r] <= Wait + spent[r]

Settled(r) == status[r] \in Final => ~Live(r)

Closing == Down /\ \A r \in Runs : Timed(r) /\ Settled(r)

LEMMA DownKept == RunTypeOK /\ Down /\ [RunNext]_runVars => Down'
<1> SUFFICES ASSUME RunTypeOK, Down, [RunNext]_runVars PROVE Down'
  OBVIOUS
<1> USE DEF Down, Live
<1>1. CASE up /\ ~up'
  <2>1. Crash
    BY <1>1 DEF RunNext, runVars, CreateScreen, ClaimScheduledRun, Enqueue, ExecuteScreen, StartQueued,
                MarkRunning, FinishRun, StopAtLimit, CutOff, DropHandler, DeleteScreen, Boot,
                Looks, CloseStaleRuns, Tick
  <2> QED BY <2>1 DEF Crash
<1>2. CASE ~up /\ ~up'
  <2>1. backend = "thread" /\ \A r \in Runs : ~Live(r) /\ desk[r] = "none"
    BY <1>2
  <2>2. UNCHANGED <<job, desk, backend>>
    BY <1>2, <2>1 DEF RunNext, runVars, CreateScreen, ClaimScheduledRun, Enqueue, ExecuteScreen,
                StartQueued, MarkRunning, FinishRun, StopAtLimit, CutOff, DropHandler,
                DeleteScreen, Crash, Boot, Looks, CloseStaleRuns, Tick
  <2> QED BY <2>1, <2>2
<1>3. CASE up'
  BY <1>3
<1> QED BY <1>1, <1>2, <1>3

LEMMA TimedKept ==
    ASSUME RunTypeOK, Owned, NEW s \in Runs, Timed(s), [RunNext]_runVars
    PROVE  Timed(s)'
<1> SUFFICES ASSUME backend = "request" PROVE Timed(s)'
  BY BackendKept DEF Timed
<1> USE WindowType DEF Timed, Live, RunTypeOK
<1>1. ASSUME NEW r \in Runs, CreateScreen(r) \/ DropHandler(r) \/ DeleteScreen(r) PROVE Timed(s)'
  BY <1>1 DEF CreateScreen, DropHandler, DeleteScreen
<1>2. ASSUME NEW r \in Runs, ClaimScheduledRun(r) PROVE Timed(s)'
  BY <1>2 DEF ClaimScheduledRun
<1>3. ASSUME NEW r \in Runs, Enqueue(r) PROVE Timed(s)'
  BY <1>3 DEF Enqueue
<1>4. ASSUME NEW r \in Runs, ExecuteScreen(r) \/ StartQueued(r) PROVE Timed(s)'
  BY <1>4 DEF ExecuteScreen, StartQueued, ClaimRun
<1>5. ASSUME NEW r \in Runs, MarkRunning(r) PROVE Timed(s)'
  BY <1>5 DEF MarkRunning
<1>6. ASSUME NEW r \in Runs, FinishRun(r) \/ StopAtLimit(r) \/ CutOff(r) PROVE Timed(s)'
  BY <1>6 DEF FinishRun, StopAtLimit, CutOff
<1>7. CASE Crash \/ Boot \/ Looks
  BY <1>7 DEF Crash, Boot, Looks, CloseStaleRuns
<1>8. CASE Tick
  BY <1>8 DEF Tick
<1>9. CASE UNCHANGED runVars
  BY <1>9 DEF runVars
<1> QED BY <1>1, <1>2, <1>3, <1>4, <1>5, <1>6, <1>7, <1>8, <1>9 DEF RunNext

LEMMA SettledKept ==
    ASSUME PromptRequests, RunTypeOK, Owned, Down, NEW s \in Runs, Timed(s), Settled(s), [RunNext]_runVars
    PROVE  Settled(s)'
<1> USE WindowType DEF Settled, Live, RunTypeOK, Final
<1>1. ASSUME NEW r \in Runs, CreateScreen(r) \/ DropHandler(r) \/ DeleteScreen(r)
      PROVE  Settled(s)'
  BY <1>1 DEF CreateScreen, DropHandler, DeleteScreen
<1>2. ASSUME NEW r \in Runs, ClaimScheduledRun(r) PROVE Settled(s)'
  BY <1>2 DEF ClaimScheduledRun
<1>3. ASSUME NEW r \in Runs, Enqueue(r) PROVE Settled(s)'
  BY <1>3 DEF Enqueue, Owned, Ownership, InHand
<1>4. ASSUME NEW r \in Runs, ExecuteScreen(r) \/ StartQueued(r) PROVE Settled(s)'
  BY <1>4 DEF ExecuteScreen, StartQueued, ClaimRun
<1>5. ASSUME NEW r \in Runs, MarkRunning(r) PROVE Settled(s)'
  BY <1>5 DEF MarkRunning, Write
<1>6. ASSUME NEW r \in Runs, FinishRun(r) \/ StopAtLimit(r) PROVE Settled(s)'
  BY <1>6 DEF FinishRun, StopAtLimit, Write
<1>7. ASSUME NEW r \in Runs, CutOff(r) PROVE Settled(s)'
  BY <1>7 DEF CutOff
<1>8. CASE Crash
  BY <1>8 DEF Crash
<1>9. CASE Boot
  BY <1>9 DEF Boot, Down
<1>10. CASE Looks
  <2>1. backend = "request" /\ UNCHANGED job
    BY <1>10 DEF Looks, CloseStaleRuns
  <2>2. status'[s] = status[s] \/ Stale(s)
    BY <1>10 DEF Looks, CloseStaleRuns
  <2>3. Stale(s) => ~Live(s)
    BY <2>1 DEF Stale, Timed, PromptRequests
  <2> QED BY <2>1, <2>2, <2>3
<1>11. CASE Tick \/ UNCHANGED runVars
  BY <1>11 DEF Tick, runVars
<1> QED BY <1>1, <1>2, <1>3, <1>4, <1>5, <1>6, <1>7, <1>8, <1>9, <1>10, <1>11 DEF RunNext

LEMMA ClosingInit == RunInit => Closing
BY DEF RunInit, Closing, Down, Timed, Settled, Live, Final

(* While pages ask in time and the host ends requests in time, no sweep    *)
(* calls a run interrupted whose job goes on (_stale_cutoff,               *)
(* reap_interrupted_runs).                                                 *)
THEOREM SweepsAreSafe == ASSUME PromptRequests PROVE RunSpec => []ClosedIsDead
<1>1. RunTypeOK /\ Owned /\ Closing /\ [RunNext]_runVars => Closing'
  BY DownKept, TimedKept, SettledKept DEF Closing
<1>2. Closing => ClosedIsDead
  BY DEF Closing, Settled, ClosedIsDead, Final
<1> QED BY <1>1, <1>2, ClosingInit, OwnedInit, OwnedKept, RunTypes, PTL DEF RunSpec

LEMMA FinalKept ==
    ASSUME RunTypeOK, Closing, NEW s \in Runs, status[s] \in Final, [RunNext]_runVars
    PROVE  status'[s] \in {status[s], "deleted"}
<1>1. ~Live(s)
  BY DEF Closing, Settled
<1> USE <1>1 DEF RunTypeOK, Final, Live
<1>2. ASSUME NEW r \in Runs, CreateScreen(r) \/ ClaimScheduledRun(r) \/ DeleteScreen(r)
      PROVE  status'[s] \in {status[s], "deleted"}
  BY <1>2 DEF CreateScreen, ClaimScheduledRun, StillScheduled, DeleteScreen
<1>3. ASSUME NEW r \in Runs, ExecuteScreen(r) \/ StartQueued(r)
      PROVE  status'[s] = status[s]
  BY <1>3 DEF ExecuteScreen, StartQueued, ClaimRun, StillQueued
<1>4. ASSUME NEW r \in Runs, MarkRunning(r) \/ FinishRun(r) \/ StopAtLimit(r)
      PROVE  status'[s] = status[s]
  BY <1>4 DEF MarkRunning, FinishRun, StopAtLimit, Write
<1>5. ASSUME NEW r \in Runs, Enqueue(r) \/ CutOff(r) \/ DropHandler(r)
      PROVE  status'[s] = status[s]
  BY <1>5 DEF Enqueue, CutOff, DropHandler
<1>6. CASE Boot \/ Looks
  BY <1>6 DEF Boot, Looks, CloseStaleRuns, Stale, Open
<1>7. CASE Crash \/ Tick \/ UNCHANGED runVars
  BY <1>7 DEF Crash, Tick, runVars
<1> QED BY <1>2, <1>3, <1>4, <1>5, <1>6, <1>7 DEF RunNext

(* Under the same condition the last word on a run stands: nothing that    *)
(* still holds it overwrites it (finish_run and mark_running, which test   *)
(* nothing).                                                               *)
THEOREM LastWord == ASSUME PromptRequests PROVE RunSpec => OutcomeStays
<1>1. RunTypeOK /\ Owned /\ Closing /\ [RunNext]_runVars => Closing'
  BY DownKept, TimedKept, SettledKept DEF Closing
<1>2. RunTypeOK /\ Closing /\ [RunNext]_runVars =>
        \A r \in Runs : status[r] \in Final => status'[r] \in {status[r], "deleted"}
  BY FinalKept
<1> QED BY <1>1, <1>2, ClosingInit, OwnedInit, OwnedKept, RunTypes, PTL DEF RunSpec, OutcomeStays

----------------------------------------------------------------------------
LEMMA RunningKept ==
    ASSUME "rq" \notin Killable, RunTypeOK, RunningIsLive, [RunNext]_runVars
    PROVE  RunningIsLive'
<1> SUFFICES ASSUME backend # "request" PROVE RunningIsLive'
  BY BackendKept DEF RunningIsLive
<1> USE DEF RunningIsLive, Live, RunTypeOK
<1>1. ASSUME NEW r \in Runs, CreateScreen(r) \/ DropHandler(r) \/ DeleteScreen(r)
      PROVE  RunningIsLive'
  BY <1>1 DEF CreateScreen, DropHandler, DeleteScreen
<1>2. ASSUME NEW r \in Runs, ClaimScheduledRun(r) \/ Enqueue(r) PROVE RunningIsLive'
  BY <1>2 DEF ClaimScheduledRun, Enqueue
<1>3. ASSUME NEW r \in Runs, MarkRunning(r) PROVE RunningIsLive'
  BY <1>3 DEF MarkRunning, Write
<1>4. ASSUME NEW r \in Runs, FinishRun(r) PROVE RunningIsLive'
  BY <1>4 DEF FinishRun, Write, Outcomes
<1>5. ASSUME NEW r \in Runs, ExecuteScreen(r) \/ StartQueued(r) \/ StopAtLimit(r) \/ CutOff(r)
      PROVE  FALSE
  BY <1>5 DEF ExecuteScreen, StartQueued, StopAtLimit, CutOff
<1>6. CASE Crash
  BY <1>6 DEF Crash
<1>7. CASE Boot
  BY <1>7 DEF Boot, ReapedRows
<1>8. CASE Looks \/ Tick
  BY <1>8 DEF Looks, CloseStaleRuns, Tick
<1>9. CASE UNCHANGED runVars
  BY <1>9 DEF runVars
<1> QED BY <1>1, <1>2, <1>3, <1>4, <1>5, <1>6, <1>7, <1>8, <1>9 DEF RunNext

(* Where no worker of a queue is killed, a run of a workspace that startup *)
(* knows says running only while a thread or a worker is at it             *)
(* (reap_interrupted_runs).                                                *)
THEOREM StartupCloses == ASSUME "rq" \notin Killable PROVE RunSpec => []RunningIsLive
<1>1. RunInit => RunningIsLive
  BY DEF RunInit, RunningIsLive
<1>2. RunTypeOK /\ RunningIsLive /\ [RunNext]_runVars => RunningIsLive'
  BY RunningKept
<1> QED BY <1>1, <1>2, RunTypes, PTL DEF RunSpec
(* A run is worked on by one job, called interrupted only when nothing      *)
(* works on it, and running only while something does, on any backend.     *)
THEOREM RunsAgree ==
    ASSUME PromptRequests, "rq" \notin Killable
    PROVE  RunSpec => []RunsAreTrue
<1>1. RunsOnce /\ ClosedIsDead /\ RunningIsLive => RunsAreTrue
  BY DEF RunsAreTrue
<1> QED
  BY <1>1, WorkedOnOnce, SweepsAreSafe, StartupCloses, PTL

----------------------------------------------------------------------------
(* Reading a website, for any hosts, paths and links, any bounds, and       *)
(* whether there is a browser or not: what a fetch does and what is         *)
(* remembered of it.                                                        *)

Own == {u \in Urls : HostOf[u] \in Site}
Reasons == {"deny_all", "no_such_host", "Crawl-delay", "disallowed"}
Blanks == {"robots", "browser", "hollow", "none"}
Browsers == {"idle", "up", "failed"}

LEMMA SiteIsOwn ==
    /\ Urls = DOMAIN HostOf
    /\ \A u \in Urls : HostOf[u] \in Hosts
    /\ Own \subseteq Urls
    /\ \A u \in Own : HostOf[u] \in Site /\ HostOf[u] \in Hosts
    /\ Base \in Site /\ Base \in Hosts
    /\ \A h \in Site : Home[h] \in Own /\ HostOf[Home[h]] = h
<1>1. HostOf \in [Urls -> Hosts]
  BY HostsAssumption
<1> QED
  BY <1>1, HostsAssumption DEF Own, Hosts, Site, Urls

LEMMA RulesAreRead ==
    ASSUME NEW h, NEW r \in Rules(h)
    PROVE  /\ r # Unread
           /\ r.verdict \in {"parsed", "allow_all", "no_such_host", "deny_all"}
           /\ r.slow \in BOOLEAN
<1>1. \/ r \in [verdict : {"parsed"}, denied : SUBSET {u \in Urls : HostOf[u] = h},
                slow : BOOLEAN]
      \/ r \in [verdict : {"allow_all", "no_such_host", "deny_all"}, denied : {{}},
                slow : {FALSE}]
  BY DEF Rules
<1>2. r.verdict \in {"parsed", "allow_all", "no_such_host", "deny_all"} /\ r.slow \in BOOLEAN
  BY <1>1
<1>3. Unread.verdict = "unread"
  BY DEF Unread
<1> QED
  BY <1>2, <1>3

LEMMA RefusalIsReason ==
    ASSUME NEW u, NEW h, NEW r \in Rules(h)
    PROVE  /\ Refusal(u, r) \in Reasons \cup {""}
           /\ Refusal(u, r) = "no_such_host" <=> r.verdict = "no_such_host"
<1>1. /\ r.verdict \in {"parsed", "allow_all", "no_such_host", "deny_all"}
      /\ r.slow \in BOOLEAN
  BY RulesAreRead
<1>2. CASE r.verdict \in {"deny_all", "no_such_host"}
  BY <1>2, Zenon DEF Refusal, Reasons
<1>3. CASE r.verdict = "parsed" /\ r.slow
  BY <1>3 DEF Refusal, Reasons
<1>4. CASE r.verdict = "parsed" /\ ~r.slow
  <2>1. CASE u \in r.denied
    BY <1>4, <2>1 DEF Refusal, Reasons
  <2>2. CASE u \notin r.denied
    BY <1>4, <2>2 DEF Refusal, Reasons
  <2> QED
    BY <2>1, <2>2
<1>5. CASE r.verdict = "allow_all"
  BY <1>5 DEF Refusal, Reasons
<1> QED
  BY <1>1, <1>2, <1>3, <1>4, <1>5

\* What is so of every fetch that asks at most so many times.
Sound(u, r, o, most) ==
    /\ o.requests \in 0..most
    /\ o.size \in 0..3
    /\ o.browser \in Browsers
    /\ o.needs \in BOOLEAN /\ o.js \in BOOLEAN /\ o.unread \in BOOLEAN
    /\ o.refusal \in Reasons \cup {""}
    /\ o.refusal # "" => o.refusal = Refusal(u, r)
    /\ o.requests > 0 => Refusal(u, r) = ""
    /\ o.blank \in Blanks \cup {""}
    /\ o.blank = "robots" => o.refusal # ""
    /\ o.blank = "browser" => o.unread
    /\ o.blank = "none" => o.js

LEMMA RendersFit ==
    ASSUME browser \in Browsers
    PROVE  \A x \in Renders : x.browser \in Browsers /\ x.size \in 0..3
<1> TAKE x \in Renders
<1>1. \/ \E n \in 0..3 : x = [browser |-> "up", size |-> n]
      \/ x = [browser |-> "failed", size |-> 0]
  BY DEF Renders
<1> QED
  BY <1>1 DEF Browsers

Allows(u, r) == Refusal(u, r) = ""

(* What a fetch that was let ask leaves, from what it got and what it says  *)
(* of the host.                                                             *)
LEMMA AskedIsSound ==
    ASSUME NEW u, NEW r, NEW o, NEW most, Allows(u, r), o.refusal = "",
           o.requests \in 0..most, o.size \in 0..3, o.browser \in Browsers,
           o.needs \in BOOLEAN, o.js \in BOOLEAN, o.unread \in BOOLEAN,
           \/ o.blank = "" \/ o.blank = "hollow"
           \/ o.blank = "browser" /\ o.unread
           \/ o.blank = "none" /\ o.js
    PROVE  Sound(u, r, o, most)
<1>1. (o.blank \in Blanks \cup {""}) /\ o.blank # "robots"
  BY DEF Blanks
<1>2. (o.blank = "browser" => o.unread) /\ (o.blank = "none" => o.js)
  <2>1. CASE o.blank = "" \/ o.blank = "hollow"
    <3>1. o.blank # "browser" /\ o.blank # "none"
      BY <2>1
    <3> QED
      BY <3>1, Zenon
  <2>2. CASE o.blank = "browser" /\ o.unread
    <3>1. o.blank # "none"
      BY <2>2
    <3> QED
      BY <2>2, <3>1, Zenon
  <2>3. CASE o.blank = "none" /\ o.js
    <3>1. o.blank # "browser"
      BY <2>3
    <3> QED
      BY <2>3, <3>1, Zenon
  <2> QED
    BY <2>1, <2>2, <2>3, Zenon
<1>3. o.refusal \in Reasons \cup {""}
  BY Zenon
<1> QED
  BY <1>1, <1>2, <1>3, Zenon DEF Sound, Allows

LEMMA ByBrowserSound ==
    ASSUME browser \in Browsers, NEW u, NEW r, Allows(u, r)
    PROVE  \A o \in ByBrowser : Sound(u, r, o, 2)
<1> TAKE o \in ByBrowser
<1>1. PICK x \in Renders :
        o = [Nothing EXCEPT !.how = IF x.size > 0 THEN "browser" ELSE "", !.size = x.size,
                     !.requests = 1, !.browser = x.browser, !.needs = x.size > 0,
                     !.unread = x.size = 0, !.blank = IF x.size = 0 THEN "browser" ELSE ""]
  BY DEF ByBrowser
<1>2. x.browser \in Browsers /\ x.size \in 0..3
  BY RendersFit
<1>3. o.requests = 1 /\ o.size = x.size
  BY <1>1 DEF Nothing
<1>13. o.browser = x.browser /\ o.refusal = ""
  BY <1>1 DEF Nothing
<1>14. o.browser \in Browsers
  BY <1>2, <1>13
<1>4. o.needs = (x.size > 0)
  BY <1>1 DEF Nothing
<1>5. o.js = FALSE
  BY <1>1 DEF Nothing
<1>6. o.unread = (x.size = 0)
  BY <1>1 DEF Nothing
<1>7. o.blank = IF x.size = 0 THEN "browser" ELSE ""
  BY <1>1 DEF Nothing
<1>8. o.requests \in 0..2 /\ o.size \in 0..3
  BY <1>2, <1>3
<1>9. o.blank = "" \/ (o.blank = "browser" /\ o.unread)
  BY <1>6, <1>7
<1>10. o.needs \in BOOLEAN
  BY <1>4
<1>11. o.js \in BOOLEAN
  BY <1>5
<1>12. o.unread \in BOOLEAN
  BY <1>6
<1> QED
  BY <1>8, <1>9, <1>10, <1>11, <1>12, <1>13, <1>14, AskedIsSound, Zenon

LEMMA PlainlySound ==
    ASSUME browser \in Browsers, NEW u, NEW r, Allows(u, r), NEW a \in Answers
    PROVE  \A o \in Plainly(a) : Sound(u, r, o, 2)
<1> TAKE o \in Plainly(a)
<1>1. a.size \in 0..3
  <2>1. CASE a \in [ok : {FALSE}, size : {0}]
    <3>1. a.size = 0
      BY <2>1
    <3> QED
      BY <3>1
  <2>2. CASE a \in [ok : {TRUE}, size : 0..3]
    BY <2>2
  <2> QED
    BY <2>1, <2>2, Zenon DEF Answers
<1>2. CASE a.size = 3
  <2>1. o = [Nothing EXCEPT !.how = "http", !.size = 3, !.requests = 1]
    BY <1>2 DEF Plainly
  <2>2. o.requests = 1 /\ o.size = 3
    BY <2>1 DEF Nothing
  <2>8. o.refusal = "" /\ o.blank = ""
    BY <2>1 DEF Nothing
  <2>9. o.browser \in Browsers
    BY <2>1 DEF Nothing
  <2>3. o.needs = FALSE /\ o.js = FALSE /\ o.unread = FALSE
    BY <2>1 DEF Nothing
  <2>4. o.needs \in BOOLEAN
    BY <2>3
  <2>5. o.js \in BOOLEAN
    BY <2>3
  <2>6. o.unread \in BOOLEAN
    BY <2>3
  <2>7. o.requests \in 0..2 /\ o.size \in 0..3
    BY <2>2
  <2> QED
    BY <2>4, <2>5, <2>6, <2>7, <2>8, <2>9, AskedIsSound, Zenon
<1>3. CASE a.size # 3 /\ BrowserReady
  <2>1. PICK x \in Renders :
          o = LET better == x.size > a.size
                  size == IF better THEN x.size ELSE a.size
              IN  [Nothing EXCEPT
                     !.how = IF better THEN "browser" ELSE IF size > 0 THEN "http" ELSE "",
                     !.size = size, !.requests = 2, !.browser = x.browser,
                     !.needs = x.size > 0, !.unread = size = 0,
                     !.blank = IF size = 0 THEN "browser" ELSE ""]
    BY <1>3 DEF Plainly
  <2>2. x.browser \in Browsers /\ x.size \in 0..3
    BY RendersFit
  <2>3. PICK size : size = IF x.size > a.size THEN x.size ELSE a.size
    OBVIOUS
  <2>4. size \in 0..3
    BY <1>1, <2>2, <2>3
  <2>5. o = [Nothing EXCEPT
               !.how = IF x.size > a.size THEN "browser" ELSE IF size > 0 THEN "http" ELSE "",
               !.size = size, !.requests = 2, !.browser = x.browser,
               !.needs = x.size > 0, !.unread = size = 0,
               !.blank = IF size = 0 THEN "browser" ELSE ""]
    BY <2>1, <2>3
  <2>6. o.requests = 2 /\ o.size = size
    BY <2>5 DEF Nothing
  <2>16. o.browser = x.browser /\ o.refusal = ""
    BY <2>5 DEF Nothing
  <2>17. o.browser \in Browsers
    BY <2>2, <2>16
  <2>7. o.needs = (x.size > 0)
    BY <2>5 DEF Nothing
  <2>8. o.js = FALSE
    BY <2>5 DEF Nothing
  <2>9. o.unread = (size = 0)
    BY <2>5 DEF Nothing
  <2>10. o.blank = IF size = 0 THEN "browser" ELSE ""
    BY <2>5 DEF Nothing
  <2>11. o.requests \in 0..2 /\ o.size \in 0..3
    BY <2>4, <2>6
  <2>12. o.blank = "" \/ (o.blank = "browser" /\ o.unread)
    BY <2>9, <2>10
  <2>13. o.needs \in BOOLEAN
    BY <2>7
  <2>14. o.js \in BOOLEAN
    BY <2>8
  <2>15. o.unread \in BOOLEAN
    BY <2>9
  <2> QED
    BY <2>11, <2>12, <2>13, <2>14, <2>15, <2>16, <2>17, AskedIsSound, Zenon
<1>4. CASE a.size # 3 /\ ~BrowserReady
  <2>1. o = [Nothing EXCEPT
               !.how = IF a.size > 0 THEN "http" ELSE "", !.size = a.size, !.requests = 1,
               !.js = NeedsBrowser(a),
               !.blank = IF a.size > 0 THEN "" ELSE IF a.ok THEN "hollow" ELSE "none"]
    BY <1>4 DEF Plainly
  <2>2. o.requests = 1 /\ o.size = a.size
    BY <2>1 DEF Nothing
  <2>11. o.refusal = ""
    BY <2>1 DEF Nothing
  <2>12. o.browser \in Browsers
    BY <2>1 DEF Nothing
  <2>3. o.needs = FALSE /\ o.unread = FALSE
    BY <2>1 DEF Nothing
  <2>4. o.js = ~a.ok
    BY <2>1 DEF Nothing, NeedsBrowser
  <2>5. o.blank = IF a.size > 0 THEN "" ELSE IF a.ok THEN "hollow" ELSE "none"
    BY <2>1 DEF Nothing
  <2>6. o.blank = "" \/ o.blank = "hollow" \/ (o.blank = "none" /\ o.js)
    BY <2>4, <2>5
  <2>7. o.needs \in BOOLEAN
    BY <2>3
  <2>8. o.js \in BOOLEAN
    BY <2>4
  <2>9. o.unread \in BOOLEAN
    BY <2>3
  <2>10. o.requests \in 0..2 /\ o.size \in 0..3
    BY <1>1, <2>2
  <2> QED
    BY <2>6, <2>7, <2>8, <2>9, <2>10, <2>11, <2>12, AskedIsSound, Zenon
<1> QED
  BY <1>2, <1>3, <1>4

LEMMA NoneAsked ==
    ASSUME NEW o, o.requests = 0, o.size = 0
    PROVE  o.requests \in 0..0 /\ o.size \in 0..3 /\ ~(o.requests > 0)
  OBVIOUS

LEMMA RefusedIsSound ==
    ASSUME browser \in Browsers, NEW u, NEW h, NEW r \in Rules(h), ~Allows(u, r),
           NEW b \in {"", "robots"}, NEW o,
           o = [Nothing EXCEPT !.refusal = Refusal(u, r), !.blank = b]
    PROVE  Sound(u, r, o, 0)
<1>1. Refusal(u, r) \in Reasons \cup {""}
  BY RefusalIsReason
<1>2. PICK why : why = Refusal(u, r)
  OBVIOUS
<1>3. o.requests = 0 /\ o.size = 0
  BY <1>2 DEF Nothing
<1>12. o.browser \in Browsers
  BY <1>2 DEF Nothing
<1>4. o.refusal = Refusal(u, r)
  BY <1>2 DEF Nothing
<1>5. o.blank = b
  BY <1>2 DEF Nothing
<1>6. o.needs = FALSE /\ o.js = FALSE /\ o.unread = FALSE
  BY <1>2 DEF Nothing
<1>7. o.needs \in BOOLEAN
  BY <1>6
<1>8. o.js \in BOOLEAN
  BY <1>6
<1>9. o.unread \in BOOLEAN
  BY <1>6
<1>10. (o.blank \in Blanks \cup {""}) /\ o.blank # "browser" /\ o.blank # "none"
  BY <1>5 DEF Blanks
<1>11. o.requests \in 0..0 /\ o.size \in 0..3 /\ ~(o.requests > 0)
  BY <1>3, NoneAsked, Zenon
<1> QED
  BY <1>1, <1>4, <1>7, <1>8, <1>9, <1>10, <1>11, <1>12, Zenon DEF Sound, Allows

LEMMA RefusedSound ==
    ASSUME browser \in Browsers, NEW u, NEW h, NEW r \in Rules(h), ~Allows(u, r)
    PROVE  /\ Sound(u, r, [Nothing EXCEPT !.refusal = Refusal(u, r), !.blank = "robots"], 0)
           /\ Sound(u, r, [Nothing EXCEPT !.refusal = Refusal(u, r)], 0)
<1>1. PICK o1 : o1 = [Nothing EXCEPT !.refusal = Refusal(u, r), !.blank = "robots"]
  OBVIOUS
<1>2. PICK o2 : o2 = [Nothing EXCEPT !.refusal = Refusal(u, r)]
  OBVIOUS
<1>3. PICK o3 : o3 = [Nothing EXCEPT !.refusal = Refusal(u, r), !.blank = ""]
  OBVIOUS
<1>4. o2 = o3
  <2>1. PICK why : why = Refusal(u, r)
    OBVIOUS
  <2>2. o2 = [Nothing EXCEPT !.refusal = why]
    BY <1>2, <2>1
  <2>3. o3 = [Nothing EXCEPT !.refusal = why, !.blank = ""]
    BY <1>3, <2>1
  <2>4. o2 = [how |-> "", size |-> 0, requests |-> 0, refusal |-> why, browser |-> browser,
              needs |-> FALSE, js |-> FALSE, unread |-> FALSE, blank |-> ""]
    BY <2>2 DEF Nothing
  <2>5. o3 = [how |-> "", size |-> 0, requests |-> 0, refusal |-> why, browser |-> browser,
              needs |-> FALSE, js |-> FALSE, unread |-> FALSE, blank |-> ""]
    BY <2>3 DEF Nothing
  <2> QED
    BY <2>4, <2>5
<1>5. Sound(u, r, o1, 0) /\ Sound(u, r, o3, 0)
  BY <1>1, <1>3, RefusedIsSound, Zenon
<1> QED
  BY <1>1, <1>2, <1>4, <1>5

LEMMA SoundForMore ==
    ASSUME NEW u, NEW r, NEW o, NEW m \in Nat, NEW n \in Nat, m <= n, Sound(u, r, o, m)
    PROVE  Sound(u, r, o, n)
<1>1. o.requests \in 0..m
  BY Zenon DEF Sound
<1>2. o.requests \in 0..n
  BY <1>1
<1> QED
  BY <1>2, Zenon DEF Sound

\* A page asks at most twice, the browser's time counted.
LEMMA FetchedSound ==
    ASSUME browser \in Browsers, NEW u, NEW h, NEW r \in Rules(h), NEW o \in Fetched(u, r)
    PROVE  Sound(u, r, o, 2)
<1>1. CASE ~Allows(u, r)
  <2>1. o = [Nothing EXCEPT !.refusal = Refusal(u, r), !.blank = "robots"]
    BY <1>1 DEF Fetched, Allows
  <2>2. Sound(u, r, o, 0)
    BY <1>1, <2>1, RefusedSound, Zenon
  <2> QED
    BY <2>2, SoundForMore
<1>2. CASE Allows(u, r)
  <2>1. o \in ByBrowser \/ \E a \in Answers : o \in Plainly(a)
    BY <1>2, Zenon DEF Fetched, Allows
  <2> QED
    BY <1>2, <2>1, ByBrowserSound, PlainlySound
<1> QED
  BY <1>1, <1>2

\* A feed is asked for once.
LEMMA FetchedRawSound ==
    ASSUME browser \in Browsers, NEW u, NEW h, NEW r \in Rules(h), NEW o \in FetchedRaw(u, r)
    PROVE  Sound(u, r, o, 1)
<1>1. CASE ~Allows(u, r)
  <2>1. o = [Nothing EXCEPT !.refusal = Refusal(u, r)]
    BY <1>1 DEF FetchedRaw, Allows
  <2>2. Sound(u, r, o, 0)
    BY <1>1, <2>1, RefusedSound, Zenon
  <2> QED
    BY <2>2, SoundForMore
<1>2. CASE Allows(u, r)
  <2>1. PICK n \in {0, 3} : o = [Nothing EXCEPT !.requests = 1, !.size = n]
    BY <1>2 DEF FetchedRaw, Allows
  <2>2. o.requests = 1 /\ o.size = n /\ o.browser = browser
    BY <2>1 DEF Nothing
  <2>8. o.refusal = "" /\ o.blank = ""
    BY <2>1 DEF Nothing
  <2>3. o.needs = FALSE /\ o.js = FALSE /\ o.unread = FALSE
    BY <2>1 DEF Nothing
  <2>4. o.needs \in BOOLEAN
    BY <2>3
  <2>5. o.js \in BOOLEAN
    BY <2>3
  <2>6. o.unread \in BOOLEAN
    BY <2>3
  <2>7. o.requests \in 0..1 /\ o.size \in 0..3 /\ o.browser \in Browsers
    BY <2>2
  <2> QED
    BY <1>2, <2>4, <2>5, <2>6, <2>7, <2>8, AskedIsSound, Zenon
<1> QED
  BY <1>1, <1>2
----------------------------------------------------------------------------
(* What is remembered of a site: no host is read by rules that are not its  *)
(* own, what was asked for was allowed by rules that do not change, and a   *)
(* page that gave nothing can be told of.                                   *)

ReasonedRefusals(refused) ==
    {HostOf[s.url] : s \in {x \in refused : x.reason # "no_such_host"}}

\* A page that gave nothing is in the notes, or need not be.
Explained(e, rs, js, un, refused) ==
    \/ HostOf[e.url] \in js \cup un \cup ReasonedRefusals(refused)
    \/ rs[HostOf[e.url]].verdict = "no_such_host"
    \/ e.how = "hollow"

Permitted(u, rs) == u \in Own /\ rs[HostOf[u]] # Unread /\ Allows(u, rs[HostOf[u]])

Known(rs) == rs = [h \in Hosts |-> rs[h]] /\ \A h \in Hosts : rs[h] \in {Unread} \cup Rules(h)

RefusalsFit(refused) == refused \subseteq [url : Urls, reason : Reasons]
EmptyFit(es) == es \subseteq [url : Own, how : Blanks]

SiteFit ==
    /\ Known(rules)
    /\ browser \in Browsers
    /\ browserHosts \subseteq Hosts
    /\ skippedJs \subseteq Hosts
    /\ unreadable \subseteq Hosts
    /\ RefusalsFit(skippedRobots)
    /\ requested.times \in Nat
    /\ \A u \in requested.urls : Permitted(u, rules)
    /\ EmptyFit(empty)
    /\ \A e \in empty : Explained(e, rules, skippedJs, unreadable, skippedRobots)

\* One host's rules were read, or read again without effect.
Learned(rs, rs1, h, r) ==
    /\ rs1 = [rs EXCEPT ![h] = r]
    /\ r \in IF rs[h] = Unread THEN Rules(h) ELSE {rs[h]}

LEMMA LearnedFits ==
    ASSUME NEW rs, NEW rs1, NEW h \in Hosts, NEW r, Known(rs), Learned(rs, rs1, h, r)
    PROVE  /\ Known(rs1)
           /\ rs1[h] = r /\ r \in Rules(h)
           /\ \A g \in Hosts : rs[g] # Unread => rs1[g] = rs[g]
<1>1. r \in Rules(h)
  BY DEF Known, Learned
<1>2. rs1[h] = r /\ \A g \in Hosts : g # h => rs1[g] = rs[g]
  BY DEF Known, Learned
<1>3. rs1 = [g \in Hosts |-> rs1[g]]
  BY DEF Known, Learned
<1>4. \A g \in Hosts : rs1[g] \in {Unread} \cup Rules(g)
  BY <1>1, <1>2 DEF Known
<1>5. rs[h] # Unread => r = rs[h]
  BY DEF Learned
<1> QED
  BY <1>1, <1>2, <1>3, <1>4, <1>5 DEF Known

LEMMA StillPermitted ==
    ASSUME NEW rs, NEW rs1, NEW h \in Hosts, NEW r, Known(rs), Learned(rs, rs1, h, r),
           NEW u, Permitted(u, rs)
    PROVE  Permitted(u, rs1)
<1>1. HostOf[u] \in Hosts
  BY SiteIsOwn DEF Permitted
<1>2. rs1[HostOf[u]] = rs[HostOf[u]]
  BY <1>1, LearnedFits DEF Permitted
<1> QED
  BY <1>2 DEF Permitted

LEMMA UnreadIsNoVerdict == Unread.verdict # "no_such_host"
  BY DEF Unread

LEMMA StillExplained ==
    ASSUME NEW rs, NEW rs1, NEW h \in Hosts, NEW r, Known(rs), Learned(rs, rs1, h, r),
           NEW js, NEW js1, js \subseteq js1, NEW un, NEW un1, un \subseteq un1,
           NEW refused, NEW refused1, refused \subseteq refused1,
           NEW e, HostOf[e.url] \in Hosts, Explained(e, rs, js, un, refused)
    PROVE  Explained(e, rs1, js1, un1, refused1)
<1> DEFINE g == HostOf[e.url]
<1>1. CASE g \in js \cup un \cup ReasonedRefusals(refused)
  <2>1. ReasonedRefusals(refused) \subseteq ReasonedRefusals(refused1)
    BY DEF ReasonedRefusals
  <2> QED
    BY <1>1, <2>1 DEF Explained
<1>2. CASE rs[g].verdict = "no_such_host"
  <2>1. rs[g] # Unread
    BY <1>2, UnreadIsNoVerdict
  <2>2. rs1[g] = rs[g]
    BY <2>1, LearnedFits
  <2> QED
    BY <1>2, <2>2 DEF Explained
<1>3. CASE e.how = "hollow"
  BY <1>3 DEF Explained
<1> QED
  BY <1>1, <1>2, <1>3 DEF Explained

LEMMA RulesForIsLearned ==
    ASSUME NEW h, NEW r \in RulesFor(h), NEW rs1, rs1 = [rules EXCEPT ![h] = r]
    PROVE  Learned(rules, rs1, h, r)
  BY DEF Learned, RulesFor

(* The connectors remember what a fetch of one of the site's own pages      *)
(* says, and how often it asked.                                            *)
LEMMA RememberFits ==
    ASSUME SiteFit, NEW u \in Own, NEW r \in RulesFor(HostOf[u]), NEW most \in Nat,
           NEW o, Sound(u, r, o, most), Remember(u, r, o)
    PROVE  /\ SiteFit'
           /\ requested'.times = requested.times + o.requests
<1> PICK h : h = HostOf[u]
  OBVIOUS
<1>1. h \in Hosts /\ u \in Urls
  BY SiteIsOwn
<1>2. Learned(rules, rules', h, r)
  <2>1. rules' = [rules EXCEPT ![h] = r]
    BY DEF Remember
  <2> QED
    BY <2>1, RulesForIsLearned
<1>3. /\ Known(rules')
      /\ rules'[h] = r /\ r \in Rules(h)
  <2>1. Known(rules)
    BY DEF SiteFit
  <2>2. PICK rs1 : rs1 = rules'
    OBVIOUS
  <2>3. h \in Hosts /\ Learned(rules, rs1, h, r)
    BY <1>1, <1>2, <2>2
  <2>4. /\ Known(rs1)
        /\ rs1[h] = r /\ r \in Rules(h)
    BY <2>1, <2>3, LearnedFits
  <2> QED
    BY <2>2, <2>4
<1>4. browser' \in Browsers /\ browserHosts' \subseteq Hosts
  BY <1>1 DEF Remember, Sound, SiteFit
<1>5. /\ skippedJs' \subseteq Hosts /\ skippedJs \subseteq skippedJs'
      /\ o.js => h \in skippedJs'
  BY <1>1 DEF Remember, SiteFit
<1>6. /\ unreadable' \subseteq Hosts /\ unreadable \subseteq unreadable'
      /\ o.unread => h \in unreadable'
  BY <1>1 DEF Remember, SiteFit
<1>7. /\ RefusalsFit(skippedRobots') /\ skippedRobots \subseteq skippedRobots'
      /\ o.refusal # "" => [url |-> u, reason |-> o.refusal] \in skippedRobots'
  <2>1. o.refusal \in Reasons \cup {""} /\ RefusalsFit(skippedRobots)
    BY DEF Sound, SiteFit
  <2>2. CASE o.refusal = ""
    BY <2>1, <2>2 DEF Remember
  <2>3. CASE o.refusal # ""
    <3>1. skippedRobots' = skippedRobots \cup {[url |-> u, reason |-> o.refusal]}
      BY <2>3 DEF Remember
    <3>2. PICK why : why = o.refusal
      OBVIOUS
    <3>3. why \in Reasons
      BY <2>1, <2>3, <3>2
    <3>4. [url |-> u, reason |-> why] \in [url : Urls, reason : Reasons]
      BY <1>1, <3>3
    <3>5. skippedRobots \subseteq [url : Urls, reason : Reasons]
      BY <2>1 DEF RefusalsFit
    <3> QED
      BY <3>1, <3>2, <3>4, <3>5 DEF RefusalsFit
  <2> QED
    BY <2>2, <2>3
<1>8. /\ requested'.times = requested.times + o.requests
      /\ requested'.urls = IF o.requests > 0 THEN requested.urls \cup {u} ELSE requested.urls
  BY DEF Remember
<1>9. requested'.times \in Nat
  <2>1. o.requests \in 0..most
    BY Zenon DEF Sound
  <2>2. requested.times \in Nat
    BY DEF SiteFit
  <2>3. requested'.times = requested.times + o.requests
    BY <1>8
  <2> QED
    BY <2>1, <2>2, <2>3
<1>10. \A v \in requested'.urls : Permitted(v, rules')
  <2> TAKE v \in requested'.urls
  <2>1. CASE v \in requested.urls
    <3>1. Permitted(v, rules) /\ Known(rules)
      BY <2>1 DEF SiteFit
    <3> QED
      BY <1>1, <1>2, <3>1, StillPermitted
  <2>2. CASE v = u /\ o.requests > 0
    <3>1. Refusal(u, r) = ""
      BY <2>2 DEF Sound
    <3>2. r # Unread
      BY <1>3, RulesAreRead
    <3> QED
      BY <1>3, <2>2, <3>1, <3>2 DEF Permitted, Allows
  <2> QED
    BY <1>8, <2>1, <2>2
<1>11. empty' = empty \/ (o.blank # "" /\ empty' = empty \cup {[url |-> u, how |-> o.blank]})
  BY DEF Remember
<1>12. EmptyFit(empty')
  <2>1. EmptyFit(empty) /\ o.blank \in Blanks \cup {""}
    BY DEF SiteFit, Sound
  <2>2. CASE o.blank # "" /\ empty' = empty \cup {[url |-> u, how |-> o.blank]}
    <3>1. PICK b : b = o.blank
      OBVIOUS
    <3>2. b \in Blanks
      BY <2>1, <2>2, <3>1
    <3>3. [url |-> u, how |-> b] \in [url : Own, how : Blanks]
      BY <3>2
    <3>4. empty \subseteq [url : Own, how : Blanks]
      BY <2>1 DEF EmptyFit
    <3> QED
      BY <2>2, <3>1, <3>3, <3>4 DEF EmptyFit
  <2> QED
    BY <1>11, <2>1, <2>2
<1>13. ASSUME NEW e \in empty'
       PROVE  Explained(e, rules', skippedJs', unreadable', skippedRobots')
  <2>1. CASE e \in empty
    <3>1. Known(rules) /\ Explained(e, rules, skippedJs, unreadable, skippedRobots)
      BY <2>1 DEF SiteFit
    <3>2. e.url \in Own
      BY <2>1 DEF SiteFit, EmptyFit
    <3>3. HostOf[e.url] \in Hosts
      BY <3>2, SiteIsOwn
    <3> QED
      BY <1>1, <1>2, <1>5, <1>6, <1>7, <3>1, <3>3, StillExplained
  <2>2. CASE e = [url |-> u, how |-> o.blank] /\ o.blank # ""
    <3>1. e.url = u /\ e.how = o.blank /\ HostOf[e.url] = h
      BY <2>2
    <3>2. CASE o.blank = "robots"
      <4>1. o.refusal # "" /\ o.refusal = Refusal(u, r)
        BY <3>2 DEF Sound
      <4>2. CASE o.refusal = "no_such_host"
        <5>1. r.verdict = "no_such_host"
          BY <1>3, <4>1, <4>2, RefusalIsReason
        <5> QED
          BY <1>3, <3>1, <5>1 DEF Explained
      <4>3. CASE o.refusal # "no_such_host"
        <5>1. PICK x : x = [url |-> u, reason |-> o.refusal]
          OBVIOUS
        <5>2. x \in skippedRobots' /\ x.reason # "no_such_host" /\ x.url = u
          BY <1>7, <4>1, <4>3, <5>1
        <5>3. h \in ReasonedRefusals(skippedRobots')
          BY <5>2 DEF ReasonedRefusals
        <5> QED
          BY <3>1, <5>3 DEF Explained
      <4> QED
        BY <4>2, <4>3
    <3>3. CASE o.blank = "browser"
      BY <1>6, <3>1, <3>3 DEF Explained, Sound
    <3>4. CASE o.blank = "none"
      BY <1>5, <3>1, <3>4 DEF Explained, Sound
    <3>5. CASE o.blank = "hollow"
      BY <3>1, <3>5 DEF Explained
    <3> QED
      BY <2>2, <3>2, <3>3, <3>4, <3>5 DEF Sound, Blanks
  <2> QED
    BY <1>11, <1>13, <2>1, <2>2
<1>14. \A e \in empty' : Explained(e, rules', skippedJs', unreadable', skippedRobots')
  BY <1>13
<1> QED
  BY <1>3, <1>4, <1>5, <1>6, <1>7, <1>8, <1>9, <1>10, <1>12, <1>14 DEF SiteFit

\* Nothing but a host's rules was read.
LEMMA LearningFits ==
    ASSUME SiteFit, NEW h \in Hosts, NEW r \in RulesFor(h), rules' = [rules EXCEPT ![h] = r],
           UNCHANGED <<browser, browserHosts, skippedJs, unreadable, skippedRobots,
                       requested, empty>>
    PROVE  SiteFit'
<1>1. Learned(rules, rules', h, r) /\ Known(rules)
  BY RulesForIsLearned DEF SiteFit
<1>2. Known(rules')
  BY <1>1, LearnedFits
<1>3. \A v \in requested'.urls : Permitted(v, rules')
  BY <1>1, StillPermitted DEF SiteFit
<1>4. ASSUME NEW e \in empty'
      PROVE  Explained(e, rules', skippedJs', unreadable', skippedRobots')
  <2>1. Explained(e, rules, skippedJs, unreadable, skippedRobots)
    BY <1>4 DEF SiteFit
  <2>2. e.url \in Own
    BY <1>4 DEF SiteFit, EmptyFit
  <2>3. HostOf[e.url] \in Hosts
    BY <2>2, SiteIsOwn
  <2>4. skippedJs \subseteq skippedJs' /\ unreadable \subseteq unreadable'
        /\ skippedRobots \subseteq skippedRobots'
    OBVIOUS
  <2> QED
    BY <1>1, <2>1, <2>3, <2>4, StillExplained
<1> QED
  BY <1>2, <1>3, <1>4 DEF SiteFit

LEMMA SiteStays == SiteFit /\ UNCHANGED site => SiteFit'
<1> SUFFICES ASSUME SiteFit, UNCHANGED site PROVE SiteFit'
  OBVIOUS
<1>1. /\ rules' = rules /\ browser' = browser /\ browserHosts' = browserHosts
      /\ skippedJs' = skippedJs /\ unreadable' = unreadable
      /\ skippedRobots' = skippedRobots /\ requested' = requested /\ empty' = empty
  BY DEF site
<1> QED
  BY <1>1, Zenon DEF SiteFit
----------------------------------------------------------------------------
(* How far the reading is, and what it has cost up to there: each host is   *)
(* worth its home page, twice, and MaxProbes feeds.                         *)

LEMMA BoundsAreNat ==
    /\ MaxProbes \in Nat /\ MaxFeeds \in Nat /\ MaxPages \in Nat /\ Enough \in Nat
    /\ Newsrooms \in Seq(Site) /\ Len(Newsrooms) \in Nat
  BY HostsAssumption, BoundsAssumption

Upto(h) == (2 + MaxProbes) * h
AllFeeds == Upto(1 + Len(Newsrooms)) + MaxFeeds
AllPages == AllFeeds + 2 + 2 * MaxProbes + 2 * MaxPages

LEMMA UptoGrows ==
    /\ Upto(0) = 0
    /\ \A h \in Nat : Upto(h) \in Nat /\ Upto(h + 1) = Upto(h) + 2 + MaxProbes
    /\ \A h, k \in Nat : h <= k => Upto(h) <= Upto(k)
<1>1. ASSUME NEW m \in Nat, NEW h \in Nat
      PROVE  /\ (2 + m) * 0 = 0 /\ (2 + m) * h \in Nat
             /\ (2 + m) * (h + 1) = (2 + m) * h + 2 + m
             /\ \A k \in Nat : h <= k => (2 + m) * h <= (2 + m) * k
  <2>1. (2 + m) * 0 = 0 /\ (2 + m) * h \in Nat
    OBVIOUS
  <2>2. (2 + m) * (h + 1) = (2 + m) * h + 2 + m
    OBVIOUS
  <2>3. ASSUME NEW k \in Nat, h <= k PROVE (2 + m) * h <= (2 + m) * k
    <3>1. PICK d \in Nat : k = h + d
      <4>1. k - h \in Nat /\ k = h + (k - h)
        BY <2>3
      <4> QED
        BY <4>1
    <3>2. (2 + m) * k = (2 + m) * h + (2 + m) * d
      BY <3>1
    <3>3. (2 + m) * d \in Nat
      OBVIOUS
    <3> QED
      BY <2>1, <3>2, <3>3
  <2> QED
    BY <2>1, <2>2, <2>3
<1> QED
  BY <1>1, BoundsAreNat DEF Upto

LEMMA AllAreNat ==
    /\ AllFeeds \in Nat /\ AllPages \in Nat
    /\ AllPages = AllFeeds + 2 + 2 * MaxProbes + 2 * MaxPages
    /\ \A h \in 0..Len(Newsrooms) : Upto(h) + 2 + MaxProbes + MaxFeeds <= AllFeeds
<1>1. Upto(1 + Len(Newsrooms)) \in Nat
  BY BoundsAreNat, UptoGrows
<1>2. AllFeeds \in Nat
  BY <1>1, BoundsAreNat DEF AllFeeds
<1>3. ASSUME NEW h \in 0..Len(Newsrooms)
      PROVE  Upto(h) + 2 + MaxProbes + MaxFeeds <= AllFeeds
  <2>1. h \in Nat /\ h + 1 \in Nat /\ h + 1 <= 1 + Len(Newsrooms) /\ 1 + Len(Newsrooms) \in Nat
    BY BoundsAreNat
  <2>2. Upto(h + 1) = Upto(h) + 2 + MaxProbes /\ Upto(h) \in Nat
    BY <2>1, UptoGrows
  <2>3. Upto(h + 1) <= Upto(1 + Len(Newsrooms))
    BY <2>1, UptoGrows
  <2> QED
    BY <1>1, <2>2, <2>3, BoundsAreNat DEF AllFeeds
<1> QED
  BY <1>2, <1>3, BoundsAreNat DEF AllPages

Places == {"feeds", "newsroom", "probing", "reading", "home", "guessing", "pages", "done"}

\* What is so wherever the reading is.
Shaped(h, t, p, f, n) ==
    /\ h \in 0..Len(Newsrooms)
    /\ t \in Nat
    /\ p \in 0..MaxProbes
    /\ f \in Seq(Own)
    /\ n \in Nat

AtNewsroom(h, t, p, n) == h >= 1 /\ n <= Upto(h) /\ t = 0 /\ p = 0
AtFeeds(h, t, p, n) == n <= Upto(h) /\ t = 0 /\ p = 0
AtProbing(h, t, p, n) == n <= Upto(h) + 2 + p /\ t <= Len(FeedPaths[HostAt(h)])
AtReading(t, p, f, n) == n + Len(f) <= AllFeeds /\ t = 0 /\ p = 0
AtHome(t, p, n) == n <= AllFeeds /\ t = 0 /\ p = 0
AtGuessing(t, p, n) == n <= AllFeeds + 2 + 2 * p /\ t <= Len(CandidatePaths)
AtPages(f, n) == n + 2 * Len(f) <= AllPages

Walk(a, h, t, p, f, n) ==
    /\ a \in Places
    /\ Shaped(h, t, p, f, n)
    /\ a = "newsroom" => AtNewsroom(h, t, p, n)
    /\ a = "feeds" => AtFeeds(h, t, p, n)
    /\ a = "probing" => AtProbing(h, t, p, n)
    /\ a = "reading" => AtReading(t, p, f, n)
    /\ a = "home" => AtHome(t, p, n)
    /\ a = "guessing" => AtGuessing(t, p, n)
    /\ a = "pages" => AtPages(f, n)
    /\ a = "done" => n <= AllPages

LEMMA WalkAt ==
    ASSUME NEW h, NEW t, NEW p, NEW f, NEW n, Shaped(h, t, p, f, n)
    PROVE  /\ AtNewsroom(h, t, p, n) => Walk("newsroom", h, t, p, f, n)
           /\ AtFeeds(h, t, p, n) => Walk("feeds", h, t, p, f, n)
           /\ AtProbing(h, t, p, n) => Walk("probing", h, t, p, f, n)
           /\ AtReading(t, p, f, n) => Walk("reading", h, t, p, f, n)
           /\ AtHome(t, p, n) => Walk("home", h, t, p, f, n)
           /\ AtGuessing(t, p, n) => Walk("guessing", h, t, p, f, n)
           /\ AtPages(f, n) => Walk("pages", h, t, p, f, n)
           /\ n <= AllPages => Walk("done", h, t, p, f, n)
  BY DEF Walk, Places

----------------------------------------------------------------------------
(* Sequences of URLs.                                                      *)

LEMMA FirstsFit ==
    ASSUME NEW S, NEW s \in Seq(S), NEW n \in Nat
    PROVE  Firsts(s, n) \in Seq(S) /\ Len(Firsts(s, n)) <= n /\ Len(Firsts(s, n)) \in Nat
<1> PICK k : k = IF Len(s) < n THEN Len(s) ELSE n
  OBVIOUS
<1>1. k \in 0..Len(s) /\ k <= n /\ k \in Nat
  OBVIOUS
<1>2. \A i \in 1..k : s[i] \in S
  BY <1>1
<1>3. SubSeq(s, 1, k) \in Seq(S) /\ Len(SubSeq(s, 1, k)) = k
  BY <1>1, <1>2
<1> QED
  BY <1>1, <1>3 DEF Firsts

LEMMA OrdersFit ==
    ASSUME NEW S, IsFiniteSet(S), NEW s \in Orders(S)
    PROVE  s \in Seq(S)
<1>1. Cardinality(S) \in Nat
  BY FS_CardinalityType
<1>2. s \in [1..Cardinality(S) -> S]
  BY DEF Orders
<1> QED
  BY <1>1, <1>2

LEMMA HostAtIsOwn ==
    ASSUME NEW h \in 0..Len(Newsrooms)
    PROVE  HostAt(h) \in Site
<1>1. CASE h = 0
  BY <1>1, SiteIsOwn DEF HostAt
<1>2. CASE h # 0
  <2>1. h \in 1..Len(Newsrooms)
    BY <1>2, BoundsAreNat
  <2> QED
    BY <1>2, <2>1, BoundsAreNat DEF HostAt
<1> QED
  BY <1>1, <1>2

LEMMA PathIsOwn ==
    /\ \A h \in Site : /\ FeedPaths[h] \in Seq(Urls) /\ Len(FeedPaths[h]) \in Nat
                       /\ \A i \in 1..Len(FeedPaths[h]) :
                             FeedPaths[h][i] \in Own /\ HostOf[FeedPaths[h][i]] = h
    /\ CandidatePaths \in Seq(Urls) /\ Len(CandidatePaths) \in Nat
    /\ \A i \in 1..Len(CandidatePaths) :
          CandidatePaths[i] \in Own /\ HostOf[CandidatePaths[i]] = Base
<1>1. ASSUME NEW h \in Site
      PROVE  /\ FeedPaths[h] \in Seq(Urls) /\ Len(FeedPaths[h]) \in Nat
             /\ \A i \in 1..Len(FeedPaths[h]) :
                   FeedPaths[h][i] \in Own /\ HostOf[FeedPaths[h][i]] = h
  <2>1. FeedPaths[h] \in Seq(Urls)
    BY PathsAssumption
  <2>2. Len(FeedPaths[h]) \in Nat /\ DOMAIN FeedPaths[h] = 1..Len(FeedPaths[h])
    BY <2>1
  <2>3. \A i \in 1..Len(FeedPaths[h]) : FeedPaths[h][i] \in Urls
    BY <2>1
  <2>4. \A i \in 1..Len(FeedPaths[h]) : HostOf[FeedPaths[h][i]] = h
    BY <2>2, PathsAssumption
  <2> QED
    BY <2>1, <2>2, <2>3, <2>4 DEF Own
<1>2. CandidatePaths \in Seq(Urls)
  BY PathsAssumption
<1>3. Len(CandidatePaths) \in Nat /\ DOMAIN CandidatePaths = 1..Len(CandidatePaths)
      /\ \A i \in 1..Len(CandidatePaths) : CandidatePaths[i] \in Urls
  BY <1>2
<1>4. \A i \in 1..Len(CandidatePaths) : HostOf[CandidatePaths[i]] = Base
  BY <1>3, PathsAssumption
<1> QED
  BY <1>1, <1>2, <1>3, <1>4, SiteIsOwn DEF Own

LEMMA LinksFit ==
    /\ \A linked \in SUBSET FeedLinks :
          /\ {x \in linked : SameHost(x)} \subseteq Own
          /\ \A S : IsFiniteSet({x \in linked : SameHost(x)} \ S)
    /\ \A linked \in SUBSET Links :
          /\ {x \in linked : SameSite(x)} \subseteq Own
          /\ IsFiniteSet({x \in linked : SameSite(x)})
<1>1. /\ Links \cup FeedLinks \subseteq Urls /\ IsFiniteSet(Links \cup FeedLinks)
  BY PathsAssumption
<1>2. \A T \in SUBSET (Links \cup FeedLinks) : IsFiniteSet(T)
  BY <1>1, FS_Subset
<1>3. ASSUME NEW linked \in SUBSET FeedLinks
      PROVE  /\ {x \in linked : SameHost(x)} \subseteq Own
             /\ \A S : IsFiniteSet({x \in linked : SameHost(x)} \ S)
  <2>1. {x \in linked : SameHost(x)} \subseteq Own
    BY <1>1 DEF SameHost, Own
  <2>2. \A S : {x \in linked : SameHost(x)} \ S \in SUBSET (Links \cup FeedLinks)
    OBVIOUS
  <2> QED
    BY <1>2, <2>1, <2>2
<1>4. ASSUME NEW linked \in SUBSET Links
      PROVE  /\ {x \in linked : SameSite(x)} \subseteq Own
             /\ IsFiniteSet({x \in linked : SameSite(x)})
  <2>1. {x \in linked : SameSite(x)} \subseteq Own
    BY <1>1 DEF SameSite, Own
  <2>2. {x \in linked : SameSite(x)} \in SUBSET (Links \cup FeedLinks)
    OBVIOUS
  <2> QED
    BY <1>2, <2>1, <2>2
<1> QED
  BY <1>3, <1>4

----------------------------------------------------------------------------
(* Where the reading goes when it is done with a host: to the next one a    *)
(* newsroom may be on, or to what was found.                                *)
LEMMA NextHostWalks ==
    ASSUME NEW list \in Seq(Own), NEW n \in Nat, host \in 0..Len(Newsrooms),
           n <= Upto(host) + 2 + MaxProbes, NextHost(list)
    PROVE  Walk(at', host', tried', probes', found', n)
<1>1. tried' = 0 /\ probes' = 0
  BY DEF NextHost
<1>2. 0 \in 0..MaxProbes /\ 0 \in Nat /\ host \in Nat /\ Upto(host) \in Nat
  BY BoundsAreNat, UptoGrows
<1>3. CASE at' = "newsroom" /\ host' = host + 1 /\ found' = list /\ host < Len(Newsrooms)
  <2>1. host + 1 \in 0..Len(Newsrooms) /\ host + 1 >= 1
    BY <1>2, <1>3, BoundsAreNat
  <2>2. n <= Upto(host + 1)
    BY <1>2, UptoGrows, BoundsAreNat
  <2>3. Shaped(host + 1, 0, 0, list, n)
    BY <1>2, <2>1 DEF Shaped
  <2>4. AtNewsroom(host + 1, 0, 0, n)
    BY <2>1, <2>2 DEF AtNewsroom
  <2>5. Walk("newsroom", host + 1, 0, 0, list, n)
    BY <2>3, <2>4, WalkAt
  <2> QED
    BY <1>1, <1>3, <2>5
<1>4. CASE at' = "reading" /\ host' = host /\ found' = Firsts(list, MaxFeeds)
  <2> PICK f : f = Firsts(list, MaxFeeds)
    OBVIOUS
  <2>1. f \in Seq(Own) /\ Len(f) <= MaxFeeds /\ Len(f) \in Nat
    BY FirstsFit, BoundsAreNat
  <2>2. n + Len(f) <= AllFeeds
    <3>1. Upto(host) + 2 + MaxProbes + MaxFeeds <= AllFeeds
      BY AllAreNat
    <3> QED
      BY <1>2, <2>1, <3>1, AllAreNat, BoundsAreNat
  <2>3. Shaped(host, 0, 0, f, n)
    BY <1>2, <2>1 DEF Shaped
  <2>4. AtReading(0, 0, f, n)
    BY <2>2 DEF AtReading
  <2>5. Walk("reading", host, 0, 0, f, n)
    BY <2>3, <2>4, WalkAt
  <2> QED
    BY <1>1, <1>4, <2>5
<1> QED
  BY <1>3, <1>4 DEF NextHost
----------------------------------------------------------------------------
(* The invariant, and the steps.                                           *)

WebFit ==
    /\ SiteFit
    /\ Walk(at, host, tried, probes, found, requested.times)
    /\ hostsRead \subseteq Hosts
    /\ docs \subseteq Urls

LEMMA WebFitInit == WebInit => WebFit
<1> SUFFICES ASSUME WebInit PROVE WebFit
  OBVIOUS
<1>1. Known(rules)
  BY DEF WebInit, Known
<1>2. browser \in Browsers /\ RefusalsFit(skippedRobots) /\ EmptyFit(empty)
  BY DEF WebInit, Browsers, RefusalsFit, EmptyFit
<1>3. /\ browserHosts = {} /\ skippedJs = {} /\ unreadable = {} /\ hostsRead = {} /\ docs = {}
      /\ empty = {}
  BY DEF WebInit
<1>4. requested.urls = {} /\ requested.times = 0
  BY DEF WebInit
<1>5. SiteFit
  <2>1. 0 \in Nat
    OBVIOUS
  <2> QED
    BY <1>1, <1>2, <1>3, <1>4, <2>1 DEF SiteFit
<1>6. Walk("feeds", 0, 0, 0, <<>>, 0)
  <2>1. Shaped(0, 0, 0, <<>>, 0)
    BY BoundsAreNat DEF Shaped
  <2>2. AtFeeds(0, 0, 0, 0)
    BY UptoGrows DEF AtFeeds
  <2> QED
    BY <2>1, <2>2, WalkAt
<1>7. at = "feeds" /\ host = 0 /\ tried = 0 /\ probes = 0 /\ found = <<>>
  BY DEF WebInit
<1> QED
  BY <1>3, <1>4, <1>5, <1>6, <1>7 DEF WebFit

LEMMA ShapedHere ==
    ASSUME WebFit
    PROVE  /\ SiteFit
           /\ Shaped(host, tried, probes, found, requested.times)
           /\ host \in 0..Len(Newsrooms) /\ host \in Nat /\ Upto(host) \in Nat
           /\ tried \in Nat /\ probes \in 0..MaxProbes /\ probes \in Nat
           /\ found \in Seq(Own) /\ Len(found) \in Nat
           /\ requested.times \in Nat
           /\ browser \in Browsers
           /\ \A h \in Hosts : RulesFor(h) \subseteq Rules(h)
<1>1. SiteFit /\ Shaped(host, tried, probes, found, requested.times)
  BY DEF WebFit, Walk
<1>2. /\ host \in 0..Len(Newsrooms) /\ tried \in Nat /\ probes \in 0..MaxProbes
      /\ found \in Seq(Own) /\ requested.times \in Nat
  BY <1>1 DEF Shaped
<1>3. host \in Nat /\ probes \in Nat /\ Len(found) \in Nat
  BY <1>2, BoundsAreNat
<1>4. \A h \in Hosts : RulesFor(h) \subseteq Rules(h)
  <2>1. \A h \in Hosts : rules[h] \in {Unread} \cup Rules(h)
    BY <1>1 DEF SiteFit, Known
  <2> QED
    BY <2>1 DEF RulesFor
<1> QED
  BY <1>1, <1>2, <1>3, <1>4, UptoGrows DEF SiteFit

LEMMA TryNewsroomFits == WebFit /\ TryNewsroom => WebFit'
<1> SUFFICES ASSUME WebFit, TryNewsroom PROVE WebFit'
  OBVIOUS
<1> USE ShapedHere
<1>1. AtNewsroom(host, tried, probes, requested.times)
  BY DEF WebFit, Walk, TryNewsroom
<1> PICK h : h = HostAt(host)
  OBVIOUS
<1>2. h \in Hosts
  BY HostAtIsOwn DEF Hosts
<1>3. PICK r \in RulesFor(h) :
        /\ rules' = [rules EXCEPT ![h] = r]
        /\ IF r.verdict = "no_such_host" THEN NextHost(found)
           ELSE at' = "feeds" /\ UNCHANGED <<host, tried, probes, found>>
  BY DEF TryNewsroom
<1>4. UNCHANGED <<browser, browserHosts, skippedJs, unreadable, skippedRobots, hostsRead,
                  docs, requested, empty>>
  BY DEF TryNewsroom
<1>5. SiteFit'
  BY <1>2, <1>3, <1>4, LearningFits
<1>6. requested'.times = requested.times
  BY <1>4
<1>7. Walk(at', host', tried', probes', found', requested.times)
  <2> PICK n : n = requested.times
    OBVIOUS
  <2>1. n \in Nat /\ n <= Upto(host) /\ n <= Upto(host) + 2 + MaxProbes
    BY <1>1, BoundsAreNat DEF AtNewsroom
  <2>2. CASE NextHost(found)
    BY <2>1, <2>2, NextHostWalks
  <2>3. CASE at' = "feeds" /\ UNCHANGED <<host, tried, probes, found>>
    <3>1. AtFeeds(host, tried, probes, n)
      BY <1>1 DEF AtNewsroom, AtFeeds
    <3>2. Walk("feeds", host, tried, probes, found, n)
      BY <3>1, WalkAt
    <3> QED
      BY <2>3, <3>2
  <2> QED
    BY <1>3, <2>2, <2>3
<1> QED
  BY <1>4, <1>5, <1>6, <1>7 DEF WebFit

LEMMA FeedHomeFits == WebFit /\ FeedHome => WebFit'
<1> SUFFICES ASSUME WebFit, FeedHome PROVE WebFit'
  OBVIOUS
<1> USE ShapedHere
<1>1. AtFeeds(host, tried, probes, requested.times)
  BY DEF WebFit, Walk, FeedHome
<1> PICK u : u = Home[HostAt(host)]
  OBVIOUS
<1>2. u \in Own /\ HostOf[u] \in Hosts /\ HostAt(host) \in Site
  BY HostAtIsOwn, SiteIsOwn
<1>10. PICK r \in RulesFor(HostOf[u]) : \E o \in Fetched(u, r) :
         /\ Remember(u, r, o)
         /\ \E linked \in SUBSET FeedLinks :
              IF {x \in linked : SameHost(x)} # {}
              THEN \E order \in Orders({x \in linked : SameHost(x)} \ Elements(found)) :
                      NextHost(found \o order)
              ELSE at' = "probing" /\ UNCHANGED <<host, tried, probes, found>>
  BY DEF FeedHome
<1>3. PICK o \in Fetched(u, r), linked \in SUBSET FeedLinks :
        /\ Remember(u, r, o)
        /\ IF {x \in linked : SameHost(x)} # {}
           THEN \E order \in Orders({x \in linked : SameHost(x)} \ Elements(found)) :
                   NextHost(found \o order)
           ELSE at' = "probing" /\ UNCHANGED <<host, tried, probes, found>>
  BY <1>10
<1>4. r \in Rules(HostOf[u])
  BY <1>2
<1>5. Sound(u, r, o, 2)
  BY <1>4, FetchedSound
<1>6. SiteFit' /\ requested'.times = requested.times + o.requests
  BY <1>2, <1>3, <1>5, RememberFits
<1>7. o.requests \in 0..2
  BY <1>5 DEF Sound
<1>8. UNCHANGED <<hostsRead, docs>>
  BY DEF FeedHome
<1>9. Walk(at', host', tried', probes', found', requested'.times)
  <2> PICK n : n = requested.times + o.requests
    OBVIOUS
  <2>1. n \in Nat /\ n <= Upto(host) + 2 /\ n <= Upto(host) + 2 + MaxProbes
    BY <1>1, <1>7, BoundsAreNat DEF AtFeeds
  <2>2. CASE {x \in linked : SameHost(x)} # {}
    <3>1. PICK order \in Orders({x \in linked : SameHost(x)} \ Elements(found)) :
            NextHost(found \o order)
      BY <1>3, <2>2
    <3>2. PICK new : new = {x \in linked : SameHost(x)} \ Elements(found)
      OBVIOUS
    <3>3. new \subseteq Own /\ IsFiniteSet(new)
      BY <3>2, LinksFit
    <3>4. order \in Seq(new)
      BY <3>1, <3>2, <3>3, OrdersFit
    <3>5. order \in Seq(Own)
      BY <3>3, <3>4
    <3>6. found \o order \in Seq(Own)
      BY <3>5
    <3>7. Walk(at', host', tried', probes', found', n)
      BY <2>1, <3>1, <3>6, NextHostWalks
    <3> QED
      BY <1>6, <3>7
  <2>3. CASE at' = "probing" /\ UNCHANGED <<host, tried, probes, found>>
    <3>1. AtProbing(host, tried, probes, n)
      <4>1. tried = 0 /\ probes = 0
        BY <1>1 DEF AtFeeds
      <4> QED
        BY <1>2, <2>1, <4>1, PathIsOwn DEF AtProbing
    <3>2. Shaped(host, tried, probes, found, n)
      BY <2>1 DEF Shaped
    <3>3. Walk("probing", host, tried, probes, found, n)
      BY <3>1, <3>2, WalkAt
    <3> QED
      BY <1>6, <2>3, <3>3
  <2> QED
    BY <1>3, <2>2, <2>3
<1> QED
  BY <1>6, <1>8, <1>9 DEF WebFit

LEMMA ProbeCounts ==
    ASSUME NEW c \in Nat, NEW p \in Nat, NEW m \in Nat, p < m, NEW t \in Nat, t <= c + 2 + p,
           NEW k \in 0..1
    PROVE  t + k \in Nat /\ t + k <= c + 2 + (p + 1) /\ t + k <= c + 2 + m
  OBVIOUS

LEMMA ProbeFeedFits == WebFit /\ ProbeFeed => WebFit'
<1> SUFFICES ASSUME WebFit, ProbeFeed PROVE WebFit'
  OBVIOUS
<1> USE ShapedHere
<1>1. AtProbing(host, tried, probes, requested.times)
  BY DEF WebFit, Walk, ProbeFeed
<1> PICK paths : paths = FeedPaths[HostAt(host)]
  OBVIOUS
<1> PICK u : u = paths[tried + 1]
  OBVIOUS
<1>2. UNCHANGED <<hostsRead, docs>>
  BY DEF ProbeFeed
<1>3. CASE (Spent \/ tried = Len(paths)) /\ NextHost(found) /\ UNCHANGED site
  <2>1. SiteFit' /\ requested' = requested
    BY <1>3, SiteStays DEF site
  <2> PICK n : n = requested.times
    OBVIOUS
  <2>2. n \in Nat /\ n <= Upto(host) + 2 + MaxProbes
    BY <1>1, BoundsAreNat DEF AtProbing
  <2>3. Walk(at', host', tried', probes', found', n)
    BY <1>3, <2>2, NextHostWalks
  <2> QED
    BY <1>2, <2>1, <2>3 DEF WebFit
<1>4. CASE /\ ~(Spent \/ tried = Len(paths))
           /\ \E r \in RulesFor(HostOf[u]) : \E o \in FetchedRaw(u, r), releases \in BOOLEAN :
                  /\ Remember(u, r, o)
                  /\ IF releases
                     THEN NextHost(IF u \in Elements(found) THEN found ELSE Append(found, u))
                     ELSE /\ tried' = tried + 1 /\ probes' = probes + 1
                          /\ UNCHANGED <<at, host, found>>
  <2>13. PICK r \in RulesFor(HostOf[u]) : \E o \in FetchedRaw(u, r), releases \in BOOLEAN :
          /\ Remember(u, r, o)
          /\ IF releases
             THEN NextHost(IF u \in Elements(found) THEN found ELSE Append(found, u))
             ELSE /\ tried' = tried + 1 /\ probes' = probes + 1
                  /\ UNCHANGED <<at, host, found>>
    BY <1>4
  <2>1. PICK o \in FetchedRaw(u, r), releases \in BOOLEAN :
          /\ Remember(u, r, o)
          /\ IF releases
             THEN NextHost(IF u \in Elements(found) THEN found ELSE Append(found, u))
             ELSE /\ tried' = tried + 1 /\ probes' = probes + 1
                  /\ UNCHANGED <<at, host, found>>
    BY <2>13
  <2>2. HostAt(host) \in Site
    BY HostAtIsOwn
  <2>3. Len(paths) \in Nat /\ tried < Len(paths)
    BY <1>1, <1>4, <2>2, PathIsOwn DEF AtProbing
  <2>4. tried + 1 \in 1..Len(paths) /\ tried + 1 \in Nat
    BY <2>3
  <2>5. u \in Own /\ HostOf[u] \in Hosts
    BY <2>2, <2>4, PathIsOwn, SiteIsOwn
  <2>6. r \in Rules(HostOf[u])
    BY <2>1, <2>5
  <2>7. Sound(u, r, o, 1)
    BY <2>6, FetchedRawSound
  <2>8. SiteFit' /\ requested'.times = requested.times + o.requests
    BY <2>1, <2>5, <2>7, RememberFits
  <2>9. o.requests \in 0..1
    BY <2>7 DEF Sound
  <2>10. probes < MaxProbes
    BY <1>4, BoundsAreNat DEF Spent
  <2> PICK n : n = requested.times + o.requests
    OBVIOUS
  <2>11. n \in Nat /\ n <= Upto(host) + 2 + (probes + 1) /\ n <= Upto(host) + 2 + MaxProbes
    <3>1. requested.times <= Upto(host) + 2 + probes
      BY <1>1 DEF AtProbing
    <3>2. requested.times \in Nat /\ Upto(host) \in Nat /\ probes \in Nat /\ MaxProbes \in Nat
      BY BoundsAreNat
    <3> HIDE ShapedHere
    <3> QED
      BY <2>9, <2>10, <3>1, <3>2, ProbeCounts
  <2>12. Walk(at', host', tried', probes', found', n)
    <3>1. CASE releases
      <4> PICK list : list = IF u \in Elements(found) THEN found ELSE Append(found, u)
        OBVIOUS
      <4>1. list \in Seq(Own)
        BY <2>5
      <4>2. NextHost(list)
        BY <2>1, <3>1
      <4> QED
        BY <2>11, <4>1, <4>2, NextHostWalks
    <3>2. CASE ~releases
      <4>1. /\ at' = "probing" /\ tried' = tried + 1 /\ probes' = probes + 1
            /\ host' = host /\ found' = found
        BY <2>1, <3>2 DEF ProbeFeed
      <4>2. probes + 1 \in 0..MaxProbes
        BY <2>10, BoundsAreNat
      <4>3. Shaped(host, tried + 1, probes + 1, found, n)
        BY <2>4, <2>11, <4>2 DEF Shaped
      <4>4. tried + 1 <= Len(FeedPaths[HostAt(host)])
        BY <2>4
      <4>5. AtProbing(host, tried + 1, probes + 1, n)
        BY <2>11, <4>4 DEF AtProbing
      <4>6. Walk("probing", host, tried + 1, probes + 1, found, n)
        BY <4>3, <4>5, WalkAt
      <4> QED
        BY <4>1, <4>6
    <3> QED
      BY <3>1, <3>2
  <2> QED
    BY <1>2, <2>8, <2>12 DEF WebFit
<1> QED
  BY <1>3, <1>4 DEF ProbeFeed

LEMMA ReadFeedFits == WebFit /\ ReadFeed => WebFit'
<1> SUFFICES ASSUME WebFit, ReadFeed PROVE WebFit'
  OBVIOUS
<1> USE ShapedHere
<1>1. AtReading(tried, probes, found, requested.times)
  BY DEF WebFit, Walk, ReadFeed
<1>2. UNCHANGED <<host, tried, probes>>
  BY DEF ReadFeed
<1> PICK u : u = Head(found)
  OBVIOUS
<1>3. CASE found = <<>> /\ at' = "home" /\ UNCHANGED <<found, docs, hostsRead, site>>
  <2>1. SiteFit' /\ requested' = requested /\ found' = found /\ docs' = docs
        /\ hostsRead' = hostsRead
    BY <1>3, SiteStays DEF site
  <2>2. AtHome(tried, probes, requested.times)
    BY <1>1, AllAreNat DEF AtReading, AtHome
  <2>3. Walk("home", host, tried, probes, found, requested.times)
    BY <2>2, WalkAt
  <2> QED
    BY <1>2, <1>3, <2>1, <2>3 DEF WebFit
<1>4. CASE /\ found # <<>>
           /\ \E r \in RulesFor(HostOf[u]) : \E o \in FetchedRaw(u, r), releases \in BOOLEAN :
                  /\ Remember(u, r, o)
                  /\ found' = Tail(found)
                  /\ docs' = IF releases THEN docs \cup {u} ELSE docs
                  /\ hostsRead' = IF releases THEN hostsRead \cup {HostOf[u]} ELSE hostsRead
                  /\ UNCHANGED at
  <2>14. PICK r \in RulesFor(HostOf[u]) : \E o \in FetchedRaw(u, r), releases \in BOOLEAN :
          /\ Remember(u, r, o)
          /\ found' = Tail(found)
          /\ docs' = IF releases THEN docs \cup {u} ELSE docs
          /\ hostsRead' = IF releases THEN hostsRead \cup {HostOf[u]} ELSE hostsRead
          /\ UNCHANGED at
    BY <1>4
  <2>1. PICK o \in FetchedRaw(u, r), releases \in BOOLEAN :
          /\ Remember(u, r, o)
          /\ found' = Tail(found)
          /\ docs' = IF releases THEN docs \cup {u} ELSE docs
          /\ hostsRead' = IF releases THEN hostsRead \cup {HostOf[u]} ELSE hostsRead
          /\ UNCHANGED at
    BY <2>14
  <2>2. u \in Own /\ Tail(found) \in Seq(Own) /\ Len(Tail(found)) = Len(found) - 1
    BY <1>4
  <2>3. HostOf[u] \in Hosts /\ u \in Urls
    BY <2>2, SiteIsOwn
  <2>4. r \in Rules(HostOf[u])
    BY <2>1, <2>3
  <2>5. Sound(u, r, o, 1)
    BY <2>4, FetchedRawSound
  <2>6. SiteFit' /\ requested'.times = requested.times + o.requests
    BY <2>1, <2>2, <2>5, RememberFits
  <2>7. o.requests \in 0..1
    BY <2>5 DEF Sound
  <2>8. hostsRead' \subseteq Hosts /\ docs' \subseteq Urls
    BY <2>1, <2>3 DEF WebFit
  <2> PICK n : n = requested.times + o.requests
    OBVIOUS
  <2> PICK f : f = Tail(found)
    OBVIOUS
  <2>9. n \in Nat /\ Len(f) \in Nat /\ n + Len(f) <= AllFeeds
    <3>1. requested.times + Len(found) <= AllFeeds
      BY <1>1 DEF AtReading
    <3>2. requested.times \in Nat /\ Len(found) \in Nat /\ Len(found) > 0 /\ AllFeeds \in Nat
      BY <1>4, AllAreNat
    <3>3. Len(f) = Len(found) - 1
      BY <2>2
    <3> HIDE ShapedHere
    <3> QED
      BY <2>7, <3>1, <3>2, <3>3
  <2>10. Shaped(host, tried, probes, f, n)
    BY <2>2, <2>9 DEF Shaped
  <2>11. AtReading(tried, probes, f, n)
    BY <1>1, <2>9 DEF AtReading
  <2>12. Walk("reading", host, tried, probes, f, n)
    BY <2>10, <2>11, WalkAt
  <2>13. at' = "reading"
    BY <2>1 DEF ReadFeed
  <2> QED
    BY <1>2, <2>1, <2>6, <2>8, <2>12, <2>13 DEF WebFit
<1> QED
  BY <1>3, <1>4 DEF ReadFeed
LEMMA PagesCount ==
    ASSUME NEW c \in Nat, NEW m \in Nat, NEW p \in 0..m, NEW t \in Nat, t <= c + 2 + 2 * p,
           NEW g \in Nat, NEW l \in Nat, l <= g
    PROVE  t + 2 * l <= c + 2 + 2 * m + 2 * g
  OBVIOUS

LEMMA HomePageFits == WebFit /\ HomePage => WebFit'
<1> SUFFICES ASSUME WebFit, HomePage PROVE WebFit'
  OBVIOUS
<1> USE ShapedHere
<1>1. AtHome(tried, probes, requested.times)
  BY DEF WebFit, Walk, HomePage
<1>2. UNCHANGED <<host, tried, probes, hostsRead, docs>>
  BY DEF HomePage
<1> PICK u : u = Home[Base]
  OBVIOUS
<1>3. u \in Own /\ HostOf[u] = Base /\ Base \in Hosts
  BY SiteIsOwn
<1>4. PICK r \in RulesFor(Base) : \E o \in Fetched(u, r) :
        /\ Remember(u, r, o)
        /\ IF o.how = "" THEN at' = "done" /\ UNCHANGED found
           ELSE \E linked \in SUBSET Links :
                  \E order \in Orders({x \in linked : SameSite(x)}) :
                     IF Len(Firsts(order, 2 * MaxPages)) < Enough
                     THEN at' = "guessing" /\ found' = Firsts(order, 2 * MaxPages)
                     ELSE /\ at' = "pages"
                          /\ found' = Firsts(Firsts(order, 2 * MaxPages), MaxPages)
  BY DEF HomePage
<1>5. PICK o \in Fetched(u, r) :
        /\ Remember(u, r, o)
        /\ IF o.how = "" THEN at' = "done" /\ UNCHANGED found
           ELSE \E linked \in SUBSET Links :
                  \E order \in Orders({x \in linked : SameSite(x)}) :
                     IF Len(Firsts(order, 2 * MaxPages)) < Enough
                     THEN at' = "guessing" /\ found' = Firsts(order, 2 * MaxPages)
                     ELSE /\ at' = "pages"
                          /\ found' = Firsts(Firsts(order, 2 * MaxPages), MaxPages)
  BY <1>4
<1>6. r \in RulesFor(HostOf[u]) /\ r \in Rules(Base)
  BY <1>3
<1>7. Sound(u, r, o, 2)
  BY <1>6, FetchedSound
<1>8. SiteFit' /\ requested'.times = requested.times + o.requests
  BY <1>3, <1>5, <1>6, <1>7, RememberFits
<1>9. o.requests \in 0..2
  BY <1>7 DEF Sound
<1> PICK n : n = requested.times + o.requests
  OBVIOUS
<1>10. requested.times <= AllFeeds /\ tried = 0 /\ probes = 0
  BY <1>1 DEF AtHome
<1>11. n \in Nat /\ n <= AllFeeds + 2
  <2>1. requested.times \in Nat /\ AllFeeds \in Nat
    BY AllAreNat
  <2> HIDE ShapedHere
  <2> QED
    BY <1>9, <1>10, <2>1
<1>12. Walk(at', host', tried', probes', found', n)
  <2>1. CASE at' = "done" /\ found' = found
    <3>1. Shaped(host, tried, probes, found, n)
      BY <1>11 DEF Shaped
    <3>2. n <= AllPages
      BY <1>11, AllAreNat, BoundsAreNat
    <3>3. Walk("done", host, tried, probes, found, n)
      BY <3>1, <3>2, WalkAt
    <3> QED
      BY <1>2, <2>1, <3>3
  <2>2. ASSUME NEW linked \in SUBSET Links, NEW order \in Orders({x \in linked : SameSite(x)}),
               IF Len(Firsts(order, 2 * MaxPages)) < Enough
               THEN at' = "guessing" /\ found' = Firsts(order, 2 * MaxPages)
               ELSE /\ at' = "pages"
                    /\ found' = Firsts(Firsts(order, 2 * MaxPages), MaxPages)
        PROVE  Walk(at', host', tried', probes', found', n)
    <3> PICK pages : pages = {x \in linked : SameSite(x)}
      OBVIOUS
    <3>1. pages \subseteq Own /\ IsFiniteSet(pages)
      BY LinksFit
    <3>2. order \in Seq(pages)
      BY <3>1, OrdersFit
    <3>3. order \in Seq(Own)
      BY <3>1, <3>2
    <3> PICK kept : kept = Firsts(order, 2 * MaxPages)
      OBVIOUS
    <3>4. kept \in Seq(Own)
      BY <3>3, FirstsFit, BoundsAreNat
    <3> PICK f : f = Firsts(kept, MaxPages)
      OBVIOUS
    <3>5. f \in Seq(Own) /\ Len(f) <= MaxPages /\ Len(f) \in Nat
      BY <3>4, FirstsFit, BoundsAreNat
    <3>6. CASE at' = "guessing" /\ found' = kept
      <4>1. Shaped(host, tried, probes, kept, n)
        BY <1>11, <3>4 DEF Shaped
      <4>2. AtGuessing(tried, probes, n)
        BY <1>10, <1>11, AllAreNat, PathIsOwn DEF AtGuessing
      <4>3. Walk("guessing", host, tried, probes, kept, n)
        BY <4>1, <4>2, WalkAt
      <4> QED
        BY <1>2, <3>6, <4>3
    <3>7. CASE at' = "pages" /\ found' = f
      <4>1. Shaped(host, tried, probes, f, n)
        BY <1>11, <3>5 DEF Shaped
      <4>2. AtPages(f, n)
        <5>1. n <= AllFeeds + 2 + 2 * 0 /\ AllFeeds \in Nat /\ MaxProbes \in Nat
              /\ MaxPages \in Nat /\ 0 \in 0..MaxProbes
          BY <1>11, AllAreNat, BoundsAreNat
        <5> HIDE ShapedHere
        <5>2. n + 2 * Len(f) <= AllFeeds + 2 + 2 * MaxProbes + 2 * MaxPages
          BY <1>11, <3>5, <5>1, PagesCount
        <5> QED
          BY <5>2, AllAreNat DEF AtPages
      <4>3. Walk("pages", host, tried, probes, f, n)
        BY <4>1, <4>2, WalkAt
      <4> QED
        BY <1>2, <3>7, <4>3
    <3> QED
      BY <2>2, <3>6, <3>7
  <2> QED
    BY <1>5, <2>1, <2>2
<1> QED
  BY <1>2, <1>8, <1>12 DEF WebFit

LEMMA GuessCounts ==
    ASSUME NEW c \in Nat, NEW p \in Nat, NEW t \in Nat, t <= c + 2 + 2 * p, NEW k \in 0..2
    PROVE  t + k \in Nat /\ t + k <= c + 2 + 2 * (p + 1)
  OBVIOUS

LEMMA GuessPageFits == WebFit /\ GuessPage => WebFit'
<1> SUFFICES ASSUME WebFit, GuessPage PROVE WebFit'
  OBVIOUS
<1> USE ShapedHere
<1>1. AtGuessing(tried, probes, requested.times)
  BY DEF WebFit, Walk, GuessPage
<1>2. UNCHANGED <<host, hostsRead, docs>>
  BY DEF GuessPage
<1>3. requested.times <= AllFeeds + 2 + 2 * probes /\ tried <= Len(CandidatePaths)
  BY <1>1 DEF AtGuessing
<1> PICK u : u = CandidatePaths[tried + 1]
  OBVIOUS
<1>4. CASE /\ at' = "pages" /\ found' = Firsts(found, MaxPages)
           /\ UNCHANGED <<tried, probes, site>>
  <2>1. SiteFit' /\ requested' = requested
    BY <1>4, SiteStays DEF site
  <2> PICK f : f = Firsts(found, MaxPages)
    OBVIOUS
  <2>2. f \in Seq(Own) /\ Len(f) <= MaxPages /\ Len(f) \in Nat
    BY FirstsFit, BoundsAreNat
  <2>3. Shaped(host, tried, probes, f, requested.times)
    BY <2>2 DEF Shaped
  <2>4. requested.times + 2 * Len(f) <= AllFeeds + 2 + 2 * MaxProbes + 2 * MaxPages
    <3>1. requested.times \in Nat /\ AllFeeds \in Nat /\ MaxProbes \in Nat /\ MaxPages \in Nat
          /\ probes \in 0..MaxProbes
      BY AllAreNat, BoundsAreNat
    <3> HIDE ShapedHere
    <3> QED
      BY <1>3, <2>2, <3>1, PagesCount
  <2>5. AtPages(f, requested.times)
    BY <2>4, AllAreNat DEF AtPages
  <2>6. Walk("pages", host, tried, probes, f, requested.times)
    BY <2>3, <2>5, WalkAt
  <2> QED
    BY <1>2, <1>4, <2>1, <2>6 DEF WebFit
<1>5. CASE /\ ~(tried = Len(CandidatePaths) \/ Spent \/ Len(found) >= MaxPages)
           /\ tried' = tried + 1
           /\ UNCHANGED at
           /\ IF u \in Elements(found) THEN UNCHANGED <<probes, found, site>>
              ELSE \E r \in RulesFor(Base) : \E o \in Fetched(u, r) :
                     /\ Remember(u, r, o)
                     /\ probes' = probes + 1
                     /\ found' = IF o.size = 3 THEN Append(found, u) ELSE found
  <2>1. at' = "guessing" /\ tried' = tried + 1
    BY <1>5 DEF GuessPage
  <2>2. tried + 1 \in Nat /\ tried + 1 \in 1..Len(CandidatePaths)
        /\ tried + 1 <= Len(CandidatePaths)
    BY <1>3, <1>5, PathIsOwn
  <2>3. u \in Own /\ HostOf[u] = Base /\ Base \in Hosts
    BY <2>2, PathIsOwn, SiteIsOwn
  <2>4. CASE u \in Elements(found)
    <3>1. UNCHANGED <<probes, found, site>>
      BY <1>5, <2>4
    <3>2. SiteFit' /\ requested' = requested /\ probes' = probes /\ found' = found
      BY <3>1, SiteStays DEF site
    <3>3. Shaped(host, tried + 1, probes, found, requested.times)
      BY <2>2 DEF Shaped
    <3>4. AtGuessing(tried + 1, probes, requested.times)
      BY <1>3, <2>2 DEF AtGuessing
    <3>5. Walk("guessing", host, tried + 1, probes, found, requested.times)
      BY <3>3, <3>4, WalkAt
    <3> QED
      BY <1>2, <2>1, <3>2, <3>5 DEF WebFit
  <2>5. CASE u \notin Elements(found)
    <3>1. PICK r \in RulesFor(Base) : \E o \in Fetched(u, r) :
            /\ Remember(u, r, o)
            /\ probes' = probes + 1
            /\ found' = IF o.size = 3 THEN Append(found, u) ELSE found
      BY <1>5, <2>5
    <3>2. PICK o \in Fetched(u, r) :
            /\ Remember(u, r, o)
            /\ probes' = probes + 1
            /\ found' = IF o.size = 3 THEN Append(found, u) ELSE found
      BY <3>1
    <3>3. r \in RulesFor(HostOf[u]) /\ r \in Rules(Base)
      BY <2>3
    <3>4. Sound(u, r, o, 2)
      BY <3>3, FetchedSound
    <3>5. SiteFit' /\ requested'.times = requested.times + o.requests
      BY <2>3, <3>2, <3>3, <3>4, RememberFits
    <3>6. o.requests \in 0..2
      BY <3>4 DEF Sound
    <3> PICK n : n = requested.times + o.requests
      OBVIOUS
    <3> PICK f : f = IF o.size = 3 THEN Append(found, u) ELSE found
      OBVIOUS
    <3>7. f \in Seq(Own)
      BY <2>3
    <3>8. n \in Nat /\ n <= AllFeeds + 2 + 2 * (probes + 1)
      <4>1. requested.times \in Nat /\ AllFeeds \in Nat /\ probes \in Nat
        BY AllAreNat
      <4> HIDE ShapedHere
      <4> QED
        BY <1>3, <3>6, <4>1, GuessCounts
    <3>9. probes + 1 \in 0..MaxProbes
      BY <1>5, BoundsAreNat DEF Spent
    <3>10. Shaped(host, tried + 1, probes + 1, f, n)
      BY <2>2, <3>7, <3>8, <3>9 DEF Shaped
    <3>11. AtGuessing(tried + 1, probes + 1, n)
      BY <2>2, <3>8 DEF AtGuessing
    <3>12. Walk("guessing", host, tried + 1, probes + 1, f, n)
      BY <3>10, <3>11, WalkAt
    <3> QED
      BY <1>2, <2>1, <3>2, <3>5, <3>12 DEF WebFit
  <2> QED
    BY <2>4, <2>5
<1> QED
  BY <1>4, <1>5 DEF GuessPage

LEMMA PageCounts ==
    ASSUME NEW c \in Nat, NEW l \in Nat, l > 0, NEW l1, l1 = l - 1, NEW t \in Nat,
           t + 2 * l <= c, NEW k \in 0..2
    PROVE  t + k \in Nat /\ l1 \in Nat /\ t + k + 2 * l1 <= c
  OBVIOUS

LEMMA ReadPageFits == WebFit /\ ReadPage => WebFit'
<1> SUFFICES ASSUME WebFit, ReadPage PROVE WebFit'
  OBVIOUS
<1> USE ShapedHere
<1>1. requested.times + 2 * Len(found) <= AllPages
  BY DEF WebFit, Walk, ReadPage, AtPages
<1>2. UNCHANGED <<host, tried, probes, hostsRead>>
  BY DEF ReadPage
<1> PICK u : u = Head(found)
  OBVIOUS
<1>3. CASE found = <<>> /\ at' = "done" /\ UNCHANGED <<found, docs, site>>
  <2>1. SiteFit' /\ requested' = requested /\ found' = found /\ docs' = docs
    BY <1>3, SiteStays DEF site
  <2>2. requested.times <= AllPages
    BY <1>1, AllAreNat
  <2>3. Walk("done", host, tried, probes, found, requested.times)
    BY <2>2, WalkAt
  <2> QED
    BY <1>2, <1>3, <2>1, <2>3 DEF WebFit
<1>4. CASE /\ found # <<>>
           /\ \E r \in RulesFor(HostOf[u]) : \E o \in Fetched(u, r) :
                  /\ Remember(u, r, o)
                  /\ found' = Tail(found)
                  /\ docs' = IF o.size >= 2 THEN docs \cup {u} ELSE docs
                  /\ UNCHANGED at
  <2>1. PICK r \in RulesFor(HostOf[u]) : \E o \in Fetched(u, r) :
          /\ Remember(u, r, o)
          /\ found' = Tail(found)
          /\ docs' = IF o.size >= 2 THEN docs \cup {u} ELSE docs
          /\ UNCHANGED at
    BY <1>4
  <2>2. PICK o \in Fetched(u, r) :
          /\ Remember(u, r, o)
          /\ found' = Tail(found)
          /\ docs' = IF o.size >= 2 THEN docs \cup {u} ELSE docs
          /\ UNCHANGED at
    BY <2>1
  <2>3. u \in Own /\ Tail(found) \in Seq(Own) /\ Len(Tail(found)) = Len(found) - 1
    BY <1>4
  <2>4. HostOf[u] \in Hosts /\ u \in Urls
    BY <2>3, SiteIsOwn
  <2>5. r \in Rules(HostOf[u])
    BY <2>4
  <2>6. Sound(u, r, o, 2)
    BY <2>5, FetchedSound
  <2>7. SiteFit' /\ requested'.times = requested.times + o.requests
    BY <2>2, <2>3, <2>6, RememberFits
  <2>8. o.requests \in 0..2
    BY <2>6 DEF Sound
  <2>9. docs' \subseteq Urls
    BY <2>2, <2>4 DEF WebFit
  <2> PICK n : n = requested.times + o.requests
    OBVIOUS
  <2> PICK f : f = Tail(found)
    OBVIOUS
  <2>10. n \in Nat /\ Len(f) \in Nat /\ n + 2 * Len(f) <= AllPages
    <3>1. requested.times \in Nat /\ Len(found) \in Nat /\ Len(found) > 0 /\ AllPages \in Nat
      BY <1>4, AllAreNat
    <3>2. Len(f) = Len(found) - 1
      BY <2>3
    <3> HIDE ShapedHere
    <3> QED
      BY <1>1, <2>8, <3>1, <3>2, PageCounts
  <2>11. Shaped(host, tried, probes, f, n)
    BY <2>3, <2>10 DEF Shaped
  <2>12. Walk("pages", host, tried, probes, f, n)
    BY <2>10, <2>11, WalkAt DEF AtPages
  <2>13. at' = "pages"
    BY <2>2 DEF ReadPage
  <2> QED
    BY <1>2, <2>2, <2>7, <2>9, <2>12, <2>13 DEF WebFit
<1> QED
  BY <1>3, <1>4 DEF ReadPage

LEMMA WebFitStays == WebFit /\ UNCHANGED webVars => WebFit'
<1> SUFFICES ASSUME WebFit, UNCHANGED webVars PROVE WebFit'
  OBVIOUS
<1>1. UNCHANGED site /\ at' = at /\ host' = host /\ tried' = tried /\ probes' = probes
      /\ found' = found /\ requested' = requested /\ hostsRead' = hostsRead /\ docs' = docs
  BY DEF webVars, site
<1>2. SiteFit'
  BY <1>1, SiteStays DEF WebFit
<1> QED
  BY <1>1, <1>2 DEF WebFit

LEMMA WebFitHolds == WebSpec => []WebFit
<1>1. WebFit /\ [WebNext]_webVars => WebFit'
  BY TryNewsroomFits, FeedHomeFits, ProbeFeedFits, ReadFeedFits, HomePageFits, GuessPageFits,
     ReadPageFits, WebFitStays DEF WebNext
<1> QED
  BY <1>1, WebFitInit, PTL DEF WebSpec

----------------------------------------------------------------------------
(* What the invariant gives.                                               *)

(* Every variable has its shape, and no host is read by rules that are not *)
(* its own.                                                                *)
THEOREM SiteTypes == WebSpec => []WebTypeOK
<1>1. WebFit => WebTypeOK
  <2> SUFFICES ASSUME WebFit PROVE WebTypeOK
    OBVIOUS
  <2> USE ShapedHere
  <2>1. /\ \A h \in Hosts : rules[h] \in {Unread} \cup Rules(h)
        /\ browserHosts \cup skippedJs \cup unreadable \cup hostsRead \subseteq Hosts
        /\ docs \subseteq Urls
    BY DEF WebFit, SiteFit, Known
  <2>2. at \in {"feeds", "newsroom", "probing", "reading", "home", "guessing", "pages", "done"}
    BY DEF WebFit, Walk, Places
  <2>3. Elements(found) \subseteq Urls
    <3>1. DOMAIN found = 1..Len(found) /\ \A i \in 1..Len(found) : found[i] \in Own
      OBVIOUS
    <3> QED
      BY <3>1, SiteIsOwn DEF Elements
  <2>4. browser \in {"idle", "up", "failed"}
    BY DEF Browsers
  <2>5. skippedRobots \subseteq
           [url : Urls, reason : {"deny_all", "no_such_host", "Crawl-delay", "disallowed"}]
    BY DEF SiteFit, RefusalsFit, Reasons
  <2>6. requested.urls \subseteq Urls
    <3>1. \A u \in requested.urls : u \in Own
      BY DEF SiteFit, Permitted
    <3> QED
      BY <3>1, SiteIsOwn
  <2>7. empty \subseteq [url : Urls, how : {"robots", "browser", "hollow", "none"}]
    <3>1. empty \subseteq [url : Own, how : Blanks]
      BY DEF SiteFit, EmptyFit
    <3> QED
      BY <3>1, SiteIsOwn DEF Blanks
  <2> QED
    BY <2>1, <2>2, <2>3, <2>4, <2>5, <2>6, <2>7, Zenon DEF WebTypeOK
<1> QED
  BY <1>1, WebFitHolds, PTL

(* A page that gave nothing is in the run's notes, unless its host does not *)
(* exist or the site served it with nothing in it.                         *)
THEOREM GapsAreTold == WebSpec => []NothingSilent
<1>1. WebFit => NothingSilent
  <2> SUFFICES ASSUME WebFit, NEW e \in empty
               PROVE  \/ HostOf[e.url] \in Noted
                      \/ rules[HostOf[e.url]].verdict = "no_such_host"
                      \/ e.how = "hollow"
    BY DEF NothingSilent
  <2>1. Explained(e, rules, skippedJs, unreadable, skippedRobots)
    BY DEF WebFit, SiteFit
  <2>2. skippedJs \cup unreadable \cup ReasonedRefusals(skippedRobots) = Noted
    BY DEF Noted, NotedForBrowser, NotedUnread, NotedFeedOnly, NotedRefusals, ReasonedRefusals
  <2> QED
    BY <2>1, <2>2 DEF Explained
<1> QED
  BY <1>1, WebFitHolds, PTL

(* Nothing is asked for that a site's robots.txt refuses, or of a site that *)
(* is somebody else's, and what reading one costs is bounded by the limits *)
(* on probes, feeds and pages, whatever it answers and links to.           *)
THEOREM SiteIsSpared == WebSpec => []Polite
<1>1. WebFit => Behaves
  <2> SUFFICES ASSUME WebFit, NEW u \in requested.urls
               PROVE  HostOf[u] \in Site /\ Refusal(u, rules[HostOf[u]]) = ""
    BY DEF Behaves
  <2>1. Permitted(u, rules)
    BY DEF WebFit, SiteFit
  <2> QED
    BY <2>1, SiteIsOwn DEF Permitted, Allows
<1>2. WebFit => Bounded
  <2> SUFFICES ASSUME WebFit PROVE Bounded
    OBVIOUS
  <2> PICK n : n = requested.times
    OBVIOUS
  <2>1. n \in Nat
    BY ShapedHere
  <2>2. n <= AllPages
    <3> PICK c : c = AllFeeds
      OBVIOUS
    <3>1. c \in Nat /\ AllPages = c + 2 + 2 * MaxProbes + 2 * MaxPages
      BY AllAreNat
    <3>2. CASE at \in {"newsroom", "feeds", "probing"}
      <4>1. n <= Upto(host) + 2 + probes
        <5>1. /\ at = "newsroom" => n <= Upto(host)
              /\ at = "feeds" => n <= Upto(host)
              /\ at = "probing" => n <= Upto(host) + 2 + probes
          BY DEF WebFit, Walk, AtNewsroom, AtFeeds, AtProbing
        <5>2. n <= Upto(host) \/ n <= Upto(host) + 2 + probes
          BY <3>2, <5>1
        <5>3. Upto(host) \in Nat /\ probes \in Nat
          BY ShapedHere
        <5> QED
          BY <2>1, <5>2, <5>3
      <4>2. Upto(host) + 2 + MaxProbes + MaxFeeds <= c
        BY AllAreNat, ShapedHere
      <4>3. Upto(host) \in Nat /\ probes \in 0..MaxProbes
        BY ShapedHere
      <4> QED
        BY <2>1, <3>1, <4>1, <4>2, <4>3, BoundsAreNat
    <3>3. CASE at = "reading"
      <4>1. n + Len(found) <= c
        BY <3>3 DEF WebFit, Walk, AtReading
      <4>2. Len(found) \in Nat
        BY ShapedHere
      <4> QED
        BY <2>1, <3>1, <4>1, <4>2, BoundsAreNat
    <3>4. CASE at = "home"
      <4>1. n <= c
        BY <3>4 DEF WebFit, Walk, AtHome
      <4> QED
        BY <2>1, <3>1, <4>1, BoundsAreNat
    <3>5. CASE at = "guessing"
      <4>1. n <= c + 2 + 2 * probes
        BY <3>5 DEF WebFit, Walk, AtGuessing
      <4>2. probes \in 0..MaxProbes
        BY ShapedHere
      <4> QED
        BY <2>1, <3>1, <4>1, <4>2, BoundsAreNat
    <3>6. CASE at = "pages"
      <4>1. n + 2 * Len(found) <= AllPages
        BY <3>6 DEF WebFit, Walk, AtPages
      <4>2. Len(found) \in Nat
        BY ShapedHere
      <4> QED
        BY <2>1, <4>1, <4>2, AllAreNat
    <3>7. CASE at = "done"
      BY <3>7 DEF WebFit, Walk
    <3>8. at \in Places
      BY DEF WebFit, Walk
    <3> QED
      BY <3>2, <3>3, <3>4, <3>5, <3>6, <3>7, <3>8 DEF Places
  <2>3. AllPages = (2 + MaxProbes) * (1 + Len(Newsrooms)) + MaxFeeds
                   + 2 * (1 + MaxProbes + MaxPages)
    <3>1. AllPages = AllFeeds + 2 + 2 * MaxProbes + 2 * MaxPages
          /\ AllFeeds = Upto(1 + Len(Newsrooms)) + MaxFeeds
          /\ Upto(1 + Len(Newsrooms)) \in Nat
      BY AllAreNat, UptoGrows, BoundsAreNat DEF AllFeeds
    <3> PICK c : c = Upto(1 + Len(Newsrooms))
      OBVIOUS
    <3>2. AllPages = c + MaxFeeds + 2 * (1 + MaxProbes + MaxPages)
      BY <3>1, BoundsAreNat
    <3> QED
      BY <3>2 DEF Upto
  <2> QED
    BY <2>2, <2>3 DEF Bounded
<1>3. WebFit => Polite
  BY <1>1, <1>2 DEF Polite
<1> QED
  BY <1>3, WebFitHolds, PTL
=============================================================================
