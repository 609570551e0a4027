----------------------------- MODULE Screening ------------------------------
(***************************************************************************)
(* Screening one contractor, night after night: what its documents say     *)
(* (text), what any workspace last read of them (snapshots), what each     *)
(* workspace has on file about it (findings, notices), and the settings    *)
(* that decide what is looked for and what is said, which may change at    *)
(* any moment of a screen.                                                 *)
(*                                                                         *)
(* A document is the set of passages in it that some rule fires on, so     *)
(* that two revisions are the same text when they are the same set.  A     *)
(* company release also has its headline, which every revision of it has   *)
(* and which counts only when the document is new.                         *)
(***************************************************************************)
EXTENDS NoticePolicy, FiniteSets

CONSTANTS
    Workspaces,
    Screens,        \* processes that screen the contractor, each for a workspace
    HomeOf,         \* [Screens -> Workspaces]
    ByWatchlist,    \* those that are started by the workspace's watchlist
    Docs,
    KindOfDoc,      \* [Docs -> RELEASE_KINDS \cup {""}]
    Evidence,
    About,          \* what each piece of evidence is: see EvidenceAssumption
    Passing,        \* bound: the passages that may be taken off their page again
    Bodies,         \* what may be sent to the settings page
    Overrides,      \* what may be sent as a watchlist's settings
    MinSeverity,    \* ScreenOptions.min_severity: findings below are not kept
    Unpublished     \* there is no such document

ASSUME HomeAssumption == HomeOf \in [Screens -> Workspaces] /\ ByWatchlist \subseteq Screens
ASSUME DocsAssumption == KindOfDoc \in [Docs -> RELEASE_KINDS \cup {""}]
ASSUME EvidenceAssumption ==
    About \in [Evidence -> [doc : Docs, category : CATEGORIES, event : EVENTS \cup {""},
                            standing : SEVERITIES, fresh : SEVERITIES]]
ASSUME EventsAssumption ==
    \A e \in Evidence : About[e].event # "" => About[e].category = SourceOf(About[e].event)
ASSUME MinSeverityAssumption == MinSeverity \in SEVERITIES
ASSUME UnpublishedAssumption == Unpublished \notin SUBSET Evidence

VARIABLES
    text,           \* the documents, as they are now
    snapshot,       \* snapshots: the text last recorded, by whichever workspace
    tenantRow,      \* screening_policy: {} or the one row, per workspace
    listRow,        \* watchlists.policy: {} or the override
    onFile,         \* the evidence in saved findings
    screened,       \* entity_screens: the contractor has been screened
    notices,        \* the notices about it
    run             \* the screens under way

vars == <<text, snapshot, tenantRow, listRow, onFile, screened, notices, run>>
settings == <<tenantRow, listRow>>

Passages(d) == {e \in Evidence : About[e].doc = d /\ About[e].event \notin Releases}
Headlines(d) == {e \in Evidence : About[e].doc = d /\ About[e].event \in Releases}

Idle == [at |-> "idle"]

Init ==
    /\ text = [d \in Docs |-> Unpublished]
    /\ snapshot = [d \in Docs |-> Unpublished]
    /\ tenantRow = [t \in Workspaces |-> {}]
    /\ listRow = [t \in Workspaces |-> {}]
    /\ onFile = [t \in Workspaces |-> {}]
    /\ screened = [t \in Workspaces |-> FALSE]
    /\ notices = [t \in Workspaces |-> {}]
    /\ run = [w \in Screens |-> Idle]

----------------------------------------------------------------------------
(* Settings.                                                               *)

\* screening_policy(): the stored row, or nothing for the defaults.
Stored(rows) == IF rows = {} THEN [f \in {} |-> {}] ELSE CHOOSE r \in rows : TRUE

(* policy_for: what a screen of workspace t works under, started by its    *)
(* watchlist or not.                                                       *)
PolicyFor(t, listed) ==
    Merge(Stored(tenantRow[t]), IF listed THEN Stored(listRow[t]) ELSE [f \in {} |-> {}])

SetPolicy(t, body) ==
    /\ tenantRow' = [tenantRow EXCEPT ![t] = {FromDict(body)}]
    /\ UNCHANGED <<text, snapshot, listRow, onFile, screened, notices, run>>

ResetPolicy(t) ==
    /\ tenantRow' = [tenantRow EXCEPT ![t] = {}]
    /\ UNCHANGED <<text, snapshot, listRow, onFile, screened, notices, run>>

\* create_watchlist, set_watchlist_policy: an override of nothing is no override.
SetWatchlistPolicy(t, body) ==
    LET override == CleanOverride(Stored(tenantRow[t]), body)
    IN  /\ listRow' = [listRow EXCEPT ![t] = IF DOMAIN override = {} THEN {} ELSE {override}]
        /\ UNCHANGED <<text, snapshot, tenantRow, onFile, screened, notices, run>>

ClearWatchlistPolicy(t) ==
    /\ listRow' = [listRow EXCEPT ![t] = {}]
    /\ UNCHANGED <<text, snapshot, tenantRow, onFile, screened, notices, run>>

----------------------------------------------------------------------------
(* The world: documents appear, and passages come and go.                  *)

Publish(d) ==
    /\ text[d] = Unpublished
    /\ text' = [text EXCEPT ![d] = {}]
    /\ UNCHANGED <<snapshot, settings, onFile, screened, notices, run>>

Revise(d, e) ==
    /\ text[d] # Unpublished
    /\ e \in Passages(d)
    /\ e \in text[d] => e \in Passing
    /\ text' = [text EXCEPT ![d] = IF e \in @ THEN @ \ {e} ELSE @ \cup {e}]
    /\ UNCHANGED <<snapshot, settings, onFile, screened, notices, run>>

----------------------------------------------------------------------------
(* A screen.                                                               *)

(* _gather, wants_document: what each source served, sources that failed   *)
(* aside, without the releases of a kind that is switched off.             *)
Wanted(d, policy) == text[d] # Unpublished /\ WantsDocument(KindOfDoc[d], policy)

Gather(w, reached) ==
    LET policy == PolicyFor(HomeOf[w], w \in ByWatchlist)
    IN  /\ run[w] = Idle
        /\ run' = [run EXCEPT ![w] =
                      [at |-> "observing", policy |-> policy,
                       got |-> [d \in {x \in reached : Wanted(x, policy)} |-> text[d]],
                       row |-> {}, fired |-> {}, again |-> screened[HomeOf[w]]]]
        /\ UNCHANGED <<text, snapshot, settings, onFile, screened, notices>>

(* observe: the SELECT.                                                    *)
ReadSnapshot(w, d) ==
    /\ run[w].at = "observing"
    /\ run[w].row = {}
    /\ d \in DOMAIN run[w].got
    /\ run' = [run EXCEPT ![w].row = {[doc |-> d, seen |-> snapshot[d]]}]
    /\ UNCHANGED <<text, snapshot, settings, onFile, screened, notices>>

SignalOf(e, isNew) ==
    [id |-> e, category |-> About[e].category, event |-> About[e].event,
     severity |-> IF isNew THEN About[e].fresh ELSE About[e].standing,
     new |-> isNew]

Added(seen, now) == IF seen = Unpublished THEN now ELSE now \ seen

\* A mistake the runs must catch.
FiredByNews(d, seen, now) ==
    {SignalOf(e, TRUE) : e \in Added(seen, now)}

(* evaluate_documents: on a document that is new the rules see all of it,  *)
(* on one that changed what was added, on one that did not, or that only   *)
(* lost passages, all of it as nothing new.                                *)
Fired(d, seen, now) ==
    IF seen = Unpublished \/ Added(seen, now) # {}
    THEN {SignalOf(e, TRUE) : e \in Added(seen, now) \cup Headlines(d)}
    ELSE {SignalOf(e, FALSE) : e \in now}

(* observe: the write, which leaves the text of an unchanged document, and *)
(* the rules.                                                              *)
Observe(w) ==
    /\ run[w].at = "observing"
    /\ \E row \in run[w].row :
          LET d == row.doc
              now == run[w].got[d]
              rest == DOMAIN run[w].got \ {d}
          IN  /\ snapshot' = IF row.seen = now THEN snapshot
                             ELSE [snapshot EXCEPT ![d] = now]
              /\ run' = [run EXCEPT ![w].row = {},
                                    ![w].got = [x \in rest |-> run[w].got[x]],
                                    ![w].fired = @ \cup Fired(d, row.seen, now)]
    /\ UNCHANGED <<text, settings, onFile, screened, notices>>

\* A mistake the runs must catch.
Undamped(signals, seenBefore) == signals

(* Where nothing is on file everything looks new, and only what is         *)
(* critical is left so.                                                    *)
Damped(signals, seenBefore) ==
    IF seenBefore THEN signals
    ELSE {IF s.severity = "critical" THEN s ELSE [s EXCEPT !.new = FALSE] : s \in signals}

(* build_finding: the severity of the worst signal, or the next when two   *)
(* or more are as bad.  The scores that decide are not modelled.           *)
Severities(signals) ==
    LET top == CHOOSE r \in {Rank(s.severity) : s \in signals} :
                  \A s \in signals : Rank(s.severity) <= r
        corroborated == Cardinality({s \in signals : Rank(s.severity) = top}) >= 2
    IN  IF signals = {} THEN {"info"}
        ELSE {SEVERITY_ORDER[r] : r \in {top} \cup (IF corroborated /\ top < 5
                                                    THEN {top + 1} ELSE {})}

\* A mistake the runs must catch.
LoudEnough(severity, signals, policy) == AtLeast(severity, MinSeverity)

(* A finding below the recording threshold is kept for an event alone.     *)
Kept(severity, signals, policy) ==
    AtLeast(severity, MinSeverity) \/ CarriesEvent(signals, policy)

(* _screen_entity from filter_signals on, mark_entity_screened and         *)
(* save_finding.                                                           *)
Conclude(w) ==
    LET t == HomeOf[w]
        policy == run[w].policy
        seenBefore == onFile[t] # {}
        signals == Damped(FilterSignals(run[w].fired, policy), seenBefore)
    IN  /\ run[w].at = "observing"
        /\ DOMAIN run[w].got = {}
        /\ \E severity \in Severities(signals) :
              LET kept == Kept(severity, signals, policy)
              IN  /\ onFile' = IF kept THEN [onFile EXCEPT ![t] = @ \cup Ids(signals)]
                               ELSE onFile
                  /\ run' = [run EXCEPT ![w] =
                                [at |-> "screened", policy |-> policy,
                                 fired |-> run[w].fired, again |-> run[w].again,
                                 seenBefore |-> seenBefore,
                                 finding |-> IF kept THEN {[severity |-> severity,
                                                            signals |-> signals]}
                                             ELSE {}]]
        /\ screened' = [screened EXCEPT ![t] = TRUE]
        /\ UNCHANGED <<text, snapshot, settings, notices>>

\* A mistake the runs must catch.
CoveredByDraft(t) == UNION {n.evidence : n \in {m \in notices[t] : m.status = "pending"}}

(* notified_signal_ids: a notice of any status covers its evidence.        *)
Covered(t) == UNION {n.evidence : n \in notices[t]}

Retired(n) == IF n.status = "pending" THEN [n EXCEPT !.status = "superseded"] ELSE n

(* raise_notices: the settings are read again and, with what has been      *)
(* notified, say whether the finding is a draft, which covers every signal *)
(* of the finding.                                                         *)
Decide(w) ==
    LET t == HomeOf[w]
    IN  /\ run[w].at = "screened"
        /\ \E asked \in {PolicyFor(t, w \in ByWatchlist)} :
              LET tips(f) == DecideNotice(f.severity, f.signals, asked, Covered(t))
              IN  run' = [run EXCEPT ![w] =
                      [at |-> "decided", policy |-> run[w].policy, asked |-> asked,
                       fired |-> run[w].fired, again |-> run[w].again,
                       seenBefore |-> run[w].seenBefore,
                       drafts |-> {[status |-> "pending", evidence |-> Ids(f.signals),
                                    tipped |-> tips(f)] :
                                      f \in {g \in run[w].finding : tips(g) # {}}}]]
        /\ UNCHANGED <<text, snapshot, settings, onFile, screened, notices>>

(* queue_notice, supersede_pending: the draft takes the place of the one   *)
(* that is pending.  NoticeReview has these calls one by one.              *)
Raise(w) ==
    LET t == HomeOf[w]
    IN  /\ run[w].at = "decided"
        /\ run' = [run EXCEPT ![w] = Idle]
        /\ notices' = IF run[w].drafts = {} THEN notices
                      ELSE [notices EXCEPT ![t] = {Retired(n) : n \in @} \cup run[w].drafts]
        /\ UNCHANGED <<text, snapshot, settings, onFile, screened>>

(* A screen fails, runs out of time, or its process is killed: what it     *)
(* wrote stays.                                                            *)
Die(w) ==
    /\ run[w] # Idle
    /\ run' = [run EXCEPT ![w] = Idle]
    /\ UNCHANGED <<text, snapshot, settings, onFile, screened, notices>>

(* A reviewer approves or rejects a draft.                                 *)
Review(t, n) ==
    /\ n \in notices[t]
    /\ n.status = "pending"
    /\ notices' = [notices EXCEPT ![t] = (@ \ {n}) \cup {[n EXCEPT !.status = "decided"]}]
    /\ UNCHANGED <<text, snapshot, settings, onFile, screened, run>>

Step(w) ==
    \/ \E reached \in SUBSET Docs : Gather(w, reached)
    \/ \E d \in Docs : ReadSnapshot(w, d)
    \/ Observe(w)
    \/ Conclude(w)
    \/ Decide(w)
    \/ Raise(w)

Setting(t) ==
    \/ \E body \in Bodies : SetPolicy(t, body)
    \/ ResetPolicy(t)
    \/ \E body \in Overrides : SetWatchlistPolicy(t, body)
    \/ ClearWatchlistPolicy(t)

World == \E d \in Docs : Publish(d) \/ \E e \in Evidence : Revise(d, e)

Next ==
    \/ \E w \in Screens : Step(w) \/ Die(w)
    \/ \E t \in Workspaces : Setting(t) \/ \E n \in notices[t] : Review(t, n)
    \/ World

Spec == Init /\ [][Next]_vars

(* The daily sweep screens the contractor again and again.                 *)
Fairness ==
    \A w \in Screens :
        /\ WF_vars(Gather(w, Docs))
        /\ WF_vars(\E d \in Docs : ReadSnapshot(w, d))
        /\ WF_vars(Observe(w))
        /\ WF_vars(Conclude(w))
        /\ WF_vars(Decide(w))
        /\ WF_vars(Raise(w))

FairSpec == Spec /\ Fairness

----------------------------------------------------------------------------
(* Properties.                                                             *)

AtMostOne(S) == \A x, y \in S : x = y

Revisions == (SUBSET Evidence) \cup {Unpublished}
Signals == [id : Evidence, category : CATEGORIES, event : EVENTS \cup {""},
            severity : SEVERITIES, new : BOOLEAN]
Findings == [severity : SEVERITIES, signals : SUBSET Signals]
Notices == [status : {"pending", "decided", "superseded"}, evidence : SUBSET Evidence,
            tipped : SUBSET Evidence]

Observing == [at : {"observing"}, policy : Policies,
              got : UNION {[D -> SUBSET Evidence] : D \in SUBSET Docs},
              row : SUBSET [doc : Docs, seen : Revisions],
              fired : SUBSET Signals, again : BOOLEAN]
Screened == [at : {"screened"}, policy : Policies, fired : SUBSET Signals,
             again : BOOLEAN, seenBefore : BOOLEAN, finding : SUBSET Findings]
Decided == [at : {"decided"}, policy : Policies, asked : Policies,
            fired : SUBSET Signals, again : BOOLEAN, seenBefore : BOOLEAN,
            drafts : SUBSET Notices]

\* The rows hold what was normalised, one each, and every record has its fields.
TypeOK ==
    /\ text \in [Docs -> Revisions]
    /\ snapshot \in [Docs -> Revisions]
    /\ tenantRow \in [Workspaces -> SUBSET Policies]
    /\ DOMAIN listRow = Workspaces
    /\ \A t \in Workspaces : AtMostOne(tenantRow[t]) /\ AtMostOne(listRow[t])
    /\ onFile \in [Workspaces -> SUBSET Evidence]
    /\ screened \in [Workspaces -> BOOLEAN]
    /\ notices \in [Workspaces -> SUBSET Notices]
    /\ run \in [Screens -> {Idle} \cup Observing \cup Screened \cup Decided]

(* "You cannot be told about what you are not looking for" (policy.py):    *)
(* whatever was saved for the workspace and for the watchlist, in whatever *)
(* order, no screen works under a policy with notices for a category it    *)
(* does not screen, or with an event nothing can produce.                  *)
Consistent(policy) ==
    /\ policy.notice_categories \subseteq policy.categories
    /\ \A e \in policy.notice_always :
          SourceOf(e) \in policy.categories /\ KindOf(e) \subseteq policy.release_kinds

EffectiveIsConsistent ==
    \A t \in Workspaces : \A listed \in BOOLEAN : Consistent(PolicyFor(t, listed))

(* "Everything else follows the tenant policy, including later changes to  *)
(* it" (merge): a setting no override names is the workspace's, less what  *)
(* the watchlist's own settings rule out.                                  *)
FollowsTenant ==
    \A t \in Workspaces :
        LET named == UNION {DOMAIN body : body \in Overrides}
            mine == PolicyFor(t, TRUE)
            theirs == PolicyFor(t, FALSE)
        IN  /\ \A f \in {"categories", "release_kinds", "notice_min_severity", "notice_mode"} :
                  f \notin named => mine[f] = theirs[f]
            /\ "notice_categories" \notin named =>
                  mine.notice_categories = theirs.notice_categories \cap mine.categories
            /\ "notice_always" \notin named =>
                  mine.notice_always = {e \in theirs.notice_always :
                                          Producible(e, mine.categories, mine.release_kinds)}

(* The policy screens work under is one the settings page could show, and  *)
(* it is the workspace's wherever the watchlist does not say otherwise.    *)
PoliciesAgree == EffectiveIsConsistent /\ FollowsTenant

(* What set_watchlist_policy answers is what the watchlist's next run      *)
(* works under, though it is made from what was sent and the run's policy  *)
(* from the part that was stored.                                          *)
ShownIsApplied ==
    [][\A t \in Workspaces : \A body \in Overrides :
          listRow' # listRow /\ SetWatchlistPolicy(t, body) =>
              PolicyFor(t, TRUE)' = Merge(Stored(tenantRow[t]), body)]_vars

(* "Each piece of evidence notifies once" (README): no two notices were    *)
(* raised over the same piece, whatever happened to the first and however  *)
(* the settings changed in between.  Two screens for one workspace at once *)
(* may both find it not notified: see NoticeReview.                        *)
OneNoticePerEvidence ==
    (\A v, w \in Screens : HomeOf[v] = HomeOf[w] => v = w) =>
        \A t \in Workspaces : \A n, m \in notices[t] :
            n # m => n.tipped \cap m.tipped = {}

(* A notice is about evidence of a category the screen looked for and the  *)
(* settings read when notices are decided want notices for, or an event    *)
(* they always want.  The two readings of the settings may differ.         *)
DraftsAreWanted(w) ==
    LET t == HomeOf[w]
        asked == run[w].asked
    IN  \A n \in notices'[t] \ notices[t] : \A e \in n.evidence :
           n.status = "pending" =>
              /\ About[e].category \in run[w].policy.categories
              /\ e \in n.tipped => \/ About[e].category \in asked.notice_categories
                                   \/ About[e].event \in asked.notice_always

NoticesAreWanted == [][\A w \in Screens : Raise(w) => DraftsAreWanted(w)]_vars

(* Under "changes_only" a screen of a contractor with nothing on file      *)
(* raises a notice over critical evidence or an event that needs no news,  *)
(* and nothing else.                                                       *)
DraftsAreLoud(w) ==
    LET t == HomeOf[w]
        asked == run[w].asked
        loud(e) == \/ About[e].fresh = "critical"
                   \/ About[e].event \in asked.notice_always /\ ~RequiresNew(About[e].event)
    IN  asked.notice_mode = "changes_only" /\ ~run[w].seenBefore =>
           \A n \in notices'[t] \ notices[t] :
              n.status = "pending" => \A e \in n.tipped : loud(e)

SilentBaseline == [][\A w \in Screens : Raise(w) => DraftsAreLoud(w)]_vars

\* A release this screen saw as new, and that its settings always want told.
NewReleases(w) ==
    {s.id : s \in {x \in run[w].fired :
                      /\ x.new
                      /\ x.event \in Releases
                      /\ x.event \in run[w].policy.notice_always
                      /\ x.event \in run[w].asked.notice_always}}

(* The part of "always notify" that works: where the contractor has        *)
(* evidence on file, a screen that sees a new release tells of it, though  *)
(* the finding is below what is recorded.                                  *)
ReleaseIsTold ==
    [][\A w \in Screens : Raise(w) /\ run[w].seenBefore =>
          NewReleases(w) \subseteq Covered(HomeOf[w])']_vars

(* The settings are what is shown, and what is told is what they ask.      *)
ToldAsSet == ShownIsApplied /\ NoticesAreWanted /\ SilentBaseline /\ ReleaseIsTold

(* pipeline.py:857 keeps a finding below the recording threshold for such  *)
(* an event, lest "always notify on legal disclosures" be "a setting that  *)
(* can never fire".  It should fire, then, for every contractor that has   *)
(* been screened before.                                                   *)
AlwaysFires ==
    [][\A w \in Screens : Raise(w) /\ run[w].again =>
          NewReleases(w) \subseteq Covered(HomeOf[w])']_vars

(* notified_signal_ids counts a superseded notice, since it "was replaced  *)
(* by a notice that carried it on": its evidence is in one that is pending *)
(* or decided.                                                             *)
CarriedOn ==
    \A t \in Workspaces : \A n \in notices[t] : n.status = "superseded" =>
        n.evidence \subseteq UNION {m.evidence : m \in {x \in notices[t] :
                                                       x.status # "superseded"}}

(* Under "first_seen" no screen that dies half-way costs a notice: once    *)
(* screens reach every source and come to their end, a passage that is on  *)
(* a document for good, serious enough and of a category notices are       *)
(* raised for, is covered by one, whatever became of the screens before.   *)
Serious(t, listed, e) ==
    LET policy == PolicyFor(t, listed)
    IN  /\ text[About[e].doc] # Unpublished /\ e \in text[About[e].doc]
        /\ e \in Passages(About[e].doc)
        /\ WantsDocument(KindOfDoc[About[e].doc], policy)
        /\ About[e].category \in policy.notice_categories
        /\ policy.notice_mode = "first_seen"
        /\ AtLeast(About[e].standing, policy.notice_min_severity)
        /\ AtLeast(About[e].standing, MinSeverity)

\* The documents no longer change, and no screen dies or misses a source.
Steady ==
    /\ UNCHANGED text
    /\ \A w \in Screens :
          /\ run[w] = Idle /\ run'[w] # Idle => Gather(w, Docs)
          /\ run[w] # Idle /\ run'[w] = Idle => Raise(w)

StandingIsTold ==
    \A w \in Screens : \A e \in Evidence :
        <>[][Steady]_vars /\ <>[]Serious(HomeOf[w], w \in ByWatchlist, e)
            => <>(e \in Covered(HomeOf[w]))
=============================================================================
