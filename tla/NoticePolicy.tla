---------------------------- MODULE NoticePolicy ----------------------------
(***************************************************************************)
(* policy.py: what a workspace screens for and what raises a notice.  The  *)
(* functions are pure.  A policy is a record of six settings; what is sent *)
(* to the settings page, and what a watchlist overrides, is a record of    *)
(* some of them.  A list of names is a set: the code keeps catalogue order *)
(* and drops repeats.                                                      *)
(***************************************************************************)
EXTENDS Naturals

CATEGORIES == {"FOCI", "STRUCTURE", "IP_COLLATERAL", "IP_TRANSFER", "SANCTIONS",
               "DISCLOSURE"}
RELEASE_KINDS == {"legal", "financial", "press"}
SEVERITY_ORDER == <<"info", "low", "medium", "high", "critical">>
SEVERITIES == {"info", "low", "medium", "high", "critical"}
NOTICE_SEVERITIES == {"low", "medium", "high", "critical"}
NOTICE_MODES == {"first_seen", "changes_only"}
EVENTS == {"novation", "country_change", "foreign_owned", "sanctions_match",
           "legal_release", "financial_release"}
Releases == {"legal_release", "financial_release"}

POLICY_FIELDS == {"categories", "release_kinds", "notice_min_severity", "notice_mode",
                  "notice_categories", "notice_always"}

(* Event.requires_new: a backlog of releases is not news.                  *)
RequiresNew(event) == event \in Releases

(* The category of the evidence an event is, and the kind of document.     *)
SourceOf(event) ==
    CASE event \in Releases -> "DISCLOSURE"
      [] event = "sanctions_match" -> "SANCTIONS"
      [] OTHER -> "STRUCTURE"

KindOf(event) ==
    CASE event = "legal_release" -> {"legal"}
      [] event = "financial_release" -> {"financial"}
      [] OTHER -> {}

Default ==
    [categories |-> CATEGORIES,
     release_kinds |-> RELEASE_KINDS,
     notice_min_severity |-> "medium",
     notice_mode |-> "first_seen",
     notice_categories |-> CATEGORIES \ {"DISCLOSURE"},
     notice_always |-> {}]

Policies ==
    [categories : SUBSET CATEGORIES,
     release_kinds : SUBSET RELEASE_KINDS,
     notice_min_severity : NOTICE_SEVERITIES,
     notice_mode : NOTICE_MODES,
     notice_categories : SUBSET CATEGORIES,
     notice_always : SUBSET EVENTS]

----------------------------------------------------------------------------
(* Normalising.                                                            *)

Given(raw, field) == IF field \in DOMAIN raw THEN raw[field] ELSE Default[field]

\* A mistake the runs must catch.
Sent(raw, field, allowed) == Given(raw, field)

OneOf(raw, field, allowed) ==
    IF Given(raw, field) \in allowed THEN Given(raw, field) ELSE Default[field]

\* What from_dict calls unreachable, negated.
Producible(event, categories, kinds) ==
    /\ SourceOf(event) \in categories
    /\ KindOf(event) \subseteq kinds

(* ScreeningPolicy.from_dict: a valid policy from whatever was sent.  You  *)
(* cannot be told about what you are not looking for.                      *)
FromDict(raw) ==
    LET categories == Given(raw, "categories") \cap CATEGORIES
        kinds == Given(raw, "release_kinds") \cap RELEASE_KINDS
    IN  [categories |-> categories,
         release_kinds |-> kinds,
         notice_min_severity |-> OneOf(raw, "notice_min_severity", NOTICE_SEVERITIES),
         notice_mode |-> OneOf(raw, "notice_mode", NOTICE_MODES),
         notice_categories |-> Given(raw, "notice_categories") \cap categories,
         notice_always |-> {e \in Given(raw, "notice_always") \cap EVENTS :
                                Producible(e, categories, kinds)}]

\* {**base, **over}
Updated(base, over) ==
    [f \in DOMAIN base \cup DOMAIN over |-> IF f \in DOMAIN over THEN over[f] ELSE base[f]]

\* A mistake the runs must catch.
Overlaid(tenant, override) ==
    [f \in POLICY_FIELDS |-> Updated(FromDict(tenant), override)[f]]

(* merge: the workspace's policy with a watchlist's own settings on top.   *)
Merge(tenant, override) == FromDict(Updated(FromDict(tenant), override))

\* A mistake the runs must catch.
WholePolicy(tenant, override) == Merge(tenant, override)

NoEmpties(tenant, override) ==
    LET policy == Merge(tenant, override)
    IN  [f \in {x \in DOMAIN override \cap POLICY_FIELDS : policy[x] # {}} |-> policy[f]]

(* clean_override: only the settings it gives, as normalised.              *)
CleanOverride(tenant, override) ==
    LET policy == Merge(tenant, override)
    IN  [f \in DOMAIN override \cap POLICY_FIELDS |-> policy[f]]

----------------------------------------------------------------------------
(* Screening and deciding.  A signal is a record: the evidence's id, its   *)
(* category, the event it is ("" for none), its severity, and whether it   *)
(* is new.                                                                 *)

Rank(severity) == CHOOSE i \in 1..5 : SEVERITY_ORDER[i] = severity

(* _at_least *)
AtLeast(severity, floor) == Rank(severity) >= Rank(floor)

\* A mistake the runs must catch.
AllSignals(signals, policy) == signals

FilterSignals(signals, policy) == {s \in signals : s.category \in policy.categories}

(* wants_document: an item with no release kind is always read.            *)
WantsDocument(kind, policy) == kind = "" \/ kind \in policy.release_kinds

Eligible(s, policy) ==
    /\ s.event \in policy.notice_always
    /\ s.new \/ ~RequiresNew(s.event)

CarriesEvent(signals, policy) == \E s \in signals : Eligible(s, policy)

Ids(signals) == {s.id : s \in signals}

(* decide_notice: the evidence that makes a finding a draft notice, none   *)
(* if it makes none.  Events come first, and pass the threshold and the    *)
(* mode by; what has been notified never counts.                           *)
DecideNotice(severity, signals, policy, notified) ==
    LET unseen == {s \in signals : s.id \notin notified}
        events == {s \in unseen : Eligible(s, policy)}
        qualifying == {s \in unseen :
                          /\ s.category \in policy.notice_categories
                          /\ policy.notice_mode = "changes_only" => s.new}
    IN  CASE events # {} -> Ids(events)
          [] events = {} /\ AtLeast(severity, policy.notice_min_severity) -> Ids(qualifying)
          [] OTHER -> {}
=============================================================================
