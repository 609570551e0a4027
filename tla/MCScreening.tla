---------------------------- MODULE MCScreening -----------------------------
(* Two documents: a page with two passages, and a legal release; and for    *)
(* the scores, every three of the facts below.                             *)
EXTENDS Screening, Scoring, TLC

CONSTANTS t1, t2, w1, w2, page, release, foreign, lien, settles

MCWorkspaces == {t1}
MCScreens == {w1}
MCHomeOf == [w \in MCScreens |-> t1]
MCByWatchlist == {w1}
MCDocs == {page, release}
MCKindOfDoc == (page :> "") @@ (release :> "legal")
MCEvidence == {foreign, lien, settles}
MCPassing == {foreign}
MCAbout ==
    LET is(d, c, e, standing, fresh) ==
            [doc |-> d, category |-> c, event |-> e, standing |-> standing, fresh |-> fresh]
    IN  (foreign :> is(page, "FOCI", "", "medium", "high"))
        @@ (lien :> is(page, "IP_COLLATERAL", "", "low", "critical"))
        @@ (settles :> is(release, "DISCLOSURE", "legal_release", "info", "info"))

\* Two workspaces, with a page each has to read for itself.
LiveHomeOf == (w1 :> t1) @@ (w2 :> t2)
LiveKindOfDoc == (page :> "")
LiveAbout == [e \in {foreign} |-> MCAbout[e]]

Quiet == [notice_mode |-> "changes_only", notice_min_severity |-> "info",
          notice_always |-> {"legal_release", "novation"}]
Narrow == [categories |-> {"FOCI", "DISCLOSURE"}, notice_categories |-> {"IP_COLLATERAL"},
           release_kinds |-> {"press"}, unknown |-> {}]
MCBodies == {Quiet}
MCOverrides == {Narrow}

MCSeen ==
    LET named(tier, events, caveats) ==
            [kind |-> "jurisdiction", tier |-> tier, events |-> events, standing |-> FALSE,
             caveats |-> caveats]
        facts == {named("covered", "near", {}), named("haven", "far", {"periodic"}),
                  named("covered", "near", {"hedged", "definition"}),
                  [named("adjacent", "far", {}) EXCEPT !.standing = TRUE],
                  [kind |-> "lien", strong |-> TRUE, caveats |-> {}],
                  [kind |-> "transfer", distress |-> TRUE, caveats |-> {}],
                  [kind |-> "conveyance", tier |-> "haven"],
                  [kind |-> "award", says |-> "country", tier |-> "covered"],
                  [kind |-> "change", moved |-> "country", tier |-> "none"],
                  [kind |-> "list", match |-> "core", whose |-> "parent", abroad |-> FALSE],
                  [kind |-> "exclusion", by |-> "name"],
                  [kind |-> "adviser", tier |-> "conduit"],
                  [kind |-> "holder", tier |-> "adjacent", active |-> TRUE],
                  [kind |-> "item", item |-> "2.03"]}
    IN  [fact : facts, new : {TRUE}]
        \cup {[fact |-> f, new |-> FALSE] : f \in {g \in facts : g.kind = "lien"}}

(* The severities Screening takes a finding to have are the ones its       *)
(* scores give (build_finding), where no list match has a severity of its  *)
(* own.                                                                    *)
SeverityAsTaken(seen) ==
    (\A s \in seen : s.fact.kind # "list") =>
        LET finding == Looked(seen, << >>)
        IN  finding.severity \in Severities(finding.signals)

Sound(seen) == /\ RetiredIsGone(seen) /\ WeakStaysWeak(seen)
               /\ MoreIsNoLess(seen) /\ SeverityAsTaken(seen)

(* What a screen must have fired to come upon these: jurisdictions and      *)
(* liens are found in documents, the rest in other sources, at any time.    *)
Needs(seen) == UNION {{<<c.category, s.new>> : c \in Claims(s.fact)} :
                      s \in {x \in seen : x.fact.kind \in {"jurisdiction", "lien"}}}

\* The needs of what is scored unsoundly.
Troubles == UNION {IF Sound(seen) THEN {} ELSE {Needs(seen)} : seen \in Together}

(* Whatever a screen's signals are in detail, and whatever else it comes   *)
(* upon, what its workspace retired plays no part, two weak observations   *)
(* never make a strong finding, more evidence is no less severe, and the   *)
(* severities Screening takes are those of the scores.                     *)
ScoresAreSound ==
    \A w \in Screens :
        run[w].at # "idle" =>
            \A needs \in Troubles :
                ~(needs \subseteq {<<s.category, s.new>> : s \in run[w].fired})
=============================================================================
