------------------------------ MODULE Scoring ------------------------------
(***************************************************************************)
(* The rules and the weight of what they find (risk/engine.py), and the    *)
(* order in which a screen applies a workspace's rule settings, its        *)
(* categories, the damping of a first screen and the compound rule.        *)
(*                                                                         *)
(* A fact is what a rule reads, with the parts of it that the rule tells   *)
(* apart; regular expressions, snippets and rationales are left out.       *)
(* Weights are fractions <<n, d>>, scores are hundredths.                  *)
(***************************************************************************)
EXTENDS NoticePolicy, Integers, Sequences, FiniteSets

CONSTANTS
    Seen,           \* what screens may come upon: records [fact, new]
    MaxTogether     \* bound: how much of it one screen comes upon

----------------------------------------------------------------------------
(* Facts.                                                                  *)

\* The kinds of facts that some rule reads (DOCUMENT_RULES, and those on contracts).
FactKinds == {"jurisdiction", "lien", "transfer", "conveyance", "award", "change", "list",
              "exclusion", "adviser", "holder", "item"}

\* How lexicon.py grades a jurisdiction, or that none is named.
Tiers == {"covered", "adjacent", "haven", "conduit", "none"}

\* Where a rule weighs by the jurisdiction's tier.
Tiered(f) ==
    \/ f.kind \in {"jurisdiction", "conveyance", "adviser", "holder"}
    \/ f.kind = "award" /\ f.says = "country"
    \/ f.kind = "change" /\ f.moved = "country"

\* A fact as its rule reads it: each part is one the rule tells apart.
WellFormed(f) ==
    /\ f.kind \in FactKinds
    /\ Tiered(f) => f.tier \in Tiers
    /\ f.kind = "award" => f.says \in {"country", "foreign owned", "government", "funds"}
    /\ f.kind = "change" => f.moved \in {"holder", "country", "owned"}
    /\ f.kind = "list" => f.match \in {"exact", "core", "variant"}
    /\ f.kind = "exclusion" => f.by \in {"parent", "identifier", "name"}
    /\ f.kind = "item" => f.item \in {"5.01", "1.03", "2.03", "3.02"}

ASSUME ScoringAssumption ==
    MaxTogether \in Nat /\ \A s \in Seen : WellFormed(s.fact)

----------------------------------------------------------------------------
(* Weights.                                                                *)
BASE_WEIGHTS(category) ==
    CASE category = "FOCI" -> 6 [] category = "IP_COLLATERAL" -> 7
      [] category = "IP_TRANSFER" -> 5 [] category = "SANCTIONS" -> 12
      [] category = "STRUCTURE" -> 4

\* The middle of each tier's multipliers.
JurisdictionMultiplier(tier) ==
    CASE tier = "covered" -> <<3, 1>> [] tier = "adjacent" -> <<22, 10>>
      [] tier = "haven" -> <<2, 1>> [] tier = "conduit" -> <<12, 10>>
      [] tier = "none" -> <<1, 1>>

Times(a, b) == <<a[1] * b[1], a[2] * b[2]>>
Rounded(n, d) == (2 * n + d) \div (2 * d)

SEVERITY_BANDS == <<<<3000, "critical">>, <<1800, "high">>, <<900, "medium">>, <<300, "low">>>>
Band(score) ==
    LET reached == {i \in DOMAIN SEVERITY_BANDS : score >= SEVERITY_BANDS[i][1]}
    IN  IF reached = {} THEN "info"
        ELSE SEVERITY_BANDS[CHOOSE i \in reached : \A j \in reached : i <= j][2]

\* _score: new evidence, and awards with data rights under threat, weigh more.
Score(category, weight, new, ipSensitive) ==
    LET n == 100 * BASE_WEIGHTS(category) * weight[1] * (IF new THEN 16 ELSE 10)
        threatened == ipSensitive /\ category \in {"IP_COLLATERAL", "IP_TRANSFER"}
    IN  Rounded(n * (IF threatened THEN 14 ELSE 10), weight[2] * 100)

\* _evidence_weight: risk factors, conditionals and definitions are not events.
EvidenceWeight(caveats) ==
    Times(IF "periodic" \in caveats THEN <<7, 20>> ELSE <<1, 1>>,
          Times(IF "hedged" \in caveats THEN <<1, 2>> ELSE <<1, 1>>,
                IF "definition" \in caveats THEN <<2, 5>> ELSE <<1, 1>>))

----------------------------------------------------------------------------
(* The rules: what each makes of a fact of its kind, as claims of a rule, a *)
(* category and a weight.  `foreign` is whether a jurisdiction is named.    *)
Claim(rule, category, weight, foreign) ==
    [rule |-> rule, category |-> category, weight |-> weight, foreign |-> foreign,
     label |-> ""]

\* rule_foci_jurisdiction.  `events` are ownership terms of the text the rule sees;
\* `standing` is a jurisdiction named only in the part that did not change.
FociJurisdiction(f) ==
    LET tier == JurisdictionMultiplier(f.tier)
    IN  CASE f.standing /\ f.events # "none" ->
                 {Claim("FOCI-JURIS-02", "FOCI", Times(tier, <<7, 10>>), TRUE)}
          [] ~f.standing /\ f.events = "near" ->
                 {Claim("FOCI-JURIS-01", "FOCI", Times(tier, EvidenceWeight(f.caveats)), TRUE)}
          [] ~f.standing /\ f.events # "near" /\ f.tier # "conduit" ->
                 {Claim("FOCI-MENTION-01", "FOCI",
                        Times(tier, Times(<<9, 20>>, EvidenceWeight(f.caveats))), TRUE)}
          [] OTHER -> {}

IpCollateral(f) ==
    {Claim("IPCOL-01", "IP_COLLATERAL",
           Times(IF f.strong THEN <<1, 1>> ELSE <<9, 20>>, EvidenceWeight(f.caveats)), FALSE)}

IpTransfer(f) ==
    {Claim("IPXFER-01", "IP_TRANSFER",
           Times(IF f.distress THEN <<13, 10>> ELSE <<4, 5>>, EvidenceWeight(f.caveats)), FALSE)}

UsptoSecurityInterest(f) ==
    {Claim("IPCOL-USPTO-01", "IP_COLLATERAL",
           Times(<<3, 2>>, JurisdictionMultiplier(f.tier)), f.tier # "none")}

\* rule_contract_structural, one fact for each thing an award says.
ContractStructural(f) ==
    {CASE f.says = "country" ->
              Claim("STRUCT-COUNTRY-01", "STRUCTURE", JurisdictionMultiplier(f.tier), TRUE)
       [] f.says = "foreign owned" -> Claim("STRUCT-FOREIGN-OWNED-01", "STRUCTURE", <<2, 1>>, FALSE)
       [] f.says = "government" -> Claim("STRUCT-FOREIGN-GOV-01", "STRUCTURE", <<5, 2>>, FALSE)
       [] f.says = "funds" -> Claim("STRUCT-FOREIGN-FUNDING-01", "STRUCTURE", <<6, 5>>, FALSE)}

\* evaluate_contract_changes: which moves it is told of, Awards has.
ContractChanges(f) ==
    {CASE f.moved = "holder" -> Claim("CHANGE-NOVATION-01", "STRUCTURE", <<3, 2>>, FALSE)
       [] f.moved = "country" ->
              Claim("CHANGE-COUNTRY-01", "STRUCTURE",
                    IF f.tier = "none" THEN <<4, 5>> ELSE JurisdictionMultiplier(f.tier),
                    f.tier # "none")
       [] f.moved = "owned" -> Claim("CHANGE-FOREIGN-OWNED-01", "STRUCTURE", <<2, 1>>, FALSE)}

\* SANCTION_MATCHES, whose severity is the match's and not the score's.
SanctionsHit(f) ==
    LET kind == IF f.match # "exact" /\ f.abroad THEN "abroad" ELSE f.match
        graded(rule, severity, weight) ==
            [Claim(rule, "SANCTIONS",
                   Times(weight, IF f.whose = "contractor" THEN <<1, 1>> ELSE <<4, 5>>), FALSE)
                EXCEPT !.label = severity]
    IN  {CASE kind = "exact" -> graded("SANCTION-01", "critical", <<13, 5>>)
           [] kind = "core" -> graded("SANCTION-02", "high", <<8, 5>>)
           [] kind = "variant" -> graded("SANCTION-03", "medium", <<9, 10>>)
           [] kind = "abroad" -> graded("SANCTION-04", "low", <<3, 10>>)}

SamExclusion(f) ==
    {CASE f.by = "parent" -> Claim("EXCL-SAM-PARENT-01", "SANCTIONS", <<6, 5>>, FALSE)
       [] f.by = "identifier" -> Claim("EXCL-SAM-01", "SANCTIONS", <<2, 1>>, FALSE)
       [] f.by = "name" -> Claim("EXCL-SAM-NAME-01", "SANCTIONS", <<3, 5>>, FALSE)}

AdviserForeignDomicile(f) ==
    {Claim("FOCI-IAPD-01", "FOCI", Times(JurisdictionMultiplier(f.tier), <<4, 5>>), TRUE)}

\* A 13D is filed by a holder that may seek control; a 13G says it will not.
OwnershipForeignHolder(f) ==
    {Claim("FOCI-OWNER-01", "FOCI",
           Times(JurisdictionMultiplier(f.tier), IF f.active THEN <<1, 1>> ELSE <<3, 5>>), TRUE)}

EIGHT_K_ITEMS ==
    [item \in {"5.01", "1.03", "2.03", "3.02"} |->
        CASE item = "5.01" -> <<"FOCI", <<2, 1>>>> [] item = "1.03" -> <<"IP_TRANSFER", <<2, 1>>>>
          [] item = "2.03" -> <<"IP_COLLATERAL", <<7, 5>>>> [] item = "3.02" -> <<"FOCI", <<6, 5>>>>]
Edgar8KItems(f) ==
    {Claim("EDGAR-8K-" \o f.item, EIGHT_K_ITEMS[f.item][1], EIGHT_K_ITEMS[f.item][2], FALSE)}

\* DOCUMENT_RULES and those on contracts: one rule reads each kind of fact here.
Claims(f) ==
    CASE f.kind = "jurisdiction" -> FociJurisdiction(f) [] f.kind = "lien" -> IpCollateral(f)
      [] f.kind = "transfer" -> IpTransfer(f) [] f.kind = "conveyance" -> UsptoSecurityInterest(f)
      [] f.kind = "award" -> ContractStructural(f) [] f.kind = "change" -> ContractChanges(f)
      [] f.kind = "list" -> SanctionsHit(f) [] f.kind = "exclusion" -> SamExclusion(f)
      [] f.kind = "adviser" -> AdviserForeignDomicile(f)
      [] f.kind = "holder" -> OwnershipForeignHolder(f) [] f.kind = "item" -> Edgar8KItems(f)

\* What is on an award is never new by itself, and a change of one always is.
IsNew(s) == s.fact.kind = "change" \/ (s.new /\ s.fact.kind # "award")

Evaluated(seen, ipSensitive) ==
    UNION {{LET score == Score(c.category, c.weight, IsNew(s), ipSensitive)
            IN  [rule |-> c.rule, category |-> c.category, foreign |-> c.foreign,
                 about |-> {s.fact}, score |-> score, new |-> IsNew(s),
                 severity |-> IF c.label = "" THEN Band(score) ELSE c.label]
            : c \in Claims(s.fact)} : s \in seen}

----------------------------------------------------------------------------
(* A workspace's rule settings.                                            *)

\* set_rule_setting: [enabled, weight], the weight in tenths and at most 5.
RuleSetting(enabled, weight) ==
    [enabled |-> enabled, weight |-> IF weight > 50 THEN 50 ELSE weight]

Rescaled(s, setting) ==
    LET score == Rounded(s.score * setting.weight, 10)
    IN  IF setting.weight = 10 THEN s
        ELSE [s EXCEPT !.score = score, !.severity = Band(score)]

\* apply_rule_settings
ApplyRuleSettings(signals, settings) ==
    {IF s.rule \in DOMAIN settings THEN Rescaled(s, settings[s.rule]) ELSE s :
        s \in {x \in signals : x.rule \in DOMAIN settings => settings[x.rule].enabled}}

----------------------------------------------------------------------------
(* The finding.                                                            *)
Worst(signals) == CHOOSE s \in signals : \A o \in signals : o.score <= s.score

\* Mutant: two weak observations make a strong one.
HalvesOfAnyWeight(signals, categories) == {s \in signals : s.category \in categories}

\* Both halves have to be medium at least.
Halves(signals, categories) ==
    {s \in signals : s.category \in categories /\ Rank(s.severity) >= Rank("medium")}

\* correlate
Correlate(signals) ==
    LET foci == {s \in Halves(signals, {"FOCI", "STRUCTURE"}) :
                    s.foreign /\ s.rule # "FOCI-MENTION-01"}
        ip == Halves(signals, {"IP_COLLATERAL", "IP_TRANSFER"})
        f == Worst(foci)
        i == Worst(ip)
        score == Rounded((f.score + i.score) * 9, 10)
    IN  IF foci = {} \/ ip = {} THEN {}
        ELSE {[rule |-> "COMPOUND-01", category |-> "FOCI", foreign |-> TRUE,
               about |-> f.about \cup i.about, score |-> score, severity |-> Band(score),
               new |-> f.new \/ i.new]}

\* dedupe: of one thing found twice, the heavier.
Dedupe(signals) ==
    {s \in signals : \A o \in signals :
        o.rule = s.rule /\ o.about = s.about => o.score <= s.score}

\* The heaviest first; of two as heavy, either.
Heaviest(signals) ==
    CHOOSE order \in [1..Cardinality(signals) -> signals] :
        \A i, j \in DOMAIN order :
            i < j => order[i] # order[j] /\ order[i].score >= order[j].score

\* Each signal after the heaviest counts for three fifths of the one before.
Total(ordered) ==
    LET n == Len(ordered)
        sum[i \in 0..n] == IF i = 0 THEN 0
                           ELSE sum[i - 1] + ordered[i].score * 3^(i - 1) * 5^(n - i)
    IN  IF n = 0 THEN 0 ELSE Rounded(sum[n], 5^(n - 1))

\* The band of the heaviest signal, or the next where another is as bad.
Cap(ordered) ==
    LET top == Rank(ordered[1].severity)
        asBad == {i \in DOMAIN ordered : Rank(ordered[i].severity) >= top}
    IN  IF Cardinality(asBad) >= 2 /\ top < 5 THEN top + 1 ELSE top

\* build_finding
Finding(signals) ==
    LET kept == Dedupe(signals \cup Correlate(signals))
        ordered == Heaviest(kept)
        severity == Rank(Band(Total(ordered)))
    IN  [signals |-> kept, score |-> Total(ordered),
         severity |-> IF kept = {} THEN "info"
                      ELSE SEVERITY_ORDER[IF severity > Cap(ordered) THEN Cap(ordered)
                                          ELSE severity]]

\* Mutant: the settings are applied to the finding, when it has compounded.
SettingsLast(seen, settings, categories, seenBefore, ipSensitive) ==
    LET wanted == {s \in Evaluated(seen, ipSensitive) : s.category \in categories}
    IN  Finding(ApplyRuleSettings(wanted \cup Correlate(wanted), settings))

\* _screen_entity from the rules on: the settings, the categories, and on a first
\* screen nothing but what is critical stays new.
ScreenEntity(seen, settings, categories, seenBefore, ipSensitive) ==
    LET set == ApplyRuleSettings(Evaluated(seen, ipSensitive), settings)
        wanted == {s \in set : s.category \in categories}
    IN  Finding({IF seenBefore \/ s.severity = "critical" THEN s ELSE [s EXCEPT !.new = FALSE] :
                    s \in wanted})

----------------------------------------------------------------------------
Together == {seen \in SUBSET Seen : Cardinality(seen) <= MaxTogether}
Looked(seen, settings) == ScreenEntity(seen, settings, CATEGORIES, TRUE, FALSE)
RulesOf(s) == {c.rule : c \in Claims(s.fact)}

(* "A disabled rule cannot reach the compound rule either"                 *)
(* (apply_rule_settings): what a workspace has retired leaves no trace in  *)
(* its findings, as if there had been nothing for the rule to read; and a  *)
(* rule weighed at nothing raises the severity no more than that.          *)
RetiredIsGone(seen) ==
    \A rule \in UNION {RulesOf(s) : s \in seen} :
        LET without == Looked({s \in seen : rule \notin RulesOf(s)}, << >>)
            only(setting) == [r \in {rule} |-> setting]
        IN  /\ Looked(seen, only(RuleSetting(FALSE, 10))) = without
            /\ Looked(seen, only(RuleSetting(TRUE, 0))).severity = without.severity

(* "Accumulating many low-confidence signals must not manufacture a        *)
(* high-severity notice" (build_finding): without both halves of a         *)
(* compound a finding is one band above its worst signal at most, and that *)
(* where two signals are as bad; and no half below medium compounds.       *)
WeakStaysWeak(seen) ==
    LET found == Evaluated(seen, FALSE)
        worst == {s \in found : \A o \in found : Rank(o.severity) <= Rank(s.severity)}
        finding == Looked(seen, << >>)
    IN  \A w \in worst :
          \/ \E f, i \in found : /\ f.foreign /\ AtLeast(f.severity, "medium")
                                  /\ i.category \in {"IP_COLLATERAL", "IP_TRANSFER"}
                                  /\ AtLeast(i.severity, "medium")
          \/ Rank(finding.severity) <=
                Rank(w.severity) + (IF Cardinality(worst) >= 2 THEN 1 ELSE 0)

(* More evidence never makes a finding less severe, though the heaviest    *)
(* signal sets the cap and a heavier one may be in less company.  A list   *)
(* match is left out: its severity is not that of its score.               *)
MoreIsNoLess(seen) ==
    \A s \in seen :
        (\A o \in seen : o.fact.kind # "list") =>
            Rank(Looked(seen \ {s}, << >>).severity) <= Rank(Looked(seen, << >>).severity)
=============================================================================
