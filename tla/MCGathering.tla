---------------------------- MODULE MCGathering -----------------------------
(* Two runs at once, one of them over a scope, that ask SAM.gov's exclusions,   *)
(* the screening lists, the patent dataset and the website, twice.           *)
EXTENDS Gathering, TLC

CONSTANTS scope, watch, page, listing, csl, sdn, alt, treasury

MCHostOf == page :> "site" @@ listing :> "sam.gov"
            @@ csl :> "trade.gov" @@ sdn :> "treasury.gov" @@ alt :> "treasury.gov"
            @@ treasury :> "treasury.gov"
Plain(l, urls) == [label |-> l, kind |-> "plain", urls |-> urls]
Special(l, k) == [label |-> l, kind |-> k, urls |-> <<>>]
MCSteps == <<Special("SAM.gov exclusions", "exclusions"),
             Special("Sanctions and export lists", "lists"),
             Special("USPTO patent liens", "patents"),
             Plain("Company website", <<page>>), Plain("Company website", <<page>>)>>
MCOfac == <<[list |-> sdn, aliases |-> alt]>>
MCTwoLists == <<[list |-> sdn, aliases |-> alt], [list |-> treasury, aliases |-> alt]>>
MCContractors == scope :> 2 @@ watch :> 1
MCBudget == scope :> 2 @@ watch :> 0
MCNoBudget == watch :> 0
MCOne == watch :> 1
=============================================================================
