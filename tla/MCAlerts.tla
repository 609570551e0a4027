------------------------------ MODULE MCAlerts ------------------------------
(* One list, which follows a portfolio or a whole office.                  *)
EXTENDS Alerts

CONSTANTS l1, a1, a2, acme, raised

MCAbout == [i \in {raised} |-> acme]

\* The owner, with a key, follows a portfolio or an office; a visitor adds a colleague.
Keyed(companies, scope) ==
    [emails |-> {a1}, vouched |-> {a1}, admin |-> TRUE, companies |-> companies,
     active |-> TRUE, scope |-> scope]
Visitor == [emails |-> {a2}, vouched |-> {}, admin |-> FALSE, companies |-> {acme},
            active |-> TRUE, scope |-> FALSE]
MCBodies == {Keyed({}, TRUE), Visitor}
MCPortfolios == {{acme}}

Report(provider, event, type) ==
    [email |-> a2, provider |-> provider, event |-> event, type |-> type]
MCReports == {Report("brevo", "hard_bounce", ""), Report("resend", "bounced", "transient")}
=============================================================================
