--------------------------- MODULE NoticePromise ---------------------------
(***************************************************************************)
(* What the review queue promises about a notice, whoever races whom: it   *)
(* is decided at most once, and it reaches nobody unless that decision was *)
(* an approval.  NoticeReview is the detailed specification of it.         *)
(***************************************************************************)
CONSTANT Notices        \* the drafts that can ever be written

VARIABLES
    verdict,            \* what was decided about each notice
    reached             \* in which roles somebody was sent each notice

pvars == <<verdict, reached>>

Roles == {"officer", "copy"}
Verdicts == {"open", "approved", "rejected", "superseded"}

Init ==
    /\ verdict = [n \in Notices |-> "open"]
    /\ reached = [n \in Notices |-> {}]

(* A reviewer decides one notice. *)
Decide(n) ==
    /\ verdict[n] = "open"
    /\ \E v \in {"approved", "rejected"} : verdict' = [verdict EXCEPT ![n] = v]
    /\ UNCHANGED reached

(* The service retires undecided drafts that a newer one replaces. *)
Supersede(S) ==
    /\ \A n \in S : verdict[n] = "open"
    /\ verdict' = [n \in Notices |-> IF n \in S THEN "superseded" ELSE verdict[n]]
    /\ UNCHANGED reached

(* A copy of an approved notice leaves the service. *)
Leave(n, role) ==
    /\ verdict[n] = "approved"
    /\ reached' = [reached EXCEPT ![n] = @ \cup {role}]
    /\ UNCHANGED verdict

Next ==
    \/ \E n \in Notices : Decide(n)
    \/ \E S \in SUBSET Notices : Supersede(S)
    \/ \E n \in Notices, role \in Roles : Leave(n, role)

Spec == Init /\ [][Next]_pvars
=============================================================================
