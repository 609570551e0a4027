---------------------------- MODULE NoticeReview ----------------------------
(***************************************************************************)
(* The notices of one contractor in one workspace, from the screens that   *)
(* draft them to the email that leaves.                                    *)
(*                                                                         *)
(* A screen (jobs.raise_notices) reads which evidence notices have already *)
(* covered, inserts a pending draft, and retires the older drafts: four    *)
(* calls on the database in four transactions.  A reviewer's request       *)
(* (approve, reject, deliver in api/app.py) reads, decides with a          *)
(* compare-and-set, hands the text to the mail service, logs the attempt   *)
(* and records the delivery, again one transaction at a time.  Several     *)
(* screens and several requests run at once and any of them can die        *)
(* between two calls.                                                      *)
(*                                                                         *)
(* A run makes at most one finding about a contractor, so its notice goes  *)
(* by the name of the screen.  Every query is keyed by contractor and      *)
(* workspace, so one contractor's notices are the whole of the protocol.   *)
(***************************************************************************)
EXTENDS Naturals, FiniteSets

CONSTANTS
    Screens,        \* screens of the contractor; a screen's notice has its name
    Requests,       \* requests to approve, reject or deliver
    Signals,        \* pieces of evidence a screen can find
    Resolved,       \* the screens whose finding names a contracting officer
    Workers,        \* screens that run at once (RQ workers, threads)
    Reviewers,      \* requests about notices handled at once
    Outcomes,       \* what handing the officer's copy over can come to here
    CopyOutcomes,   \* what sending a copy to a chosen address can come to
    Growing,        \* TRUE: a screen finds again whatever an earlier one found
    MaxDeaths,      \* bound: processes of screens and requests that are killed
    MayDelete       \* TRUE: an admin may delete runs

ASSUME ResolvedAssumption == Resolved \subseteq Screens
ASSUME WorkersAssumption == Workers \in Nat \ {0} /\ Reviewers \in Nat \ {0}
ASSUME OutcomesAssumption ==
    Outcomes \cup CopyOutcomes \subseteq {"sent", "drafted", "rendered", "error"}
ASSUME EnvironmentAssumption == {Growing, MayDelete} \subseteq BOOLEAN /\ MaxDeaths \in Nat

VARIABLES
    \* the database
    runRow,         \* [Screens -> BOOLEAN]: the run's row exists
    status,         \* notices.status, "none" where there is no row
    covers,         \* notices.signal_ids
    body,           \* notices.body_text
    sends,          \* notice_sends: the log of attempts
    \* screens
    pc,             \* where each screen is
    finding,        \* its evidence, and which of it the policy would notify on
    trigger,        \* the evidence its notice was raised for
    \* requests
    req,            \* what each request is doing
    \* the world outside, and a history of decisions for the properties
    mails,          \* copies that left the service
    verdict         \* the last decision written on each notice

screenVars == <<pc, finding, trigger>>
vars == <<runRow, status, covers, body, sends, pc, finding, trigger, req, mails, verdict>>

----------------------------------------------------------------------------
Statuses == {"none", "pending", "approved", "rejected", "superseded", "drafted", "sent"}
Bodies == {"generated", "edited", "bare", "empty"}
Roles == {"officer", "copy"}
Verdicts == {"open", "approved", "rejected", "superseded"}
AllOutcomes == {"sent", "drafted", "rendered", "error"}

Finding == [signals : SUBSET Signals, eligible : SUBSET Signals]
Kinds == {"approve", "reject", "deliver"}
Edits == {"none", "edited", "bare"}
Asks == [kind : Kinds, notice : Screens, to : SUBSET Roles, edit : Edits]
NoAsk == [kind |-> "none"]

ScreenPCs == {"idle", "reading", "creating", "selecting", "retiring", "done", "dead"}
RequestPCs == {"idle", "checking", "deciding", "writing", "loading", "officer",
               "logging", "recording", "marking", "copy", "logcopy", "done", "dead"}

\* `text` is the body _send read; `outcome` what the mail service answered.
Request == [pc : RequestPCs, ask : Asks \cup {NoAsk}, text : Bodies, outcome : AllOutcomes]
Mail == [req : Requests, notice : Screens, role : Roles, text : Bodies]
Send == [req : Requests, notice : Screens, role : Roles, status : AllOutcomes]

Working(s) == pc[s] \in {"reading", "creating", "selecting", "retiring"}
Handling(r) == req[r].pc \notin {"idle", "done", "dead"}

\* Outcomes that count as having reached somebody.
Delivered == {"sent", "drafted"}

NoFinding == [signals |-> {}, eligible |-> {}]
NoRequest == [pc |-> "idle", ask |-> NoAsk, text |-> "empty", outcome |-> "error"]

Init ==
    /\ runRow = [s \in Screens |-> FALSE]
    /\ status = [s \in Screens |-> "none"]
    /\ covers = [s \in Screens |-> {}]
    /\ body = [s \in Screens |-> "generated"]
    /\ sends = {}
    /\ pc = [s \in Screens |-> "idle"]
    /\ finding = [s \in Screens |-> NoFinding]
    /\ trigger = [s \in Screens |-> {}]
    /\ req = [r \in Requests |-> NoRequest]
    /\ mails = {}
    /\ verdict = [s \in Screens |-> "open"]

----------------------------------------------------------------------------
(* A screen reaches the end of its screening with a finding about the      *)
(* contractor: its evidence, and the part of it that the policy would      *)
(* raise a notice for if nobody had been told of it yet.                   *)
Found == UNION {finding[s].signals : s \in Screens}

StartScreen(s) ==
    /\ pc[s] = "idle"
    /\ Cardinality({t \in Screens : Working(t)}) < Workers
    /\ \E f \in Finding :
          /\ f.signals # {}
          /\ f.eligible \subseteq f.signals
          /\ Growing => Found \subseteq f.signals
          /\ finding' = [finding EXCEPT ![s] = f]
    /\ runRow' = [runRow EXCEPT ![s] = TRUE]
    /\ pc' = [pc EXCEPT ![s] = "reading"]
    /\ UNCHANGED <<status, covers, body, sends, trigger, req, mails, verdict>>

(* Store.notified_signal_ids: evidence of every notice there is, whatever  *)
(* its status.                                                             *)
PendingSignals == UNION {covers[n] : n \in {m \in Screens : status[m] = "pending"}}
NotifiedSignals == UNION {covers[n] : n \in {m \in Screens : status[m] # "none"}}

(* policy.decide_notice on what was just read: evidence the policy wants   *)
(* and no notice has covered, or the finding is held back.                 *)
ReadNotified(s) ==
    /\ pc[s] = "reading"
    /\ LET unseen == finding[s].eligible \ NotifiedSignals
       IN  /\ trigger' = [trigger EXCEPT ![s] = unseen]
           /\ pc' = [pc EXCEPT ![s] = IF unseen = {} THEN "done" ELSE "creating"]
    /\ UNCHANGED <<runRow, status, covers, body, sends, finding, req, mails, verdict>>

(* queue_notice: "the draft describes all of them".  The finding's evidence *)
(* and what triggered the notice.                                          *)
TriggersOnly(s) == trigger[s]
Covered(s) == finding[s].signals \cup trigger[s]

(* queue_notice and Store.create_notice. *)
CreateNotice(s) ==
    /\ pc[s] = "creating"
    /\ status' = [status EXCEPT ![s] = "pending"]
    /\ covers' = [covers EXCEPT ![s] = Covered(s)]
    /\ body' = [body EXCEPT ![s] = "generated"]
    /\ pc' = [pc EXCEPT ![s] = "selecting"]
    /\ UNCHANGED <<runRow, sends, finding, trigger, req, mails, verdict>>

OtherNotices(s) == {n \in Screens \ {s} : status[n] # "none"}
NoDrafts(s) == {}
OlderDrafts(s) == {n \in Screens \ {s} : status[n] = "pending"}

(* Store.supersede_pending, its SELECT: no other draft, nothing to do. *)
SelectOlder(s) ==
    /\ pc[s] = "selecting"
    /\ pc' = [pc EXCEPT ![s] = IF OlderDrafts(s) = {} THEN "done" ELSE "retiring"]
    /\ UNCHANGED <<runRow, status, covers, body, sends, finding, trigger, req, mails, verdict>>

(* Store.supersede_pending, its UPDATE: every other draft of the contractor *)
(* that is pending by now.                                                  *)
RetireOlder(s) ==
    /\ pc[s] = "retiring"
    /\ LET old == OlderDrafts(s)
       IN  /\ status' = [n \in Screens |-> IF n \in old THEN "superseded" ELSE status[n]]
           /\ verdict' = [n \in Screens |-> IF n \in old THEN "superseded" ELSE verdict[n]]
    /\ pc' = [pc EXCEPT ![s] = "done"]
    /\ UNCHANGED <<runRow, covers, body, sends, finding, trigger, req, mails>>

Deaths ==
    Cardinality({s \in Screens : pc[s] = "dead"}) + Cardinality({r \in Requests : req[r].pc = "dead"})

ScreenDies(s) ==
    /\ Deaths < MaxDeaths
    /\ Working(s)
    /\ pc' = [pc EXCEPT ![s] = "dead"]
    /\ UNCHANGED <<runRow, status, covers, body, sends, finding, trigger, req, mails, verdict>>

(* delete_screen and Store.delete_run: the run's row and its notice go in  *)
(* one transaction; what was emailed stays in notice_sends.  Nothing asks  *)
(* whether the screen is still running.                                    *)
DeleteRunAndLog(s) ==
    /\ MayDelete
    /\ runRow[s]
    /\ runRow' = [runRow EXCEPT ![s] = FALSE]
    /\ status' = [status EXCEPT ![s] = "none"]
    /\ covers' = [covers EXCEPT ![s] = {}]
    /\ sends' = {e \in sends : e.notice # s}
    /\ UNCHANGED <<body, pc, finding, trigger, req, mails, verdict>>

DeleteRun(s) ==
    /\ MayDelete
    /\ runRow[s]
    /\ runRow' = [runRow EXCEPT ![s] = FALSE]
    /\ status' = [status EXCEPT ![s] = "none"]
    /\ covers' = [covers EXCEPT ![s] = {}]
    /\ UNCHANGED <<body, sends, pc, finding, trigger, req, mails, verdict>>

Screen(s) ==
    \/ StartScreen(s)
    \/ ReadNotified(s)
    \/ CreateNotice(s)
    \/ SelectOlder(s)
    \/ RetireOlder(s)

----------------------------------------------------------------------------
(* A request about a notice.  The page lists notices, so it names one that *)
(* has existed.  A rejection goes straight to the decision.                *)
\* An answered request's local variables are gone with it.
Goto(r, place) ==
    req' = [req EXCEPT ![r] = IF place \in {"done", "dead"}
                              THEN [NoRequest EXCEPT !.pc = place]
                              ELSE [@ EXCEPT !.pc = place]]

Arrive(r) ==
    /\ req[r].pc = "idle"
    /\ Cardinality({q \in Requests : Handling(q)}) < Reviewers
    /\ \E ask \in Asks :
          /\ status[ask.notice] # "none"
          /\ ask.kind = "deliver" => ask.to # {} /\ ask.edit = "none"
          /\ ask.kind = "reject" => ask.to = {} /\ ask.edit = "none"
          /\ req' = [req EXCEPT ![r].ask = ask,
                                ![r].pc = IF ask.kind = "reject" THEN "deciding" ELSE "checking"]
    /\ UNCHANGED <<runRow, status, covers, body, sends, pc, finding, trigger, mails, verdict>>

\* The officer's copy was asked for and the notice names no officer: 409.
NoOfficer(ask) == "officer" \in ask.to /\ ask.notice \notin Resolved

(* approve_notice, up to the decision: 404, 409 or 422, or on to it. *)
CheckApproval(r) ==
    LET ask == req[r].ask
        refused == status[ask.notice] = "none" \/ NoOfficer(ask) \/ ask.edit = "bare"
    IN  /\ req[r].pc = "checking"
        /\ ask.kind = "approve"
        /\ Goto(r, IF refused THEN "done" ELSE "deciding")
        /\ UNCHANGED <<runRow, status, covers, body, sends, pc, finding, trigger, mails, verdict>>

\* The officer's copy goes from an approved notice that has not reached the
\* officer, a copy from any that was approved: 409 otherwise.
NeverApproved(ask) == status[ask.notice] \notin {"approved", "drafted", "sent"}
NotForOfficer(ask) == "officer" \in ask.to /\ status[ask.notice] # "approved"
Undeliverable(ask) == NeverApproved(ask) \/ NotForOfficer(ask)

(* deliver_notice, up to _send. *)
CheckDelivery(r) ==
    LET ask == req[r].ask
        refused == Undeliverable(ask) \/ NoOfficer(ask)
    IN  /\ req[r].pc = "checking"
        /\ ask.kind = "deliver"
        /\ Goto(r, IF refused THEN "done" ELSE "loading")
        /\ UNCHANGED <<runRow, status, covers, body, sends, pc, finding, trigger, mails, verdict>>

(* Store.decide_notice, its read: not_found and already_decided go back. *)
ReadDecision(r) ==
    /\ req[r].pc = "deciding"
    /\ Goto(r, IF status[req[r].ask.notice] = "pending" THEN "writing" ELSE "done")
    /\ UNCHANGED <<runRow, status, covers, body, sends, pc, finding, trigger, mails, verdict>>

(* Store.decide_notice, its UPDATE ... WHERE status='pending'. *)
StillThere(n) == status[n] # "none"
Undecided(n) == status[n] = "pending"

WriteDecision(r) ==
    LET ask == req[r].ask
        n == ask.notice
        decision == IF ask.kind = "approve" THEN "approved" ELSE "rejected"
    IN  /\ req[r].pc = "writing"
        /\ \/ /\ Undecided(n)
              /\ status' = [status EXCEPT ![n] = decision]
              /\ verdict' = [verdict EXCEPT ![n] = decision]
              /\ body' = [body EXCEPT ![n] = IF ask.edit = "none" THEN @ ELSE ask.edit]
              /\ Goto(r, IF ask.kind = "approve" THEN "loading" ELSE "done")
           \/ /\ ~Undecided(n)
              /\ Goto(r, "done")
              /\ UNCHANGED <<status, verdict, body>>
        /\ UNCHANGED <<runRow, covers, sends, pc, finding, trigger, mails>>

(* _send reads the notice again: the text that goes is the text decided    *)
(* on.  A notice deleted meanwhile reads as an empty one.                  *)
TextBefore(n) == IF status[n] = "none" THEN "empty" ELSE "generated"
TextNow(n) == IF status[n] = "none" THEN "empty" ELSE body[n]

LoadNotice(r) ==
    LET ask == req[r].ask
        text == TextNow(ask.notice)
    IN  /\ req[r].pc = "loading"
        /\ \/ /\ ask.to = {}
              /\ Goto(r, "done")
           \/ /\ ask.to # {}
              /\ req' = [req EXCEPT ![r].text = text,
                                    ![r].pc = IF "officer" \in ask.to THEN "officer" ELSE "copy"]
        /\ UNCHANGED <<runRow, status, covers, body, sends, pc, finding, trigger, mails, verdict>>

(* notices.send to the officer.  An emptied notice has no address on it,   *)
(* and that is an error.                                                   *)
SendOfficer(r) ==
    /\ req[r].pc = "officer"
    /\ \E out \in Outcomes :
          /\ req[r].text = "empty" => out = "error"
          /\ req' = [req EXCEPT ![r].outcome = out, ![r].pc = "logging"]
          /\ mails' = IF out \in Delivered
                      THEN mails \cup {[req |-> r, notice |-> req[r].ask.notice,
                                        role |-> "officer", text |-> req[r].text]}
                      ELSE mails
    /\ UNCHANGED <<runRow, status, covers, body, sends, pc, finding, trigger, verdict>>

LogNothing(r, role) == UNCHANGED sends
LogAsCopy(r, role) ==
    sends' = sends \cup {[req |-> r, notice |-> req[r].ask.notice, role |-> "copy",
                          status |-> req[r].outcome]}
LogAttempt(r, role) ==
    sends' = sends \cup {[req |-> r, notice |-> req[r].ask.notice, role |-> role,
                          status |-> req[r].outcome]}

(* Store.log_notice_send. *)
LogOfficer(r) ==
    /\ req[r].pc = "logging"
    /\ LogAttempt(r, "officer")
    /\ Goto(r, "recording")
    /\ UNCHANGED <<runRow, status, covers, body, pc, finding, trigger, mails, verdict>>

AfterOfficer(r) == IF "copy" \in req[r].ask.to THEN "copy" ELSE "done"

(* Store.record_notice_delivery, its read. *)
ReadDelivery(r) ==
    /\ req[r].pc = "recording"
    /\ Goto(r, IF status[req[r].ask.notice] = "approved" THEN "marking" ELSE AfterOfficer(r))
    /\ UNCHANGED <<runRow, status, covers, body, sends, pc, finding, trigger, mails, verdict>>

(* Store.record_notice_delivery, its UPDATE ... WHERE status='approved'.   *)
(* Only an outcome that reached somebody moves the notice on.              *)
AnyOutcome(r) == TRUE
Moved(r) == req[r].outcome \in Delivered

MarkDelivery(r) ==
    LET n == req[r].ask.notice
    IN  /\ req[r].pc = "marking"
        /\ status' = IF status[n] = "approved" /\ Moved(r)
                     THEN [status EXCEPT ![n] = req[r].outcome] ELSE status
        /\ Goto(r, AfterOfficer(r))
        /\ UNCHANGED <<runRow, covers, body, sends, pc, finding, trigger, mails, verdict>>

(* notices.send of a copy to an address the reviewer chose.  It goes with  *)
(* whatever text was read.                                                 *)
SendCopy(r) ==
    /\ req[r].pc = "copy"
    /\ \E out \in CopyOutcomes :
          /\ req' = [req EXCEPT ![r].outcome = out, ![r].pc = "logcopy"]
          /\ mails' = IF out \in Delivered
                      THEN mails \cup {[req |-> r, notice |-> req[r].ask.notice,
                                        role |-> "copy", text |-> req[r].text]}
                      ELSE mails
    /\ UNCHANGED <<runRow, status, covers, body, sends, pc, finding, trigger, verdict>>

LogCopy(r) ==
    /\ req[r].pc = "logcopy"
    /\ LogAttempt(r, "copy")
    /\ Goto(r, "done")
    /\ UNCHANGED <<runRow, status, covers, body, pc, finding, trigger, mails, verdict>>

RequestDies(r) ==
    /\ Deaths < MaxDeaths
    /\ Handling(r)
    /\ Goto(r, "dead")
    /\ UNCHANGED <<runRow, status, covers, body, sends, pc, finding, trigger, mails, verdict>>

Handle(r) ==
    \/ Arrive(r)
    \/ CheckApproval(r) \/ CheckDelivery(r)
    \/ ReadDecision(r) \/ WriteDecision(r)
    \/ LoadNotice(r)
    \/ SendOfficer(r) \/ LogOfficer(r)
    \/ ReadDelivery(r) \/ MarkDelivery(r)
    \/ SendCopy(r) \/ LogCopy(r)

Next ==
    \/ \E s \in Screens : Screen(s) \/ ScreenDies(s) \/ DeleteRun(s)
    \/ \E r \in Requests : Handle(r) \/ RequestDies(r)

Spec == Init /\ [][Next]_vars

----------------------------------------------------------------------------
(* Every variable keeps its type; a request past its arrival has an ask. *)
TypeOK ==
    /\ runRow \in [Screens -> BOOLEAN]
    /\ status \in [Screens -> Statuses]
    /\ covers \in [Screens -> SUBSET Signals]
    /\ body \in [Screens -> Bodies]
    /\ sends \subseteq Send
    /\ pc \in [Screens -> ScreenPCs]
    /\ finding \in [Screens -> Finding]
    /\ trigger \in [Screens -> SUBSET Signals]
    /\ req \in [Requests -> Request]
    /\ \A r \in Requests : Handling(r) => req[r].ask \in Asks
    /\ mails \subseteq Mail
    /\ verdict \in [Screens -> Verdicts]

(* "A decision is final" (store.py, decide_notice): once a notice has been *)
(* approved, rejected or superseded, no other reviewer, no screen and no   *)
(* late write of a request that read it undecided decides it again.        *)
DecisionFinal == [][\A n \in Screens : verdict[n] # "open" => verdict'[n] = verdict[n]]_vars

(* Nothing leaves the service, to an officer or to a copy's address, but a *)
(* notice a reviewer approved: not one rejected or superseded between a    *)
(* request's read and its send, and not one deleted before its decision.   *)
OnlyApprovedLeaves == \A m \in mails : verdict[m.notice] = "approved"

(* What leaves is the text the reviewer decided on, edits included, and    *)
(* never one without the limitations statement; approve_notice reads the   *)
(* notice before the decision and _send reads it again after.              *)
MailCarriesDecision ==
    \A m \in mails : /\ m.text # "bare"
                      /\ status[m.notice] # "none" => m.text = body[m.notice]

(* A notice that says drafted or sent has left for the officer, and the    *)
(* attempt with that outcome is on record, even if requests die half-way.  *)
DeliveryIsTrue ==
    \A n \in Screens : status[n] \in Delivered =>
        /\ \E m \in mails : m.notice = n /\ m.role = "officer"
        /\ \E e \in sends : e.notice = n /\ e.role = "officer" /\ e.status = status[n]

(* Every copy that left is in notice_sends, but for a request that is      *)
(* about to log it or was killed before it could; deleting the run takes   *)
(* nothing away ("what was emailed ... stays on record", delete_run).      *)
MailIsLogged ==
    \A m \in mails :
        \/ \E e \in sends : /\ e.req = m.req /\ e.notice = m.notice /\ e.role = m.role
                             /\ e.status \in Delivered
        \/ req[m.req].pc \in {"logging", "logcopy", "dead"}

(* The mail and the records agree: what leaves was approved and is what was *)
(* decided on, what says it left did, and what left is on record.          *)
MailIsTrue == OnlyApprovedLeaves /\ MailCarriesDecision /\ DeliveryIsTrue /\ MailIsLogged

(* "One pending notice per contractor" (supersede_pending): two drafts are *)
(* pending together only while the screen that wrote one of them has yet   *)
(* to retire the other, or was killed before it could.                     *)
OnePending ==
    \A m, n \in Screens : m # n /\ status[m] = "pending" /\ status[n] = "pending" =>
        \E s \in {m, n} : pc[s] \in {"selecting", "retiring", "dead"}

(* "To the officer only once" (deliver_notice): no notice leaves twice for *)
(* its officer.                                                            *)
OfficerOnce ==
    \A m1, m2 \in mails :
        m1.notice = m2.notice /\ m1.role = "officer" /\ m2.role = "officer" => m1 = m2

(* "A superseded one was replaced by a notice that carried it on"          *)
(* (notified_signal_ids): evidence of a superseded notice is in a notice   *)
(* that was not superseded, so that a reviewer decides on it some time.    *)
EvidenceCarriedOn ==
    \A n \in Screens : status[n] = "superseded" =>
        \A e \in covers[n] : \E m \in Screens : /\ status[m] \notin {"none", "superseded"}
                                              /\ e \in covers[m]

(* "A piece of evidence notifies once" (policy.py): no two notices were    *)
(* raised for the same evidence, so a rejection is never overruled by the  *)
(* next screen.                                                            *)
NotifiesOnce ==
    \A m, n \in Screens : m # n /\ status[m] # "none" /\ status[n] # "none" =>
        trigger[m] \cap trigger[n] = {}

(* With one screen and one request at a time nothing is told twice and no  *)
(* evidence is lost.                                                       *)
ToldOnce == OfficerOnce /\ EvidenceCarriedOn /\ NotifiesOnce

(* The queue keeps its promise about every notice. *)
Promise == INSTANCE NoticePromise WITH
    Notices <- Screens,
    reached <- [n \in Screens |-> {m.role : m \in {x \in mails : x.notice = n}}]
KeepsPromise == Promise!Spec
=============================================================================
