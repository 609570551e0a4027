------------------------- MODULE NoticeReviewProofs -------------------------
(***************************************************************************)
(* What NoticeReview guarantees for any number of screens, requests and    *)
(* pieces of evidence, any number of them at once, with processes dying    *)
(* and runs deleted at any time.                                           *)
(***************************************************************************)
EXTENDS NoticeReview, FiniteSetTheorems, TLAPS

\* The one-line conditions the handlers test.
USE DEF Covered, Undeliverable, NeverApproved, NotForOfficer, Undecided, TextNow, Moved

----------------------------------------------------------------------------
(* Types.                                                                  *)

(* Moving a request on keeps its record's type, and its ask while it is    *)
(* being handled (the local variables of the handlers in api/app.py).      *)
LEMMA GotoType ==
    ASSUME TypeOK, NEW r \in Requests, NEW place \in RequestPCs \ {"idle"},
           Goto(r, place), Handling(r)
    PROVE  /\ req' \in [Requests -> Request]
           /\ \A q \in Requests : (Handling(q) => req[q].ask \in Asks)'
<1>1. req[r] \in Request /\ req[r].ask \in Asks
  BY DEF TypeOK
<1>2. CASE place \in {"done", "dead"}
  <2>1. req' = [req EXCEPT ![r] = [NoRequest EXCEPT !.pc = place]]
    BY <1>2 DEF Goto
  <2>2. [NoRequest EXCEPT !.pc = place] \in Request
    BY <1>2 DEF NoRequest, Request, RequestPCs, Bodies, AllOutcomes
  <2> QED BY <2>1, <2>2, <1>2 DEF TypeOK, Handling, NoRequest
<1>3. CASE place \notin {"done", "dead"}
  <2>1. req' = [req EXCEPT ![r] = [@ EXCEPT !.pc = place]]
    BY <1>3 DEF Goto
  <2>2. [req[r] EXCEPT !.pc = place] \in Request
    BY <1>1 DEF Request
  <2>3. [req[r] EXCEPT !.pc = place].ask \in Asks
    BY <1>1 DEF Request
  <2> QED BY <2>1, <2>2, <2>3 DEF TypeOK, Handling
<1> QED BY <1>2, <1>3

(* Every step of a screen, and a deletion, keeps the types. *)
LEMMA ScreenType ==
    ASSUME TypeOK, NEW s \in Screens, Screen(s) \/ ScreenDies(s) \/ DeleteRun(s)
    PROVE  TypeOK'
<1>1. CASE StartScreen(s)
  BY <1>1 DEF StartScreen, TypeOK, ScreenPCs, Handling
<1>2. CASE ReadNotified(s)
  <2>1. trigger' \in [Screens -> SUBSET Signals]
    BY <1>2 DEF ReadNotified, TypeOK, Finding
  <2> QED BY <1>2, <2>1 DEF ReadNotified, TypeOK, ScreenPCs, Handling
<1>3. CASE CreateNotice(s)
  <2>1. covers' \in [Screens -> SUBSET Signals]
    BY <1>3 DEF CreateNotice, TypeOK, Finding
  <2> QED BY <1>3, <2>1 DEF CreateNotice, TypeOK, ScreenPCs, Statuses, Bodies, Handling
<1>4. CASE SelectOlder(s)
  BY <1>4 DEF SelectOlder, TypeOK, ScreenPCs, Handling
<1>5. CASE RetireOlder(s)
  BY <1>5 DEF RetireOlder, TypeOK, ScreenPCs, Statuses, Verdicts, Handling
<1>6. CASE ScreenDies(s)
  BY <1>6 DEF ScreenDies, TypeOK, ScreenPCs, Handling
<1>7. CASE DeleteRun(s)
  BY <1>7 DEF DeleteRun, TypeOK, Statuses, Handling
<1> QED BY <1>1, <1>2, <1>3, <1>4, <1>5, <1>6, <1>7 DEF Screen

(* Every step of a request keeps the types. *)
LEMMA HandleType ==
    ASSUME TypeOK, NEW r \in Requests, Handle(r) \/ RequestDies(r)
    PROVE  TypeOK'
<1>a. req[r] \in Request
  BY DEF TypeOK
<1>b. Handling(r) => req[r].ask \in Asks
  BY DEF TypeOK
<1>1. CASE Arrive(r)
  <2>1. PICK ask \in Asks : req' = [req EXCEPT ![r].ask = ask,
              ![r].pc = IF ask.kind = "reject" THEN "deciding" ELSE "checking"]
    BY <1>1 DEF Arrive
  <2>2. req'[r] = [pc |-> IF ask.kind = "reject" THEN "deciding" ELSE "checking",
                   ask |-> ask, text |-> req[r].text, outcome |-> req[r].outcome]
    BY <2>1, <1>a DEF TypeOK, Request
  <2>3. req'[r] \in Request /\ req'[r].ask \in Asks
    BY <2>2, <1>a DEF Request, RequestPCs
  <2>4. \A q \in Requests \ {r} : req'[q] = req[q]
    BY <2>1 DEF TypeOK
  <2>5. req' \in [Requests -> Request]
    BY <2>1, <2>3, <2>4 DEF TypeOK
  <2> QED BY <1>1, <2>3, <2>4, <2>5 DEF Arrive, TypeOK, Handling
<1>2. CASE CheckApproval(r)
  BY <1>2, GotoType DEF CheckApproval, RequestPCs, TypeOK, Handling
<1>3. CASE CheckDelivery(r)
  BY <1>3, GotoType DEF CheckDelivery, RequestPCs, TypeOK, Handling
<1>4. CASE ReadDecision(r)
  BY <1>4, GotoType DEF ReadDecision, RequestPCs, TypeOK, Handling
<1>5. CASE WriteDecision(r)
  <2>1. req' \in [Requests -> Request] /\ \A q \in Requests : (Handling(q) => req[q].ask \in Asks)'
    BY <1>5, GotoType DEF WriteDecision, RequestPCs, Handling
  <2>2. req[r].ask \in Asks
    BY <1>5, <1>b DEF WriteDecision, Handling
  <2>3. status' \in [Screens -> Statuses] /\ verdict' \in [Screens -> Verdicts]
    BY <1>5 DEF WriteDecision, TypeOK, Statuses, Verdicts
  <2>4. body' \in [Screens -> Bodies]
    BY <1>5, <2>2 DEF WriteDecision, TypeOK, Bodies, Asks, Edits
  <2> QED BY <1>5, <2>1, <2>3, <2>4 DEF WriteDecision, TypeOK
<1>6. CASE LoadNotice(r)
  <2>1. req[r].ask \in Asks
    BY <1>6, <1>b DEF LoadNotice, Handling
  <2>2. CASE Goto(r, "done")
    BY <1>6, <2>2, GotoType DEF LoadNotice, RequestPCs, TypeOK, Handling
  <2>3. CASE ~Goto(r, "done")
    <3> DEFINE text == IF status[req[r].ask.notice] = "none" THEN "empty"
                       ELSE body[req[r].ask.notice]
               next == IF "officer" \in req[r].ask.to THEN "officer" ELSE "copy"
    <3>1. req' = [req EXCEPT ![r].text = text, ![r].pc = next]
      BY <1>6, <2>3 DEF LoadNotice
    <3>2. text \in Bodies /\ next \in RequestPCs
      BY <2>1 DEF TypeOK, Asks, Bodies, RequestPCs
    <3> HIDE DEF text, next
    <3>3. req'[r] = [pc |-> next, ask |-> req[r].ask, text |-> text, outcome |-> req[r].outcome]
      BY <3>1, <1>a DEF TypeOK, Request
    <3>4. req'[r] \in Request /\ req'[r].ask \in Asks
      BY <3>2, <3>3, <1>a, <2>1 DEF Request
    <3>5. req' \in [Requests -> Request] /\ \A q \in Requests \ {r} : req'[q] = req[q]
      BY <3>1, <3>4 DEF TypeOK
    <3> QED BY <1>6, <3>4, <3>5 DEF LoadNotice, TypeOK, Handling
  <2> QED BY <2>2, <2>3
<1>7. CASE SendOfficer(r) \/ SendCopy(r)
  <2>1. PICK out \in Outcomes \cup CopyOutcomes, next \in {"logging", "logcopy"},
            role \in Roles :
          /\ req' = [req EXCEPT ![r].outcome = out, ![r].pc = next]
          /\ mails' \subseteq mails \cup {[req |-> r, notice |-> req[r].ask.notice,
                                        role |-> role, text |-> req[r].text]}
    BY <1>7 DEF SendOfficer, SendCopy, Roles
  <2>2. req[r].ask \in Asks
    BY <1>7, <1>b DEF SendOfficer, SendCopy, Handling
  <2>3. req'[r] = [pc |-> next, ask |-> req[r].ask, text |-> req[r].text, outcome |-> out]
    BY <2>1, <1>a DEF TypeOK, Request
  <2>4. req'[r] \in Request
    BY <2>3, <1>a, OutcomesAssumption DEF Request, RequestPCs, AllOutcomes
  <2>5. req' \in [Requests -> Request] /\ \A q \in Requests \ {r} : req'[q] = req[q]
    BY <2>1, <2>4 DEF TypeOK
  <2>6. mails' \subseteq Mail
    BY <2>1, <2>2, <1>a DEF TypeOK, Mail, Asks, Request
  <2>7. \A q \in Requests : (Handling(q) => req[q].ask \in Asks)'
    BY <2>2, <2>3, <2>5 DEF TypeOK, Handling
  <2> QED BY <1>7, <2>5, <2>6, <2>7 DEF SendOfficer, SendCopy, TypeOK
<1>8. CASE LogOfficer(r) \/ LogCopy(r)
  <2>1. req' \in [Requests -> Request] /\ \A q \in Requests : (Handling(q) => req[q].ask \in Asks)'
    BY <1>8, GotoType DEF LogOfficer, LogCopy, RequestPCs, Handling
  <2>2. req[r].ask \in Asks
    BY <1>8, <1>b DEF LogOfficer, LogCopy, Handling
  <2>3. sends' \subseteq Send
    BY <1>8, <2>2, <1>a DEF LogOfficer, LogCopy, LogAttempt, TypeOK, Send, Asks, Request, Roles
  <2> QED BY <1>8, <2>1, <2>3 DEF LogOfficer, LogCopy, TypeOK
<1>9. CASE ReadDelivery(r)
  BY <1>9, GotoType DEF ReadDelivery, AfterOfficer, RequestPCs, TypeOK, Handling
<1>10. CASE MarkDelivery(r)
  <2>1. req' \in [Requests -> Request] /\ \A q \in Requests : (Handling(q) => req[q].ask \in Asks)'
    BY <1>10, GotoType DEF MarkDelivery, AfterOfficer, RequestPCs, Handling
  <2>2. status' \in [Screens -> Statuses]
    BY <1>10 DEF MarkDelivery, TypeOK, Statuses, Delivered
  <2> QED BY <1>10, <2>1, <2>2 DEF MarkDelivery, TypeOK
<1>11. CASE RequestDies(r)
  BY <1>11, GotoType DEF RequestDies, RequestPCs, TypeOK, Handling
<1> QED
  BY <1>1, <1>2, <1>3, <1>4, <1>5, <1>6, <1>7, <1>8, <1>9, <1>10, <1>11 DEF Handle

(* Every reachable state is well typed (the tables and the handlers). *)
THEOREM TypeCorrect == Spec => []TypeOK
<1>1. Init => TypeOK
  BY DEF Init, TypeOK, Statuses, Bodies, ScreenPCs, Finding, NoFinding, NoRequest, Request,
         RequestPCs, AllOutcomes, Verdicts, Handling
<1>2. TypeOK /\ [Next]_vars => TypeOK'
  <2> SUFFICES ASSUME TypeOK, [Next]_vars PROVE TypeOK'
    OBVIOUS
  <2>1. CASE Next
    BY <2>1, ScreenType, HandleType DEF Next
  <2>2. CASE UNCHANGED vars
    BY <2>2 DEF vars, TypeOK, Handling
  <2> QED BY <2>1, <2>2
<1> QED BY <1>1, <1>2, PTL DEF Spec
----------------------------------------------------------------------------
(* The inductive invariant.                                                *)

Undrafted(n) == pc[n] \in {"idle", "reading", "creating"}
Sending(r) ==
    req[r].pc \in {"loading", "officer", "logging", "recording", "marking", "copy", "logcopy"}
HasText(r) == Sending(r) /\ req[r].pc # "loading"

\* A notice's status column agrees with the last decision written on it.
StatusAgrees ==
    \A n \in Screens :
        /\ status[n] = "pending" => verdict[n] = "open"
        /\ status[n] \in {"approved", "drafted", "sent"} => verdict[n] = "approved"
        /\ Undrafted(n) => verdict[n] = "open" /\ status[n] = "none"

\* A request inside _send has an approved notice in hand.
SendingApproved == \A r \in Requests : Sending(r) => verdict[req[r].ask.notice] = "approved"

\* The text in a request's hand is the notice's, and an approval that got
\* past approve_notice's check keeps the limitations statement.
TextAgrees ==
    /\ \A n \in Screens : body[n] \in {"generated", "edited"}
    /\ \A r \in Requests :
          /\ req[r].pc \in {"deciding", "writing"} => req[r].ask.edit # "bare"
          /\ HasText(r) => /\ req[r].text # "bare"
                           /\ status[req[r].ask.notice] # "none" =>
                                 req[r].text = body[req[r].ask.notice]

OfficerMailed(n) == \E m \in mails : m.notice = n /\ m.role = "officer"
OfficerLogged(n, out) ==
    \E e \in sends : e.notice = n /\ e.role = "officer" /\ e.status = out

\* A request about to record a delivery has made and logged it.
OutcomeAgrees ==
    \A r \in Requests :
        /\ req[r].pc \in {"logging", "recording", "marking"} /\ req[r].outcome \in Delivered =>
              OfficerMailed(req[r].ask.notice)
        /\ req[r].pc \in {"recording", "marking"} =>
              OfficerLogged(req[r].ask.notice, req[r].outcome)

Logged(m) == \E e \in sends : /\ e.req = m.req /\ e.notice = m.notice /\ e.role = m.role
                              /\ e.status \in Delivered
\* Request r is about to log mail m.
AboutToLog(r, m) ==
    /\ \/ req[r].pc = "logging" /\ m.role = "officer"
       \/ req[r].pc = "logcopy" /\ m.role = "copy"
    /\ req[r].ask.notice = m.notice /\ req[r].outcome \in Delivered
MailAccounted == \A m \in mails : Logged(m) \/ AboutToLog(m.req, m) \/ req[m.req].pc = "dead"

Approvals == StatusAgrees /\ SendingApproved /\ OnlyApprovedLeaves
Texts == TextAgrees /\ MailCarriesDecision
Deliveries == OutcomeAgrees /\ DeliveryIsTrue

(* What Goto does to the request it moves and to the others. *)
LEMMA GotoEffect ==
    ASSUME TypeOK, NEW r \in Requests, NEW place \in RequestPCs, Goto(r, place)
    PROVE  /\ req'[r].pc = place
           /\ place \notin {"done", "dead"} =>
                 /\ req'[r].ask = req[r].ask
                 /\ req'[r].text = req[r].text
                 /\ req'[r].outcome = req[r].outcome
           /\ \A q \in Requests \ {r} : req'[q] = req[q]
<1>1. req[r] \in Request
  BY DEF TypeOK
<1>2. CASE place \in {"done", "dead"}
  BY <1>2 DEF Goto, NoRequest, TypeOK
<1>3. CASE place \notin {"done", "dead"}
  <2>1. req' = [req EXCEPT ![r] = [@ EXCEPT !.pc = place]]
    BY <1>3 DEF Goto
  <2>2. req'[r] = [pc |-> place, ask |-> req[r].ask, text |-> req[r].text,
                   outcome |-> req[r].outcome]
    BY <1>1, <2>1 DEF TypeOK, Request
  <2> QED BY <2>1, <2>2 DEF TypeOK
<1> QED BY <1>2, <1>3

(* The steps of a request that do more to its record than move it on:      *)
(* arriving, reading the notice, and sending.                              *)
LEMMA ArriveEffect ==
    ASSUME TypeOK, NEW r \in Requests, Arrive(r)
    PROVE  /\ req'[r].pc \in {"deciding", "checking"}
           /\ req'[r].pc = "deciding" => req'[r].ask.edit = "none"
           /\ \A q \in Requests \ {r} : req'[q] = req[q]
<1>1. PICK ask \in Asks :
          /\ ask.kind = "reject" => ask.to = {} /\ ask.edit = "none"
          /\ req' = [req EXCEPT ![r].ask = ask,
                                ![r].pc = IF ask.kind = "reject" THEN "deciding" ELSE "checking"]
  BY DEF Arrive
<1>2. req'[r] = [pc |-> IF ask.kind = "reject" THEN "deciding" ELSE "checking",
                 ask |-> ask, text |-> req[r].text, outcome |-> req[r].outcome]
  BY <1>1 DEF TypeOK, Request
<1> QED BY <1>1, <1>2 DEF TypeOK

LEMMA LoadEffect ==
    ASSUME TypeOK, NEW r \in Requests, LoadNotice(r)
    PROVE  /\ req'[r].pc \in {"officer", "copy", "done"}
           /\ req'[r].pc # "done" =>
                 /\ req'[r].ask = req[r].ask
                 /\ req'[r].text = IF status[req[r].ask.notice] = "none" THEN "empty"
                                   ELSE body[req[r].ask.notice]
           /\ \A q \in Requests \ {r} : req'[q] = req[q]
<1>1. CASE Goto(r, "done")
  BY <1>1, GotoEffect DEF RequestPCs
<1>2. CASE ~Goto(r, "done")
  <2> DEFINE text == IF status[req[r].ask.notice] = "none" THEN "empty"
                     ELSE body[req[r].ask.notice]
             next == IF "officer" \in req[r].ask.to THEN "officer" ELSE "copy"
  <2>1. req' = [req EXCEPT ![r].text = text, ![r].pc = next]
    BY <1>2 DEF LoadNotice
  <2>2. next \in {"officer", "copy"}
    OBVIOUS
  <2> HIDE DEF text, next
  <2>3. req'[r] = [pc |-> next, ask |-> req[r].ask, text |-> text, outcome |-> req[r].outcome]
    BY <2>1 DEF TypeOK, Request
  <2>4. \A q \in Requests \ {r} : req'[q] = req[q]
    BY <2>1 DEF TypeOK
  <2> QED BY <2>2, <2>3, <2>4 DEF text
<1> QED BY <1>1, <1>2

LEMMA SendEffect ==
    ASSUME TypeOK, NEW r \in Requests, NEW role \in Roles,
           \/ role = "officer" /\ SendOfficer(r)
           \/ role = "copy" /\ SendCopy(r)
    PROVE  /\ req'[r].pc = IF role = "officer" THEN "logging" ELSE "logcopy"
           /\ req'[r].ask = req[r].ask
           /\ req'[r].text = req[r].text
           /\ mails' = IF req'[r].outcome \in Delivered
                       THEN mails \cup {[req |-> r, notice |-> req[r].ask.notice,
                                         role |-> role, text |-> req[r].text]}
                       ELSE mails
           /\ \A q \in Requests \ {r} : req'[q] = req[q]
<1> DEFINE next == IF role = "officer" THEN "logging" ELSE "logcopy"
<1>1. PICK out \in Outcomes \cup CopyOutcomes :
          /\ req' = [req EXCEPT ![r].outcome = out, ![r].pc = next]
          /\ mails' = IF out \in Delivered
                      THEN mails \cup {[req |-> r, notice |-> req[r].ask.notice,
                                        role |-> role, text |-> req[r].text]}
                      ELSE mails
  BY DEF SendOfficer, SendCopy
<1> HIDE DEF next
<1>2. req'[r] = [pc |-> next, ask |-> req[r].ask, text |-> req[r].text, outcome |-> out]
  BY <1>1 DEF TypeOK, Request
<1>3. \A q \in Requests \ {r} : req'[q] = req[q]
  BY <1>1 DEF TypeOK
<1>4. next = IF role = "officer" THEN "logging" ELSE "logcopy"
  BY DEF next
<1>5. /\ req'[r].pc = next
      /\ req'[r].ask = req[r].ask
      /\ req'[r].text = req[r].text
      /\ req'[r].outcome = out
  BY <1>2
<1>6. mails' = IF req'[r].outcome \in Delivered
               THEN mails \cup {[req |-> r, notice |-> req[r].ask.notice,
                                 role |-> role, text |-> req[r].text]}
               ELSE mails
  BY <1>1, <1>5
<1> HIDE DEF Delivered
<1> QED BY <1>3, <1>4, <1>5, <1>6
----------------------------------------------------------------------------
(* Decisions are final and only approved notices leave.                    *)

\* What a step may do to the decisions made.
VerdictsKept == \A n \in Screens : verdict[n] # "open" => verdict'[n] = verdict[n]

LEMMA ApprovalsScreen ==
    ASSUME TypeOK, Approvals, NEW s \in Screens, Screen(s) \/ ScreenDies(s) \/ DeleteRun(s)
    PROVE  Approvals' /\ VerdictsKept
<1> USE DEF Approvals, StatusAgrees, SendingApproved, OnlyApprovedLeaves, Undrafted, Sending,
            VerdictsKept
<1>1. CASE StartScreen(s)
  BY <1>1 DEF StartScreen, TypeOK
<1>2. CASE ReadNotified(s)
  BY <1>2 DEF ReadNotified, TypeOK
<1>3. CASE CreateNotice(s)
  BY <1>3 DEF CreateNotice, TypeOK
<1>4. CASE SelectOlder(s)
  BY <1>4 DEF SelectOlder, TypeOK
<1>5. CASE RetireOlder(s)
  <2>1. \A n \in Screens :
          \/ status[n] = "pending" /\ status'[n] = "superseded" /\ verdict'[n] = "superseded"
          \/ status'[n] = status[n] /\ verdict'[n] = verdict[n]
    BY <1>5 DEF RetireOlder, OlderDrafts, TypeOK
  <2>2. VerdictsKept
    BY <2>1
  <2>3. StatusAgrees'
    BY <1>5, <2>1 DEF RetireOlder, TypeOK
  <2>4. SendingApproved'
    <3> SUFFICES ASSUME NEW r \in Requests, Sending(r)
                 PROVE  verdict'[req[r].ask.notice] = "approved"
      BY <1>5 DEF RetireOlder
    <3>1. req[r].ask.notice \in Screens
      BY DEF TypeOK, Handling, Asks
    <3> QED BY <2>2, <3>1
  <2>5. OnlyApprovedLeaves'
    BY <1>5, <2>2 DEF RetireOlder, TypeOK, Mail
  <2> QED BY <2>2, <2>3, <2>4, <2>5
<1>6. CASE ScreenDies(s)
  BY <1>6 DEF ScreenDies, TypeOK
<1>7. CASE DeleteRun(s)
  BY <1>7 DEF DeleteRun, TypeOK
<1> QED BY <1>1, <1>2, <1>3, <1>4, <1>5, <1>6, <1>7 DEF Screen

LEMMA ApprovalsHandle ==
    ASSUME TypeOK, Approvals, NEW r \in Requests, Handle(r) \/ RequestDies(r)
    PROVE  Approvals' /\ VerdictsKept
<1> USE DEF Approvals, StatusAgrees, SendingApproved, OnlyApprovedLeaves, Undrafted, Sending,
            VerdictsKept
<1>1. CASE Arrive(r)
  <2>1. UNCHANGED <<status, verdict, pc, mails>>
    BY <1>1 DEF Arrive
  <2>2. /\ req'[r].pc \in {"deciding", "checking"}
        /\ \A q \in Requests \ {r} : req'[q] = req[q]
    BY <1>1, ArriveEffect
  <2> QED BY <2>1, <2>2
<1>2. CASE CheckApproval(r)
  BY <1>2, GotoEffect DEF CheckApproval, RequestPCs
<1>3. CASE CheckDelivery(r)
  <2> DEFINE n == req[r].ask.notice
             next == IF \/ status[n] \notin {"approved", "drafted", "sent"}
                        \/ "officer" \in req[r].ask.to /\ status[n] # "approved"
                        \/ NoOfficer(req[r].ask) THEN "done" ELSE "loading"
  <2>1. n \in Screens
    BY <1>3 DEF CheckDelivery, TypeOK, Handling, Asks
  <2>2. Goto(r, next) /\ next \in RequestPCs
    BY <1>3 DEF CheckDelivery, RequestPCs
  <2>3. next = "loading" => verdict[n] = "approved"
    BY <2>1
  <2> HIDE DEF next
  <2>4. /\ req'[r].pc = next
        /\ next = "loading" => req'[r].ask = req[r].ask
        /\ \A q \in Requests \ {r} : req'[q] = req[q]
    BY <2>2, GotoEffect
  <2>5. next \in {"done", "loading"}
    BY DEF next
  <2> QED BY <1>3, <2>3, <2>4, <2>5 DEF CheckDelivery
<1>4. CASE ReadDecision(r)
  BY <1>4, GotoEffect DEF ReadDecision, RequestPCs
<1>5. CASE WriteDecision(r)
  <2> DEFINE n == req[r].ask.notice
             decision == IF req[r].ask.kind = "approve" THEN "approved" ELSE "rejected"
  <2>1. n \in Screens
    BY <1>5 DEF WriteDecision, TypeOK, Handling, Asks
  <2>2. CASE status[n] = "pending"
    <3>1. /\ status' = [status EXCEPT ![n] = decision]
          /\ verdict' = [verdict EXCEPT ![n] = decision]
          /\ Goto(r, IF req[r].ask.kind = "approve" THEN "loading" ELSE "done")
          /\ UNCHANGED <<pc, mails>>
      BY <1>5, <2>2 DEF WriteDecision
    <3>2. /\ req'[r].pc = IF req[r].ask.kind = "approve" THEN "loading" ELSE "done"
          /\ req'[r].pc = "loading" => req'[r].ask = req[r].ask /\ decision = "approved"
          /\ \A q \in Requests \ {r} : req'[q] = req[q]
      BY <3>1, GotoEffect DEF RequestPCs
    <3>3. verdict[n] = "open"
      BY <2>1, <2>2
    <3>4. VerdictsKept
      BY <3>1, <3>3 DEF TypeOK
    <3>5. StatusAgrees'
      BY <2>1, <2>2, <3>1 DEF TypeOK
    <3>6. SendingApproved'
      <4>1. Sending(r)' => verdict'[req'[r].ask.notice] = "approved"
        BY <2>1, <3>1, <3>2 DEF TypeOK
      <4>2. \A q \in Requests \ {r} : Sending(q)' => verdict'[req'[q].ask.notice] = "approved"
        BY <3>2, <3>4 DEF TypeOK, Handling, Asks
      <4> QED BY <4>1, <4>2
    <3>7. OnlyApprovedLeaves'
      BY <3>1, <3>4 DEF TypeOK, Mail
    <3> QED BY <3>4, <3>5, <3>6, <3>7
  <2>3. CASE status[n] # "pending"
    BY <1>5, <2>3, GotoEffect DEF WriteDecision, RequestPCs
  <2> QED BY <2>2, <2>3
<1>6. CASE LoadNotice(r)
  BY <1>6, LoadEffect DEF LoadNotice
<1>7. CASE SendOfficer(r)
  <2>1. \A m \in mails' : m \in mails \/ m.notice = req[r].ask.notice
    BY <1>7, SendEffect DEF Roles
  <2>2. UNCHANGED <<status, verdict, pc>> /\ Sending(r)
    BY <1>7 DEF SendOfficer
  <2>3. OnlyApprovedLeaves'
    BY <2>1, <2>2
  <2>4. SendingApproved'
    BY <1>7, <2>2, SendEffect DEF Roles
  <2> QED BY <2>2, <2>3, <2>4
<1>8. CASE LogOfficer(r)
  BY <1>8, GotoEffect DEF LogOfficer, RequestPCs
<1>9. CASE ReadDelivery(r)
  BY <1>9, GotoEffect DEF ReadDelivery, AfterOfficer, RequestPCs
<1>10. CASE MarkDelivery(r)
  <2>1. req[r].ask.notice \in Screens
    BY <1>10 DEF MarkDelivery, TypeOK, Handling, Asks
  <2>2. StatusAgrees'
    BY <1>10, <2>1 DEF MarkDelivery, Delivered, TypeOK
  <2>3. SendingApproved'
    BY <1>10, GotoEffect DEF MarkDelivery, AfterOfficer, RequestPCs
  <2> QED BY <1>10, <2>2, <2>3 DEF MarkDelivery
<1>11. CASE SendCopy(r)
  <2>1. \A m \in mails' : m \in mails \/ m.notice = req[r].ask.notice
    BY <1>11, SendEffect DEF Roles
  <2>2. UNCHANGED <<status, verdict, pc>> /\ Sending(r)
    BY <1>11 DEF SendCopy
  <2>3. OnlyApprovedLeaves'
    BY <2>1, <2>2
  <2>4. SendingApproved'
    BY <1>11, <2>2, SendEffect DEF Roles
  <2> QED BY <2>2, <2>3, <2>4
<1>12. CASE LogCopy(r)
  BY <1>12, GotoEffect DEF LogCopy, RequestPCs
<1>13. CASE RequestDies(r)
  BY <1>13, GotoEffect DEF RequestDies, RequestPCs
<1> QED BY <1>1, <1>2, <1>3, <1>4, <1>5, <1>6, <1>7, <1>8, <1>9, <1>10, <1>11, <1>12, <1>13
        DEF Handle

LEMMA ApprovalsNext ==
    ASSUME TypeOK, Approvals, [Next]_vars
    PROVE  Approvals' /\ VerdictsKept
<1>1. CASE Next
  BY <1>1, ApprovalsScreen, ApprovalsHandle DEF Next
<1>2. CASE UNCHANGED vars
  BY <1>2 DEF vars, Approvals, StatusAgrees, SendingApproved, OnlyApprovedLeaves, Undrafted,
              Sending, VerdictsKept
<1> QED BY <1>1, <1>2

LEMMA ApprovalsInvariant == Spec => []Approvals
<1>1. Init => Approvals
  BY DEF Init, Approvals, StatusAgrees, SendingApproved, OnlyApprovedLeaves, Undrafted, Sending,
         NoRequest
<1>2. TypeOK /\ Approvals /\ [Next]_vars => Approvals'
  BY ApprovalsNext
<1> QED BY <1>1, <1>2, TypeCorrect, PTL DEF Spec

(* Whatever screens, reviewers and deaths race, nothing leaves but what a  *)
(* reviewer approved (approve_notice, deliver_notice, _send).              *)
THEOREM ApprovedOnly == Spec => []OnlyApprovedLeaves
BY ApprovalsInvariant, PTL DEF Approvals

(* "A decision is final" (decide_notice, supersede_pending): the WHERE     *)
(* status='pending' of both writes suffices.                               *)
THEOREM Finality == Spec => DecisionFinal
<1>1. TypeOK /\ Approvals /\ [Next]_vars => [VerdictsKept]_vars
  BY ApprovalsNext
<1>2. [VerdictsKept]_vars <=>
      [\A n \in Screens : verdict[n] # "open" => verdict'[n] = verdict[n]]_vars
  BY DEF VerdictsKept
<1> QED BY <1>1, <1>2, TypeCorrect, ApprovalsInvariant, PTL DEF Spec, DecisionFinal
----------------------------------------------------------------------------
(* One pending notice per contractor.                                      *)

(* "One pending notice per contractor" (supersede_pending) but for a       *)
(* screen that has yet to retire the older draft, or died before it could. *)
THEOREM OneDraft == Spec => []OnePending
<1>1. Init => OnePending
  BY DEF Init, OnePending
<1>2. TypeOK /\ OnePending /\ [Next]_vars => OnePending'
  <2> SUFFICES ASSUME TypeOK, OnePending, [Next]_vars PROVE OnePending'
    OBVIOUS
  <2>1. ASSUME NEW s \in Screens, Screen(s) \/ ScreenDies(s) \/ DeleteRun(s)
        PROVE  OnePending'
    <3>1. CASE StartScreen(s)
      BY <3>1 DEF StartScreen, OnePending, TypeOK
    <3>2. CASE ReadNotified(s)
      BY <3>2 DEF ReadNotified, OnePending, TypeOK
    <3>3. CASE CreateNotice(s)
      BY <3>3 DEF CreateNotice, OnePending, TypeOK
    <3>4. CASE SelectOlder(s)
      BY <3>4 DEF SelectOlder, OlderDrafts, OnePending, TypeOK
    <3>5. CASE RetireOlder(s)
      <4>1. \A n \in Screens \ {s} : status'[n] # "pending"
        BY <3>5 DEF RetireOlder, OlderDrafts, TypeOK
      <4> QED BY <4>1 DEF OnePending
    <3>6. CASE ScreenDies(s)
      BY <3>6 DEF ScreenDies, OnePending, TypeOK
    <3>7. CASE DeleteRun(s)
      BY <3>7 DEF DeleteRun, OnePending, TypeOK
    <3> QED BY <2>1, <3>1, <3>2, <3>3, <3>4, <3>5, <3>6, <3>7 DEF Screen
  <2>2. ASSUME NEW r \in Requests, Handle(r) \/ RequestDies(r)
        PROVE  OnePending'
    <3>1. pc' = pc
      BY <2>2 DEF Handle, Arrive, CheckApproval, CheckDelivery, ReadDecision, WriteDecision,
                  LoadNotice, SendOfficer, LogOfficer, ReadDelivery, MarkDelivery, SendCopy,
                  LogCopy, RequestDies
    <3>2. \A n \in Screens : status'[n] = "pending" => status[n] = "pending"
      <4>1. CASE WriteDecision(r)
        BY <4>1 DEF WriteDecision, TypeOK
      <4>2. CASE MarkDelivery(r)
        BY <4>2 DEF MarkDelivery, Delivered, TypeOK
      <4>3. CASE ~WriteDecision(r) /\ ~MarkDelivery(r)
        BY <2>2, <4>3 DEF Handle, Arrive, CheckApproval, CheckDelivery, ReadDecision, LoadNotice,
                          SendOfficer, LogOfficer, ReadDelivery, SendCopy, LogCopy, RequestDies
      <4> QED BY <4>1, <4>2, <4>3
    <3> QED BY <3>1, <3>2 DEF OnePending
  <2>3. CASE UNCHANGED vars
    BY <2>3 DEF vars, OnePending
  <2> QED BY <2>1, <2>2, <2>3 DEF Next
<1> QED BY <1>1, <1>2, TypeCorrect, PTL DEF Spec

----------------------------------------------------------------------------
(* The detailed specification keeps the queue's promise.                   *)

\* The roles in which somebody was sent each notice, as NoticePromise sees it.
Reached == [n \in Screens |-> {m.role : m \in {x \in mails : x.notice = n}}]

(* A copy that leaves is NoticePromise's Leave. *)
LEMMA LeaveMaps ==
    ASSUME TypeOK, Approvals, NEW r \in Requests, NEW role \in Roles,
           \/ role = "officer" /\ SendOfficer(r)
           \/ role = "copy" /\ SendCopy(r)
    PROVE  [Promise!Next]_(Promise!pvars)
<1>1. PICK n \in Screens : /\ n = req[r].ask.notice
                          /\ verdict[n] = "approved" /\ verdict' = verdict
  BY DEF SendOfficer, SendCopy, TypeOK, Handling, Asks, Approvals, SendingApproved, Sending
<1> DEFINE mail == [req |-> r, notice |-> n, role |-> role, text |-> req[r].text]
<1>2. CASE mails' = mails
  BY <1>1, <1>2 DEF Promise!pvars
<1>3. CASE mails' = mails \cup {mail}
  <2>1. mail.notice = n /\ mail.role = role
    OBVIOUS
  <2> HIDE DEF mail
  <2>2. {x \in mails' : x.notice = n} = {x \in mails : x.notice = n} \cup {mail}
    BY <1>3, <2>1
  <2>3. \A k \in Screens \ {n} : {x \in mails' : x.notice = k} = {x \in mails : x.notice = k}
    BY <1>3, <2>1
  <2>4. {m.role : m \in {x \in mails' : x.notice = n}} =
           {m.role : m \in {x \in mails : x.notice = n}} \cup {role}
    BY <2>1, <2>2
  <2>5. Reached' = [Reached EXCEPT ![n] = @ \cup {role}]
    BY <1>1, <2>3, <2>4 DEF Reached
  <2>6. Promise!Leave(n, role)
    BY <1>1, <2>5 DEF Promise!Leave, Reached
  <2>7. role \in Promise!Roles
    BY DEF Promise!Roles, Roles
  <2> QED BY <2>6, <2>7 DEF Promise!Next
<1> QED BY <1>1, <1>2, <1>3, SendEffect

(* The review queue implements NoticePromise: decided at most once, and    *)
(* nobody is sent what was not approved (store.py, api/app.py).            *)
THEOREM Implements == Spec => KeepsPromise
<1>1. Init => Promise!Init
  BY DEF Init, Promise!Init
<1>2. TypeOK /\ Approvals /\ [Next]_vars => [Promise!Next]_(Promise!pvars)
  <2> SUFFICES ASSUME TypeOK, Approvals, [Next]_vars
               PROVE  [Promise!Next]_(Promise!pvars)
    OBVIOUS
  <2>1. ASSUME NEW s \in Screens, RetireOlder(s)
        PROVE  [Promise!Next]_(Promise!pvars)
    <3>1. Promise!Supersede(OlderDrafts(s))
      BY <2>1 DEF RetireOlder, Promise!Supersede, OlderDrafts, Approvals, StatusAgrees
    <3>2. OlderDrafts(s) \in SUBSET Screens
      BY DEF OlderDrafts
    <3> QED BY <3>1, <3>2 DEF Promise!Next
  <2>2. ASSUME NEW r \in Requests, WriteDecision(r)
        PROVE  [Promise!Next]_(Promise!pvars)
    <3> DEFINE n == req[r].ask.notice
    <3>1. n \in Screens
      BY <2>2 DEF WriteDecision, TypeOK, Handling, Asks
    <3>2. CASE status[n] = "pending"
      <4>1. Promise!Decide(n)
        BY <2>2, <3>1, <3>2 DEF WriteDecision, Promise!Decide, Approvals, StatusAgrees
      <4> QED BY <3>1, <4>1 DEF Promise!Next
    <3>3. CASE status[n] # "pending"
      BY <2>2, <3>3 DEF WriteDecision, Promise!pvars
    <3> QED BY <3>2, <3>3
  <2>3. ASSUME NEW r \in Requests, SendOfficer(r) \/ SendCopy(r)
        PROVE  [Promise!Next]_(Promise!pvars)
    BY <2>3, LeaveMaps DEF Roles
  <2>4. ASSUME UNCHANGED <<verdict, mails>>
        PROVE  [Promise!Next]_(Promise!pvars)
    BY <2>4 DEF Promise!pvars
  <2>5. ASSUME NEW s \in Screens, Screen(s) \/ ScreenDies(s) \/ DeleteRun(s), ~RetireOlder(s)
        PROVE  UNCHANGED <<verdict, mails>>
    BY <2>5 DEF Screen, StartScreen, ReadNotified, CreateNotice, SelectOlder, ScreenDies, DeleteRun
  <2>6. ASSUME NEW r \in Requests, Handle(r) \/ RequestDies(r),
               ~WriteDecision(r), ~SendOfficer(r), ~SendCopy(r)
        PROVE  UNCHANGED <<verdict, mails>>
    BY <2>6 DEF Handle, Arrive, CheckApproval, CheckDelivery, ReadDecision, LoadNotice,
                LogOfficer, ReadDelivery, MarkDelivery, LogCopy, RequestDies
  <2>7. CASE UNCHANGED vars
    BY <2>4, <2>7 DEF vars
  <2> QED BY <2>1, <2>2, <2>3, <2>4, <2>5, <2>6, <2>7 DEF Next
<1> QED BY <1>1, <1>2, TypeCorrect, ApprovalsInvariant, PTL DEF Spec, KeepsPromise, Promise!Spec
----------------------------------------------------------------------------
(* The text that leaves.                                                   *)

LEMMA TextsScreen ==
    ASSUME TypeOK, Approvals, Texts, NEW s \in Screens,
           Screen(s) \/ ScreenDies(s) \/ DeleteRun(s)
    PROVE  Texts'
<1> USE DEF Texts, TextAgrees, MailCarriesDecision, HasText, Sending
<1>1. CASE CreateNotice(s)
  <2>1. verdict[s] = "open"
    BY <1>1 DEF CreateNotice, Approvals, StatusAgrees, Undrafted
  <2>2. \A m \in mails : m.notice # s
    BY <2>1 DEF Approvals, OnlyApprovedLeaves
  <2>3. \A r \in Requests : Sending(r) => req[r].ask.notice # s
    BY <2>1 DEF Approvals, SendingApproved
  <2>4. /\ status' = [status EXCEPT ![s] = "pending"]
        /\ body' = [body EXCEPT ![s] = "generated"]
        /\ UNCHANGED <<req, mails>>
    BY <1>1 DEF CreateNotice
  <2> QED BY <2>2, <2>3, <2>4 DEF TypeOK, Mail, Asks, Handling
<1>2. CASE RetireOlder(s)
  <2>1. \A n \in Screens : status'[n] # "none" => status[n] # "none"
    BY <1>2 DEF RetireOlder, OlderDrafts, TypeOK
  <2>2. UNCHANGED <<body, req, mails>>
    BY <1>2 DEF RetireOlder
  <2> QED BY <2>1, <2>2 DEF TypeOK, Mail, Asks, Handling
<1>3. CASE DeleteRun(s)
  <2>1. \A n \in Screens : status'[n] # "none" => status[n] # "none"
    BY <1>3 DEF DeleteRun, TypeOK
  <2>2. UNCHANGED <<body, req, mails>>
    BY <1>3 DEF DeleteRun
  <2> QED BY <2>1, <2>2 DEF TypeOK, Mail, Asks, Handling
<1>4. CASE StartScreen(s) \/ ReadNotified(s) \/ SelectOlder(s) \/ ScreenDies(s)
  <2>1. UNCHANGED <<status, body, req, mails>>
    BY <1>4 DEF StartScreen, ReadNotified, SelectOlder, ScreenDies
  <2> QED BY <2>1
<1> QED BY <1>1, <1>2, <1>3, <1>4 DEF Screen

LEMMA TextsHandle ==
    ASSUME TypeOK, Approvals, Texts, NEW r \in Requests, Handle(r) \/ RequestDies(r)
    PROVE  Texts'
<1> USE DEF Texts, TextAgrees, MailCarriesDecision, HasText, Sending
<1>1. CASE Arrive(r)
  <2>1. UNCHANGED <<status, body, mails>>
    BY <1>1 DEF Arrive
  <2>2. /\ req'[r].pc \in {"deciding", "checking"}
        /\ req'[r].pc = "deciding" => req'[r].ask.edit = "none"
        /\ \A q \in Requests \ {r} : req'[q] = req[q]
    BY <1>1, ArriveEffect
  <2> QED BY <2>1, <2>2
<1>2. CASE CheckApproval(r)
  <2>1. UNCHANGED <<status, body, mails>>
    BY <1>2 DEF CheckApproval
  <2>2. PICK next \in {"done", "deciding"} :
          Goto(r, next) /\ (next = "deciding" => req[r].ask.edit # "bare")
    BY <1>2 DEF CheckApproval
  <2>3. /\ req'[r].pc = next
        /\ next = "deciding" => req'[r].ask = req[r].ask
        /\ \A q \in Requests \ {r} : req'[q] = req[q]
    BY <2>2, GotoEffect DEF RequestPCs
  <2> QED BY <2>1, <2>2, <2>3
<1>3. CASE CheckDelivery(r)
  <2>1. UNCHANGED <<status, body, mails>>
    BY <1>3 DEF CheckDelivery
  <2>2. PICK next \in {"done", "loading"} : Goto(r, next)
    BY <1>3 DEF CheckDelivery
  <2>3. req'[r].pc = next /\ \A q \in Requests \ {r} : req'[q] = req[q]
    BY <2>2, GotoEffect DEF RequestPCs
  <2> QED BY <2>1, <2>2, <2>3
<1>4. CASE ReadDecision(r)
  BY <1>4, GotoEffect DEF ReadDecision, RequestPCs
<1>5. CASE WriteDecision(r)
  <2>1. PICK n \in Screens : n = req[r].ask.notice
    BY <1>5 DEF WriteDecision, TypeOK, Handling, Asks
  <2>2. CASE status[n] = "pending"
    <3>1. verdict[n] = "open"
      BY <2>2 DEF Approvals, StatusAgrees
    <3>2. \A m \in mails : m.notice # n
      BY <3>1 DEF Approvals, OnlyApprovedLeaves
    <3>3. \A q \in Requests : Sending(q) => req[q].ask.notice # n
      BY <3>1 DEF Approvals, SendingApproved
    <3>4. PICK decision \in {"approved", "rejected"}, next \in {"loading", "done"} :
            /\ status' = [status EXCEPT ![n] = decision]
            /\ body' = [body EXCEPT ![n] = IF req[r].ask.edit = "none" THEN @ ELSE req[r].ask.edit]
            /\ mails' = mails
            /\ Goto(r, next)
      BY <1>5, <2>1, <2>2 DEF WriteDecision
    <3>5. body'[n] \in {"generated", "edited"}
      BY <1>5, <2>1, <3>4 DEF WriteDecision, TypeOK, Handling, Asks, Edits
    <3>6. req'[r].pc = next /\ \A q \in Requests \ {r} : req'[q] = req[q]
      BY <3>4, GotoEffect DEF RequestPCs
    <3>7. \A k \in Screens \ {n} : status'[k] = status[k] /\ body'[k] = body[k]
      BY <3>4 DEF TypeOK
    <3> QED BY <3>2, <3>3, <3>4, <3>5, <3>6, <3>7 DEF TypeOK, Mail, Asks, Handling
  <2>3. CASE status[n] # "pending"
    <3>1. Goto(r, "done") /\ UNCHANGED <<status, body, mails>>
      BY <1>5, <2>1, <2>3 DEF WriteDecision
    <3>2. req'[r].pc = "done" /\ \A q \in Requests \ {r} : req'[q] = req[q]
      BY <3>1, GotoEffect DEF RequestPCs
    <3> QED BY <3>1, <3>2
  <2> QED BY <2>2, <2>3
<1>6. CASE LoadNotice(r)
  <2>1. UNCHANGED <<status, body, mails>>
    BY <1>6 DEF LoadNotice
  <2>2. req[r].ask.notice \in Screens
    BY <1>6 DEF LoadNotice, TypeOK, Handling, Asks
  <2> QED BY <1>6, <2>1, <2>2, LoadEffect
<1>7. CASE SendOfficer(r) \/ SendCopy(r)
  <2>1. UNCHANGED <<status, body>> /\ HasText(r)
    BY <1>7 DEF SendOfficer, SendCopy
  <2>2. /\ req'[r].pc \in {"logging", "logcopy"}
        /\ req'[r].ask = req[r].ask /\ req'[r].text = req[r].text
        /\ \A m \in mails' : m \in mails \/ (m.notice = req[r].ask.notice /\ m.text = req[r].text)
        /\ \A q \in Requests \ {r} : req'[q] = req[q]
    BY <1>7, SendEffect DEF Roles
  <2>3. TextAgrees'
    BY <2>1, <2>2
  <2>4. MailCarriesDecision'
    BY <2>1, <2>2
  <2> QED BY <2>3, <2>4
<1>8. CASE LogOfficer(r) \/ ReadDelivery(r) \/ MarkDelivery(r) \/ LogCopy(r) \/ RequestDies(r)
  <2>1. PICK next \in {"recording", "marking", "copy", "done", "dead"} :
          Goto(r, next) /\ (next \notin {"done", "dead"} => HasText(r))
    BY <1>8 DEF LogOfficer, ReadDelivery, MarkDelivery, AfterOfficer, LogCopy, RequestDies
  <2>2. /\ req'[r].pc = next
        /\ next \notin {"done", "dead"} => req'[r].ask = req[r].ask /\ req'[r].text = req[r].text
        /\ \A q \in Requests \ {r} : req'[q] = req[q]
    BY <2>1, GotoEffect DEF RequestPCs
  <2>3. UNCHANGED <<body, mails>> /\ \A n \in Screens : status'[n] # "none" => status[n] # "none"
    BY <1>8 DEF LogOfficer, ReadDelivery, MarkDelivery, LogCopy, RequestDies, TypeOK
  <2> QED BY <2>1, <2>2, <2>3 DEF TypeOK, Mail, Asks, Handling
<1> QED BY <1>1, <1>2, <1>3, <1>4, <1>5, <1>6, <1>7, <1>8 DEF Handle

(* The officer and the copies get the text the reviewer approved, with the *)
(* limitations statement (approve_notice's check, _send's second read).    *)
THEOREM DecidedText == Spec => []MailCarriesDecision
<1>1. Init => Texts
  BY DEF Init, Texts, TextAgrees, MailCarriesDecision, HasText, Sending, NoRequest
<1>2. TypeOK /\ Approvals /\ Texts /\ [Next]_vars => Texts'
  <2> SUFFICES ASSUME TypeOK, Approvals, Texts, [Next]_vars PROVE Texts'
    OBVIOUS
  <2>1. CASE Next
    BY <2>1, TextsScreen, TextsHandle DEF Next
  <2>2. CASE UNCHANGED vars
    BY <2>2 DEF vars, Texts, TextAgrees, MailCarriesDecision, HasText, Sending
  <2> QED BY <2>1, <2>2
<1>3. Texts => MailCarriesDecision
  BY DEF Texts
<1> QED BY <1>1, <1>2, <1>3, TypeCorrect, ApprovalsInvariant, PTL DEF Spec
----------------------------------------------------------------------------
(* What the log and the status column say about deliveries.                *)

LEMMA DeliveriesScreen ==
    ASSUME TypeOK, Deliveries, NEW s \in Screens, Screen(s) \/ ScreenDies(s) \/ DeleteRun(s)
    PROVE  Deliveries'
<1>1. UNCHANGED <<req, mails, sends>>
  BY DEF Screen, StartScreen, ReadNotified, CreateNotice, SelectOlder, RetireOlder, ScreenDies,
         DeleteRun
<1>2. \A n \in Screens : status'[n] \in Delivered => status'[n] = status[n]
  <2>1. CASE CreateNotice(s)
    BY <2>1 DEF CreateNotice, TypeOK, Delivered
  <2>2. CASE RetireOlder(s)
    BY <2>2 DEF RetireOlder, TypeOK, Delivered
  <2>3. CASE DeleteRun(s)
    BY <2>3 DEF DeleteRun, TypeOK, Delivered
  <2>4. CASE StartScreen(s) \/ ReadNotified(s) \/ SelectOlder(s) \/ ScreenDies(s)
    BY <2>4 DEF StartScreen, ReadNotified, SelectOlder, ScreenDies
  <2> QED BY <2>1, <2>2, <2>3, <2>4 DEF Screen
<1> QED BY <1>1, <1>2 DEF Deliveries, OutcomeAgrees, DeliveryIsTrue, OfficerMailed, OfficerLogged

(* A step of a request that moves it on and leaves the log, the mail and   *)
(* the delivered notices alone.                                            *)
LEMMA DeliveriesQuiet ==
    ASSUME TypeOK, Deliveries, NEW r \in Requests,
           \A q \in Requests \ {r} : req'[q] = req[q],
           req'[r].pc \notin {"logging", "recording", "marking"},
           UNCHANGED sends, mails \subseteq mails',
           \A n \in Screens : status'[n] \in Delivered => status'[n] = status[n]
    PROVE  Deliveries'
BY DEF Deliveries, OutcomeAgrees, DeliveryIsTrue, OfficerMailed, OfficerLogged

LEMMA DeliveriesHandle ==
    ASSUME TypeOK, Deliveries, NEW r \in Requests, Handle(r) \/ RequestDies(r)
    PROVE  Deliveries'
<1>1. CASE Arrive(r)
  <2>1. UNCHANGED <<status, sends, mails>>
    BY <1>1 DEF Arrive
  <2> QED BY <1>1, <2>1, ArriveEffect, DeliveriesQuiet
<1>2. CASE CheckApproval(r) \/ CheckDelivery(r) \/ ReadDecision(r) \/ LogCopy(r) \/ RequestDies(r)
  <2>1. PICK next \in {"done", "deciding", "loading", "writing", "dead"} : Goto(r, next)
    BY <1>2 DEF CheckApproval, CheckDelivery, ReadDecision, LogCopy, RequestDies
  <2>2. req'[r].pc = next /\ \A q \in Requests \ {r} : req'[q] = req[q]
    BY <2>1, GotoEffect DEF RequestPCs
  <2>3. UNCHANGED <<status, mails>> /\ sends \subseteq sends'
    BY <1>2 DEF CheckApproval, CheckDelivery, ReadDecision, LogCopy, LogAttempt, RequestDies
  <2> QED BY <2>2, <2>3
          DEF Deliveries, OutcomeAgrees, DeliveryIsTrue, OfficerMailed, OfficerLogged
<1>3. CASE WriteDecision(r)
  <2>1. PICK next \in {"done", "loading"} : Goto(r, next)
    BY <1>3 DEF WriteDecision
  <2>2. req'[r].pc = next /\ \A q \in Requests \ {r} : req'[q] = req[q]
    BY <2>1, GotoEffect DEF RequestPCs
  <2>3. \A n \in Screens : status'[n] \in Delivered => status'[n] = status[n]
    BY <1>3 DEF WriteDecision, TypeOK, Delivered
  <2>4. UNCHANGED <<sends, mails>>
    BY <1>3 DEF WriteDecision
  <2> QED BY <2>2, <2>3, <2>4, DeliveriesQuiet
<1>4. CASE LoadNotice(r)
  <2>1. UNCHANGED <<status, sends, mails>>
    BY <1>4 DEF LoadNotice
  <2> QED BY <1>4, <2>1, LoadEffect, DeliveriesQuiet
<1>5. CASE SendOfficer(r)
  <2> DEFINE mail == [req |-> r, notice |-> req[r].ask.notice, role |-> "officer",
                      text |-> req[r].text]
  <2>1. UNCHANGED <<status, sends>>
    BY <1>5 DEF SendOfficer
  <2>2. /\ req'[r].pc = "logging"
        /\ req'[r].ask = req[r].ask
        /\ mails' = IF req'[r].outcome \in Delivered THEN mails \cup {mail} ELSE mails
        /\ \A q \in Requests \ {r} : req'[q] = req[q]
    BY <1>5, SendEffect DEF Roles
  <2>3. mail.notice = req[r].ask.notice /\ mail.role = "officer"
    OBVIOUS
  <2> HIDE DEF mail
  <2>4. mails \subseteq mails'
    BY <2>2
  <2>5. req'[r].outcome \in Delivered => OfficerMailed(req[r].ask.notice)'
    BY <2>2, <2>3 DEF OfficerMailed
  <2>6. OutcomeAgrees'
    BY <2>1, <2>2, <2>4, <2>5 DEF Deliveries, OutcomeAgrees, OfficerMailed, OfficerLogged
  <2>7. DeliveryIsTrue'
    BY <2>1, <2>4 DEF Deliveries, DeliveryIsTrue
  <2> QED BY <2>6, <2>7 DEF Deliveries
<1>6. CASE SendCopy(r)
  <2>1. UNCHANGED <<status, sends>>
    BY <1>6 DEF SendCopy
  <2>2. req'[r].pc = "logcopy" /\ mails \subseteq mails' /\ \A q \in Requests \ {r} : req'[q] = req[q]
    BY <1>6, SendEffect DEF Roles
  <2> QED BY <2>1, <2>2, DeliveriesQuiet
<1>7. CASE LogOfficer(r)
  <2> DEFINE entry == [req |-> r, notice |-> req[r].ask.notice, role |-> "officer",
                       status |-> req[r].outcome]
  <2>1. UNCHANGED <<status, mails>> /\ sends' = sends \cup {entry} /\ req[r].pc = "logging"
    BY <1>7 DEF LogOfficer, LogAttempt
  <2>2. /\ req'[r].pc = "recording"
        /\ req'[r].ask = req[r].ask /\ req'[r].outcome = req[r].outcome
        /\ \A q \in Requests \ {r} : req'[q] = req[q]
    BY <1>7, GotoEffect DEF LogOfficer, RequestPCs
  <2>3. /\ entry.notice = req[r].ask.notice /\ entry.role = "officer"
        /\ entry.status = req[r].outcome
    OBVIOUS
  <2> HIDE DEF entry
  <2>4. OfficerLogged(req[r].ask.notice, req[r].outcome)'
    BY <2>1, <2>2, <2>3 DEF OfficerLogged
  <2>5. OutcomeAgrees'
    BY <2>1, <2>2, <2>4 DEF Deliveries, OutcomeAgrees, OfficerMailed, OfficerLogged
  <2>6. DeliveryIsTrue'
    BY <2>1 DEF Deliveries, DeliveryIsTrue
  <2> QED BY <2>5, <2>6 DEF Deliveries
<1>8. CASE ReadDelivery(r)
  <2>1. PICK next \in {"marking", "copy", "done"} : Goto(r, next)
    BY <1>8 DEF ReadDelivery, AfterOfficer
  <2>2. /\ req'[r].pc = next
        /\ next = "marking" => req'[r].ask = req[r].ask /\ req'[r].outcome = req[r].outcome
        /\ \A q \in Requests \ {r} : req'[q] = req[q]
    BY <2>1, GotoEffect DEF RequestPCs
  <2>3. UNCHANGED <<status, sends, mails>> /\ req[r].pc = "recording"
    BY <1>8 DEF ReadDelivery
  <2> QED BY <2>2, <2>3 DEF Deliveries, OutcomeAgrees, DeliveryIsTrue, OfficerMailed, OfficerLogged
<1>9. CASE MarkDelivery(r)
  <2>1. PICK n \in Screens : n = req[r].ask.notice
    BY <1>9 DEF MarkDelivery, TypeOK, Handling, Asks
  <2>2. UNCHANGED <<sends, mails>> /\ req[r].pc = "marking"
    BY <1>9 DEF MarkDelivery
  <2>3. PICK next \in {"copy", "done"} : Goto(r, next)
    BY <1>9 DEF MarkDelivery, AfterOfficer
  <2>4. req'[r].pc = next /\ \A q \in Requests \ {r} : req'[q] = req[q]
    BY <2>3, GotoEffect DEF RequestPCs
  <2>5. status' = IF status[n] = "approved" /\ req[r].outcome \in Delivered
                  THEN [status EXCEPT ![n] = req[r].outcome] ELSE status
    BY <1>9, <2>1 DEF MarkDelivery
  <2>6. req[r].outcome \in Delivered => OfficerMailed(n) /\ OfficerLogged(n, req[r].outcome)
    BY <2>1, <2>2 DEF Deliveries, OutcomeAgrees
  <2>7. DeliveryIsTrue'
    BY <2>2, <2>5, <2>6 DEF Deliveries, DeliveryIsTrue, OfficerMailed, OfficerLogged, TypeOK
  <2>8. OutcomeAgrees'
    BY <2>2, <2>4 DEF Deliveries, OutcomeAgrees, OfficerMailed, OfficerLogged
  <2> QED BY <2>7, <2>8 DEF Deliveries
<1> QED BY <1>1, <1>2, <1>3, <1>4, <1>5, <1>6, <1>7, <1>8, <1>9 DEF Handle

(* A notice that says drafted or sent has left for the officer and is      *)
(* logged so, whatever dies or is deleted (record_notice_delivery).        *)
THEOREM TrueDelivery == Spec => []DeliveryIsTrue
<1>1. Init => Deliveries
  BY DEF Init, Deliveries, OutcomeAgrees, DeliveryIsTrue, Delivered, NoRequest
<1>2. TypeOK /\ Deliveries /\ [Next]_vars => Deliveries'
  <2> SUFFICES ASSUME TypeOK, Deliveries, [Next]_vars PROVE Deliveries'
    OBVIOUS
  <2>1. CASE Next
    BY <2>1, DeliveriesScreen, DeliveriesHandle DEF Next
  <2>2. CASE UNCHANGED vars
    BY <2>2 DEF vars, Deliveries, OutcomeAgrees, DeliveryIsTrue, OfficerMailed, OfficerLogged
  <2> QED BY <2>1, <2>2
<1>3. Deliveries => DeliveryIsTrue
  BY DEF Deliveries
<1> QED BY <1>1, <1>2, <1>3, TypeCorrect, PTL DEF Spec

(* A step of a request that neither sends nor logs, and was not about to.  *)
LEMMA AccountedQuiet ==
    ASSUME TypeOK, MailAccounted, NEW r \in Requests,
           req[r].pc \notin {"logging", "logcopy", "dead"},
           \A q \in Requests \ {r} : req'[q] = req[q],
           UNCHANGED <<sends, mails>>
    PROVE  MailAccounted'
BY DEF MailAccounted, AboutToLog, Logged, TypeOK, Mail

LEMMA AccountedSend ==
    ASSUME TypeOK, MailAccounted, NEW r \in Requests, NEW role \in Roles,
           \/ role = "officer" /\ SendOfficer(r)
           \/ role = "copy" /\ SendCopy(r)
    PROVE  MailAccounted'
<1>1. PICK mail : mail = [req |-> r, notice |-> req[r].ask.notice, role |-> role,
                         text |-> req[r].text]
  OBVIOUS
<1>2. /\ req'[r].pc = IF role = "officer" THEN "logging" ELSE "logcopy"
      /\ req'[r].ask = req[r].ask
      /\ mails' = IF req'[r].outcome \in Delivered THEN mails \cup {mail} ELSE mails
      /\ \A q \in Requests \ {r} : req'[q] = req[q]
  BY <1>1, SendEffect
<1>3. req[r].pc \in {"officer", "copy"} /\ UNCHANGED sends
  BY DEF SendOfficer, SendCopy
<1>4. \A m \in mails : (Logged(m) \/ AboutToLog(m.req, m) \/ req[m.req].pc = "dead")'
  BY <1>2, <1>3 DEF MailAccounted, AboutToLog, Logged, TypeOK, Mail
<1>5. req'[r].outcome \in Delivered => AboutToLog(r, mail)'
  BY <1>2, <1>1 DEF AboutToLog, Roles
<1>6. \A m \in mails' : m \in mails \/ (m = mail /\ req'[r].outcome \in Delivered)
  BY <1>2
<1> QED BY <1>1, <1>4, <1>5, <1>6 DEF MailAccounted

LEMMA AccountedLog ==
    ASSUME TypeOK, MailAccounted, NEW r \in Requests, NEW role \in Roles,
           \/ role = "officer" /\ LogOfficer(r)
           \/ role = "copy" /\ LogCopy(r)
    PROVE  MailAccounted'
<1> DEFINE entry == [req |-> r, notice |-> req[r].ask.notice, role |-> role,
                     status |-> req[r].outcome]
<1>1. /\ req[r].pc = IF role = "officer" THEN "logging" ELSE "logcopy"
      /\ sends' = sends \cup {entry}
      /\ mails' = mails
  BY DEF LogOfficer, LogCopy, LogAttempt
<1>2. PICK next \in {"recording", "done"} : Goto(r, next)
  BY DEF LogOfficer, LogCopy
<1>3. \A q \in Requests \ {r} : req'[q] = req[q]
  BY <1>2, GotoEffect DEF RequestPCs
<1>4. /\ entry.req = r /\ entry.notice = req[r].ask.notice /\ entry.role = role
      /\ entry.status = req[r].outcome
  OBVIOUS
<1> HIDE DEF entry
<1>5. \A m \in mails : Logged(m) => Logged(m)'
  BY <1>1 DEF Logged
<1>6. \A m \in mails : m.req = r /\ AboutToLog(r, m) => Logged(m)'
  BY <1>1, <1>4 DEF Logged, AboutToLog, Roles
<1>7. \A m \in mails : m.req # r => (AboutToLog(m.req, m) => AboutToLog(m.req, m)')
                                  /\ req'[m.req] = req[m.req]
  BY <1>3 DEF AboutToLog, TypeOK, Mail
<1> QED BY <1>1, <1>5, <1>6, <1>7 DEF MailAccounted, Roles

LEMMA AccountedNext ==
    ASSUME TypeOK, MailAccounted, [Next]_vars
    PROVE  MailAccounted'
<1>1. ASSUME NEW s \in Screens, Screen(s) \/ ScreenDies(s) \/ DeleteRun(s)
      PROVE  MailAccounted'
  <2>1. UNCHANGED <<req, mails, sends>>
    BY <1>1 DEF Screen, StartScreen, ReadNotified, CreateNotice, SelectOlder, RetireOlder,
                ScreenDies, DeleteRun
  <2> QED BY <2>1 DEF MailAccounted, AboutToLog, Logged
<1>2. ASSUME NEW r \in Requests, Handle(r) \/ RequestDies(r)
      PROVE  MailAccounted'
  <2>1. CASE SendOfficer(r) \/ SendCopy(r)
    BY <2>1, AccountedSend DEF Roles
  <2>2. CASE LogOfficer(r) \/ LogCopy(r)
    BY <2>2, AccountedLog DEF Roles
  <2>3. CASE RequestDies(r)
    <3>1. req'[r].pc = "dead" /\ \A q \in Requests \ {r} : req'[q] = req[q]
      BY <2>3, GotoEffect DEF RequestDies, RequestPCs
    <3>2. UNCHANGED <<sends, mails>>
      BY <2>3 DEF RequestDies
    <3> QED BY <3>1, <3>2 DEF MailAccounted, AboutToLog, Logged, TypeOK, Mail
  <2>4. CASE Arrive(r)
    <3>1. req[r].pc = "idle" /\ UNCHANGED <<sends, mails>>
      BY <2>4 DEF Arrive
    <3> QED BY <2>4, <3>1, ArriveEffect, AccountedQuiet
  <2>5. CASE LoadNotice(r)
    <3>1. req[r].pc = "loading" /\ UNCHANGED <<sends, mails>>
      BY <2>5 DEF LoadNotice
    <3> QED BY <2>5, <3>1, LoadEffect, AccountedQuiet
  <2>6. CASE CheckApproval(r) \/ CheckDelivery(r) \/ ReadDecision(r) \/ WriteDecision(r)
              \/ ReadDelivery(r) \/ MarkDelivery(r)
    <3>1. /\ req[r].pc \in {"checking", "deciding", "writing", "recording", "marking"}
          /\ UNCHANGED <<sends, mails>>
      BY <2>6 DEF CheckApproval, CheckDelivery, ReadDecision, WriteDecision, ReadDelivery,
                  MarkDelivery
    <3>2. PICK next \in RequestPCs : Goto(r, next)
      BY <2>6 DEF CheckApproval, CheckDelivery, ReadDecision, WriteDecision, ReadDelivery,
                  MarkDelivery, AfterOfficer, RequestPCs
    <3> QED BY <3>1, <3>2, GotoEffect, AccountedQuiet
  <2> QED BY <1>2, <2>1, <2>2, <2>3, <2>4, <2>5, <2>6 DEF Handle
<1>3. CASE UNCHANGED vars
  BY <1>3 DEF vars, MailAccounted, AboutToLog, Logged
<1> QED BY <1>1, <1>2, <1>3 DEF Next

(* Every copy that left is on record, but for a request still to log it or *)
(* killed before it could (_send, log_notice_send, delete_run).            *)
THEOREM LoggedMail == Spec => []MailIsLogged
<1>1. Init => MailAccounted
  BY DEF Init, MailAccounted
<1>2. TypeOK /\ MailAccounted /\ [Next]_vars => MailAccounted'
  BY AccountedNext
<1>3. MailAccounted => MailIsLogged
  BY DEF MailAccounted, MailIsLogged, AboutToLog, Logged
<1> QED BY <1>1, <1>2, <1>3, TypeCorrect, PTL DEF Spec

(* The mail and the records agree, however requests interleave and die and *)
(* whatever is deleted under them.                                         *)
THEOREM MailAgrees == Spec => []MailIsTrue
<1>1. /\ OnlyApprovedLeaves /\ MailCarriesDecision /\ DeliveryIsTrue /\ MailIsLogged
      => MailIsTrue
  BY DEF MailIsTrue
<1> QED
  BY <1>1, ApprovedOnly, DecidedText, TrueDelivery, LoggedMail, PTL

----------------------------------------------------------------------------
(* One screen at a time: no piece of evidence notifies twice.              *)

OneScreen == \A s, t \in Screens : Working(s) /\ Working(t) => s = t

LEMMA NoneWorks ==
    ASSUME IsFiniteSet(Screens), Workers = 1, NEW s \in Screens, StartScreen(s)
    PROVE  \A t \in Screens : ~Working(t)
<1> DEFINE busy == {t \in Screens : Working(t)}
<1>1. IsFiniteSet(busy)
  BY FS_Subset
<1>2. Cardinality(busy) \in Nat /\ Cardinality(busy) < 1
  BY <1>1, FS_CardinalityType DEF StartScreen
<1>3. busy = {}
  BY <1>1, <1>2, FS_EmptySet
<1> QED
  BY <1>3

\* Nobody else is at work where a screen starts, and a screen that ends leaves room.
LEMMA OneScreenKept ==
    ASSUME TypeOK, OneScreen, [Next]_vars, IsFiniteSet(Screens), Workers = 1
    PROVE  OneScreen'
<1>1. ASSUME NEW s \in Screens, StartScreen(s)
      PROVE  OneScreen'
  BY <1>1, NoneWorks DEF StartScreen, OneScreen, Working, TypeOK
<1>2. ASSUME NEW s \in Screens, (Screen(s) /\ ~StartScreen(s)) \/ ScreenDies(s)
      PROVE  \A t \in Screens : Working(t)' => Working(t)
  BY <1>2 DEF Screen, ReadNotified, CreateNotice, SelectOlder, RetireOlder, ScreenDies, Working,
              TypeOK
<1>3. ASSUME NEW s \in Screens, DeleteRun(s)
      PROVE  pc' = pc
  BY <1>3 DEF DeleteRun
<1>4. ASSUME NEW r \in Requests, Handle(r) \/ RequestDies(r)
      PROVE  pc' = pc
  BY <1>4 DEF Handle, Arrive, CheckApproval, CheckDelivery, ReadDecision, WriteDecision,
              LoadNotice, SendOfficer, LogOfficer, ReadDelivery, MarkDelivery, SendCopy,
              LogCopy, RequestDies
<1>5. UNCHANGED vars => pc' = pc
  BY DEF vars
<1>6. pc' = pc => OneScreen'
  BY DEF OneScreen, Working
<1>7. (\A t \in Screens : Working(t)' => Working(t)) => OneScreen'
  BY DEF OneScreen
<1> QED
  BY <1>1, <1>2, <1>3, <1>4, <1>5, <1>6, <1>7 DEF Next

\* What a notice covers is its screen's finding, and what triggers one is covered by none.
EvidenceAgrees ==
    /\ \A s \in Screens : /\ trigger[s] \subseteq finding[s].eligible
                          /\ finding[s].eligible \subseteq finding[s].signals
                          /\ pc[s] = "idle" => trigger[s] = {} /\ finding[s].signals = {}
    /\ \A n \in Screens : status[n] # "none" => covers[n] = finding[n].signals
    /\ \A s \in Screens : pc[s] = "creating" =>
          \A n \in Screens : status[n] # "none" => trigger[s] \cap covers[n] = {}

\* What a request does adds no notice and takes no evidence from one.
LEMMA HandleNotices ==
    ASSUME TypeOK, NEW r \in Requests, Handle(r) \/ RequestDies(r)
    PROVE  /\ UNCHANGED <<pc, finding, trigger, covers>>
           /\ \A n \in Screens : /\ status'[n] = "none" <=> status[n] = "none"
                                 /\ status'[n] = "superseded" <=> status[n] = "superseded"
<1>1. UNCHANGED <<pc, finding, trigger, covers>>
  BY DEF Handle, Arrive, CheckApproval, CheckDelivery, ReadDecision, WriteDecision,
         LoadNotice, SendOfficer, LogOfficer, ReadDelivery, MarkDelivery, SendCopy,
         LogCopy, RequestDies
<1>2. CASE WriteDecision(r)
  BY <1>1, <1>2 DEF WriteDecision, TypeOK
<1>3. CASE MarkDelivery(r)
  BY <1>1, <1>3 DEF MarkDelivery, Delivered, TypeOK
<1>4. CASE ~WriteDecision(r) /\ ~MarkDelivery(r)
  BY <1>1, <1>4 DEF Handle, Arrive, CheckApproval, CheckDelivery, ReadDecision, LoadNotice,
                    SendOfficer, LogOfficer, ReadDelivery, SendCopy, LogCopy, RequestDies
<1> QED
  BY <1>1, <1>2, <1>3, <1>4

LEMMA EvidenceScreen ==
    ASSUME TypeOK, StatusAgrees, OneScreen, EvidenceAgrees, NotifiesOnce,
           NEW s \in Screens, Screen(s) \/ ScreenDies(s) \/ DeleteRun(s)
    PROVE  EvidenceAgrees' /\ NotifiesOnce'
<1> USE DEF EvidenceAgrees, NotifiesOnce
<1>1. CASE StartScreen(s)
  <2>1. PICK f \in Finding : /\ f.eligible \subseteq f.signals
                             /\ finding' = [finding EXCEPT ![s] = f]
    BY <1>1 DEF StartScreen
  <2>2. /\ pc[s] = "idle" /\ pc' = [pc EXCEPT ![s] = "reading"] /\ status[s] = "none"
        /\ UNCHANGED <<trigger, status, covers>>
    BY <1>1 DEF StartScreen, StatusAgrees, Undrafted
  <2> QED
    BY <2>1, <2>2 DEF TypeOK
<1>2. CASE ReadNotified(s)
  <2> DEFINE unseen == finding[s].eligible \ NotifiedSignals
  <2>1. /\ pc[s] = "reading" /\ trigger' = [trigger EXCEPT ![s] = unseen]
        /\ pc' = [pc EXCEPT ![s] = IF unseen = {} THEN "done" ELSE "creating"]
        /\ UNCHANGED <<status, covers, finding>>
    BY <1>2 DEF ReadNotified
  <2>2. status[s] = "none"
    BY <2>1 DEF StatusAgrees, Undrafted
  <2>3. \A n \in Screens : status[n] # "none" => unseen \cap covers[n] = {}
    BY DEF NotifiedSignals
  <2>4. unseen \subseteq finding[s].eligible
    OBVIOUS
  <2> HIDE DEF unseen
  <2>5. /\ trigger'[s] = unseen /\ pc'[s] # "idle"
        /\ \A t \in Screens \ {s} : trigger'[t] = trigger[t] /\ pc'[t] = pc[t]
    BY <2>1 DEF TypeOK
  <2>6. EvidenceAgrees'
    BY <2>1, <2>3, <2>4, <2>5
  <2>7. NotifiesOnce'
    BY <2>1, <2>2, <2>5
  <2> QED
    BY <2>6, <2>7
<1>3. CASE CreateNotice(s)
  <2>1. /\ pc[s] = "creating" /\ pc' = [pc EXCEPT ![s] = "selecting"]
        /\ status' = [status EXCEPT ![s] = "pending"]
        /\ covers' = [covers EXCEPT ![s] = finding[s].signals \cup trigger[s]]
        /\ UNCHANGED <<trigger, finding>>
    BY <1>3 DEF CreateNotice
  <2>2. finding[s].signals \cup trigger[s] = finding[s].signals
    OBVIOUS
  <2>3. \A t \in Screens : pc'[t] # "creating"
    BY <2>1 DEF OneScreen, Working, TypeOK
  <2>4. /\ status'[s] = "pending" /\ covers'[s] = finding[s].signals
        /\ \A t \in Screens \ {s} : status'[t] = status[t] /\ covers'[t] = covers[t]
        /\ pc'[s] # "idle" /\ \A t \in Screens \ {s} : pc'[t] = pc[t]
    BY <2>1, <2>2 DEF TypeOK
  <2>5. EvidenceAgrees'
    BY <2>1, <2>3, <2>4
  <2>6. \A n \in Screens : status[n] # "none" =>
            trigger[n] \subseteq covers[n] /\ trigger[s] \cap covers[n] = {}
    BY <2>1
  <2>7. NotifiesOnce'
    BY <2>1, <2>4, <2>6
  <2> QED
    BY <2>5, <2>7
<1>4. CASE SelectOlder(s)
  BY <1>4 DEF SelectOlder, TypeOK
<1>5. CASE RetireOlder(s)
  <2>1. /\ pc' = [pc EXCEPT ![s] = "done"] /\ pc[s] = "retiring"
        /\ UNCHANGED <<trigger, finding, covers>>
        /\ \A n \in Screens : status'[n] # "none" => status[n] # "none"
    BY <1>5 DEF RetireOlder, OlderDrafts
  <2> QED
    BY <2>1 DEF TypeOK
<1>6. CASE ScreenDies(s)
  BY <1>6 DEF ScreenDies, Working, TypeOK
<1>7. CASE DeleteRun(s)
  BY <1>7 DEF DeleteRun, TypeOK
<1> QED
  BY <1>1, <1>2, <1>3, <1>4, <1>5, <1>6, <1>7 DEF Screen

LEMMA EvidenceNext ==
    ASSUME TypeOK, StatusAgrees, OneScreen, EvidenceAgrees, NotifiesOnce, [Next]_vars
    PROVE  EvidenceAgrees' /\ NotifiesOnce'
<1>1. ASSUME NEW r \in Requests, Handle(r) \/ RequestDies(r)
      PROVE  EvidenceAgrees' /\ NotifiesOnce'
  BY <1>1, HandleNotices DEF EvidenceAgrees, NotifiesOnce
<1>2. CASE UNCHANGED vars
  BY <1>2 DEF vars, EvidenceAgrees, NotifiesOnce
<1> QED
  BY <1>1, <1>2, EvidenceScreen DEF Next

OneScreenAtATime == IsFiniteSet(Screens) /\ Workers = 1

LEMMA InTurn ==
    ASSUME OneScreenAtATime
    PROVE  Spec => [](OneScreen /\ EvidenceAgrees /\ NotifiesOnce)
<1>1. Init => OneScreen /\ EvidenceAgrees /\ NotifiesOnce
  BY DEF Init, OneScreen, Working, EvidenceAgrees, NotifiesOnce, NoFinding
<1>2. TypeOK /\ Approvals /\ OneScreen /\ EvidenceAgrees /\ NotifiesOnce /\ [Next]_vars =>
          (OneScreen /\ EvidenceAgrees /\ NotifiesOnce)'
  BY OneScreenKept, EvidenceNext DEF Approvals, OneScreenAtATime
<1> QED
  BY <1>1, <1>2, TypeCorrect, ApprovalsInvariant, PTL DEF Spec

(* "A piece of evidence notifies once" (policy.py), where the screens of a *)
(* contractor take turns: requests may race, processes die and runs be     *)
(* deleted all the same.                                                   *)
THEOREM EvidenceOnce == ASSUME OneScreenAtATime PROVE Spec => []NotifiesOnce
<1> QED
  BY InTurn, PTL

----------------------------------------------------------------------------
(* One screen at a time, findings that only grow, and no run deleted: what  *)
(* a superseded notice was about is carried on.                            *)

InTurnAndGrowing == OneScreenAtATime /\ Growing /\ ~MayDelete

\* A screen at work has found whatever any other has, and nobody else retires its draft.
Grown ==
    /\ \A s, t \in Screens : Working(s) => finding[t].signals \subseteq finding[s].signals
    /\ \A s \in Screens : pc[s] \in {"selecting", "retiring"} =>
                              status[s] \notin {"none", "superseded"}

\* The evidence of a superseded notice is whole in one that is not.
CarriedWhole ==
    \A n \in Screens : status[n] = "superseded" =>
        \E m \in Screens : /\ status[m] \notin {"none", "superseded"}
                           /\ covers[n] \subseteq covers[m]

LEMMA GrownScreen ==
    ASSUME InTurnAndGrowing, TypeOK, StatusAgrees, OneScreen, EvidenceAgrees, Grown, CarriedWhole,
           NEW s \in Screens, Screen(s) \/ ScreenDies(s) \/ DeleteRun(s)
    PROVE  Grown' /\ CarriedWhole'
<1> USE DEF Grown, CarriedWhole
<1>1. CASE StartScreen(s)
  <2>1. PICK f \in Finding : Found \subseteq f.signals /\ finding' = [finding EXCEPT ![s] = f]
    BY <1>1 DEF StartScreen, InTurnAndGrowing
  <2>2. pc' = [pc EXCEPT ![s] = "reading"] /\ UNCHANGED <<status, covers>>
    BY <1>1 DEF StartScreen
  <2>3. \A t \in Screens : finding[t].signals \subseteq f.signals
    BY <2>1 DEF Found
  <2>4. \A t \in Screens : finding'[t].signals \subseteq finding'[s].signals
    BY <2>1, <2>3 DEF TypeOK
  <2>5. \A t \in Screens : Working(t)' => t = s
    BY <1>1, <2>2, NoneWorks DEF InTurnAndGrowing, OneScreenAtATime, Working, TypeOK
  <2>6. \A t \in Screens : pc'[t] \in {"selecting", "retiring"} => pc'[t] = pc[t]
    BY <2>2 DEF TypeOK
  <2> QED
    BY <2>2, <2>4, <2>5, <2>6
<1>2. CASE ReadNotified(s)
  BY <1>2 DEF ReadNotified, Working, TypeOK
<1>3. CASE CreateNotice(s)
  <2>1. /\ pc[s] = "creating" /\ pc' = [pc EXCEPT ![s] = "selecting"]
        /\ status' = [status EXCEPT ![s] = "pending"] /\ UNCHANGED finding
        /\ \A t \in Screens \ {s} : covers'[t] = covers[t]
    BY <1>3 DEF CreateNotice, TypeOK
  <2>2. status[s] = "none"
    BY <2>1 DEF StatusAgrees, Undrafted
  <2>3. Grown'
    BY <2>1 DEF Working, TypeOK
  <2>4. \A t \in Screens \ {s} : status'[t] = status[t] /\ covers'[t] = covers[t]
    BY <2>1 DEF TypeOK
  <2>5. status'[s] = "pending"
    BY <2>1 DEF TypeOK
  <2> QED
    BY <2>2, <2>3, <2>4, <2>5
<1>4. CASE SelectOlder(s)
  BY <1>4 DEF SelectOlder, Working, TypeOK
<1>5. CASE RetireOlder(s)
  <2>1. /\ pc[s] = "retiring" /\ pc' = [pc EXCEPT ![s] = "done"]
        /\ UNCHANGED <<finding, covers>>
        /\ status' = [n \in Screens |-> IF n \in OlderDrafts(s) THEN "superseded" ELSE status[n]]
    BY <1>5 DEF RetireOlder
  <2>2. \A t \in Screens : ~Working(t)'
    BY <2>1 DEF OneScreen, Working, TypeOK
  <2>3. status'[s] = status[s] /\ status[s] \notin {"none", "superseded"}
    BY <2>1 DEF OlderDrafts
  <2>4. covers[s] = finding[s].signals /\ Working(s)
    BY <2>1, <2>3 DEF EvidenceAgrees, Working
  <2>5. \A n \in Screens : status'[n] = "superseded" => status[n] # "none"
    BY <2>1 DEF OlderDrafts
  <2>6. \A n \in Screens : status'[n] = "superseded" => covers[n] \subseteq covers[s]
    BY <2>4, <2>5 DEF EvidenceAgrees
  <2> QED
    BY <2>1, <2>2, <2>3, <2>6 DEF Working
<1>6. CASE ScreenDies(s)
  BY <1>6 DEF ScreenDies, Working, TypeOK
<1>7. CASE DeleteRun(s)
  BY <1>7 DEF DeleteRun, InTurnAndGrowing
<1> QED
  BY <1>1, <1>2, <1>3, <1>4, <1>5, <1>6, <1>7 DEF Screen

LEMMA GrownNext ==
    ASSUME InTurnAndGrowing, TypeOK, StatusAgrees, OneScreen, EvidenceAgrees, Grown, CarriedWhole,
           [Next]_vars
    PROVE  Grown' /\ CarriedWhole'
<1>1. ASSUME NEW r \in Requests, Handle(r) \/ RequestDies(r)
      PROVE  Grown' /\ CarriedWhole'
  BY <1>1, HandleNotices DEF Grown, CarriedWhole, Working
<1>2. CASE UNCHANGED vars
  BY <1>2 DEF vars, Grown, CarriedWhole, Working
<1> QED
  BY <1>1, <1>2, GrownScreen DEF Next

(* "A superseded one was replaced by a notice that carried it on"          *)
(* (notified_signal_ids), where screens take turns, find again what was    *)
(* found before, and no run is deleted; a screen may die at any point.     *)
THEOREM CarriesOn == ASSUME InTurnAndGrowing PROVE Spec => []EvidenceCarriedOn
<1>1. Init => Grown /\ CarriedWhole
  BY DEF Init, Grown, CarriedWhole, Working
<1>2. TypeOK /\ Approvals /\ OneScreen /\ EvidenceAgrees /\ Grown /\ CarriedWhole /\ [Next]_vars =>
          (Grown /\ CarriedWhole)'
  BY GrownNext DEF Approvals
<1>3. CarriedWhole => EvidenceCarriedOn
  BY DEF CarriedWhole, EvidenceCarriedOn
<1>4. OneScreenAtATime
  BY DEF InTurnAndGrowing
<1>5. Spec => [](OneScreen /\ EvidenceAgrees /\ NotifiesOnce)
  BY <1>4, InTurn
<1> QED
  BY <1>1, <1>2, <1>3, <1>5, TypeCorrect, ApprovalsInvariant, PTL DEF Spec

----------------------------------------------------------------------------
(* One request at a time, none of which dies: nothing leaves twice for its  *)
(* officer.                                                                *)

OneRequestAtATime ==
    IsFiniteSet(Screens) /\ IsFiniteSet(Requests) /\ Reviewers = 1 /\ MaxDeaths = 0

OneRequest == \A q, r \in Requests : Handling(q) /\ Handling(r) => q = r

LEMMA NoneHandled ==
    ASSUME OneRequestAtATime, NEW r \in Requests, Arrive(r)
    PROVE  \A q \in Requests : ~Handling(q)
<1> DEFINE busy == {q \in Requests : Handling(q)}
<1>1. IsFiniteSet(busy)
  BY FS_Subset DEF OneRequestAtATime
<1>2. Cardinality(busy) \in Nat /\ Cardinality(busy) < 1
  BY <1>1, FS_CardinalityType DEF Arrive, OneRequestAtATime
<1>3. busy = {}
  BY <1>1, <1>2, FS_EmptySet
<1> QED
  BY <1>3

LEMMA NobodyDies ==
    ASSUME OneRequestAtATime, NEW r \in Requests
    PROVE  ~RequestDies(r)
<1> DEFINE screens == {s \in Screens : pc[s] = "dead"}
<1> DEFINE requests == {q \in Requests : req[q].pc = "dead"}
<1>1. IsFiniteSet(screens) /\ IsFiniteSet(requests)
  BY FS_Subset DEF OneRequestAtATime
<1>2. Cardinality(screens) \in Nat /\ Cardinality(requests) \in Nat
  BY <1>1, FS_CardinalityType
<1>3. ~(Deaths < 0)
  BY <1>2 DEF Deaths
<1> QED
  BY <1>3 DEF RequestDies, OneRequestAtATime

\* A delivery to the officer of `n` that is still to be recorded.
Recording(r, n) ==
    /\ req[r].pc \in {"logging", "recording", "marking"}
    /\ req[r].ask.notice = n
    /\ req[r].outcome \in Delivered

\* A request that may yet write to the officer.
ForOfficer(r) == req[r].pc = "officer" \/ (req[r].pc = "loading" /\ "officer" \in req[r].ask.to)

OfficerAgrees ==
    /\ \A n \in Screens : verdict[n] = "approved" =>
          status[n] \in {"approved", "drafted", "sent", "none"}
    /\ \A n \in Screens : OfficerMailed(n) =>
          status[n] \in {"drafted", "sent", "none"} \/ \E r \in Requests : Recording(r, n)
    /\ \A r \in Requests : ForOfficer(r) => ~OfficerMailed(req[r].ask.notice)

\* A request's step leaves the others alone, and takes one in hand only where it arrives.
LEMMA HandleEffect ==
    ASSUME TypeOK, NEW r \in Requests, Handle(r)
    PROVE  /\ \A q \in Requests \ {r} : req'[q] = req[q]
           /\ Arrive(r) \/ Handling(r)
<1>1. CASE Arrive(r)
  BY <1>1, ArriveEffect
<1>2. CASE LoadNotice(r)
  BY <1>2, LoadEffect DEF LoadNotice, Handling
<1>3. CASE SendOfficer(r)
  <2>1. "officer" \in Roles
    BY DEF Roles
  <2> QED BY <1>3, <2>1, SendEffect DEF SendOfficer, Handling
<1>4. CASE SendCopy(r)
  <2>1. "copy" \in Roles
    BY DEF Roles
  <2> QED BY <1>4, <2>1, SendEffect DEF SendCopy, Handling
<1>5. CASE \/ CheckApproval(r) \/ CheckDelivery(r) \/ ReadDecision(r) \/ WriteDecision(r)
           \/ LogOfficer(r) \/ ReadDelivery(r) \/ MarkDelivery(r) \/ LogCopy(r)
  <2>1. PICK place \in RequestPCs : Goto(r, place)
    BY <1>5 DEF CheckApproval, CheckDelivery, ReadDecision, WriteDecision, LogOfficer,
                ReadDelivery, MarkDelivery, LogCopy, AfterOfficer, RequestPCs
  <2>2. Handling(r)
    BY <1>5 DEF CheckApproval, CheckDelivery, ReadDecision, WriteDecision, LogOfficer,
                ReadDelivery, MarkDelivery, LogCopy, Handling
  <2> QED BY <2>1, <2>2, GotoEffect
<1> QED BY <1>1, <1>2, <1>3, <1>4, <1>5 DEF Handle

\* What a screen does is nothing to a request.
LEMMA ScreenQuiet ==
    ASSUME NEW s \in Screens, Screen(s) \/ ScreenDies(s) \/ DeleteRun(s)
    PROVE  UNCHANGED <<req, mails>>
BY DEF Screen, StartScreen, ReadNotified, CreateNotice, SelectOlder, RetireOlder, ScreenDies,
       DeleteRun

LEMMA OneRequestKept ==
    ASSUME OneRequestAtATime, TypeOK, OneRequest, [Next]_vars
    PROVE  OneRequest'
<1>1. ASSUME NEW r \in Requests, Handle(r), Arrive(r)
      PROVE  OneRequest'
  <2>1. \A q \in Requests \ {r} : ~Handling(q)'
    BY <1>1, NoneHandled, HandleEffect DEF Handling
  <2> QED BY <2>1 DEF OneRequest
<1>2. ASSUME NEW r \in Requests, Handle(r), ~Arrive(r)
      PROVE  OneRequest'
  <2>1. \A q \in Requests \ {r} : ~Handling(q)'
    BY <1>2, HandleEffect DEF Handling, OneRequest
  <2> QED BY <2>1 DEF OneRequest
<1>3. req' = req => OneRequest'
  BY DEF OneRequest, Handling
<1> QED
  BY <1>1, <1>2, <1>3, NobodyDies, ScreenQuiet DEF Next, vars

\* What a screen's step may do to the status of a notice nobody has decided on, and to
\* that of one somebody has.
LEMMA ScreenStatus ==
    ASSUME TypeOK, StatusAgrees, NEW s \in Screens, Screen(s) \/ ScreenDies(s) \/ DeleteRun(s),
           NEW n \in Screens
    PROVE  /\ verdict[n] = "approved" => status'[n] \in {status[n], "none"}
           /\ verdict'[n] = "approved" => verdict[n] = "approved"
<1>1. CASE CreateNotice(s)
  BY <1>1 DEF CreateNotice, StatusAgrees, Undrafted, TypeOK
<1>2. CASE RetireOlder(s)
  BY <1>2 DEF RetireOlder, OlderDrafts, StatusAgrees, TypeOK
<1>3. CASE DeleteRun(s)
  BY <1>3 DEF DeleteRun, TypeOK
<1>4. CASE StartScreen(s) \/ ReadNotified(s) \/ SelectOlder(s) \/ ScreenDies(s)
  BY <1>4 DEF StartScreen, ReadNotified, SelectOlder, ScreenDies
<1> QED BY <1>1, <1>2, <1>3, <1>4 DEF Screen

LEMMA OfficerScreen ==
    ASSUME TypeOK, Approvals, OfficerAgrees, OfficerOnce,
           NEW s \in Screens, Screen(s) \/ ScreenDies(s) \/ DeleteRun(s)
    PROVE  OfficerAgrees' /\ OfficerOnce'
<1>1. UNCHANGED <<req, mails>>
  BY ScreenQuiet
<1>2. \A n \in Screens : /\ verdict[n] = "approved" => status'[n] \in {status[n], "none"}
                         /\ verdict'[n] = "approved" => verdict[n] = "approved"
  BY ScreenStatus DEF Approvals
<1>3. \A n \in Screens : /\ OfficerMailed(n)' <=> OfficerMailed(n)
                         /\ \A r \in Requests : Recording(r, n)' <=> Recording(r, n)
                         /\ OfficerMailed(n) => verdict[n] = "approved"
  BY <1>1 DEF OfficerMailed, Recording, Approvals, OnlyApprovedLeaves
<1>4. (\A n \in Screens : verdict[n] = "approved" =>
          status[n] \in {"approved", "drafted", "sent", "none"})'
  BY <1>2 DEF OfficerAgrees
<1>5. (\A n \in Screens : OfficerMailed(n) =>
          status[n] \in {"drafted", "sent", "none"} \/ \E r \in Requests : Recording(r, n))'
  BY <1>2, <1>3 DEF OfficerAgrees
<1>6. (\A r \in Requests : ForOfficer(r) => ~OfficerMailed(req[r].ask.notice))'
  BY <1>1 DEF OfficerAgrees, ForOfficer, OfficerMailed
<1>7. OfficerOnce'
  BY <1>1 DEF OfficerOnce
<1> QED BY <1>4, <1>5, <1>6, <1>7 DEF OfficerAgrees

\* Where r takes its step, nobody else has an officer's delivery in hand.
LEMMA OnlyOneCounts ==
    ASSUME OneRequestAtATime, TypeOK, OneRequest, NEW r \in Requests, Handle(r)
    PROVE  /\ \A q \in Requests \ {r} : ~ForOfficer(q) /\ ~ForOfficer(q)'
           /\ \A q \in Requests \ {r}, n \in Screens : ~Recording(q, n) /\ ~Recording(q, n)'
           /\ Arrive(r) => \A n \in Screens : ~Recording(r, n) /\ ~Recording(r, n)'
<1>1. \A q \in Requests \ {r} : req'[q] = req[q]
  BY HandleEffect
<1>2. \A q \in Requests \ {r} : ~Handling(q)
  BY HandleEffect, NoneHandled DEF OneRequest
<1>3. \A q \in Requests \ {r} : ~ForOfficer(q) /\ ~ForOfficer(q)'
  BY <1>1, <1>2 DEF ForOfficer, Handling
<1>4. \A q \in Requests \ {r}, n \in Screens : ~Recording(q, n) /\ ~Recording(q, n)'
  BY <1>1, <1>2 DEF Recording, Handling
<1>5. Arrive(r) => \A n \in Screens : ~Recording(r, n) /\ ~Recording(r, n)'
  BY NoneHandled, ArriveEffect DEF Recording, Handling
<1> QED BY <1>3, <1>4, <1>5

\* A step that mails nothing and has no officer's delivery to record, before it or after.
LEMMA OfficerIdle ==
    ASSUME OneRequestAtATime, TypeOK, OneRequest, OfficerAgrees, OfficerOnce,
           NEW r \in Requests, Handle(r), UNCHANGED <<status, verdict, mails>>,
           \A n \in Screens : Recording(r, n)' <=> Recording(r, n),
           ForOfficer(r)' => ~OfficerMailed(req'[r].ask.notice)
    PROVE  OfficerAgrees' /\ OfficerOnce'
<1>1. \A n \in Screens : OfficerMailed(n)' <=> OfficerMailed(n)
  BY DEF OfficerMailed
<1>2. (\A n \in Screens : OfficerMailed(n) =>
          status[n] \in {"drafted", "sent", "none"} \/ \E q \in Requests : Recording(q, n))'
  <2>1. \A q \in Requests, n \in Screens : Recording(q, n)' <=> Recording(q, n)
    BY OnlyOneCounts
  <2> QED BY <1>1, <2>1 DEF OfficerAgrees
<1>3. (\A q \in Requests : ForOfficer(q) => ~OfficerMailed(req[q].ask.notice))'
  <2>1. \A q \in Requests : ForOfficer(q)' => ~OfficerMailed(req'[q].ask.notice)
    BY OnlyOneCounts
  <2> QED BY <2>1 DEF OfficerMailed
<1>4. OfficerOnce'
  BY DEF OfficerOnce
<1>5. (\A n \in Screens : verdict[n] = "approved" =>
          status[n] \in {"approved", "drafted", "sent", "none"})'
  BY DEF OfficerAgrees
<1> QED BY <1>2, <1>3, <1>4, <1>5 DEF OfficerAgrees

LEMMA OfficerHandle ==
    ASSUME OneRequestAtATime, TypeOK, Approvals, OneRequest, OfficerAgrees, OfficerOnce,
           NEW r \in Requests, Handle(r)
    PROVE  OfficerAgrees' /\ OfficerOnce'
<1>0. PICK n : n = req[r].ask.notice
  OBVIOUS
<1> USE <1>0 DEF Delivered
<1>1. /\ \A q \in Requests \ {r} : ~ForOfficer(q) /\ ~ForOfficer(q)'
      /\ \A q \in Requests \ {r}, m \in Screens : ~Recording(q, m) /\ ~Recording(q, m)'
  BY OnlyOneCounts
<1>2. \A m \in Screens : OfficerMailed(m) => verdict[m] = "approved"
  BY DEF OfficerMailed, Approvals, OnlyApprovedLeaves
<1>3. \A m \in Screens : OfficerMailed(m) =>
          status[m] \in {"drafted", "sent", "none"} \/ Recording(r, m)
  BY <1>1 DEF OfficerAgrees
<1>4. Handling(r) => n \in Screens
  BY DEF TypeOK, Asks
<1>5. CASE Arrive(r)
  <2>1. UNCHANGED <<status, verdict, mails>>
    BY <1>5 DEF Arrive
  <2>2. \A m \in Screens : ~Recording(r, m) /\ ~Recording(r, m)'
    BY <1>5, OnlyOneCounts
  <2>3. ~ForOfficer(r)'
    BY <1>5, ArriveEffect DEF ForOfficer
  <2> QED BY <2>1, <2>2, <2>3, OfficerIdle
<1>6. CASE CheckApproval(r) \/ ReadDecision(r)
  <2>1. PICK place \in {"done", "deciding", "writing"} : Goto(r, place)
    BY <1>6 DEF CheckApproval, ReadDecision
  <2>2. /\ ~ForOfficer(r)'
        /\ \A m \in Screens : ~Recording(r, m) /\ ~Recording(r, m)'
    <3>1. req'[r].pc = place
      BY <2>1, GotoEffect DEF RequestPCs
    <3> QED BY <1>6, <3>1 DEF CheckApproval, ReadDecision, Recording, ForOfficer
  <2>3. UNCHANGED <<status, verdict, mails>>
    BY <1>6 DEF CheckApproval, ReadDecision
  <2> QED BY <2>2, <2>3, OfficerIdle
<1>7. CASE CheckDelivery(r)
  <2>1. PICK place \in {"done", "loading"} :
            /\ Goto(r, place)
            /\ place = "loading" => ~NotForOfficer(req[r].ask)
    BY <1>7 DEF CheckDelivery, Undeliverable
  <2>2. /\ req'[r].pc = place
        /\ place = "loading" => req'[r].ask = req[r].ask
    <3>1. place \in RequestPCs
      BY DEF RequestPCs
    <3>2. Goto(r, place)
      BY <2>1
    <3>3. /\ req'[r].pc = place
          /\ place \notin {"done", "dead"} => req'[r].ask = req[r].ask
      BY <3>1, <3>2, GotoEffect
    <3> QED BY <3>3
  <2>3. \A m \in Screens : ~Recording(r, m) /\ ~Recording(r, m)'
    BY <1>7, <2>2 DEF CheckDelivery, Recording
  <2>4. ForOfficer(r)' => status[n] = "approved" /\ req'[r].ask.notice = n
    BY <2>1, <2>2 DEF ForOfficer, NotForOfficer
  <2>5. ForOfficer(r)' => ~OfficerMailed(req'[r].ask.notice)
    BY <1>3, <1>4, <1>7, <2>3, <2>4 DEF CheckDelivery, Handling
  <2>6. UNCHANGED <<status, verdict, mails>>
    BY <1>7 DEF CheckDelivery
  <2> QED BY <2>3, <2>5, <2>6, OfficerIdle
<1>8. CASE LoadNotice(r)
  <2>1. \A m \in Screens : ~Recording(r, m) /\ ~Recording(r, m)'
    BY <1>8, LoadEffect DEF LoadNotice, Recording
  <2>2. ForOfficer(r)' => ForOfficer(r) /\ req'[r].ask.notice = n
    <3>1. CASE Goto(r, "done")
      BY <3>1, GotoEffect DEF ForOfficer, RequestPCs
    <3>2. CASE ~Goto(r, "done")
      <4>1. req'[r].pc = "officer" => "officer" \in req[r].ask.to
        <5> DEFINE next == IF "officer" \in req[r].ask.to THEN "officer" ELSE "copy"
        <5>1. req' = [req EXCEPT ![r].text = TextNow(n), ![r].pc = next]
          BY <1>8, <3>2 DEF LoadNotice
        <5> HIDE DEF next
        <5>2. req'[r].pc = next
          BY <5>1 DEF TypeOK, Request
        <5> QED BY <5>2 DEF next
      <4> QED BY <1>8, <4>1, LoadEffect DEF ForOfficer, LoadNotice
    <3> QED BY <3>1, <3>2
  <2>3. ForOfficer(r)' => ~OfficerMailed(req'[r].ask.notice)
    BY <2>2 DEF OfficerAgrees
  <2>4. UNCHANGED <<status, verdict, mails>>
    BY <1>8 DEF LoadNotice
  <2> QED BY <2>1, <2>3, <2>4, OfficerIdle
<1>9. CASE LogOfficer(r)
  <2>1. Goto(r, "recording") /\ req[r].pc = "logging"
    BY <1>9 DEF LogOfficer
  <2>2. /\ ~ForOfficer(r)'
        /\ \A m \in Screens : Recording(r, m)' <=> Recording(r, m)
    BY <2>1, GotoEffect DEF Recording, ForOfficer, RequestPCs
  <2>3. UNCHANGED <<status, verdict, mails>>
    BY <1>9 DEF LogOfficer
  <2> QED BY <2>2, <2>3, OfficerIdle
<1>10. CASE LogCopy(r)
  <2>1. Goto(r, "done") /\ req[r].pc = "logcopy"
    BY <1>10 DEF LogCopy
  <2>2. /\ ~ForOfficer(r)'
        /\ \A m \in Screens : ~Recording(r, m) /\ ~Recording(r, m)'
    BY <2>1, GotoEffect DEF Recording, ForOfficer, RequestPCs
  <2>3. UNCHANGED <<status, verdict, mails>>
    BY <1>10 DEF LogCopy
  <2> QED BY <2>2, <2>3, OfficerIdle
<1>11. CASE WriteDecision(r) \/ ReadDelivery(r) \/ MarkDelivery(r)
  <2>1. mails' = mails /\ Handling(r)
    BY <1>11 DEF WriteDecision, ReadDelivery, MarkDelivery, Handling
  <2>2. \A m \in Screens : OfficerMailed(m)' <=> OfficerMailed(m)
    BY <2>1 DEF OfficerMailed
  <2>3. OfficerOnce'
    BY <2>1 DEF OfficerOnce
  <2>4. \A m \in Screens \ {n} : status'[m] = status[m] /\ verdict'[m] = verdict[m]
    BY <1>11, <1>4, <2>1 DEF WriteDecision, ReadDelivery, MarkDelivery, TypeOK
  <2>5. \A m \in Screens \ {n} : ~Recording(r, m)
    BY DEF Recording
  <2>6. /\ verdict'[n] = "approved" => status'[n] \in {"approved", "drafted", "sent", "none"}
        /\ OfficerMailed(n) => status'[n] \in {"drafted", "sent", "none"} \/ Recording(r, n)'
        /\ ForOfficer(r)' => ~OfficerMailed(req'[r].ask.notice)
    <3>1. CASE WriteDecision(r) /\ Undecided(n)
      <4>1. ~OfficerMailed(n)
        BY <1>2, <1>4, <2>1, <3>1 DEF Undecided, Approvals, StatusAgrees
      <4>2. verdict'[n] = "approved" => status'[n] = "approved"
        BY <1>4, <2>1, <3>1 DEF WriteDecision, TypeOK
      <4>3. PICK place \in {"loading", "done"} : Goto(r, place)
        BY <3>1 DEF WriteDecision
      <4>4. ForOfficer(r)' => req'[r].ask = req[r].ask
        BY <4>3, GotoEffect DEF ForOfficer, RequestPCs
      <4> QED BY <4>1, <4>2, <4>4
    <3>2. CASE WriteDecision(r) /\ ~Undecided(n)
      <4>1. Goto(r, "done") /\ UNCHANGED <<status, verdict>> /\ req[r].pc = "writing"
        BY <3>2 DEF WriteDecision
      <4>2. ~ForOfficer(r)' /\ ~Recording(r, n)
        BY <4>1, GotoEffect DEF ForOfficer, Recording, RequestPCs
      <4> QED BY <1>3, <1>4, <2>1, <4>1, <4>2 DEF OfficerAgrees
    <3>3. CASE ReadDelivery(r)
      <4>1. /\ Goto(r, IF status[n] = "approved" THEN "marking" ELSE AfterOfficer(r))
            /\ req[r].pc = "recording"
            /\ UNCHANGED <<status, verdict>>
        BY <3>3 DEF ReadDelivery
      <4>2. status[n] = "approved" =>
               /\ req'[r].pc = "marking"
               /\ req'[r].ask = req[r].ask
               /\ req'[r].outcome = req[r].outcome
        BY <4>1, GotoEffect DEF RequestPCs
      <4>3. req'[r].pc \in {"marking", "copy", "done"}
        BY <4>1, GotoEffect DEF RequestPCs, AfterOfficer
      <4>4. ~ForOfficer(r)'
        BY <4>3 DEF ForOfficer
      <4>5. status[n] = "approved" /\ Recording(r, n) => Recording(r, n)'
        BY <4>2 DEF Recording
      <4>6. verdict[n] = "approved" => status[n] \in {"approved", "drafted", "sent", "none"}
        BY <1>4, <2>1 DEF OfficerAgrees
      <4> QED BY <1>2, <1>3, <1>4, <2>1, <4>1, <4>4, <4>5, <4>6
    <3>4. CASE MarkDelivery(r)
      <4>1. /\ Goto(r, AfterOfficer(r))
            /\ req[r].pc = "marking"
            /\ verdict' = verdict
            /\ status'[n] = IF status[n] = "approved" /\ req[r].outcome \in Delivered
                            THEN req[r].outcome ELSE status[n]
        BY <1>4, <2>1, <3>4 DEF MarkDelivery, Moved, TypeOK
      <4>2. req'[r].pc \in {"copy", "done"}
        BY <4>1, GotoEffect DEF RequestPCs, AfterOfficer
      <4>3. verdict[n] = "approved" => status[n] \in {"approved", "drafted", "sent", "none"}
        BY <1>4, <2>1 DEF OfficerAgrees
      <4>4. ~ForOfficer(r)'
        BY <4>2 DEF ForOfficer
      <4> QED BY <1>2, <1>3, <1>4, <2>1, <4>1, <4>3, <4>4 DEF Recording
    <3> QED BY <1>11, <3>1, <3>2, <3>3, <3>4
  <2>7. (\A m \in Screens : verdict[m] = "approved" =>
            status[m] \in {"approved", "drafted", "sent", "none"})'
    BY <2>4, <2>6 DEF OfficerAgrees
  <2>8. (\A m \in Screens : OfficerMailed(m) =>
            status[m] \in {"drafted", "sent", "none"} \/ \E q \in Requests : Recording(q, m))'
    <3>1. \A m \in Screens \ {n} : OfficerMailed(m)' => status[m] \in {"drafted", "sent", "none"}
      BY <1>3, <2>2, <2>5
    <3>2. \A m \in Screens \ {n} : OfficerMailed(m)' => status'[m] \in {"drafted", "sent", "none"}
      BY <2>4, <3>1
    <3>3. n \in Screens
      BY <1>4, <2>1
    <3>4. OfficerMailed(n)' => status'[n] \in {"drafted", "sent", "none"} \/ Recording(r, n)'
      BY <2>2, <2>6, <3>3
    <3>5. \A m \in Screens :
              OfficerMailed(m)' => status'[m] \in {"drafted", "sent", "none"} \/ Recording(r, m)'
      BY <3>2, <3>4
    <3> QED BY <3>5
  <2>9. (\A q \in Requests : ForOfficer(q) => ~OfficerMailed(req[q].ask.notice))'
    <3>1. (ForOfficer(r) => ~OfficerMailed(req[r].ask.notice))'
      BY <2>1, <2>6 DEF OfficerMailed
    <3> QED BY <1>1, <3>1
  <2> QED BY <2>3, <2>7, <2>8, <2>9 DEF OfficerAgrees
<1>12. CASE SendCopy(r)
  <2>1. "copy" \in Roles /\ "copy" # "officer"
    BY DEF Roles
  <2>2. req[r].pc = "copy" /\ req'[r].pc = "logcopy"
    BY <1>12, <2>1, SendEffect DEF SendCopy
  <2>3. /\ ~ForOfficer(r)'
        /\ \A m \in Screens : ~Recording(r, m) /\ ~Recording(r, m)'
    BY <2>2 DEF Recording, ForOfficer
  <2>4. /\ mails \subseteq mails'
        /\ \A m \in mails' \ mails : m.role = "copy"
    BY <1>12, <2>1, SendEffect
  <2>5. \A m \in Screens : OfficerMailed(m)' <=> OfficerMailed(m)
    BY <2>4 DEF OfficerMailed
  <2>6. OfficerOnce'
    BY <2>4 DEF OfficerOnce
  <2>7. UNCHANGED <<status, verdict>>
    BY <1>12 DEF SendCopy
  <2>8. (\A m \in Screens : OfficerMailed(m) =>
            status[m] \in {"drafted", "sent", "none"} \/ \E q \in Requests : Recording(q, m))'
    <3>1. \A m \in Screens : OfficerMailed(m)' => status[m] \in {"drafted", "sent", "none"}
      BY <1>3, <2>3, <2>5
    <3>2. \A m \in Screens : OfficerMailed(m)' => status'[m] \in {"drafted", "sent", "none"}
      BY <2>7, <3>1
    <3> QED BY <3>2
  <2>9. (\A q \in Requests : ForOfficer(q) => ~OfficerMailed(req[q].ask.notice))'
    BY <1>1, <2>3
  <2>10. (\A m \in Screens : verdict[m] = "approved" =>
            status[m] \in {"approved", "drafted", "sent", "none"})'
    BY <2>7 DEF OfficerAgrees
  <2> QED BY <2>6, <2>8, <2>9, <2>10 DEF OfficerAgrees
<1>13. CASE SendOfficer(r)
  <2> DEFINE new == [req |-> r, notice |-> n, role |-> "officer", text |-> req[r].text]
  <2>1. "officer" \in Roles
    BY DEF Roles
  <2>2. /\ req[r].pc = "officer"
        /\ req'[r].pc = "logging"
        /\ req'[r].ask = req[r].ask
        /\ mails' = IF req'[r].outcome \in Delivered THEN mails \cup {new} ELSE mails
    BY <1>13, <2>1, SendEffect DEF SendOfficer
  <2>3. n \in Screens /\ ~OfficerMailed(n)
    BY <1>4, <2>2 DEF OfficerAgrees, ForOfficer, Handling
  <2>4. new.notice = n /\ new.role = "officer"
    OBVIOUS
  <2> HIDE DEF new
  <2>5. \A m \in mails' : m \in mails \/ (m = new /\ req'[r].outcome \in Delivered)
    BY <2>2
  <2>6. /\ ~ForOfficer(r)'
        /\ \A m \in Screens : /\ ~Recording(r, m)
                              /\ OfficerMailed(m)' => OfficerMailed(m) \/ Recording(r, m)'
    BY <2>2, <2>4, <2>5 DEF Recording, ForOfficer, OfficerMailed
  <2>7. OfficerOnce'
    BY <2>3, <2>4, <2>5 DEF OfficerOnce, OfficerMailed
  <2>8. UNCHANGED <<status, verdict>>
    BY <1>13 DEF SendOfficer
  <2>9. (\A m \in Screens : OfficerMailed(m) =>
            status[m] \in {"drafted", "sent", "none"} \/ \E q \in Requests : Recording(q, m))'
    <3>1. \A m \in Screens :
              OfficerMailed(m)' => status[m] \in {"drafted", "sent", "none"} \/ Recording(r, m)'
      BY <1>3, <2>6
    <3>2. \A m \in Screens :
              OfficerMailed(m)' => status'[m] \in {"drafted", "sent", "none"} \/ Recording(r, m)'
      BY <2>8, <3>1
    <3> QED BY <3>2
  <2>10. (\A q \in Requests : ForOfficer(q) => ~OfficerMailed(req[q].ask.notice))'
    BY <1>1, <2>3, <2>6
  <2>11. (\A m \in Screens : verdict[m] = "approved" =>
            status[m] \in {"approved", "drafted", "sent", "none"})'
    BY <2>8 DEF OfficerAgrees
  <2> QED BY <2>7, <2>9, <2>10, <2>11 DEF OfficerAgrees
<1> QED
  BY <1>5, <1>6, <1>7, <1>8, <1>9, <1>10, <1>11, <1>12, <1>13 DEF Handle

LEMMA OneAtATime ==
    ASSUME OneRequestAtATime
    PROVE  Spec => [](OneRequest /\ OfficerAgrees /\ OfficerOnce)
<1>1. Init => OneRequest /\ OfficerAgrees /\ OfficerOnce
  BY DEF Init, OneRequest, Handling, OfficerAgrees, OfficerMailed, OfficerOnce, ForOfficer, NoRequest
<1>2. ASSUME TypeOK, Approvals, OneRequest, OfficerAgrees, OfficerOnce, [Next]_vars
      PROVE  (OneRequest /\ OfficerAgrees /\ OfficerOnce)'
  <2>1. OneRequest'
    BY <1>2, OneRequestKept
  <2>2. CASE UNCHANGED vars
    BY <1>2, <2>1, <2>2 DEF vars, OfficerAgrees, OfficerOnce, OfficerMailed, Recording, ForOfficer
  <2> QED
    BY <1>2, <2>1, <2>2, OfficerScreen, OfficerHandle, NobodyDies DEF Next
<1> QED
  BY <1>1, <1>2, TypeCorrect, ApprovalsInvariant, PTL DEF Spec

(* "To the officer only once" (deliver_notice), where requests take turns  *)
(* and none dies between the send and its record: screens may race and     *)
(* runs be deleted all the same.                                           *)
THEOREM OfficerIsToldOnce == ASSUME OneRequestAtATime PROVE Spec => []OfficerOnce
<1> QED
  BY OneAtATime, PTL

(* With screens and requests in turn nothing is told twice and no evidence *)
(* is lost (deliver_notice, policy.py, notified_signal_ids).               *)
THEOREM ToldInSeries ==
    ASSUME InTurnAndGrowing, OneRequestAtATime
    PROVE  Spec => []ToldOnce
<1>1. OneScreenAtATime
  BY DEF InTurnAndGrowing
<1>2. Spec => []NotifiesOnce
  BY <1>1, EvidenceOnce
<1>3. Spec => []EvidenceCarriedOn
  BY CarriesOn
<1>4. Spec => []OfficerOnce
  BY OfficerIsToldOnce
<1>5. OfficerOnce /\ EvidenceCarriedOn /\ NotifiesOnce => ToldOnce
  BY DEF ToldOnce
<1> QED
  BY <1>2, <1>3, <1>4, <1>5, PTL

=============================================================================
