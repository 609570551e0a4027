------------------------------ MODULE Accounts ------------------------------
(***************************************************************************)
(* Accounts: signing up, in and out, the links an account is sent by email, *)
(* changing a password, and an organisation's people (accounts.py, the      *)
(* /v1/auth, /v1/me and /v1/org handlers of app.py, and their tables).      *)
(*                                                                         *)
(* A request is a sequence of steps, one for each call that reads what is   *)
(* used later or writes; requests overlap, and may die between two steps.   *)
(* A password is a number: each one somebody chooses is a new one.          *)
(***************************************************************************)
EXTENDS Access, Naturals, FiniteSets

CONSTANTS
    Ids,                \* accounts there may come to be: users.user_id
    Home,               \* a workspace there is
    Founders,           \* its people, to begin with, signed in
    EmailOf, RoleOf,    \* their addresses and roles
    Links,              \* emailed links there may come to be
    Requests,
    Outdated,           \* founders whose password was hashed with older parameters
    SignupsPerDay, VerifyEmailsPerDay, InvitesPerDay,
    MaxFailures,        \* MAX_FAILURES
    LockTicks,          \* LOCK_MINUTES
    MaxRequests,        \* how many requests there are here in all
    MaxChanges          \* how many passwords are chosen here after the first

ASSUME HomeAssumption == Home \in Orgs
ASSUME FoundersAssumption ==
    /\ Founders \subseteq Ids
    /\ EmailOf \in [Founders -> Emails]
    /\ RoleOf \in [Founders -> {"owner", "member"}]
    /\ \E u \in Founders : RoleOf[u] = "owner"
    /\ \A u, v \in Founders : u # v => EmailOf[u] # EmailOf[v]
ASSUME IdsAssumption == Nobody \notin Ids \cup Links
ASSUME BoundsAssumption ==
    /\ {SignupsPerDay, VerifyEmailsPerDay, InvitesPerDay, MaxRequests,
        MaxChanges} \subseteq Nat
    /\ {MaxFailures, LockTicks} \subseteq Nat \ {0}
    /\ Outdated \subseteq Founders

VARIABLES
    users,          \* users: a row, Absent or Removed
    orgs,           \* organisations: "unmade", "site" (vouched for) or "self" (self_made)
    links,          \* account_tokens: a row, Absent or Removed
    sessions,       \* user_sessions
    made,           \* accounts made today
    request,        \* the requests
    arrived,        \* how many there have been
    \* Histories.
    choices,        \* how many passwords have been chosen
    chosen,         \* of each account, the password last chosen for it
    acted,          \* of each link, how often it did what it is for
    crossed         \* workspaces somebody was removed from by one removed meanwhile

tables == <<users, orgs, links, sessions, made>>
histories == <<choices, chosen, acted, crossed>>
vars == <<tables, request, arrived, histories>>

Absent == [email |-> Nobody]
Removed == [was |-> Nobody]         \* its id is given to nothing else
Passwords == 0..MaxChanges
Roles == {"owner", "member"}                                            \* ROLES

User == [email : Emails, org : Orgs, role : Roles, verified : BOOLEAN, password : Passwords,
         outdated : BOOLEAN, failures : 0..MaxFailures,
         locked : 0..LockTicks]
Ages == {"soon", "today", "older"}      \* within RESEND_SECONDS, today, before
Link == [purpose : {"verify", "reset", "invite"}, email : Emails, user : Ids \cup {Nobody},
         org : Orgs \cup {Nobody}, role : Roles, used : BOOLEAN, expired : BOOLEAN, age : Ages]
Session == [user : Ids, opened : Passwords, late : BOOLEAN]

Idle == [at |-> "idle", kind |-> "none", user |-> Nobody, link |-> Nobody, email |-> Nobody,
         org |-> Nobody, role |-> "member", password |-> 0, ok |-> FALSE, by |-> Nobody]

NewUser(email, org, role, verified, outdated) ==
    [email |-> email, org |-> org, role |-> role, verified |-> verified, password |-> 0,
     outdated |-> outdated, failures |-> 0, locked |-> 0]

Init ==
    /\ users = [u \in Ids |-> IF u \in Founders
                              THEN NewUser(EmailOf[u], Home, RoleOf[u], TRUE, u \in Outdated)
                              ELSE Absent]
    /\ orgs = [o \in Orgs |-> IF o = Home THEN "site" ELSE "unmade"]
    /\ links = [l \in Links |-> Absent]
    /\ sessions = [user : Founders, opened : {0}, late : {FALSE}]
    /\ made = 0
    /\ request = [r \in Requests |-> Idle]
    /\ arrived = 0
    /\ choices = 0
    /\ chosen = [u \in Ids |-> 0]
    /\ acted = [l \in Links |-> 0]
    /\ crossed = {}

----------------------------------------------------------------------------
People == {u \in Ids : users[u] \notin {Absent, Removed}}
Made == {l \in Links : links[l] \notin {Absent, Removed}}
HasAccount(email) == \E u \in People : users[u].email = email
Members(org) == {u \in People : users[u].org = org}

\* session_user: the account behind a live session.
SignedIn(u) == u \in People /\ \E s \in sessions : s.user = u
Owner(u) == SignedIn(u) /\ users[u].role = "owner"                      \* _owner

\* account_token: live, unused, of this purpose.
LiveLink(l, purpose) ==
    l \in Made /\ links[l].purpose = purpose /\ ~links[l].used /\ ~links[l].expired

\* too_soon(last_account_token)
TooSoon(purpose, email) ==
    \E l \in Made : links[l].purpose = purpose /\ links[l].email = email /\ links[l].age = "soon"

\* account_tokens_since midnight
Today(purpose) == {l \in Made : links[l].purpose = purpose /\ links[l].age # "older"}

Vouched(org) == VouchedAccount(org, orgs[org] = "self")

Begin(r, req) ==
    /\ request[r] = Idle
    /\ arrived < MaxRequests
    /\ arrived' = arrived + 1
    /\ request' = [request EXCEPT ![r] = req]

Goto(r, at) ==
    /\ request' = [request EXCEPT ![r] = IF at = "idle" THEN Idle ELSE [@ EXCEPT !.at = at]]
    /\ UNCHANGED arrived

----------------------------------------------------------------------------
(* The requests arrive: what they read, and what turns them away.          *)

Locked(u) == users[u].locked > 0

\* login: the account as it is read here decides.
Login(r, u, right) ==
    /\ u \in People
    /\ ~Locked(u)
    /\ Begin(r, [Idle EXCEPT !.at = "counting", !.kind = "login", !.user = u, !.ok = right,
                             !.password = users[u].password])
    /\ UNCHANGED <<tables, histories>>

\* signup: with a key of the site's into that key's workspace, without into a new one.
SignUp(r, email, key) ==
    LET org == KeyTenant(key)
    IN  /\ ~HasAccount(email)
        /\ org = Nobody => key = Nobody /\ SignupAllowed(email) /\ made < SignupsPerDay
        /\ \E o \in IF org # Nobody THEN {org} ELSE {x \in Orgs : orgs[x] = "unmade"} :
             Begin(r, [Idle EXCEPT !.at = "creating", !.kind = "signup", !.email = email,
                                   !.org = o, !.role = "owner", !.ok = org = Nobody])
        /\ UNCHANGED <<tables, histories>>

\* verify_address
Verify(r, l) ==
    /\ LiveLink(l, "verify")
    /\ Begin(r, [Idle EXCEPT !.at = "using", !.kind = "verify", !.link = l,
                             !.user = links[l].user])
    /\ UNCHANGED <<tables, histories>>

\* resend_verification
ResendVerification(r, u) ==
    LET email == users[u].email
    IN  /\ SignedIn(u)
        /\ ~users[u].verified
        /\ ~TooSoon("verify", email)
        /\ Cardinality({l \in Today("verify") : links[l].email = email}) < VerifyEmailsPerDay
        /\ Begin(r, [Idle EXCEPT !.at = "sending", !.kind = "verify", !.user = u,
                                 !.email = email])
        /\ UNCHANGED <<tables, histories>>

\* forgot_password
ForgotPassword(r, u) ==
    /\ u \in People
    /\ ~TooSoon("reset", users[u].email)
    /\ Begin(r, [Idle EXCEPT !.at = "sending", !.kind = "reset", !.user = u,
                             !.email = users[u].email])
    /\ UNCHANGED <<tables, histories>>

\* reset_password, with a password never used before.
ResetPassword(r, l) ==
    /\ LiveLink(l, "reset")
    /\ links[l].user \in People
    /\ choices < MaxChanges
    /\ Begin(r, [Idle EXCEPT !.at = "using", !.kind = "reset", !.link = l,
                             !.user = links[l].user, !.password = choices + 1])
    /\ choices' = choices + 1
    /\ UNCHANGED <<tables, chosen, acted, crossed>>

\* change_password, by somebody who knows the current one.
ChangePassword(r, u) ==
    /\ SignedIn(u)
    /\ choices < MaxChanges
    /\ Begin(r, [Idle EXCEPT !.at = "setting", !.kind = "change", !.user = u,
                             !.password = choices + 1])
    /\ choices' = choices + 1
    /\ UNCHANGED <<tables, chosen, acted, crossed>>

\* join_organisation
Join(r, l) ==
    /\ LiveLink(l, "invite")
    /\ ~HasAccount(links[l].email)
    /\ Begin(r, [Idle EXCEPT !.at = "using", !.kind = "join", !.link = l,
                             !.email = links[l].email, !.org = links[l].org,
                             !.role = links[l].role])
    /\ UNCHANGED <<tables, histories>>

\* invite_member: what a workspace somebody made for themselves sends is limited.
InviteMember(r, u, email, role) ==
    LET org == users[u].org
    IN  /\ Owner(u)
        /\ Vouched(org) \/ ( /\ users[u].verified
                             /\ Cardinality({l \in Today("invite") : links[l].org = org})
                                    < InvitesPerDay )
        /\ ~HasAccount(email)
        /\ ~(\E l \in Made : /\ links[l].purpose = "invite" /\ links[l].email = email
                             /\ links[l].org = org /\ links[l].age = "soon")
        /\ Begin(r, [Idle EXCEPT !.at = "revoking", !.kind = "invite", !.email = email,
                                 !.org = org, !.role = role])
        /\ UNCHANGED <<tables, histories>>

\* withdraw_invite
WithdrawInvite(r, u, email) ==
    /\ Owner(u)
    /\ Begin(r, [Idle EXCEPT !.at = "revoking", !.kind = "withdraw", !.email = email,
                             !.org = users[u].org])
    /\ UNCHANGED <<tables, histories>>

\* Mutant: nothing against removing oneself.
Anybody(u, v) == TRUE

NotYourself(u, v) == u # v

\* remove_member
RemoveMember(r, u, v) ==
    /\ Owner(u)
    /\ v \in Members(users[u].org)
    /\ NotYourself(u, v)
    /\ Begin(r, [Idle EXCEPT !.at = "removing", !.kind = "remove", !.user = v,
                             !.by = u, !.org = users[u].org])
    /\ UNCHANGED <<tables, histories>>

\* logout: another session like it may go on.
Logout(s) ==
    /\ s \in sessions
    /\ sessions' = sessions \ {s}
    /\ UNCHANGED <<users, orgs, links, made, request, arrived, histories>>

----------------------------------------------------------------------------
(* What they write, step by step.                                          *)

\* record_login.  A success clears the count; the row may be gone by now.  Beyond
\* MaxFailures it does not matter how many there were.
RecordLogin(r) ==
    LET u == request[r].user
        Row(row) == IF request[r].ok THEN [row EXCEPT !.failures = 0, !.locked = 0]
                    ELSE [row EXCEPT !.failures = IF @ < MaxFailures THEN @ + 1 ELSE @]
    IN  /\ request[r].at = "counting"
        /\ users' = IF u \in People THEN [users EXCEPT ![u] = Row(@)] ELSE users
        /\ Goto(r, IF ~request[r].ok THEN "locking"
                   ELSE IF u \in People /\ users[u].outdated THEN "rehashing" ELSE "entering")
        /\ UNCHANGED <<orgs, links, sessions, made, histories>>

\* record_login, after a failure: the count is read again.
LockAccount(r) ==
    LET u == request[r].user
    IN  /\ request[r].at = "locking"
        /\ users' = IF u \in People /\ users[u].failures >= MaxFailures
                    THEN [users EXCEPT ![u].failures = 0, ![u].locked = LockTicks]
                    ELSE users
        /\ Goto(r, "idle")
        /\ UNCHANGED <<orgs, links, sessions, made, histories>>

\* Mutant: the password alone is changed.
SessionsStay(u) == sessions

\* set_password: every session of the account ends.
SessionsWithout(u) == {s \in sessions : s.user # u}

WritePassword(u, password) ==
    /\ users' = IF u \in People
                THEN [users EXCEPT ![u].password = password, ![u].outdated = FALSE]
                ELSE users
    /\ sessions' = SessionsWithout(u)

\* login, when the hash has older parameters: the password that was checked.
Rehash(r) ==
    /\ request[r].at = "rehashing"
    /\ WritePassword(request[r].user, request[r].password)
    /\ Goto(r, "entering")
    /\ UNCHANGED <<orgs, links, made, histories>>

\* reset_password and change_password: the one that was chosen.
SetPassword(r) ==
    LET u == request[r].user
    IN  /\ request[r].at = "setting"
        /\ WritePassword(u, request[r].password)
        /\ chosen' = [chosen EXCEPT ![u] = request[r].password]
        /\ acted' = IF request[r].link = Nobody THEN acted
                    ELSE [acted EXCEPT ![request[r].link] = @ + 1]
        /\ Goto(r, IF request[r].kind = "reset" THEN "confirming" ELSE "idle")
        /\ UNCHANGED <<orgs, links, made, choices, crossed>>

\* Mutant: a link that was there when it was read.
StillMade(l) == l \in Made

\* use_account_token: WHERE used_at IS NULL.
Unused(l) == l \in Made /\ ~links[l].used

UseLink(r) ==
    LET l == request[r].link
    IN  /\ request[r].at = "using"
        /\ IF Unused(l)
           THEN /\ links' = [links EXCEPT ![l].used = TRUE]
                /\ Goto(r, CASE request[r].kind = "reset" -> "setting"
                             [] request[r].kind = "verify" -> "confirming"
                             [] request[r].kind = "join" -> "creating")
           ELSE Goto(r, "idle") /\ UNCHANGED links
        /\ UNCHANGED <<users, orgs, sessions, made, histories>>

\* mark_email_verified, and after a reset record_login.
ConfirmAddress(r) ==
    LET u == request[r].user
        reset == request[r].kind = "reset"
        Row(row) == IF reset THEN [row EXCEPT !.verified = TRUE, !.failures = 0, !.locked = 0]
                    ELSE [row EXCEPT !.verified = TRUE]
    IN  /\ request[r].at = "confirming"
        /\ users' = IF u \in People THEN [users EXCEPT ![u] = Row(@)] ELSE users
        /\ acted' = IF reset THEN acted ELSE [acted EXCEPT ![request[r].link] = @ + 1]
        /\ Goto(r, IF reset THEN "entering" ELSE "idle")
        /\ UNCHANGED <<orgs, links, sessions, made, choices, chosen, crossed>>

(* create_user: the address may have been taken since; users.email is       *)
(* UNIQUE.  The workspace is made with its first account.                   *)
CreateUser(r) ==
    LET q == request[r]
        joins == q.kind = "join"
    IN  /\ q.at = "creating"
        /\ IF HasAccount(q.email) THEN Goto(r, "idle") /\ UNCHANGED <<users, orgs, made, acted>>
           ELSE \E u \in {v \in Ids : users[v] = Absent} :
             /\ users' = [users EXCEPT ![u] = NewUser(q.email, q.org, q.role, joins, FALSE)]
             /\ orgs' = [orgs EXCEPT ![q.org] = IF @ # "unmade" THEN @
                                                ELSE IF q.ok THEN "self" ELSE "site"]
             /\ made' = made + 1
             /\ acted' = IF joins THEN [acted EXCEPT ![q.link] = @ + 1] ELSE acted
             /\ request' = [request EXCEPT ![r].at = "entering", ![r].user = u]
             /\ UNCHANGED arrived
        /\ UNCHANGED <<links, sessions, choices, chosen, crossed>>

\* _start_session
StartSession(r) ==
    LET u == request[r].user
        late == u \in People /\ users[u].password # request[r].password
    IN  /\ request[r].at = "entering"
        /\ sessions' = sessions \cup
               {[user |-> u, opened |-> request[r].password, late |-> late]}
        /\ Goto(r, IF request[r].kind = "signup" THEN "sending" ELSE "idle")
        /\ UNCHANGED <<users, orgs, links, made, histories>>

\* revoke_invites
RevokeInvites(r) ==
    LET q == request[r]
        Open(l) == /\ l \in Made /\ links[l].purpose = "invite"
                   /\ links[l].org = q.org /\ links[l].email = q.email
    IN  /\ q.at = "revoking"
        /\ links' = [l \in Links |-> IF Open(l) THEN [links[l] EXCEPT !.used = TRUE] ELSE links[l]]
        /\ Goto(r, IF q.kind = "invite" THEN "sending" ELSE "idle")
        /\ UNCHANGED <<users, orgs, sessions, made, histories>>

\* Mutant: a new account's link is for signing up, which no page reads.
SameKind(kind) == kind

PurposeOf(kind) == IF kind = "signup" THEN "verify" ELSE kind

\* create_account_token, and the email with the link.
SendLink(r) ==
    LET q == request[r]
        purpose == PurposeOf(q.kind)
    IN  /\ q.at = "sending"
        /\ \E l \in {k \in Links : links[k] = Absent} :
             links' = [links EXCEPT ![l] =
                 [purpose |-> purpose, email |-> q.email, user |-> q.user,
                  org |-> IF purpose = "invite" THEN q.org ELSE Nobody, role |-> q.role,
                  used |-> FALSE, expired |-> FALSE, age |-> "soon"]]
        /\ Goto(r, "idle")
        /\ UNCHANGED <<users, orgs, sessions, made, histories>>

\* remove_user: with the account go its sessions and its links.
RemoveUser(r) ==
    LET u == request[r].user
    IN  /\ request[r].at = "removing"
        /\ users' = [users EXCEPT ![u] = Removed]
        /\ sessions' = SessionsWithout(u)
        /\ links' = [l \in Links |-> IF l \in Made /\ links[l].user = u THEN Removed ELSE links[l]]
        /\ crossed' = IF request[r].by \in People THEN crossed
                      ELSE crossed \cup {request[r].org}
        /\ Goto(r, "idle")
        /\ UNCHANGED <<orgs, made, choices, chosen, acted>>

RequestDies(r) ==
    /\ request[r] # Idle
    /\ Goto(r, "idle")
    /\ UNCHANGED <<tables, histories>>

----------------------------------------------------------------------------
(* Time.                                                                   *)

Minutes ==
    /\ \/ \E u \in People : Locked(u)
       \/ \E l \in Made : links[l].age = "soon"
    /\ users' = [u \in Ids |-> IF u \in People /\ Locked(u)
                               THEN [users[u] EXCEPT !.locked = @ - 1] ELSE users[u]]
    /\ links' = [l \in Links |-> IF l \in Made /\ links[l].age = "soon"
                                 THEN [links[l] EXCEPT !.age = "today"] ELSE links[l]]
    /\ UNCHANGED <<orgs, sessions, made, request, arrived, histories>>

Midnight ==
    /\ made > 0 \/ \E l \in Made : links[l].age = "today"
    /\ made' = 0
    /\ links' = [l \in Links |-> IF l \in Made /\ links[l].age = "today"
                                 THEN [links[l] EXCEPT !.age = "older"] ELSE links[l]]
    /\ UNCHANGED <<users, orgs, sessions, request, arrived, histories>>

\* RESET_HOURS, VERIFY_HOURS, INVITE_HOURS
LinkExpires(l) ==
    /\ l \in Made
    /\ ~links[l].expired
    /\ links[l].age = (IF links[l].purpose = "reset" THEN "today" ELSE "older")
    /\ links' = [links EXCEPT ![l].expired = TRUE]
    /\ UNCHANGED <<users, orgs, sessions, made, request, arrived, histories>>

----------------------------------------------------------------------------
Arrive(r) ==
    \/ \E u \in Ids, right \in BOOLEAN : Login(r, u, right)
    \/ \E email \in Emails, key \in DOMAIN Keys \cup {Nobody} : SignUp(r, email, key)
    \/ \E l \in Links : Verify(r, l) \/ ResetPassword(r, l) \/ Join(r, l)
    \/ \E u \in Ids : ResendVerification(r, u) \/ ForgotPassword(r, u) \/ ChangePassword(r, u)
    \/ \E u \in Ids, email \in Emails, role \in Roles : InviteMember(r, u, email, role)
    \/ \E u \in Ids, email \in Emails : WithdrawInvite(r, u, email)
    \/ \E u, v \in Ids : RemoveMember(r, u, v)

GoesOn(r) ==
    \/ RecordLogin(r) \/ LockAccount(r) \/ Rehash(r) \/ SetPassword(r) \/ UseLink(r)
    \/ ConfirmAddress(r) \/ CreateUser(r) \/ StartSession(r) \/ RevokeInvites(r)
    \/ SendLink(r) \/ RemoveUser(r)

Next ==
    \/ \E r \in Requests : Arrive(r) \/ GoesOn(r) \/ RequestDies(r)
    \/ \E s \in sessions : Logout(s)
    \/ Minutes \/ Midnight \/ \E l \in Links : LinkExpires(l)

Spec == Init /\ [][Next]_vars

----------------------------------------------------------------------------
Steps == {"idle", "counting", "locking", "rehashing", "setting", "using", "confirming",
          "creating", "entering", "revoking", "sending", "removing"}
Kinds == {"none", "login", "signup", "verify", "reset", "change", "join", "invite", "withdraw",
          "remove"}

TypeOK ==
    /\ users \in [Ids -> User \cup {Absent, Removed}]
    /\ orgs \in [Orgs -> {"unmade", "site", "self"}]
    /\ links \in [Links -> Link \cup {Absent, Removed}]
    /\ sessions \in SUBSET Session
    /\ made \in Nat
    /\ request \in [Requests -> [at : Steps, kind : Kinds, user : Ids \cup {Nobody},
           link : Links \cup {Nobody}, email : Emails \cup {Nobody}, org : Orgs \cup {Nobody},
           role : Roles, password : Passwords, ok : BOOLEAN,
           by : Ids \cup {Nobody}]]
    /\ arrived \in 0..MaxRequests
    /\ choices \in 0..MaxChanges
    /\ chosen \in [Ids -> Passwords]
    /\ acted \in [Links -> Nat]
    /\ crossed \in SUBSET Orgs

(* "the link works once" (reset_email): a link confirms an address, changes *)
(* a password or makes an account one time, however many requests have it.  *)
WorksOnce == \A l \in Links : acted[l] <= 1

(* "Every session ends" when a password is changed: a session in being was  *)
(* opened with the account's present password, or by a request that had     *)
(* checked the password before it was changed.                              *)
SessionsAreCurrent ==
    \A s \in sessions : s.user \in People /\ ~s.late => s.opened = users[s.user].password

(* An account's password is the one last chosen for it.  TLC refutes it     *)
(* (README.md): a login under way while the password is changed writes the  *)
(* old one back, hashed anew.                                               *)
LastChosen == \A u \in People : users[u].password = chosen[u]

(* An organisation with people in it has an owner, unless one of them was   *)
(* removed by somebody who had been removed meanwhile.                      *)
OwnerRemains ==
    \A o \in Orgs \ crossed : Members(o) # {} => \E u \in Members(o) : users[u].role = "owner"

(* Who is in is so by the present password, where somebody is in charge.    *)
AccountsHold == SessionsAreCurrent /\ OwnerRemains
=============================================================================
