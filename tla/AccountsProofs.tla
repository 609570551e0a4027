--------------------------- MODULE AccountsProofs ---------------------------
(***************************************************************************)
(* What is proved of Accounts, for any accounts, links, requests and       *)
(* bounds: the types, that a link works once, that no session outlives the *)
(* password it was opened with, and that a workspace keeps an owner.       *)
(***************************************************************************)
EXTENDS Accounts, FiniteSetTheorems, TLAPS

Request == [at : Steps, kind : Kinds, user : Ids \cup {Nobody},
            link : Links \cup {Nobody}, email : Emails \cup {Nobody}, org : Orgs \cup {Nobody},
            role : Roles, password : Passwords, ok : BOOLEAN, by : Ids \cup {Nobody}]

----------------------------------------------------------------------------
(* The inductive invariant.                                                *)

\* An account that is spoken of exists or was removed: its id is never given anew.
Known(u) == u \in Ids /\ users[u] # Absent

\* A step of a request is one of its kind, and has what the step works on.
Fit(q) ==
    /\ q.at \in {"counting", "locking", "rehashing"} => q.kind = "login" /\ Known(q.user)
    /\ q.at = "using" =>
          /\ q.kind \in {"verify", "reset", "join"} /\ q.link \in Links
          /\ q.kind # "join" => Known(q.user)
          /\ q.kind = "join" => q.email \in Emails /\ q.org \in Orgs
    /\ q.at = "setting" =>
          /\ q.kind \in {"change", "reset"} /\ Known(q.user)
          /\ q.kind = "reset" <=> q.link \in Links
    /\ q.at = "confirming" =>
          q.kind \in {"reset", "verify"} /\ q.link \in Links /\ Known(q.user)
    /\ q.at = "creating" =>
          /\ q.kind \in {"join", "signup"} /\ q.email \in Emails /\ q.org \in Orgs
          /\ q.kind = "join" => q.link \in Links
          /\ q.kind = "signup" => q.role = "owner"
    /\ q.at = "entering" => 
          /\ q.kind \in {"login", "reset", "signup", "join"} /\ Known(q.user)
          /\ q.kind = "signup" => q.email \in Emails
    /\ q.at = "revoking" =>
          q.kind \in {"invite", "withdraw"} /\ q.email \in Emails /\ q.org \in Orgs
    /\ q.at = "sending" =>
          /\ q.kind \in {"verify", "reset", "signup", "invite"} /\ q.email \in Emails
          /\ q.kind # "invite" => Known(q.user)
          /\ q.kind = "invite" => q.org \in Orgs
    /\ q.at = "removing" => q.kind = "remove" /\ q.org \in Orgs

\* A request that has used a link and has yet to do what it is for.
Due(q, l) ==
    /\ q.link = l
    /\ \/ q.at = "setting"
       \/ q.at = "confirming" /\ q.kind = "verify"
       \/ q.at = "creating" /\ q.kind = "join"

\* A link does what it is for after it was used, and for the one request that used it.
Once(l) ==
    /\ links[l] = Absent => acted[l] = 0 /\ \A r \in Requests : request[r].link # l
    /\ l \in Made /\ ~links[l].used => acted[l] = 0 /\ \A r \in Requests : ~Due(request[r], l)
    /\ acted[l] <= 1
    /\ \A r \in Requests : Due(request[r], l) => acted[l] = 0
    /\ \A r, s \in Requests : Due(request[r], l) /\ Due(request[s], l) => r = s

\* Somebody is in charge of the workspace, or it is one removals crossed in.
Kept(o) == o \in crossed \/ \E u \in Members(o) : users[u].role = "owner"

\* An invitation is into a workspace somebody is in charge of, and who removes
\* somebody is, unless removed meanwhile, in charge of theirs.
Safe(q) ==
    /\ q.at \in {"using", "creating"} /\ q.kind = "join" => Kept(q.org)
    /\ q.at \in {"revoking", "sending"} /\ q.kind = "invite" => Kept(q.org)
    /\ q.at = "removing" =>
          /\ Known(q.user) /\ Known(q.by) /\ q.by # q.user
          /\ q.user \in People => users[q.user].org = q.org
          /\ q.by \in People => users[q.by].org = q.org /\ users[q.by].role = "owner"

LinksOwned ==
    \A l \in Made :
        /\ links[l].purpose # "invite" => Known(links[l].user)
        /\ links[l].purpose = "invite" => links[l].org \in Orgs /\ Kept(links[l].org)

Everybody == \A o \in Orgs : Members(o) # {} => Kept(o)

Current ==
    \A s \in sessions : Known(s.user) /\
        (s.user \in People /\ ~s.late => s.opened = users[s.user].password)

Tables ==
    /\ users \in [Ids -> User \cup {Absent, Removed}]
    /\ orgs \in [Orgs -> {"unmade", "site", "self"}]
    /\ links \in [Links -> Link \cup {Absent, Removed}]
    /\ sessions \in SUBSET Session
    /\ made \in Nat
    /\ arrived \in 0..MaxRequests
    /\ choices \in 0..MaxChanges
    /\ chosen \in [Ids -> Passwords]
    /\ acted \in [Links -> Nat]
    /\ crossed \in SUBSET Orgs

IInv ==
    /\ Tables
    /\ request \in [Requests -> Request]
    /\ \A r \in Requests : Fit(request[r]) /\ Safe(request[r])
    /\ \A l \in Links : Once(l)
    /\ LinksOwned /\ Everybody /\ Current

----------------------------------------------------------------------------
LEMMA Shapes ==
    /\ Absent # Removed
    /\ Absent \notin User \cup Link /\ Removed \notin User \cup Link
<1>1. Absent # Removed
  <2>1. DOMAIN Absent = {"email"} /\ DOMAIN Removed = {"was"}
    BY DEF Absent, Removed
  <2> QED
    BY <2>1
<1>2. Absent \notin User \cup Link
  BY NobodyAssumption DEF Absent, User, Link
<1>3. Removed \notin User \cup Link
  <2>1. DOMAIN Removed = {"was"}
    BY DEF Removed
  <2>2. \A x \in User \cup Link : "email" \in DOMAIN x
    BY DEF User, Link
  <2> QED
    BY <2>1, <2>2
<1> QED
  BY <1>1, <1>2, <1>3

LEMMA PeopleAreUsers ==
    ASSUME Tables
    PROVE  /\ \A u \in Ids : u \in People <=> users[u] \in User
           /\ \A l \in Links : l \in Made <=> links[l] \in Link
           /\ \A u \in People : Known(u)
  BY Shapes DEF Tables, People, Made, Known

LEMMA IdleIsRequest ==
    /\ Idle \in Request /\ Fit(Idle) /\ Safe(Idle) /\ Idle.link = Nobody
    /\ \A l \in Links : ~Due(Idle, l)
<1>1. 0 \in Passwords
  BY BoundsAssumption DEF Passwords
<1> QED
  BY <1>1 DEF Idle, Request, Fit, Safe, Steps, Kinds, Roles, Due

LEMMA TypesHold == IInv => TypeOK
  BY DEF IInv, Tables, TypeOK, Request

LEMMA AtInit == Init => IInv
<1> SUFFICES ASSUME Init PROVE IInv
  OBVIOUS
<1>1. \A u \in Ids : users[u] = IF u \in Founders
          THEN NewUser(EmailOf[u], Home, RoleOf[u], TRUE, u \in Outdated) ELSE Absent
  BY DEF Init
<1>2. ASSUME NEW u \in Founders
      PROVE  NewUser(EmailOf[u], Home, RoleOf[u], TRUE, u \in Outdated) \in User
  BY FoundersAssumption, HomeAssumption, BoundsAssumption DEF NewUser, User, Roles, Passwords
<1>3. People = Founders /\ \A u \in People : users[u].org = Home /\ users[u].role = RoleOf[u]
          /\ users[u].password = 0
  <2>1. Founders \subseteq Ids
    BY FoundersAssumption
  <2>2. ASSUME NEW u \in Ids PROVE u \in People <=> u \in Founders
    BY <1>1, <1>2, <2>1, <2>2, Shapes DEF People
  <2>3. ASSUME NEW u \in Founders
        PROVE  users[u].org = Home /\ users[u].role = RoleOf[u] /\ users[u].password = 0
    <3>1. users[u] = NewUser(EmailOf[u], Home, RoleOf[u], TRUE, u \in Outdated)
      BY <1>1, <2>1
    <3> QED
      BY <3>1 DEF NewUser
  <2> QED
    BY <2>1, <2>2, <2>3 DEF People
<1>4. Kept(Home) /\ Everybody
  BY <1>3, FoundersAssumption DEF Kept, Members, Everybody
<1>5. Tables
  <2>0. 0 \in Passwords /\ Founders \subseteq Ids /\ Home \in Orgs
    BY FoundersAssumption, BoundsAssumption, HomeAssumption DEF Passwords
  <2>1. sessions \in SUBSET Session
    BY <2>0 DEF Init, Session
  <2>3. /\ orgs \in [Orgs -> {"unmade", "site", "self"}]
        /\ links \in [Links -> Link \cup {Absent, Removed}]
        /\ chosen \in [Ids -> Passwords] /\ acted \in [Links -> Nat]
    BY <2>0 DEF Init
  <2>4. made \in Nat /\ arrived \in 0..MaxRequests /\ choices \in 0..MaxChanges /\ crossed = {}
    BY BoundsAssumption DEF Init
  <2>2. users \in [Ids -> User \cup {Absent, Removed}]
    BY <1>1, <1>2 DEF Init
  <2> QED
    BY <2>1, <2>2, <2>3, <2>4 DEF Tables
<1>6. Made = {}
  BY DEF Init, Made
<1>7. Current
  <2>1. \A s \in sessions : s.user \in Founders /\ s.opened = 0
    BY DEF Init
  <2> QED
    BY <2>1, <1>3, <1>5, PeopleAreUsers DEF Current
<1>8. request \in [Requests -> Request] /\ \A r \in Requests : request[r] = Idle
  BY IdleIsRequest DEF Init
<1>9. \A l \in Links : Once(l)
  BY <1>6, <1>8, IdleIsRequest, IdsAssumption DEF Init, Once
<1> QED
  BY <1>4, <1>5, <1>6, <1>7, <1>8, <1>9, IdleIsRequest DEF IInv, LinksOwned

----------------------------------------------------------------------------
(* A step that makes and removes no account, and changes no password, role *)
(* or workspace, and by which no link does what it is for.                 *)

Essential ==
    /\ \A u \in Ids : users'[u] = Absent <=> users[u] = Absent
    /\ \A u \in Ids : u \in People' <=> u \in People
    /\ \A u \in People : /\ users'[u].org = users[u].org /\ users'[u].role = users[u].role
                         /\ users'[u].password = users[u].password
    /\ crossed' = crossed

LEMMA EssentialKeeps ==
    ASSUME Essential
    PROVE  /\ \A u : Known(u) <=> Known(u)'
           /\ \A o \in Orgs : Kept(o) <=> Kept(o)'
           /\ Everybody => Everybody'
           /\ \A q \in Request : Fit(q) => Fit(q)'
           /\ \A q \in Request : Fit(q) /\ Safe(q) => Safe(q)'
<1>1. \A u : Known(u) <=> Known(u)'
  BY DEF Essential, Known
<1>2. \A u : u \in People <=> u \in People'
  BY DEF Essential, People
<1>3. \A o : Members(o)' = Members(o)
  BY <1>2 DEF Members, Essential
<1>4. \A o : Kept(o) <=> Kept(o)'
  BY <1>2, <1>3 DEF Kept, Essential, Members
<1>5. \A q \in Request : Fit(q) => Fit(q)'
  BY <1>1 DEF Fit
<1>6. \A q \in Request : Safe(q) => Safe(q)'
  BY <1>1, <1>2, <1>4 DEF Safe, Essential
<1> QED
  BY <1>1, <1>3, <1>4, <1>5, <1>6 DEF Everybody

\* What is to be known of the links and the requests for each link to have worked once.
LEMMA OnceStands ==
    ASSUME IInv, acted' = acted,
           \A l \in Links : links'[l] = Absent => links[l] = Absent,
           \A l \in Links : l \in Made' /\ ~links'[l].used =>
               links[l] = Absent \/ (l \in Made /\ ~links[l].used),
           \A r \in Requests :
               /\ \/ request'[r].link \in {Nobody, request[r].link}
                  \/ request'[r].link \in Links /\ links[request'[r].link] # Absent
               /\ \A l \in Links : Due(request'[r], l) => Due(request[r], l)
    PROVE  \A l \in Links : Once(l)'
<1> SUFFICES ASSUME NEW l \in Links PROVE Once(l)'
  OBVIOUS
<1>1. Once(l) /\ Nobody # l
  BY IdsAssumption DEF IInv
<1>2. ASSUME links'[l] = Absent
      PROVE  acted'[l] = 0 /\ \A r \in Requests : request'[r].link # l
  BY <1>1, <1>2 DEF Once
<1>3. ASSUME l \in Made', ~links'[l].used
      PROVE  acted'[l] = 0 /\ \A r \in Requests : ~Due(request'[r], l)
  <2>1. CASE links[l] = Absent
    BY <1>1, <2>1 DEF Once, Due
  <2>2. CASE l \in Made /\ ~links[l].used
    BY <1>1, <2>2 DEF Once
  <2> QED
    BY <1>3, <2>1, <2>2
<1> QED
  BY <1>1, <1>2, <1>3 DEF Once

LEMMA Goes ==
    ASSUME IInv, Tables', LinksOwned', Current', Essential, acted' = acted,
           NEW r \in Requests, NEW f \in Request, request' = [request EXCEPT ![r] = f],
           Fit(f), Safe(f),
           \A l \in Links : links'[l] = Absent => links[l] = Absent,
           \A l \in Links : l \in Made' /\ ~links'[l].used =>
               links[l] = Absent \/ (l \in Made /\ ~links[l].used),
           \/ f.link \in {Nobody, request[r].link}
           \/ f.link \in Links /\ links[f.link] # Absent,
           \A l \in Links : Due(f, l) => Due(request[r], l)
    PROVE  IInv'
<1>1. request' \in [Requests -> Request] /\ request'[r] = f
        /\ \A s \in Requests \ {r} : request'[s] = request[s]
  BY DEF IInv
<1>2. \A s \in Requests : Fit(request[s])' /\ Safe(request[s])'
  BY <1>1, EssentialKeeps DEF IInv
<1>3. \A l \in Links : Once(l)'
  BY <1>1, OnceStands
<1> QED
  BY <1>1, <1>2, <1>3, EssentialKeeps DEF IInv

\* A request that only reads.
LEMMA ReadsOnly ==
    ASSUME IInv, UNCHANGED <<tables, acted, crossed>>,
           chosen' \in [Ids -> Passwords], choices' \in 0..MaxChanges, arrived' \in 0..MaxRequests,
           NEW r \in Requests, NEW f \in Request, request' = [request EXCEPT ![r] = f],
           Fit(f), Safe(f),
           \/ f.link \in {Nobody, request[r].link}
           \/ f.link \in Links /\ links[f.link] # Absent,
           \A l \in Links : Due(f, l) => Due(request[r], l)
    PROVE  IInv'
<1>1. Essential
  BY DEF Essential, tables, People
<1>2. Tables' /\ LinksOwned' /\ Current'
  BY <1>1, EssentialKeeps DEF IInv, Tables, LinksOwned, Current, tables, Made, People, Known, Kept, Members
<1>3. \A l \in Links : l \in Made' /\ ~links'[l].used =>
               links[l] = Absent \/ (l \in Made /\ ~links[l].used)
  BY DEF tables, Made
<1>4. links' = links
  BY DEF tables
<1> QED
  BY <1>1, <1>2, <1>3, <1>4, Goes

LEMMA DieKept == ASSUME IInv, NEW r \in Requests, RequestDies(r) PROVE IInv'
  BY IdleIsRequest, ReadsOnly DEF RequestDies, Goto, tables, histories, IInv, Tables

\* A request that arrives.
LEMMA Arrives ==
    ASSUME IInv, UNCHANGED <<tables, acted, crossed, chosen>>, choices' \in 0..MaxChanges,
           NEW r \in Requests, NEW f \in Request, Begin(r, f), Fit(f), Safe(f),
           \/ f.link = Nobody
           \/ f.link \in Links /\ links[f.link] # Absent,
           f.at \notin {"setting", "confirming", "creating"} \/ f.link = Nobody
    PROVE  IInv'
<1>1. arrived' \in 0..MaxRequests
  <2>1. arrived \in 0..MaxRequests /\ MaxRequests \in Nat
    BY BoundsAssumption DEF IInv, Tables
  <2> QED
    BY <2>1 DEF Begin
<1>2. \A l \in Links : ~Due(f, l)
  BY IdsAssumption DEF Due
<1> QED
  BY <1>1, <1>2, ReadsOnly DEF Begin, IInv, Tables

LEMMA KnownPeople ==
    ASSUME IInv
    PROVE  /\ \A u \in People : Known(u) /\ users[u] \in User /\ u \in Ids
           /\ \A l \in Made : links[l] \in Link /\ links[l] # Absent /\ l \in Links
           /\ \A u : SignedIn(u) => u \in People
           /\ \A o \in Orgs : Members(o) # {} => Kept(o)
           /\ choices \in Nat /\ choices <= MaxChanges /\ Passwords = 0..MaxChanges
           /\ Nobody \notin Ids \cup Links
<1>1. Tables
  BY DEF IInv
<1>2. choices \in 0..MaxChanges /\ MaxChanges \in Nat
  BY <1>1, BoundsAssumption DEF Tables
<1> QED
  BY <1>1, <1>2, PeopleAreUsers, IdsAssumption, Shapes
     DEF SignedIn, IInv, Everybody, People, Made, Passwords

LEMMA LoginKept ==
    ASSUME IInv, NEW r \in Requests, NEW u \in Ids, NEW right \in BOOLEAN, Login(r, u, right)
    PROVE  IInv'
<1> DEFINE f == [Idle EXCEPT !.at = "counting", !.kind = "login", !.user = u, !.ok = right,
                             !.password = users[u].password]
<1>1. users[u].password \in Passwords /\ Known(u)
  BY KnownPeople DEF Login, User
<1>2. f \in Request /\ Fit(f) /\ Safe(f) /\ f.link = Nobody
  BY <1>1, IdleIsRequest DEF Idle, Request, Fit, Safe, Steps, Kinds
<1> HIDE DEF f
<1>3. Begin(r, f) /\ UNCHANGED <<tables, acted, crossed, chosen>> /\ choices' \in 0..MaxChanges
  BY DEF Login, f, histories, IInv, Tables
<1> QED
  BY <1>2, <1>3, Arrives

LEMMA SignUpKept ==
    ASSUME IInv, NEW r \in Requests, NEW email \in Emails,
           NEW key \in DOMAIN Keys \cup {Nobody}, SignUp(r, email, key)
    PROVE  IInv'
<1>1. KeyTenant(key) # Nobody => KeyTenant(key) \in Orgs
  BY KeysAssumption DEF KeyTenant
<1>2. PICK o \in Orgs, ok \in BOOLEAN :
        Begin(r, [Idle EXCEPT !.at = "creating", !.kind = "signup", !.email = email,
                              !.org = o, !.role = "owner", !.ok = ok])
  BY <1>1 DEF SignUp
<1> DEFINE f == [Idle EXCEPT !.at = "creating", !.kind = "signup", !.email = email,
                             !.org = o, !.role = "owner", !.ok = ok]
<1>3. f \in Request /\ Fit(f) /\ Safe(f) /\ f.link = Nobody
  BY IdleIsRequest DEF Idle, Request, Fit, Safe, Steps, Kinds, Roles
<1> HIDE DEF f
<1>4. Begin(r, f) /\ UNCHANGED <<tables, acted, crossed, chosen>> /\ choices' \in 0..MaxChanges
  BY <1>2 DEF SignUp, f, histories, IInv, Tables
<1> QED
  BY <1>3, <1>4, Arrives

LEMMA LinkFollowedKept ==
    ASSUME IInv, NEW r \in Requests, NEW l \in Links,
           Verify(r, l) \/ ResetPassword(r, l) \/ Join(r, l)
    PROVE  IInv'
<1>1. l \in Made /\ links[l] \in Link /\ links[l] # Absent
  BY KnownPeople DEF Verify, ResetPassword, Join, LiveLink
<1>2. choices \in Nat /\ choices <= MaxChanges /\ Passwords = 0..MaxChanges /\ MaxChanges \in Nat
  BY KnownPeople, BoundsAssumption
<1>3. /\ links[l].purpose # "invite" => Known(links[l].user)
      /\ links[l].purpose = "invite" => links[l].org \in Orgs /\ Kept(links[l].org)
  BY <1>1 DEF IInv, LinksOwned
<1>4. CASE Verify(r, l)
  <2> DEFINE f == [Idle EXCEPT !.at = "using", !.kind = "verify", !.link = l,
                               !.user = links[l].user]
  <2>1. links[l].user \in Ids /\ Known(links[l].user)
    BY <1>3, <1>4 DEF Verify, LiveLink, Known
  <2>2. f \in Request /\ Fit(f) /\ Safe(f) /\ f.link = l /\ f.at = "using"
    BY <2>1, IdleIsRequest DEF Idle, Request, Fit, Safe, Steps, Kinds
  <2> HIDE DEF f
  <2>3. Begin(r, f) /\ UNCHANGED <<tables, acted, crossed, chosen>> /\ choices' \in 0..MaxChanges
    BY <1>4 DEF Verify, f, histories, IInv, Tables
  <2> QED
    BY <1>1, <2>2, <2>3, Arrives
<1>5. CASE ResetPassword(r, l)
  <2> DEFINE f == [Idle EXCEPT !.at = "using", !.kind = "reset", !.link = l,
                               !.user = links[l].user, !.password = choices + 1]
  <2>0. choices + 1 \in Passwords /\ choices' \in 0..MaxChanges
    BY <1>2, <1>5 DEF ResetPassword
  <2>1. links[l].user \in Ids /\ Known(links[l].user)
    BY <1>3, <1>5 DEF ResetPassword, LiveLink, Known
  <2>2. f \in Request /\ Fit(f) /\ Safe(f) /\ f.link = l /\ f.at = "using"
    BY <2>0, <2>1, IdleIsRequest DEF Idle, Request, Fit, Safe, Steps, Kinds
  <2> HIDE DEF f
  <2>3. Begin(r, f) /\ UNCHANGED <<tables, acted, crossed, chosen>>
    BY <1>5 DEF ResetPassword, f
  <2> QED
    BY <1>1, <2>0, <2>2, <2>3, Arrives
<1>6. CASE Join(r, l)
  <2> DEFINE f == [Idle EXCEPT !.at = "using", !.kind = "join", !.link = l,
                             !.email = links[l].email, !.org = links[l].org,
                             !.role = links[l].role]
  <2>1. /\ links[l].email \in Emails /\ links[l].org \in Orgs /\ links[l].role \in Roles
        /\ Kept(links[l].org)
    BY <1>1, <1>3, <1>6 DEF Join, LiveLink, Link
  <2>2. f \in Request /\ Fit(f) /\ Safe(f) /\ f.link = l /\ f.at = "using"
    BY <2>1, IdleIsRequest DEF Idle, Request, Fit, Safe, Steps, Kinds
  <2> HIDE DEF f
  <2>3. Begin(r, f) /\ UNCHANGED <<tables, acted, crossed, chosen>> /\ choices' \in 0..MaxChanges
    BY <1>6 DEF Join, f, histories, IInv, Tables
  <2> QED
    BY <1>1, <2>2, <2>3, Arrives
<1> QED
  BY <1>4, <1>5, <1>6

LEMMA AskedKept ==
    ASSUME IInv, NEW r \in Requests, NEW u \in Ids,
           ResendVerification(r, u) \/ ForgotPassword(r, u) \/ ChangePassword(r, u)
    PROVE  IInv'
<1>1. u \in People /\ Known(u) /\ users[u].email \in Emails
  <2>1. u \in People
    BY KnownPeople DEF ResendVerification, ForgotPassword, ChangePassword
  <2> QED
    BY <2>1, KnownPeople DEF User
<1>2. choices \in Nat /\ choices <= MaxChanges /\ Passwords = 0..MaxChanges /\ MaxChanges \in Nat
  BY KnownPeople, BoundsAssumption
<1>3. CASE ResendVerification(r, u) \/ ForgotPassword(r, u)
  <2>1. PICK k \in {"verify", "reset"} :
           Begin(r, [Idle EXCEPT !.at = "sending", !.kind = k, !.user = u,
                                 !.email = users[u].email])
    BY <1>3 DEF ResendVerification, ForgotPassword
  <2> DEFINE f == [Idle EXCEPT !.at = "sending", !.kind = k, !.user = u,
                               !.email = users[u].email]
  <2>2. f \in Request /\ Fit(f) /\ Safe(f) /\ f.link = Nobody
    BY <1>1, IdleIsRequest DEF Idle, Request, Fit, Safe, Steps, Kinds
  <2> HIDE DEF f
  <2>3. Begin(r, f) /\ UNCHANGED <<tables, acted, crossed, chosen>> /\ choices' \in 0..MaxChanges
    BY <1>3, <2>1 DEF ResendVerification, ForgotPassword, f, histories, IInv, Tables
  <2> QED
    BY <2>2, <2>3, Arrives
<1>4. CASE ChangePassword(r, u)
  <2> DEFINE f == [Idle EXCEPT !.at = "setting", !.kind = "change", !.user = u,
                               !.password = choices + 1]
  <2>0. choices + 1 \in Passwords /\ choices' \in 0..MaxChanges
    BY <1>2, <1>4 DEF ChangePassword
  <2>1. Nobody \notin Links
    BY IdsAssumption
  <2>2. f \in Request /\ Fit(f) /\ Safe(f) /\ f.link = Nobody
    BY <1>1, <2>0, <2>1, IdleIsRequest DEF Idle, Request, Fit, Safe, Steps, Kinds
  <2> HIDE DEF f
  <2>3. Begin(r, f) /\ UNCHANGED <<tables, acted, crossed, chosen>>
    BY <1>4 DEF ChangePassword, f
  <2> QED
    BY <2>0, <2>2, <2>3, Arrives
<1> QED
  BY <1>3, <1>4

LEMMA OwnersKept ==
    ASSUME IInv, NEW u \in Ids, Owner(u)
    PROVE  u \in People /\ Known(u) /\ users[u].org \in Orgs /\ Kept(users[u].org)
<1>1. u \in People /\ users[u].role = "owner"
  BY KnownPeople DEF Owner
<1>2. Known(u) /\ users[u].org \in Orgs
  BY <1>1, KnownPeople DEF User
<1>3. u \in Members(users[u].org)
  BY <1>1 DEF Members
<1> QED
  BY <1>1, <1>2, <1>3 DEF Kept

LEMMA OwnersRequestsKept ==
    ASSUME IInv, NEW r \in Requests, NEW u \in Ids,
           \/ \E email \in Emails, role \in Roles : InviteMember(r, u, email, role)
           \/ \E email \in Emails : WithdrawInvite(r, u, email)
           \/ \E v \in Ids : RemoveMember(r, u, v)
    PROVE  IInv'
<1>1. u \in People /\ Known(u) /\ users[u].org \in Orgs /\ Kept(users[u].org)
        /\ users[u].role = "owner"
  BY OwnersKept DEF InviteMember, WithdrawInvite, RemoveMember, Owner
<1>2. CASE \/ \E email \in Emails, role \in Roles : InviteMember(r, u, email, role)
           \/ \E email \in Emails : WithdrawInvite(r, u, email)
  <2>1. PICK f : \E email \in Emails, role \in Roles :
          /\ Begin(r, f)
          /\ \/ f = [Idle EXCEPT !.at = "revoking", !.kind = "invite", !.email = email,
                                 !.org = users[u].org, !.role = role]
             \/ f = [Idle EXCEPT !.at = "revoking", !.kind = "withdraw", !.email = email,
                                 !.org = users[u].org]
    BY <1>2 DEF InviteMember, WithdrawInvite, Roles
  <2>2. f \in Request /\ Fit(f) /\ Safe(f) /\ f.link = Nobody /\ f.at = "revoking"
    <3>1. ASSUME NEW email \in Emails, NEW role \in Roles,
                 f = [Idle EXCEPT !.at = "revoking", !.kind = "invite", !.email = email,
                                  !.org = users[u].org, !.role = role]
          PROVE  f \in Request /\ Fit(f) /\ Safe(f) /\ f.link = Nobody /\ f.at = "revoking"
      BY <1>1, <3>1, IdleIsRequest DEF Idle, Request, Fit, Safe, Steps, Kinds
    <3>2. ASSUME NEW email \in Emails,
                 f = [Idle EXCEPT !.at = "revoking", !.kind = "withdraw", !.email = email,
                                  !.org = users[u].org]
          PROVE  f \in Request /\ Fit(f) /\ Safe(f) /\ f.link = Nobody /\ f.at = "revoking"
      BY <1>1, <3>2, IdleIsRequest DEF Idle, Request, Fit, Safe, Steps, Kinds
    <3> QED
      BY <2>1, <3>1, <3>2
  <2>3. UNCHANGED <<tables, acted, crossed, chosen>> /\ choices' \in 0..MaxChanges
    BY <1>2 DEF InviteMember, WithdrawInvite, histories, IInv, Tables
  <2> QED
    BY <2>1, <2>2, <2>3, Arrives
<1>3. ASSUME NEW v \in Ids, RemoveMember(r, u, v) PROVE IInv'
  <2> DEFINE f == [Idle EXCEPT !.at = "removing", !.kind = "remove", !.user = v,
                               !.by = u, !.org = users[u].org]
  <2>1. v \in People /\ Known(v) /\ users[v].org = users[u].org /\ u # v
    BY <1>3, KnownPeople DEF RemoveMember, Members, NotYourself
  <2>2. f \in Request /\ f.link = Nobody /\ f.at = "removing"
    BY <1>1, <2>1, IdleIsRequest DEF Idle, Request, Steps, Kinds
  <2>3. Fit(f) /\ Safe(f)
    BY <1>1, <2>1, IdleIsRequest DEF Idle, Fit, Safe
  <2> HIDE DEF f
  <2>4. Begin(r, f) /\ UNCHANGED <<tables, acted, crossed, chosen>> /\ choices' \in 0..MaxChanges
    BY <1>3 DEF RemoveMember, f, histories, IInv, Tables
  <2> QED
    BY <2>2, <2>3, <2>4, Arrives
<1> QED
  BY <1>2, <1>3

----------------------------------------------------------------------------
(* What no request does: time, and signing out.                            *)

LEMMA OutsideKept ==
    ASSUME IInv, Tables', LinksOwned', Current', Essential, acted' = acted, request' = request,
           \A l \in Links : links'[l] = Absent => links[l] = Absent,
           \A l \in Links : l \in Made' /\ ~links'[l].used => l \in Made /\ ~links[l].used
    PROVE  IInv'
<1>1. \A l \in Links : Once(l)'
  BY OnceStands
<1>2. \A s \in Requests : Fit(request[s])' /\ Safe(request[s])'
  BY EssentialKeeps DEF IInv
<1> QED
  BY <1>1, <1>2, EssentialKeeps DEF IInv

LEMMA LogoutKept == ASSUME IInv, NEW s \in sessions, Logout(s) PROVE IInv'
<1>1. Essential
  BY DEF Logout, Essential, People, histories
<1>2. Tables' /\ Current'
  BY DEF IInv, Tables, Current, Logout, histories, People, Known
<1>3. LinksOwned'
  BY DEF IInv, LinksOwned, Logout, histories, Made, Known, Kept, Members, People
<1> QED
  BY <1>1, <1>2, <1>3, OutsideKept DEF Logout, histories, Made

\* Links that age, expire or are revoked are what they were.
LEMMA LinksAlike ==
    ASSUME IInv, Essential, links' \in [Links -> Link \cup {Absent, Removed}],
           \A l \in Links \ Made : links'[l] = links[l],
           \A l \in Made : /\ links'[l] \in Link /\ links'[l].purpose = links[l].purpose
                           /\ links'[l].user = links[l].user /\ links'[l].org = links[l].org
                           /\ (links[l].used => links'[l].used)
    PROVE  /\ LinksOwned'
           /\ \A l \in Links : links'[l] = Absent <=> links[l] = Absent
           /\ \A l \in Links : l \in Made' /\ ~links'[l].used => l \in Made /\ ~links[l].used
<1>1. \A l \in Links : l \in Made <=> l \in Made'
  BY Shapes DEF Made
<1>2. \A l \in Links : links'[l] = Absent <=> links[l] = Absent
  BY Shapes DEF Made
<1>3. LinksOwned'
  BY <1>1, EssentialKeeps DEF LinksOwned, IInv, Made
<1> QED
  BY <1>1, <1>2, <1>3

LEMMA TimeKept ==
    ASSUME IInv, Minutes \/ Midnight \/ \E l \in Links : LinkExpires(l)
    PROVE  IInv'
<1>0. /\ \A u \in People : users[u] \in User /\ u \in Ids
      /\ \A l \in Made : links[l] \in Link /\ l \in Links
      /\ users \in [Ids -> User \cup {Absent, Removed}]
      /\ links \in [Links -> Link \cup {Absent, Removed}]
  BY KnownPeople DEF IInv, Tables
<1>1. /\ Essential /\ users' \in [Ids -> User \cup {Absent, Removed}] /\ sessions' = sessions
  <2>1. CASE Minutes
    <3>1. \A u \in Ids : users'[u] = IF u \in People /\ Locked(u)
                               THEN [users[u] EXCEPT !.locked = @ - 1] ELSE users[u]
      BY <2>1 DEF Minutes
    <3>2. ASSUME NEW u \in People, Locked(u) PROVE [users[u] EXCEPT !.locked = @ - 1] \in User
      <4>1. users[u].locked - 1 \in 0..LockTicks
        BY <1>0, <3>2, BoundsAssumption DEF Locked, User
      <4> QED
        BY <1>0, <4>1 DEF User
    <3>3. users' \in [Ids -> User \cup {Absent, Removed}]
      BY <1>0, <2>1, <3>1, <3>2 DEF Minutes
    <3>4. \A u \in Ids : (u \in People' <=> u \in People) /\ (users'[u] = Absent <=> users[u] = Absent)
      BY <1>0, <3>1, <3>2, Shapes DEF People
    <3>5. \A u \in People : /\ users'[u].org = users[u].org /\ users'[u].role = users[u].role
                            /\ users'[u].password = users[u].password
      BY <1>0, <3>1 DEF User
    <3> QED
      BY <2>1, <3>3, <3>4, <3>5 DEF Minutes, Essential, histories
  <2>2. CASE Midnight \/ \E l \in Links : LinkExpires(l)
    BY <1>0, <2>2 DEF Midnight, LinkExpires, Essential, histories, People
  <2> QED
    BY <2>1, <2>2
<1>2. PICK age \in [Links -> Ages], expired \in [Links -> BOOLEAN] :
        \A l \in Links : links'[l] = IF l \in Made
                THEN [links[l] EXCEPT !.age = age[l], !.expired = expired[l]] ELSE links[l]
  <2>1. CASE Minutes
    <3> DEFINE a == [l \in Links |-> IF l \in Made /\ links[l].age # "soon" THEN links[l].age
                                     ELSE "today"]
               e == [l \in Links |-> IF l \in Made THEN links[l].expired ELSE FALSE]
    <3>1. a \in [Links -> Ages] /\ e \in [Links -> BOOLEAN]
      BY <1>0 DEF Link, Ages
    <3>2. \A l \in Links : links'[l] = IF l \in Made
                THEN [links[l] EXCEPT !.age = a[l], !.expired = e[l]] ELSE links[l]
      BY <1>0, <2>1 DEF Minutes, Link
    <3> QED
      BY <3>1, <3>2
  <2>2. CASE Midnight
    <3> DEFINE a == [l \in Links |-> IF l \in Made /\ links[l].age # "today" THEN links[l].age
                                     ELSE "older"]
               e == [l \in Links |-> IF l \in Made THEN links[l].expired ELSE FALSE]
    <3>1. a \in [Links -> Ages] /\ e \in [Links -> BOOLEAN]
      BY <1>0 DEF Link, Ages
    <3>2. \A l \in Links : links'[l] = IF l \in Made
                THEN [links[l] EXCEPT !.age = a[l], !.expired = e[l]] ELSE links[l]
      BY <1>0, <2>2 DEF Midnight, Link
    <3> QED
      BY <3>1, <3>2
  <2>3. ASSUME NEW k \in Links, LinkExpires(k)
        PROVE  \E a \in [Links -> Ages], e \in [Links -> BOOLEAN] :
                  \A l \in Links : links'[l] = IF l \in Made
                     THEN [links[l] EXCEPT !.age = a[l], !.expired = e[l]] ELSE links[l]
    <3> DEFINE a == [l \in Links |-> IF l \in Made THEN links[l].age ELSE "older"]
               e == [l \in Links |-> IF l = k THEN TRUE
                                     ELSE IF l \in Made THEN links[l].expired ELSE FALSE]
    <3>1. a \in [Links -> Ages] /\ e \in [Links -> BOOLEAN]
      BY <1>0 DEF Link, Ages
    <3>2. \A l \in Links : links'[l] = IF l \in Made
                THEN [links[l] EXCEPT !.age = a[l], !.expired = e[l]] ELSE links[l]
      BY <1>0, <2>3 DEF LinkExpires, Link
    <3> QED
      BY <3>1, <3>2
  <2> QED
    BY <2>1, <2>2, <2>3
<1>3. /\ \A l \in Links \ Made : links'[l] = links[l]
      /\ \A l \in Made : /\ links'[l] \in Link /\ links'[l].purpose = links[l].purpose
                         /\ links'[l].user = links[l].user /\ links'[l].org = links[l].org
                         /\ (links[l].used => links'[l].used)
  <2>1. ASSUME NEW l \in Made
        PROVE  /\ links'[l] \in Link /\ links'[l].purpose = links[l].purpose
               /\ links'[l].user = links[l].user /\ links'[l].org = links[l].org
               /\ links'[l].used = links[l].used
    <3>1. links'[l] = [links[l] EXCEPT !.age = age[l], !.expired = expired[l]]
      BY <1>0, <1>2
    <3>2. links[l] \in Link /\ age[l] \in Ages /\ expired[l] \in BOOLEAN
      BY <1>0
    <3> QED
      BY <3>1, <3>2 DEF Link
  <2> QED
    BY <1>2, <2>1
<1>4. links' \in [Links -> Link \cup {Absent, Removed}]
  <2>1. DOMAIN links' = Links /\ links' = [l \in Links |-> links'[l]]
    BY <1>0 DEF Minutes, Midnight, LinkExpires
  <2> QED
    BY <1>0, <1>3, <2>1
<1>5. Tables'
  BY <1>1, <1>4 DEF Minutes, Midnight, LinkExpires, IInv, Tables, histories
<1>6. Current'
  <2>1. \A u \in Ids : /\ u \in People' <=> u \in People
                       /\ u \in People => users'[u].password = users[u].password
                       /\ Known(u) => Known(u)'
    BY <1>1, EssentialKeeps DEF Essential
  <2>2. ASSUME NEW s \in sessions
        PROVE  Known(s.user)' /\ (s.user \in People' /\ ~s.late => s.opened = users'[s.user].password)
    <3>1. s.user \in Ids /\ Known(s.user)
      BY DEF IInv, Current, Known
    <3> QED
      BY <2>1, <3>1 DEF IInv, Current
  <2> QED
    BY <1>1, <2>2 DEF Current
<1>7. request' = request /\ acted' = acted
  BY DEF Minutes, Midnight, LinkExpires, histories
<1> QED
  BY <1>1, <1>3, <1>4, <1>5, <1>6, <1>7, LinksAlike, OutsideKept

----------------------------------------------------------------------------
(* What requests write.                                                    *)

\* An account whose lockout or address is written.
LEMMA UserAlike ==
    ASSUME IInv, crossed' = crossed, sessions' = sessions, links' = links, NEW u,
           \/ users' = users
           \/ u \in People /\ \E row \in User :
                 /\ users' = [users EXCEPT ![u] = row]
                 /\ row.org = users[u].org /\ row.role = users[u].role
                 /\ row.password = users[u].password
    PROVE  /\ Essential /\ Current' /\ LinksOwned'
           /\ users' \in [Ids -> User \cup {Absent, Removed}]
           /\ \A l \in Links : l \in Made' <=> l \in Made
<1>1. users \in [Ids -> User \cup {Absent, Removed}] /\ \A v \in People : v \in Ids /\ users[v] \in User
  BY KnownPeople DEF IInv, Tables
<1>2. Essential /\ users' \in [Ids -> User \cup {Absent, Removed}]
  <2>1. CASE users' = users
    BY <1>1, <2>1 DEF Essential, People
  <2>2. CASE u \in People /\ \E row \in User :
                 /\ users' = [users EXCEPT ![u] = row]
                 /\ row.org = users[u].org /\ row.role = users[u].role
                 /\ row.password = users[u].password
    BY <1>1, <2>2, Shapes DEF Essential, People
  <2> QED
    BY <2>1, <2>2
<1>3. Current'
  <2>1. \A v \in Ids : /\ v \in People' <=> v \in People
                       /\ v \in People => users'[v].password = users[v].password
                       /\ Known(v) => Known(v)'
    BY <1>2, EssentialKeeps DEF Essential
  <2>2. ASSUME NEW s \in sessions
        PROVE  Known(s.user)' /\ (s.user \in People' /\ ~s.late => s.opened = users'[s.user].password)
    <3>1. s.user \in Ids /\ Known(s.user)
      BY DEF IInv, Current, Known
    <3> QED
      BY <2>1, <3>1 DEF IInv, Current
  <2> QED
    BY <2>2 DEF Current
<1>4. LinksOwned'
  BY <1>2, EssentialKeeps DEF LinksOwned, IInv, Made
<1> QED
  BY <1>2, <1>3, <1>4 DEF Made

\* What a request goes on to is what it was, at another step.
LEMMA GoesTo ==
    ASSUME IInv, NEW r \in Requests, NEW at \in Steps, Goto(r, at)
    PROVE  /\ request' = [request EXCEPT ![r] =
                             IF at = "idle" THEN Idle ELSE [request[r] EXCEPT !.at = at]]
           /\ arrived' = arrived
           /\ at # "idle" => [request[r] EXCEPT !.at = at] \in Request
  BY DEF Goto, IInv, Request

LEMMA LoginRow ==
    ASSUME IInv, NEW u \in People, NEW n \in 0..MaxFailures, NEW k \in 0..LockTicks,
           users' = [users EXCEPT ![u] = [users[u] EXCEPT !.failures = n, !.locked = k]]
    PROVE  \E row \in User :
            /\ users' = [users EXCEPT ![u] = row]
            /\ row.org = users[u].org /\ row.role = users[u].role
            /\ row.password = users[u].password
<1> DEFINE row == [users[u] EXCEPT !.failures = n, !.locked = k]
<1>1. users[u] \in User
  BY KnownPeople
<1>2. /\ row \in User /\ row.org = users[u].org /\ row.role = users[u].role
      /\ row.password = users[u].password
  BY <1>1 DEF User
<1>3. users' = [users EXCEPT ![u] = row]
  OBVIOUS
<1> HIDE DEF row
<1> QED
  BY <1>2, <1>3

LEMMA RecordLoginKept == ASSUME IInv, NEW r \in Requests, RecordLogin(r) PROVE IInv'
<1> DEFINE q == request[r]
           u == q.user
<1>0. /\ q \in Request /\ Fit(q) /\ q.at = "counting" /\ q.kind = "login" /\ Known(u)
      /\ \A v \in People : users[v] \in User /\ v \in Ids
      /\ users \in [Ids -> User \cup {Absent, Removed}]
  BY KnownPeople DEF IInv, RecordLogin, Fit, Tables
<1>1. PICK at \in {"locking", "rehashing", "entering"} : Goto(r, at)
  BY DEF RecordLogin
<1>2. \/ users' = users
      \/ u \in People /\ \E n \in 0..MaxFailures, k \in 0..LockTicks :
            users' = [users EXCEPT ![u] = [users[u] EXCEPT !.failures = n, !.locked = k]]
  <2>1. 0 \in 0..MaxFailures /\ 0 \in 0..LockTicks
    BY BoundsAssumption
  <2>2. CASE u \in People /\ q.ok
    BY <2>1, <2>2 DEF RecordLogin
  <2>3. CASE u \in People /\ ~q.ok
    <3> DEFINE n == IF users[u].failures < MaxFailures THEN users[u].failures + 1
                    ELSE users[u].failures
    <3>1. users[u] \in User
      BY <1>0, <2>3
    <3>2. n \in 0..MaxFailures /\ users[u].locked \in 0..LockTicks
      BY <3>1, BoundsAssumption DEF User
    <3>3. users' = [users EXCEPT ![u] = [users[u] EXCEPT !.failures = n]]
      BY <2>3 DEF RecordLogin
    <3>4. [users[u] EXCEPT !.failures = n] = [users[u] EXCEPT !.failures = n, !.locked = users[u].locked]
      BY <3>1 DEF User
    <3> HIDE DEF n
    <3> QED
      BY <2>3, <3>2, <3>3, <3>4
  <2>4. CASE u \notin People
    BY <2>4 DEF RecordLogin
  <2> QED
    BY <2>2, <2>3, <2>4
<1>3. UNCHANGED <<orgs, links, sessions, made, choices, chosen, acted, crossed>>
  BY DEF RecordLogin, histories
<1>4. [q EXCEPT !.at = at] \in Request /\ request' = [request EXCEPT ![r] = [q EXCEPT !.at = at]]
        /\ arrived' = arrived
  <2>1. at \in Steps /\ at # "idle"
    BY DEF Steps
  <2> QED
    BY <1>1, <2>1, GoesTo
<1> DEFINE f == [q EXCEPT !.at = at]
<1>5. Fit(f) /\ Safe(f) /\ f.link = q.link
  BY <1>0 DEF Request, Fit, Safe
<1>6. \A l \in Links : ~Due(f, l)
  BY <1>0 DEF Due, Request
<1>7. \/ users' = users
      \/ u \in People /\ \E row \in User :
            /\ users' = [users EXCEPT ![u] = row]
            /\ row.org = users[u].org /\ row.role = users[u].role
            /\ row.password = users[u].password
  BY <1>2, LoginRow
<1>8. /\ Essential /\ Current' /\ LinksOwned'
      /\ users' \in [Ids -> User \cup {Absent, Removed}]
      /\ \A l \in Links : l \in Made' <=> l \in Made
  BY <1>3, <1>7, UserAlike
<1>9. Tables'
  BY <1>3, <1>4, <1>8 DEF IInv, Tables
<1> HIDE DEF f
<1> QED
  BY <1>3, <1>4, <1>5, <1>6, <1>8, <1>9, Goes DEF f

LEMMA LockAccountKept == ASSUME IInv, NEW r \in Requests, LockAccount(r) PROVE IInv'
<1> DEFINE u == request[r].user
<1>0. \A v \in People : users[v] \in User /\ v \in Ids
  BY KnownPeople
<1>1. request' = [request EXCEPT ![r] = Idle] /\ arrived' = arrived
  BY DEF LockAccount, Goto
<1>2. UNCHANGED <<orgs, links, sessions, made, choices, chosen, acted, crossed>>
  BY DEF LockAccount, histories
<1>3. \/ users' = users
      \/ u \in People /\ \E row \in User :
            /\ users' = [users EXCEPT ![u] = row]
            /\ row.org = users[u].org /\ row.role = users[u].role
            /\ row.password = users[u].password
  <2>1. 0 \in 0..MaxFailures /\ LockTicks \in 0..LockTicks
    BY BoundsAssumption
  <2>2. CASE u \in People /\ users[u].failures >= MaxFailures
    <3>1. users' = [users EXCEPT ![u] = [users[u] EXCEPT !.failures = 0, !.locked = LockTicks]]
      BY <2>2 DEF LockAccount
    <3> QED
      BY <2>1, <2>2, <3>1, LoginRow
  <2>3. CASE ~(u \in People /\ users[u].failures >= MaxFailures)
    BY <2>3 DEF LockAccount
  <2> QED
    BY <2>2, <2>3
<1>4. /\ Essential /\ Current' /\ LinksOwned'
      /\ users' \in [Ids -> User \cup {Absent, Removed}]
      /\ \A l \in Links : l \in Made' <=> l \in Made
  BY <1>2, <1>3, UserAlike
<1>5. Tables'
  BY <1>1, <1>2, <1>4 DEF IInv, Tables
<1> QED
  BY <1>1, <1>2, <1>4, <1>5, IdleIsRequest, Goes

\* Setting a password ends the sessions of the account.
LEMMA PasswordSet ==
    ASSUME IInv, NEW u \in Ids, NEW password \in Passwords, WritePassword(u, password),
           crossed' = crossed, links' = links
    PROVE  /\ users' \in [Ids -> User \cup {Absent, Removed}] /\ sessions' \in SUBSET Session
           /\ Current' /\ LinksOwned' /\ Everybody'
           /\ \A q \in Request : Fit(q) => Fit(q)'
           /\ \A q \in Request : Fit(q) /\ Safe(q) => Safe(q)'
<1>1. /\ users \in [Ids -> User \cup {Absent, Removed}] /\ sessions \in SUBSET Session
      /\ \A v \in People : v \in Ids /\ users[v] \in User
  BY KnownPeople DEF IInv, Tables
<1> DEFINE row == [users[u] EXCEPT !.password = password, !.outdated = FALSE]
<1>2. u \in People => row \in User /\ row.org = users[u].org /\ row.role = users[u].role
  BY <1>1 DEF User
<1>3. users' = IF u \in People THEN [users EXCEPT ![u] = row] ELSE users
  BY DEF WritePassword
<1> HIDE DEF row
<1>4. /\ users' \in [Ids -> User \cup {Absent, Removed}]
      /\ \A v \in Ids : (v \in People' <=> v \in People) /\ (users'[v] = Absent <=> users[v] = Absent)
      /\ \A v \in People : users'[v].org = users[v].org /\ users'[v].role = users[v].role
      /\ \A v \in Ids \ {u} : users'[v] = users[v]
  BY <1>1, <1>2, <1>3, Shapes DEF People
<1>5. sessions' \in SUBSET sessions /\ \A s \in sessions' : s.user # u
  BY DEF WritePassword, SessionsWithout
<1>6. /\ \A v : Known(v) <=> Known(v)'
      /\ \A v : v \in People <=> v \in People'
  BY <1>4 DEF Known, People
<1>7. Current'
  <2>1. ASSUME NEW s \in sessions'
        PROVE  Known(s.user)' /\ (s.user \in People' /\ ~s.late => s.opened = users'[s.user].password)
    <3>1. s \in sessions /\ s.user \in Ids /\ Known(s.user) /\ s.user # u
      BY <1>5 DEF IInv, Current, Known
    <3> QED
      BY <1>4, <1>6, <3>1 DEF IInv, Current
  <2> QED
    BY <2>1 DEF Current
<1>8. \A o : Kept(o) <=> Kept(o)'
  BY <1>4, <1>6 DEF Kept, Members, People
<1>9. LinksOwned' /\ Everybody'
  BY <1>4, <1>6, <1>8 DEF LinksOwned, Everybody, IInv, Made, Members, People
<1>10. \A q \in Request : Fit(q) => Fit(q)'
  BY <1>6 DEF Fit
<1>11. \A q \in Request : Safe(q) => Safe(q)'
  BY <1>4, <1>6, <1>8 DEF Safe
<1> QED
  BY <1>1, <1>4, <1>5, <1>7, <1>9, <1>10, <1>11

LEMMA RehashKept == ASSUME IInv, NEW r \in Requests, Rehash(r) PROVE IInv'
<1> DEFINE q == request[r]
           f == [q EXCEPT !.at = "entering"]
<1>0. q \in Request /\ Fit(q) /\ q.at = "rehashing" /\ q.kind = "login" /\ Known(q.user)
        /\ q.user \in Ids
  BY DEF IInv, Rehash, Fit, Known
<1>1. request' = [request EXCEPT ![r] = f] /\ arrived' = arrived /\ f \in Request
  BY GoesTo DEF Rehash, Steps
<1>2. UNCHANGED <<orgs, links, made, choices, chosen, acted, crossed>>
        /\ WritePassword(q.user, q.password) /\ q.password \in Passwords
  BY <1>0 DEF Rehash, histories, Request
<1>3. /\ users' \in [Ids -> User \cup {Absent, Removed}] /\ sessions' \in SUBSET Session
      /\ Current' /\ LinksOwned' /\ Everybody'
      /\ \A x \in Request : Fit(x) => Fit(x)'
      /\ \A x \in Request : Fit(x) /\ Safe(x) => Safe(x)'
  BY <1>0, <1>2, PasswordSet
<1>4. Fit(f) /\ Safe(f) /\ f.link = q.link /\ \A l \in Links : ~Due(f, l)
  BY <1>0 DEF Request, Fit, Safe, Due
<1>5. request' \in [Requests -> Request] /\ request'[r] = f
        /\ \A s \in Requests \ {r} : request'[s] = request[s]
  BY <1>1 DEF IInv
<1> HIDE DEF f
<1>6. \A s \in Requests : Fit(request[s])' /\ Safe(request[s])'
  BY <1>1, <1>3, <1>4, <1>5 DEF IInv
<1>7. \A l \in Links : Once(l)'
  BY <1>2, <1>4, <1>5, OnceStands DEF Made
<1>8. Tables'
  BY <1>1, <1>2, <1>3 DEF IInv, Tables
<1> QED
  BY <1>3, <1>5, <1>6, <1>7, <1>8 DEF IInv

(* A link that does what it is for, by the request that used it. *)
LEMMA OnceDone ==
    ASSUME IInv, NEW r \in Requests, NEW l \in Links, Due(request[r], l),
           acted' = [acted EXCEPT ![l] = @ + 1], links' = links, NEW f \in Request,
           request' = [request EXCEPT ![r] = f], f.link \in {Nobody, request[r].link},
           \A k \in Links : ~Due(f, k)
    PROVE  (\A k \in Links : Once(k)') /\ acted' \in [Links -> Nat]
<1>1. /\ request'[r] = f /\ \A s \in Requests \ {r} : request'[s] = request[s]
      /\ acted \in [Links -> Nat] /\ \A k \in Links : Once(k)
  BY DEF IInv, Tables
<1>2. acted[l] = 0 /\ acted'[l] = 1 /\ (\A k \in Links \ {l} : acted'[k] = acted[k])
        /\ acted' \in [Links -> Nat]
  BY <1>1 DEF Once
<1>3. ASSUME NEW k \in Links PROVE Once(k)'
  <2>1. Once(k) /\ Nobody # k
    BY <1>1, IdsAssumption
  <2>2. \A s \in Requests : Due(request'[s], k) => s # r /\ Due(request[s], k)
    BY <1>1
  <2>3. CASE k = l
    <3>1. links[l] # Absent /\ ~(l \in Made /\ ~links[l].used)
      BY <2>1, <2>3 DEF Once, Due
    <3>2. \A s \in Requests : ~Due(request'[s], l)
      BY <2>1, <2>2, <2>3 DEF Once
    <3> QED
      BY <1>2, <2>3, <3>1, <3>2 DEF Once, Made
  <2>4. CASE k # l
    <3>1. links[k] = Absent => \A s \in Requests : request'[s].link # k
      BY <1>1, <2>1 DEF Once
    <3>2. acted'[k] = acted[k] /\ links' = links
      BY <1>2, <2>4
    <3> QED
      BY <2>1, <2>2, <3>1, <3>2 DEF Once, Made
  <2> QED
    BY <2>3, <2>4
<1> QED
  BY <1>2, <1>3

LEMMA SetPasswordKept == ASSUME IInv, NEW r \in Requests, SetPassword(r) PROVE IInv'
<1> DEFINE q == request[r]
<1>0. q \in Request /\ Fit(q) /\ q.at = "setting" /\ Known(q.user) /\ q.user \in Ids
        /\ q.kind \in {"change", "reset"} /\ (q.kind = "reset" <=> q.link \in Links)
  BY DEF IInv, SetPassword, Fit, Known
<1>1. PICK f \in Request :
        /\ request' = [request EXCEPT ![r] = f] /\ arrived' = arrived
        /\ \/ q.kind = "change" /\ f = Idle
           \/ q.kind = "reset" /\ f = [q EXCEPT !.at = "confirming"]
  BY <1>0, GoesTo, IdleIsRequest DEF SetPassword, Steps
<1>2. /\ UNCHANGED <<orgs, links, made, choices, crossed>>
      /\ WritePassword(q.user, q.password) /\ q.password \in Passwords
      /\ chosen' = [chosen EXCEPT ![q.user] = q.password]
      /\ acted' = IF q.link = Nobody THEN acted ELSE [acted EXCEPT ![q.link] = @ + 1]
  BY <1>0 DEF SetPassword, Request
<1>3. /\ users' \in [Ids -> User \cup {Absent, Removed}] /\ sessions' \in SUBSET Session
      /\ Current' /\ LinksOwned' /\ Everybody'
      /\ \A x \in Request : Fit(x) => Fit(x)'
      /\ \A x \in Request : Fit(x) /\ Safe(x) => Safe(x)'
  BY <1>0, <1>2, PasswordSet
<1>4. Fit(f) /\ Safe(f) /\ f.link \in {Nobody, q.link} /\ \A l \in Links : ~Due(f, l)
  <2>1. CASE f = Idle
    BY <2>1, IdleIsRequest
  <2>2. CASE q.kind = "reset" /\ f = [q EXCEPT !.at = "confirming"]
    BY <1>0, <2>2 DEF Request, Fit, Safe, Due
  <2> QED
    BY <1>1, <2>1, <2>2
<1>5. request' \in [Requests -> Request] /\ request'[r] = f
        /\ \A s \in Requests \ {r} : request'[s] = request[s]
  BY <1>1 DEF IInv
<1>6. \A s \in Requests : Fit(request[s])' /\ Safe(request[s])'
  BY <1>3, <1>4, <1>5 DEF IInv
<1>7. (\A l \in Links : Once(l)') /\ acted' \in [Links -> Nat]
  <2>1. CASE q.kind = "reset"
    <3>1. q.link \in Links /\ q.link # Nobody /\ Due(q, q.link)
      BY <1>0, <2>1, IdsAssumption DEF Due
    <3> QED
      BY <1>1, <1>2, <1>4, <3>1, OnceDone
  <2>2. CASE q.kind = "change"
    <3>1. acted' = acted
      BY <1>0, <1>2, <2>2 DEF Request
    <3> QED
      BY <1>2, <1>4, <1>5, <3>1, OnceStands DEF Made, IInv, Tables
  <2> QED
    BY <1>0, <2>1, <2>2
<1>8. Tables'
  BY <1>0, <1>1, <1>2, <1>3, <1>7 DEF IInv, Tables
<1> QED
  BY <1>3, <1>5, <1>6, <1>7, <1>8 DEF IInv

LEMMA UseLinkKept == ASSUME IInv, NEW r \in Requests, UseLink(r) PROVE IInv'
<1> DEFINE q == request[r]
           l == q.link
<1>0. /\ q \in Request /\ Fit(q) /\ Safe(q) /\ q.at = "using" /\ l \in Links
      /\ q.kind \in {"verify", "reset", "join"} /\ Once(l)
      /\ links \in [Links -> Link \cup {Absent, Removed}]
  BY DEF IInv, UseLink, Fit, Tables
<1>1. UNCHANGED <<users, orgs, sessions, made, choices, chosen, acted, crossed>>
  BY DEF UseLink, histories
<1>2. CASE ~Unused(l)
  <2>1. request' = [request EXCEPT ![r] = Idle] /\ arrived' = arrived /\ links' = links
    BY <1>2 DEF UseLink, Goto
  <2> QED
    BY <1>1, <2>1, IdleIsRequest, ReadsOnly DEF tables, IInv, Tables
<1>3. CASE Unused(l)
  <2>1. PICK at \in {"setting", "confirming", "creating"} :
          /\ Goto(r, at)
          /\ q.kind = "reset" => at = "setting"
          /\ q.kind = "verify" => at = "confirming"
          /\ q.kind = "join" => at = "creating"
    BY <1>0, <1>3 DEF UseLink
  <2> DEFINE f == [q EXCEPT !.at = at]
  <2>2. request' = [request EXCEPT ![r] = f] /\ arrived' = arrived /\ f \in Request
    BY <2>1, GoesTo DEF Steps
  <2>3. Fit(f) /\ Safe(f) /\ f.link = l /\ f.kind = q.kind /\ f.at = at
    BY <1>0, <2>1 DEF Request, Fit, Safe
  <2> HIDE DEF f
  <2>4. links' = [links EXCEPT ![l].used = TRUE] /\ l \in Made /\ ~links[l].used /\ links[l] \in Link
    BY <1>3, KnownPeople DEF UseLink, Unused
  <2>5. /\ links' \in [Links -> Link \cup {Absent, Removed}] /\ links'[l] \in Link /\ links'[l].used
        /\ \A k \in Links \ {l} : links'[k] = links[k]
        /\ links'[l].purpose = links[l].purpose
        /\ links'[l].user = links[l].user /\ links'[l].org = links[l].org
    BY <1>0, <2>4 DEF Link
  <2>6. Essential
    BY <1>1 DEF Essential, People
  <2>7. /\ LinksOwned'
        /\ \A k \in Links : links'[k] = Absent <=> links[k] = Absent
        /\ \A k \in Links : k \in Made' /\ ~links'[k].used => k \in Made /\ ~links[k].used
    <3>1. \A k \in Made : links[k] \in Link /\ k \in Links
      BY KnownPeople
    <3>2. \A k \in Links \ Made : links'[k] = links[k]
      BY <2>4, <2>5
    <3>3. ASSUME NEW k \in Made
          PROVE  /\ links'[k] \in Link /\ links'[k].purpose = links[k].purpose
                 /\ links'[k].user = links[k].user /\ links'[k].org = links[k].org
                 /\ (links[k].used => links'[k].used)
      BY <2>5, <3>1
    <3> QED
      BY <2>5, <2>6, <3>2, <3>3, LinksAlike
  <2>8. request' \in [Requests -> Request] /\ request'[r] = f
          /\ \A s \in Requests \ {r} : request'[s] = request[s]
    BY <2>2 DEF IInv
  <2>9. ASSUME NEW k \in Links PROVE Once(k)'
    <3>1. Once(k) /\ acted' = acted
      BY <1>1 DEF IInv
    <3>2. k # l => \A s \in Requests : Due(request'[s], k) => Due(request[s], k)
      BY <2>3, <2>8 DEF Due
    <3>3. k = l => acted[k] = 0 /\ \A s \in Requests : Due(request'[s], k) => s = r
      BY <1>0, <2>4, <2>8 DEF Once
    <3>4. \A s \in Requests : request'[s].link = request[s].link
      BY <2>3, <2>8
    <3>5. CASE k = l
      <4>1. links'[k] # Absent /\ ~(k \in Made' /\ ~links'[k].used)
        BY <2>5, <3>5, Shapes
      <4> QED
        BY <3>1, <3>3, <3>5, <4>1 DEF Once
    <3>6. CASE k # l
      <4>1. links'[k] = links[k] /\ (k \in Made' <=> k \in Made)
        BY <2>5, <3>6 DEF Made
      <4> QED
        BY <3>1, <3>2, <3>4, <3>6, <4>1 DEF Once
    <3> QED
      BY <3>5, <3>6
  <2>10. Tables'
    BY <1>1, <2>2, <2>5 DEF IInv, Tables
  <2>11. Current' /\ Everybody'
    BY <1>1, <2>6, EssentialKeeps DEF IInv, Current, Known, People
  <2>12. \A s \in Requests : Fit(request[s])' /\ Safe(request[s])'
    BY <2>2, <2>3, <2>6, <2>8, EssentialKeeps DEF IInv
  <2> QED
    BY <2>7, <2>8, <2>9, <2>10, <2>11, <2>12 DEF IInv
<1> QED
  BY <1>2, <1>3

LEMMA ConfirmAddressKept == ASSUME IInv, NEW r \in Requests, ConfirmAddress(r) PROVE IInv'
<1> DEFINE q == request[r]
           u == q.user
<1>0. /\ q \in Request /\ Fit(q) /\ q.at = "confirming" /\ Known(u) /\ q.link \in Links
      /\ q.kind \in {"reset", "verify"} /\ q.link # Nobody
  BY IdsAssumption DEF IInv, ConfirmAddress, Fit
<1>1. PICK f \in Request :
        /\ request' = [request EXCEPT ![r] = f] /\ arrived' = arrived
        /\ \/ q.kind = "verify" /\ f = Idle
           \/ q.kind = "reset" /\ f = [q EXCEPT !.at = "entering"]
  BY <1>0, GoesTo, IdleIsRequest DEF ConfirmAddress, Steps
<1>2. UNCHANGED <<orgs, links, sessions, made, choices, chosen, crossed>>
        /\ acted' = IF q.kind = "reset" THEN acted ELSE [acted EXCEPT ![q.link] = @ + 1]
  BY DEF ConfirmAddress
<1>3. \/ users' = users
      \/ u \in People /\ \E row \in User :
            /\ users' = [users EXCEPT ![u] = row]
            /\ row.org = users[u].org /\ row.role = users[u].role
            /\ row.password = users[u].password
  <2>1. CASE u \in People /\ q.kind = "reset"
    <3> DEFINE row == [users[u] EXCEPT !.verified = TRUE, !.failures = 0, !.locked = 0]
    <3>1. users[u] \in User /\ 0 \in 0..MaxFailures /\ 0 \in 0..LockTicks
      BY <2>1, KnownPeople, BoundsAssumption
    <3>2. row \in User /\ row.org = users[u].org /\ row.role = users[u].role
            /\ row.password = users[u].password
      BY <3>1 DEF User
    <3>3. users' = [users EXCEPT ![u] = row]
      BY <2>1 DEF ConfirmAddress
    <3> HIDE DEF row
    <3> QED
      BY <2>1, <3>2, <3>3
  <2>2. CASE u \in People /\ q.kind # "reset"
    <3> DEFINE row == [users[u] EXCEPT !.verified = TRUE]
    <3>1. users[u] \in User
      BY <2>2, KnownPeople
    <3>2. row \in User /\ row.org = users[u].org /\ row.role = users[u].role
            /\ row.password = users[u].password
      BY <3>1 DEF User
    <3>3. users' = [users EXCEPT ![u] = row]
      BY <2>2 DEF ConfirmAddress
    <3> HIDE DEF row
    <3> QED
      BY <2>2, <3>2, <3>3
  <2>3. CASE u \notin People
    BY <2>3 DEF ConfirmAddress
  <2> QED
    BY <2>1, <2>2, <2>3
<1>4. /\ Essential /\ Current' /\ LinksOwned'
      /\ users' \in [Ids -> User \cup {Absent, Removed}]
      /\ \A l \in Links : l \in Made' <=> l \in Made
  BY <1>2, <1>3, UserAlike
<1>5. Fit(f) /\ Safe(f) /\ f.link \in {Nobody, q.link} /\ \A l \in Links : ~Due(f, l)
  <2>1. CASE f = Idle
    BY <2>1, IdleIsRequest
  <2>2. CASE q.kind = "reset" /\ f = [q EXCEPT !.at = "entering"]
    BY <1>0, <2>2 DEF Request, Fit, Safe, Due
  <2> QED
    BY <1>1, <2>1, <2>2
<1>6. CASE q.kind = "reset"
  <2>1. Tables' /\ acted' = acted
    BY <1>1, <1>2, <1>4, <1>6 DEF IInv, Tables
  <2> QED
    BY <1>1, <1>2, <1>4, <1>5, <2>1, Goes
<1>7. CASE q.kind = "verify"
  <2>1. Due(q, q.link) /\ acted' = [acted EXCEPT ![q.link] = @ + 1]
    BY <1>0, <1>2, <1>7 DEF Due
  <2>2. (\A l \in Links : Once(l)') /\ acted' \in [Links -> Nat]
    BY <1>0, <1>1, <1>2, <1>5, <2>1, OnceDone
  <2>3. Tables'
    BY <1>1, <1>2, <1>4, <2>2 DEF IInv, Tables
  <2>4. request' \in [Requests -> Request] /\ request'[r] = f
          /\ \A s \in Requests \ {r} : request'[s] = request[s]
    BY <1>1 DEF IInv
  <2>5. \A s \in Requests : Fit(request[s])' /\ Safe(request[s])'
    BY <1>1, <1>4, <1>5, <2>4, EssentialKeeps DEF IInv
  <2> QED
    BY <1>4, <2>2, <2>3, <2>4, <2>5, EssentialKeeps DEF IInv
<1> QED
  BY <1>0, <1>6, <1>7

LEMMA StartSessionKept == ASSUME IInv, NEW r \in Requests, StartSession(r) PROVE IInv'
<1> DEFINE q == request[r]
           s == [user |-> q.user, opened |-> q.password,
                 late |-> q.user \in People /\ users[q.user].password # q.password]
<1>0. /\ q \in Request /\ Fit(q) /\ q.at = "entering" /\ Known(q.user) /\ q.user \in Ids
      /\ q.kind \in {"login", "reset", "signup", "join"}
  BY DEF IInv, StartSession, Fit, Known
<1>1. PICK f \in Request :
        /\ request' = [request EXCEPT ![r] = f] /\ arrived' = arrived
        /\ f = Idle \/ (q.kind = "signup" /\ f = [q EXCEPT !.at = "sending"])
  BY <1>0, GoesTo, IdleIsRequest DEF StartSession, Steps
<1>2. UNCHANGED <<users, orgs, links, made, choices, chosen, acted, crossed>>
        /\ sessions' = sessions \cup {s}
  BY DEF StartSession, histories
<1>3. s \in Session
  BY <1>0 DEF Session, Request
<1>4. Essential /\ LinksOwned'
  BY <1>2 DEF Essential, People, LinksOwned, IInv, Made, Known, Kept, Members
<1>5. Current'
  <2>1. s.user = q.user /\ (s.user \in People /\ ~s.late => s.opened = users[s.user].password)
    OBVIOUS
  <2>2. \A x \in sessions : Known(x.user) /\ (x.user \in People /\ ~x.late => x.opened = users[x.user].password)
    BY DEF IInv, Current
  <2> HIDE DEF s
  <2> QED
    BY <1>0, <1>2, <2>1, <2>2 DEF Current, Known, People
<1>6. Tables'
  BY <1>1, <1>2, <1>3 DEF IInv, Tables
<1>7. Fit(f) /\ Safe(f) /\ f.link \in {Nobody, q.link} /\ \A l \in Links : ~Due(f, l)
  <2>1. CASE f = Idle
    BY <2>1, IdleIsRequest
  <2>2. CASE q.kind = "signup" /\ f = [q EXCEPT !.at = "sending"]
    BY <1>0, <2>2 DEF Request, Fit, Safe, Due
  <2> QED
    BY <1>1, <2>1, <2>2
<1>8. \A l \in Links : l \in Made' <=> l \in Made
  BY <1>2 DEF Made
<1> QED
  BY <1>1, <1>2, <1>4, <1>5, <1>6, <1>7, <1>8, Goes

LEMMA RevokeInvitesKept == ASSUME IInv, NEW r \in Requests, RevokeInvites(r) PROVE IInv'
<1> DEFINE q == request[r]
           Open(l) == /\ l \in Made /\ links[l].purpose = "invite"
                      /\ links[l].org = q.org /\ links[l].email = q.email
<1>0. /\ q \in Request /\ Fit(q) /\ Safe(q) /\ q.at = "revoking"
      /\ q.kind \in {"invite", "withdraw"} /\ q.email \in Emails /\ q.org \in Orgs
  BY DEF IInv, RevokeInvites, Fit
<1>1. PICK f \in Request :
        /\ request' = [request EXCEPT ![r] = f] /\ arrived' = arrived
        /\ f = Idle \/ (q.kind = "invite" /\ f = [q EXCEPT !.at = "sending"])
  BY <1>0, GoesTo, IdleIsRequest DEF RevokeInvites, Steps
<1>2. UNCHANGED <<users, orgs, sessions, made, choices, chosen, acted, crossed>>
        /\ links' = [l \in Links |-> IF Open(l) THEN [links[l] EXCEPT !.used = TRUE] ELSE links[l]]
  BY DEF RevokeInvites, histories
<1>3. Essential
  BY <1>2 DEF Essential, People
<1>4. \A l \in Made : l \in Links /\ links[l] \in Link
  BY KnownPeople
<1>5. ASSUME NEW l \in Made
      PROVE  /\ links'[l] \in Link /\ links'[l].purpose = links[l].purpose
             /\ links'[l].user = links[l].user /\ links'[l].org = links[l].org
             /\ (links[l].used => links'[l].used)
  <2>1. l \in Links /\ links[l] \in Link
    BY <1>4
  <2>2. CASE Open(l)
    <3>1. links'[l] = [links[l] EXCEPT !.used = TRUE]
      BY <1>2, <2>1, <2>2
    <3> QED
      BY <2>1, <3>1 DEF Link
  <2>3. CASE ~Open(l)
    BY <1>2, <2>1, <2>3
  <2> QED
    BY <2>2, <2>3
<1>6. /\ \A l \in Links \ Made : links'[l] = links[l]
      /\ links' \in [Links -> Link \cup {Absent, Removed}]
  <2>1. \A l \in Links \ Made : links'[l] = links[l]
    BY <1>2
  <2>2. links \in [Links -> Link \cup {Absent, Removed}]
    BY DEF IInv, Tables
  <2> QED
    BY <1>2, <1>5, <2>1, <2>2
<1>7. /\ LinksOwned'
      /\ \A l \in Links : links'[l] = Absent <=> links[l] = Absent
      /\ \A l \in Links : l \in Made' /\ ~links'[l].used => l \in Made /\ ~links[l].used
  BY <1>3, <1>5, <1>6, LinksAlike
<1>8. Tables' /\ Current'
  BY <1>1, <1>2, <1>6 DEF IInv, Tables, Current, Known, People
<1>9. Fit(f) /\ Safe(f) /\ f.link \in {Nobody, q.link} /\ \A l \in Links : ~Due(f, l)
  <2>1. CASE f = Idle
    BY <2>1, IdleIsRequest
  <2>2. CASE q.kind = "invite" /\ f = [q EXCEPT !.at = "sending"]
    BY <1>0, <2>2 DEF Request, Fit, Safe, Due
  <2> QED
    BY <1>1, <2>1, <2>2
<1> QED
  BY <1>1, <1>2, <1>3, <1>7, <1>8, <1>9, Goes

LEMMA SendLinkKept == ASSUME IInv, NEW r \in Requests, SendLink(r) PROVE IInv'
<1> DEFINE q == request[r]
<1>0. /\ q \in Request /\ Fit(q) /\ Safe(q) /\ q.at = "sending"
      /\ q.kind \in {"verify", "reset", "signup", "invite"} /\ q.email \in Emails
      /\ links \in [Links -> Link \cup {Absent, Removed}]
  BY DEF IInv, SendLink, Fit, Tables
<1>1. PICK k \in Links : links[k] = Absent /\ links' = [links EXCEPT ![k] =
                 [purpose |-> PurposeOf(q.kind), email |-> q.email, user |-> q.user,
                  org |-> IF PurposeOf(q.kind) = "invite" THEN q.org ELSE Nobody, role |-> q.role,
                  used |-> FALSE, expired |-> FALSE, age |-> "soon"]]
  BY DEF SendLink
<1>2. PICK n : links' = [links EXCEPT ![k] = n] /\ n =
                 [purpose |-> PurposeOf(q.kind), email |-> q.email, user |-> q.user,
                  org |-> IF PurposeOf(q.kind) = "invite" THEN q.org ELSE Nobody, role |-> q.role,
                  used |-> FALSE, expired |-> FALSE, age |-> "soon"]
  BY <1>1
<1>3. n \in Link
  BY <1>0, <1>2 DEF Link, Request, PurposeOf, Ages
<1>4. /\ n.purpose # "invite" => Known(n.user)
      /\ n.purpose = "invite" => n.org \in Orgs /\ Kept(n.org)
  <2>1. CASE q.kind = "invite"
    <3>1. q.org \in Orgs /\ Kept(q.org)
      BY <1>0, <2>1 DEF Fit, Safe
    <3> QED
      BY <1>2, <2>1, <3>1 DEF PurposeOf
  <2>2. CASE q.kind # "invite"
    <3>1. Known(q.user)
      BY <1>0, <2>2 DEF Fit
    <3> QED
      BY <1>0, <1>2, <2>2, <3>1 DEF PurposeOf
  <2> QED
    BY <2>1, <2>2
<1>5. /\ links' \in [Links -> Link \cup {Absent, Removed}] /\ links'[k] = n
      /\ \A l \in Links \ {k} : links'[l] = links[l]
  BY <1>0, <1>2, <1>3
<1>6. UNCHANGED <<users, orgs, sessions, made, choices, chosen, acted, crossed>>
        /\ request' = [request EXCEPT ![r] = Idle] /\ arrived' = arrived
  BY DEF SendLink, Goto, histories
<1>7. Essential
  BY <1>6 DEF Essential, People
<1>8. LinksOwned'
  <2>1. \A o \in Orgs : Kept(o) => Kept(o)'
    BY <1>7, EssentialKeeps
  <2>2. \A u : Known(u) => Known(u)'
    BY <1>7, EssentialKeeps
  <2>3. ASSUME NEW l \in Made'
        PROVE  /\ links'[l].purpose # "invite" => Known(links[l].user)'
               /\ links'[l].purpose = "invite" => links'[l].org \in Orgs /\ Kept(links[l].org)'
    <3>1. l \in Links
      BY DEF Made
    <3>2. CASE l = k
      BY <1>4, <1>5, <2>1, <2>2, <3>2
    <3>3. CASE l # k
      <4>1. l \in Made /\ links'[l] = links[l]
        BY <1>5, <3>1, <3>3 DEF Made
      <4>2. /\ links[l].purpose # "invite" => Known(links[l].user)
            /\ links[l].purpose = "invite" => links[l].org \in Orgs /\ Kept(links[l].org)
        BY <4>1 DEF IInv, LinksOwned
      <4> QED
        BY <2>1, <2>2, <4>1, <4>2
    <3> QED
      BY <3>2, <3>3
  <2> QED
    BY <2>3 DEF LinksOwned
<1>9. /\ \A l \in Links : links'[l] = Absent => links[l] = Absent
      /\ \A l \in Links : l \in Made' /\ ~links'[l].used =>
               links[l] = Absent \/ (l \in Made /\ ~links[l].used)
  BY <1>1, <1>5 DEF Made
<1>10. Tables' /\ Current'
  BY <1>5, <1>6 DEF IInv, Tables, Current, Known, People
<1> QED
  BY <1>6, <1>7, <1>8, <1>9, <1>10, IdleIsRequest, Goes

LEMMA CreateUserKept == ASSUME IInv, NEW r \in Requests, CreateUser(r) PROVE IInv'
<1> DEFINE q == request[r]
<1>0. /\ q \in Request /\ Fit(q) /\ Safe(q) /\ q.at = "creating"
      /\ q.kind \in {"join", "signup"} /\ q.email \in Emails /\ q.org \in Orgs
      /\ (q.kind = "join" => q.link \in Links) /\ (q.kind = "signup" => q.role = "owner")
      /\ users \in [Ids -> User \cup {Absent, Removed}]
      /\ orgs \in [Orgs -> {"unmade", "site", "self"}] /\ made \in Nat
  BY DEF IInv, CreateUser, Fit, Tables
<1>a. UNCHANGED <<links, sessions, choices, chosen, crossed>>
  BY DEF CreateUser
<1>1. CASE HasAccount(q.email)
  <2>1. /\ request' = [request EXCEPT ![r] = Idle] /\ arrived' = arrived
        /\ UNCHANGED <<users, orgs, made, acted>>
    BY <1>1 DEF CreateUser, Goto
  <2> QED
    BY <1>a, <2>1, IdleIsRequest, ReadsOnly DEF tables, IInv, Tables
<1>2. CASE ~HasAccount(q.email)
  <2>1. PICK u \in Ids :
          /\ users[u] = Absent
          /\ users' = [users EXCEPT ![u] = NewUser(q.email, q.org, q.role, q.kind = "join", FALSE)]
          /\ orgs' = [orgs EXCEPT ![q.org] = IF @ # "unmade" THEN @
                                             ELSE IF q.ok THEN "self" ELSE "site"]
          /\ made' = made + 1
          /\ acted' = IF q.kind = "join" THEN [acted EXCEPT ![q.link] = @ + 1] ELSE acted
          /\ request' = [request EXCEPT ![r].at = "entering", ![r].user = u]
          /\ arrived' = arrived
    BY <1>2 DEF CreateUser
  <2>2. PICK n : n = NewUser(q.email, q.org, q.role, q.kind = "join", FALSE)
    OBVIOUS
  <2>3. n \in User /\ n.org = q.org /\ n.role = q.role
    <3>1. 0 \in Passwords /\ 0 \in 0..MaxFailures /\ 0 \in 0..LockTicks
      BY BoundsAssumption DEF Passwords
    <3> QED
      BY <1>0, <2>2, <3>1 DEF NewUser, User, Request
  <2>4. /\ users' \in [Ids -> User \cup {Absent, Removed}] /\ users'[u] = n
        /\ \A v \in Ids \ {u} : users'[v] = users[v]
    BY <1>0, <2>1, <2>2, <2>3
  <2>5. PICK f : f = [q EXCEPT !.at = "entering", !.user = u] /\ request' = [request EXCEPT ![r] = f]
    <3>1. request' = [request EXCEPT ![r] = [q EXCEPT !.at = "entering", !.user = u]]
      BY <2>1 DEF IInv
    <3> QED
      BY <3>1
  <2>6. f \in Request /\ f.link = q.link /\ f.at = "entering" /\ f.user = u /\ f.email = q.email
          /\ f.kind = q.kind /\ \A l \in Links : ~Due(f, l)
    BY <1>0, <2>5 DEF Request, Steps, Due
  <2>7. request' \in [Requests -> Request] /\ request'[r] = f
          /\ \A s \in Requests \ {r} : request'[s] = request[s]
    BY <2>5, <2>6 DEF IInv
  <2>8. /\ \A v : Known(v) => Known(v)' /\ v # u
        /\ u \in People' /\ Known(u)'
        /\ \A v : Known(v) => (v \in People' <=> v \in People) /\ users'[v] = users[v]
        /\ \A v \in People : v \in People' /\ users'[v] = users[v] /\ v # u
        /\ \A v \in People' : v = u \/ v \in People
    BY <2>1, <2>3, <2>4, Shapes DEF Known, People
  <2>9. \A o \in Orgs : Kept(o) => Kept(o)'
    BY <1>a, <2>8 DEF Kept, Members
  <2>0. PICK org \in Orgs : org = q.org
    BY <1>0
  <2>10. Kept(org)'
    <3>1. CASE q.kind = "join"
      BY <1>0, <2>0, <2>9, <3>1 DEF Safe
    <3>2. CASE q.kind = "signup"
      <4>1. u \in Members(org)' /\ users'[u].role = "owner"
        BY <1>0, <2>0, <2>3, <2>4, <2>8, <3>2 DEF Members
      <4> QED
        BY <4>1 DEF Kept
    <3> QED
      BY <1>0, <3>1, <3>2
  <2>11. Everybody'
    <3>1. ASSUME NEW o \in Orgs, Members(o)' # {}, o # org PROVE Kept(o)'
      <4>1. Members(o) # {}
        BY <2>0, <2>3, <2>4, <2>8, <3>1 DEF Members
      <4> QED
        BY <2>9, <4>1 DEF IInv, Everybody
    <3> QED
      BY <2>10, <3>1 DEF Everybody
  <2>12. LinksOwned'
    BY <1>a, <2>8, <2>9 DEF IInv, LinksOwned, Made
  <2>13. Current'
    BY <1>a, <2>8 DEF IInv, Current
  <2>14. (\A l \in Links : Once(l)') /\ acted' \in [Links -> Nat]
    <3>1. CASE q.kind = "join"
      <4>1. Due(q, q.link) /\ q.link \in Links
        BY <1>0, <3>1 DEF Due
      <4>2. acted' = [acted EXCEPT ![q.link] = @ + 1]
        BY <2>1, <3>1
      <4> QED
        BY <1>a, <2>5, <2>6, <4>1, <4>2, OnceDone
    <3>2. CASE q.kind = "signup"
      <4>1. acted' = acted
        BY <2>1, <3>2
      <4> QED
        BY <1>a, <2>6, <2>7, <4>1, OnceStands DEF Made, IInv, Tables
    <3> QED
      BY <1>0, <3>1, <3>2
  <2>15. Tables'
    <3>1. orgs' \in [Orgs -> {"unmade", "site", "self"}] /\ made' \in Nat
      BY <1>0, <2>1
    <3> QED
      BY <1>a, <2>1, <2>4, <2>14, <3>1 DEF IInv, Tables
  <2>16. ASSUME NEW x \in Request, Fit(x), Safe(x) PROVE Fit(x)' /\ Safe(x)'
    <3>1. Fit(x)'
      BY <2>8, <2>16 DEF Fit
    <3>2. Safe(x)'
      BY <2>8, <2>9, <2>16 DEF Safe, Fit
    <3> QED
      BY <3>1, <3>2
  <2>17. Fit(f)' /\ Safe(f)'
    BY <1>0, <2>6, <2>8 DEF Fit, Safe
  <2>18. \A s \in Requests : Fit(request[s])' /\ Safe(request[s])'
    BY <2>7, <2>16, <2>17 DEF IInv
  <2> QED
    BY <2>7, <2>11, <2>12, <2>13, <2>14, <2>15, <2>18 DEF IInv
<1> QED
  BY <1>1, <1>2

LEMMA RemoveUserKept == ASSUME IInv, NEW r \in Requests, RemoveUser(r) PROVE IInv'
<1> DEFINE q == request[r]
           u == q.user
<1>0. /\ q \in Request /\ Fit(q) /\ Safe(q) /\ q.at = "removing" /\ q.org \in Orgs
      /\ Known(u) /\ u \in Ids /\ Known(q.by) /\ q.by # u
      /\ (u \in People => users[u].org = q.org)
      /\ (q.by \in People => users[q.by].org = q.org /\ users[q.by].role = "owner")
      /\ users \in [Ids -> User \cup {Absent, Removed}]
      /\ links \in [Links -> Link \cup {Absent, Removed}]
  BY DEF IInv, RemoveUser, Fit, Safe, Tables, Known
<1>1. /\ users' = [users EXCEPT ![u] = Removed]
      /\ sessions' = {s \in sessions : s.user # u}
      /\ links' = [l \in Links |-> IF l \in Made /\ links[l].user = u THEN Removed ELSE links[l]]
      /\ crossed' = IF q.by \in People THEN crossed ELSE crossed \cup {q.org}
      /\ request' = [request EXCEPT ![r] = Idle] /\ arrived' = arrived
      /\ UNCHANGED <<orgs, made, choices, chosen, acted>>
  BY DEF RemoveUser, Goto, SessionsWithout
<1>2. /\ users' \in [Ids -> User \cup {Absent, Removed}] /\ users'[u] = Removed
      /\ \A v \in Ids \ {u} : users'[v] = users[v]
  BY <1>0, <1>1
<1>3. /\ \A v : Known(v) => Known(v)'
      /\ \A v : v \in People' <=> v \in People /\ v # u
      /\ \A v \in People' : users'[v] = users[v]
  BY <1>0, <1>2, Shapes DEF Known, People
<1>4. \A o \in Orgs : Kept(o) => Kept(o)'
  <2>1. ASSUME NEW o \in Orgs, Kept(o) PROVE Kept(o)'
    <3>1. CASE o \in crossed
      BY <1>1, <3>1 DEF Kept
    <3>2. ASSUME NEW v \in Members(o), users[v].role = "owner", v # u PROVE Kept(o)'
      BY <1>3, <3>2 DEF Kept, Members
    <3>3. ASSUME u \in Members(o) PROVE Kept(o)'
      <4>1. u \in People /\ o = q.org
        BY <1>0, <3>3 DEF Members
      <4>2. CASE q.by \in People
        BY <1>0, <1>3, <4>1, <4>2 DEF Kept, Members
      <4>3. CASE q.by \notin People
        BY <1>1, <4>1, <4>3 DEF Kept
      <4> QED
        BY <4>2, <4>3
    <3> QED
      BY <2>1, <3>1, <3>2, <3>3 DEF Kept
  <2> QED
    BY <2>1
<1>5. Everybody'
  <2>1. \A o \in Orgs : Members(o)' # {} => Members(o) # {}
    BY <1>3 DEF Members
  <2> QED
    BY <1>4, <2>1 DEF IInv, Everybody
<1>6. /\ links' \in [Links -> Link \cup {Absent, Removed}]
      /\ \A l \in Links : links'[l] = Absent => links[l] = Absent
      /\ \A l \in Made' : l \in Made /\ links'[l] = links[l]
  BY <1>0, <1>1, Shapes DEF Made
<1>7. LinksOwned'
  BY <1>3, <1>4, <1>6 DEF IInv, LinksOwned
<1>8. Current'
  BY <1>1, <1>3 DEF IInv, Current
<1>9. Tables'
  <2>1. crossed' \in SUBSET Orgs /\ sessions' \in SUBSET Session
    BY <1>0, <1>1 DEF IInv, Tables
  <2> QED
    BY <1>1, <1>2, <1>6, <2>1 DEF IInv, Tables
<1>10. request' \in [Requests -> Request] /\ request'[r] = Idle
        /\ \A s \in Requests \ {r} : request'[s] = request[s]
  BY <1>1, IdleIsRequest DEF IInv
<1>11. \A l \in Links : Once(l)'
  BY <1>1, <1>6, <1>10, IdleIsRequest, OnceStands
<1>12. ASSUME NEW x \in Request, Fit(x), Safe(x) PROVE Fit(x)' /\ Safe(x)'
  <2>1. Fit(x)'
    BY <1>3, <1>12 DEF Fit
  <2>2. Safe(x)'
    BY <1>3, <1>4, <1>12 DEF Safe, Fit
  <2> QED
    BY <2>1, <2>2
<1>13. \A s \in Requests : Fit(request[s])' /\ Safe(request[s])'
  BY <1>10, <1>12, IdleIsRequest DEF IInv
<1> QED
  BY <1>5, <1>7, <1>8, <1>9, <1>10, <1>11, <1>13 DEF IInv

----------------------------------------------------------------------------
LEMMA IInvKept == IInv /\ [Next]_vars => IInv'
<1> SUFFICES ASSUME IInv, [Next]_vars PROVE IInv'
  OBVIOUS
<1>1. CASE UNCHANGED vars
  BY <1>1 DEF IInv, Tables, Fit, Safe, Known, Kept, Members, People, Once, Due, Made,
     LinksOwned, Everybody, Current, vars, tables, histories
<1>2. ASSUME NEW r \in Requests, Arrive(r) PROVE IInv'
  BY <1>2, LoginKept, SignUpKept, LinkFollowedKept, AskedKept, OwnersRequestsKept DEF Arrive
<1>3. ASSUME NEW r \in Requests, GoesOn(r) PROVE IInv'
  BY <1>3, RecordLoginKept, LockAccountKept, RehashKept, SetPasswordKept, UseLinkKept,
     ConfirmAddressKept, CreateUserKept, StartSessionKept, RevokeInvitesKept, SendLinkKept,
     RemoveUserKept DEF GoesOn
<1> QED
  BY <1>1, <1>2, <1>3, DieKept, LogoutKept, TimeKept DEF Next

LEMMA Inductive == Spec => []IInv
  BY AtInit, IInvKept, PTL DEF Spec

(* Accounts, links, sessions and requests are well formed, however many    *)
(* there are and however they overlap and die.                             *)
THEOREM AccountTypes == Spec => []TypeOK
  BY Inductive, TypesHold, PTL

(* A link confirms an address, changes a password or makes an account one  *)
(* time.                                                                   *)
THEOREM LinksWorkOnce == Spec => []WorksOnce
<1>1. IInv => WorksOnce
  BY DEF IInv, Once, WorksOnce
<1> QED
  BY <1>1, Inductive, PTL

(* A session is of the account's present password or was opened by a       *)
(* request that had checked the one before; and a workspace with people in *)
(* it keeps an owner, unless removals crossed in it.                       *)
THEOREM AccountsStand == Spec => []AccountsHold
<1>1. IInv => AccountsHold
  BY PeopleAreUsers DEF IInv, Current, Everybody, Kept, AccountsHold, SessionsAreCurrent, OwnerRemains
<1> QED
  BY <1>1, Inductive, PTL
=============================================================================
