------------------------------- MODULE Access -------------------------------
(***************************************************************************)
(* Whose workspace a request is about and what it may do there (api/auth.py *)
(* and the same questions in app.py), and who may make an account           *)
(* (FOCI_SIGNUP).  A request is the workspace of its session and the key it *)
(* presents, each of which it may lack.                                     *)
(***************************************************************************)
CONSTANTS
    Emails,
    Orgs,           \* workspaces: tenants
    Keys,           \* keymap: the tenant of each API key
    Default,        \* DEFAULT_TENANT
    Public,         \* FOCI_PUBLIC
    Signup,         \* FOCI_SIGNUP: what it says, and whom it lists
    Nobody          \* no account, link, address, workspace or key

ASSUME KeysAssumption == Keys \in [DOMAIN Keys -> Orgs] /\ Nobody \notin DOMAIN Keys
ASSUME DefaultAssumption == Default \in Orgs
ASSUME SignupAssumption ==
    Signup \in [word : {"", "closed", "open", "list"}, listed : SUBSET Emails]
ASSUME PublicAssumption == Public \in BOOLEAN
ASSUME NobodyAssumption == Nobody \notin Emails \cup Orgs

Refusals == {"closed", "unknown", "unset"}      \* 503, 401 and 403
ASSUME RefusalsAssumption == Orgs \cap Refusals = {}

Presented == [session : Orgs \cup {Nobody}, key : DOMAIN Keys \cup {Nobody, "unheard"}]

----------------------------------------------------------------------------
\* signup_setting: closed by a word, open where it says so or a public site says nothing.
SignupSetting ==
    CASE Signup.word = "closed" -> ""
      [] Signup.word = "" /\ Public -> "open"
      [] OTHER -> Signup.word

\* signup_allowed
SignupAllowed(email) ==
    \/ SignupSetting = "open"
    \/ SignupSetting = "list" /\ email \in Signup.listed

\* _accounts_possible
AccountsPossible(anybody) == SignupSetting # "" \/ anybody

\* resolve_tenant
KeyTenant(key) == IF key \in DOMAIN Keys THEN Keys[key] ELSE Nobody

\* require_tenant: a session first, then a key; on a public site neither is needed.
RequireTenant(req, anybody) ==
    CASE req.session # Nobody -> req.session
      [] req.session = Nobody /\ KeyTenant(req.key) # Nobody -> KeyTenant(req.key)
      [] req.session = Nobody /\ KeyTenant(req.key) = Nobody /\ Public -> Default
      [] OTHER -> IF DOMAIN Keys = {} /\ ~AccountsPossible(anybody) THEN "closed" ELSE "unknown"

\* require_admin: on a public site a session or a key is.
RequireAdmin(req, anybody) ==
    CASE ~Public -> RequireTenant(req, anybody)
      [] Public /\ req.session # Nobody -> req.session
      [] OTHER -> IF DOMAIN Keys = {} THEN "unset"
                  ELSE IF KeyTenant(req.key) = Nobody THEN "unknown" ELSE KeyTenant(req.key)

\* is_admin
IsAdmin(req) == ~Public \/ req.session # Nobody \/ KeyTenant(req.key) # Nobody

\* _vouched_account: a workspace a key opens, or one not made by signing up.
VouchedAccount(org, selfMade) == (\E k \in DOMAIN Keys : Keys[k] = org) \/ ~selfMade

\* _request_vouched
RequestVouched(req, selfMade) ==
    \/ KeyTenant(req.key) # Nobody
    \/ req.session # Nobody /\ VouchedAccount(req.session, selfMade)
    \/ req.session = Nobody /\ ~Public
=============================================================================
