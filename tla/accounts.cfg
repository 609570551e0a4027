CONSTANTS
    l1 = l1
    l2 = l2
    r1 = r1
    r2 = r2
    u1 = u1
    u2 = u2
    u3 = u3
    u4 = u4
    ann = ann
    bob = bob
    cyd = cyd
    sitekey = sitekey
    Nobody = nobody
    Ids = {u1, u2, u3, u4}
    Emails = {ann, bob, cyd}
    home = home
    own = own
    Orgs = {home, own}
    Home = home
    Default = home
    Keys <- MCKeys
    Public = TRUE
    Signup <- MCSignup
    Founders = {u1, u2, u3}
    EmailOf <- MCEmailOf
    RoleOf <- MCRoleOf
    Links = {l1, l2}
    Requests = {r1, r2}
    Outdated = {u3}
    SignupsPerDay = 1
    VerifyEmailsPerDay = 1
    InvitesPerDay = 1
    MaxFailures = 1
    LockTicks = 1
    MaxRequests = 3
    MaxChanges = 2
SYMMETRY Interchangeable
SPECIFICATION Spec
CHECK_DEADLOCK FALSE
INVARIANTS
    TypeOK
    WorksOnce
    AccountsHold
