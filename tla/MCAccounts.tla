----------------------------- MODULE MCAccounts -----------------------------
(* Two owners and a member of a workspace; whoever leaves it may join it    *)
(* again or sign up.                                                        *)
EXTENDS Accounts, TLC

CONSTANTS home, own, sitekey, u1, u2, u3, u4, ann, bob, cyd, r1, r2, l1, l2

MCKeys == sitekey :> home
MCSignup == [word |-> "", listed |-> {}]
MCEmailOf == u1 :> ann @@ u2 :> bob @@ u3 :> cyd
MCRoleOf == u1 :> "owner" @@ u2 :> "owner" @@ u3 :> "member"

\* The owners are alike, with their addresses, and so are the requests and the links.
Owners == {<<u1, ann, u2, bob>>, <<u2, bob, u1, ann>>}
Interchangeable ==
    {(u1 :> f[1] @@ ann :> f[2] @@ u2 :> f[3] @@ bob :> f[4] @@ r1 :> q[1] @@ r2 :> q[2]
        @@ l1 :> k[1] @@ l2 :> k[2]) :
        f \in Owners, q \in {<<r1, r2>>, <<r2, r1>>}, k \in {<<l1, l2>>, <<l2, l1>>}}
=============================================================================
