----------------------------- MODULE MCIdentity -----------------------------
(* Two accounts, the legacy administrator and one that registers, and two  *)
(* concurrent requests, one of them the administrators'.  A cache entry    *)
(* outlives one tick, a verification may take one.                         *)
EXTENDS Identity, TLC

CONSTANTS root, u1, r1, r2, t1, t2

MCUsers == {root, u1}
MCTokens == {t1, t2}
MCRequests == {r1, r2}
MCRoles == {"PlatformAdmin"}

MCKinds == (r1 :> {"admin", "register"}) @@
           (r2 :> {"call", "logout", "logoutAll", "refresh", "login"})
MCObserved == {u1, t1}

\* Only the session whose history is followed expires by itself; the other
\* one ends by a logout, a refresh or an administrator.
MCNext ==
    \/ \E r \in Requests : RequestStep(r)
    \/ \E t \in Tokens \cap Observed : SessionExpires(t)
    \/ Tick \/ GatewayRestart \/ AuthRestart

MCSpec == IdentityInit /\ [][MCNext]_identityVars
=============================================================================
