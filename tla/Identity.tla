------------------------------ MODULE Identity ------------------------------
(***************************************************************************)
(* Who a request speaks for: the accounts, role assignments and sessions   *)
(* of the auth service, and the gateway in front of it, which remembers a  *)
(* verified token for a while.  One request is a process; every database   *)
(* statement or call between two services is a step of its own, so that    *)
(* other requests, a restart or the clock can come in between.             *)
(*                                                                         *)
(* Passwords, names and the audit log are left out: a login is the login   *)
(* of somebody who knows the password, and the audit rows are written in   *)
(* the transaction of the change they describe.  No code sets expires_at   *)
(* of an assignment, so assignments do not expire here.  Organizations are *)
(* left out: no service gives a class or a set one.                        *)
(***************************************************************************)
EXTENDS Authz, Naturals

CONSTANTS
    Users, Tokens, Requests,
    Root,           \* the account with users.role = 'admin'
    Kinds,          \* Kinds[r]: what request r may be about
    Roles,          \* role keys administrators hand out
    Observed,       \* tokens and users whose history the properties follow
    TTL,            \* lifetime of an entry of the token cache, in ticks
    VerifyMax,      \* timeout of the verification call, in ticks
    MaxChanges      \* bound on the changes administrators make

RequestKinds == {"call", "admin", "logout", "logoutAll", "refresh", "login", "register"}

ASSUME IdentityConstants ==
    /\ Root \in Users
    /\ Kinds \in [Requests -> SUBSET RequestKinds]
    /\ Roles \subseteq PlatformRoles
    /\ TTL \in Nat
    /\ VerifyMax \in Nat
    /\ MaxChanges \in Nat
    /\ None \notin Users \cup Tokens
    /\ None \notin [legacy : {"user", "admin"}, disabled : BOOLEAN]

VARIABLES
    account,        \* users: absent, or the legacy role and the disabled flag
    grants,         \* iam_assignments of platform scope: <<user, role>>
    session,        \* sessions by token; one that is revoked or expired has ended
    cache,          \* authCache: identity and ticks left, by token
    request,        \* every request under way
    changes,        \* changes made by administrators so far
    invalidFor,     \* ticks for which auth has rejected the token
    demotedFor      \* ticks for which the user has not been an administrator

authVars == <<account, grants, session>>
identityVars == <<account, grants, session, cache, request, changes, invalidFor, demotedFor>>
history == <<changes, invalidFor, demotedFor>>

Idle == [pc |-> "idle"]
Horizon == TTL + VerifyMax
Capped(n) == IF n > Horizon THEN n ELSE n + 1
Exists(u) == account[u] # None
PlatformKeys(u) == {role \in PlatformRoles : <<u, role>> \in grants}
IsAdmin(u) == "PlatformAdmin" \in PlatformKeys(u)

IdentityInit ==
    /\ account = [u \in Users |->
                    IF u = Root THEN [legacy |-> "admin", disabled |-> FALSE] ELSE None]
    /\ grants = {<<Root, "PlatformAdmin">>}
    /\ session = [t \in Tokens |-> [status |-> "none", user |-> None]]
    /\ cache = [t \in Tokens |-> None]
    /\ request = [r \in Requests |-> Idle]
    /\ changes = 0
    /\ invalidFor = [t \in Tokens \cap Observed |-> 0]
    /\ demotedFor = [u \in Users \cap Observed |-> IF u = Root THEN 0 ELSE Horizon + 1]

-----------------------------------------------------------------------------
(* verifiedIdentity of the auth service, statement by statement.           *)

At(r, pc) == request[r].pc = pc
Goto(r, pc) == request' = [request EXCEPT ![r].pc = pc]
Done(r) == request' = [request EXCEPT ![r] = Idle]

Asked(kind, t, caller) ==
    [pc |-> "session", kind |-> kind, tok |-> t, caller |-> caller, age |-> 0,
     user |-> None, legacy |-> None, roles |-> {}]

\* GetSessionIdentity: the row exists, is neither revoked nor expired, and
\* the account is enabled.
SessionOK(t) ==
    /\ session[t].status = "live"
    /\ ~account[session[t].user].disabled

\* A logout of all sessions or a refresh only uses the user that is found.
VerifySession(r) ==
    /\ At(r, "session")
    /\ SessionOK(request[r].tok)
    /\ LET u == session[request[r].tok].user
       IN  IF request[r].kind \in {"logoutAll", "refresh"}
           THEN request' = [request EXCEPT ![r].pc = "known", ![r].user = u]
           ELSE request' = [request EXCEPT ![r].pc = "roles", ![r].user = u,
                                           ![r].legacy = account[u].legacy]
    /\ UNCHANGED <<authVars, cache, history>>

RejectSession(r) ==
    /\ At(r, "session")
    /\ ~SessionOK(request[r].tok)
    /\ Done(r)
    /\ UNCHANGED <<authVars, cache, history>>

\* ListPlatformRoleKeys; an empty answer needs a second look.
VerifyRoles(r) ==
    /\ At(r, "roles")
    /\ LET keys == PlatformKeys(request[r].user)
       IN  IF keys = {}
           THEN Goto(r, "fallback")
           ELSE request' = [request EXCEPT ![r].roles = keys, ![r].legacy = None, ![r].pc = "verified"]
    /\ UNCHANGED <<authVars, cache, history>>

\* HasPlatformAssignment, and the role users.role stood for when the session
\* was read.
FallbackRoles(r) ==
    IF PlatformKeys(request[r].user) # {} THEN {}
    ELSE IF request[r].legacy = "admin" THEN {"PlatformAdmin"} ELSE {"Student"}

VerifyFallback(r) ==
    /\ At(r, "fallback")
    /\ request' = [request EXCEPT ![r].roles = FallbackRoles(r), ![r].legacy = None,
                                   ![r].pc = "verified"]
    /\ UNCHANGED <<authVars, cache, history>>

-----------------------------------------------------------------------------
(* The gateway.                                                            *)

\* The legacy role a verified identity is given.
LegacyRole(roles) == IF "PlatformAdmin" \in roles THEN "admin" ELSE "user"
Holds(user, roles, action) ==
    Can(PlatformPrincipal(user, LegacyRole(roles), roles), action, PlatformResource)

CanAccessAdminConsole(user, roles) ==
    Holds(user, roles, "dashboard:ViewAdmin") \/ Holds(user, roles, "user:List")

\* A request for another service goes out with the identity and is over; a
\* request to the admin console is verified again, by auth itself.
Forwarded(kind, t, user, roles) ==
    IF kind = "admin" /\ CanAccessAdminConsole(user, roles) THEN Asked("admin", t, "auth") ELSE Idle

\* Mutant: every use gives the entry a new lifetime.
ArriveKnownSliding(r, t, kind) ==
    /\ At(r, "idle") /\ kind \in Kinds[r]
    /\ cache[t] # None
    /\ request' = [request EXCEPT ![r] = Forwarded(kind, t, cache[t].user, cache[t].roles)]
    /\ cache' = [cache EXCEPT ![t].left = TTL]
    /\ UNCHANGED <<authVars, history>>

\* authCache.Get finds the token.
ArriveKnown(r, t, kind) ==
    /\ At(r, "idle") /\ kind \in Kinds[r]
    /\ cache[t] # None
    /\ request' = [request EXCEPT ![r] = Forwarded(kind, t, cache[t].user, cache[t].roles)]
    /\ UNCHANGED <<authVars, cache, history>>

Arrive(r, t, kind) ==
    /\ At(r, "idle") /\ kind \in Kinds[r]
    /\ session[t].status # "none"
    /\ cache[t] = None
    /\ request' = [request EXCEPT ![r] = Asked(kind, t, "gateway")]
    /\ UNCHANGED <<authVars, cache, history>>

\* verifyIdentity stores the answer of auth and lets the request pass.
Admit(r) ==
    /\ At(r, "verified")
    /\ request[r].caller = "gateway"
    /\ cache' = [cache EXCEPT ![request[r].tok] =
                    [user |-> request[r].user, roles |-> request[r].roles, left |-> TTL]]
    /\ request' = [request EXCEPT ![r] = Forwarded(@.kind, @.tok, @.user, @.roles)]
    /\ UNCHANGED <<authVars, history>>

Verifying(r) ==
    /\ request[r].pc \in {"session", "roles", "fallback", "verified"}
    /\ request[r].caller = "gateway"

\* The call has a timeout of two seconds.
VerifyTimeout(r) ==
    /\ Verifying(r)
    /\ request[r].age = VerifyMax
    /\ Done(r)
    /\ UNCHANGED <<authVars, cache, history>>

\* authProxy forgets the token before it forwards a logout or a refresh.
ForgetToken(r, t, kind) ==
    /\ At(r, "idle") /\ kind \in Kinds[r]
    /\ session[t].status # "none"
    /\ cache' = [cache EXCEPT ![t] = None]
    /\ request' = [request EXCEPT ![r] =
            [Asked(kind, t, "auth") EXCEPT !.pc = IF kind = "logout" THEN "revoke" ELSE "session"]]
    /\ UNCHANGED <<authVars, history>>

-----------------------------------------------------------------------------
(* Sessions and accounts.                                                  *)

Revoke(t) == IF session[t].status = "live" THEN [session[t] EXCEPT !.status = "ended"]
                                           ELSE session[t]
RevokeAllOf(u) ==
    session' = [t \in Tokens |-> IF session[t].user = u THEN Revoke(t) ELSE session[t]]

\* DeleteSession of Logout and Refresh; both ignore its error.
RevokeSession(r) ==
    /\ \/ At(r, "revoke")
       \/ At(r, "known") /\ request[r].kind = "refresh"
    /\ \/ session' = [session EXCEPT ![request[r].tok] = Revoke(request[r].tok)]
       \/ UNCHANGED session
    /\ IF request[r].kind = "refresh" THEN Goto(r, "newSession") ELSE Done(r)
    /\ UNCHANGED <<account, grants, cache, history>>

LogoutAll(r) ==
    /\ At(r, "known") /\ request[r].kind = "logoutAll"
    /\ RevokeAllOf(request[r].user)
    /\ Done(r)
    /\ UNCHANGED <<account, grants, cache, history>>

\* newSession draws a fresh random token.
NewSession(r) ==
    /\ At(r, "newSession")
    /\ \E t \in Tokens :
        /\ session[t].status = "none"
        /\ session' = [session EXCEPT ![t] = [status |-> "live", user |-> request[r].user]]
    /\ Done(r)
    /\ UNCHANGED <<account, grants, cache, history>>

Login(r, u) ==
    /\ At(r, "idle") /\ "login" \in Kinds[r]
    /\ Exists(u) /\ ~account[u].disabled
    /\ request' = [request EXCEPT ![r] =
            [Asked("login", None, "auth") EXCEPT !.pc = "newSession", !.user = u]]
    /\ UNCHANGED <<authVars, cache, history>>

Register(r, u) ==
    /\ At(r, "idle") /\ "register" \in Kinds[r]
    /\ ~Exists(u)
    /\ account' = [account EXCEPT ![u] = [legacy |-> "user", disabled |-> FALSE]]
    /\ request' = [request EXCEPT ![r] =
            [Asked("register", None, "auth") EXCEPT !.pc = "grant", !.user = u]]
    /\ UNCHANGED <<grants, session, cache, history>>

\* CreatePlatformAssignment is a statement of its own and may fail.
RegisterGrant(r) ==
    /\ At(r, "grant")
    /\ \/ /\ grants' = grants \cup {<<request[r].user, "Student">>}
          /\ Goto(r, "newSession")
       \/ /\ Done(r)
          /\ UNCHANGED grants
    /\ UNCHANGED <<account, session, cache, history>>

SessionExpires(t) ==
    /\ session[t].status = "live"
    /\ session' = [session EXCEPT ![t].status = "ended"]
    /\ UNCHANGED <<account, grants, cache, request, history>>

-----------------------------------------------------------------------------
(* The admin console.                                                      *)

Executing(r) == At(r, "verified") /\ request[r].caller = "auth"
May(r, action) == Holds(request[r].user, request[r].roles, action)
Change == changes < MaxChanges /\ changes' = changes + 1

AdminActions == {"iam:AssignRole", "iam:RevokeRole", "user:Disable"}

Denied(r) ==
    /\ Executing(r)
    /\ \E action \in AdminActions : ~May(r, action)
    /\ Done(r)
    /\ UNCHANGED <<authVars, cache, history>>

\* ConfirmPassword looks the session up once more before PlatformAdmin is
\* handed out.
ConfirmPassword(r) ==
    /\ Executing(r)
    /\ May(r, "iam:AssignRole")
    /\ IF SessionOK(request[r].tok) THEN Goto(r, "confirmed") ELSE Done(r)
    /\ UNCHANGED <<authVars, cache, history>>

\* Mutant: the transaction does not look for the user.
AssignRoleUnchecked(r, u, role) ==
    /\ IF role = "PlatformAdmin" THEN At(r, "confirmed") ELSE Executing(r)
    /\ May(r, "iam:AssignRole")
    /\ role \in Roles
    /\ grants' = grants \cup {<<u, role>>}
    /\ demotedFor' = [v \in DOMAIN demotedFor |->
            IF v = u /\ role = "PlatformAdmin" THEN 0 ELSE demotedFor[v]]
    /\ Change
    /\ Done(r)
    /\ UNCHANGED <<account, session, cache, invalidFor>>

AssignRole(r, u, role) ==
    /\ IF role = "PlatformAdmin" THEN At(r, "confirmed") ELSE Executing(r)
    /\ May(r, "iam:AssignRole")
    /\ role \in Roles
    /\ Exists(u)
    /\ grants' = grants \cup {<<u, role>>}
    /\ demotedFor' = [v \in DOMAIN demotedFor |->
            IF v = u /\ role = "PlatformAdmin" THEN 0 ELSE demotedFor[v]]
    /\ Change
    /\ Done(r)
    /\ UNCHANGED <<account, session, cache, invalidFor>>

\* Mutant: the legacy role stays.
RevokeRoleOnly(r, g) ==
    /\ Executing(r)
    /\ May(r, "iam:RevokeRole")
    /\ g \in grants
    /\ grants' = grants \ {g}
    /\ Change
    /\ Done(r)
    /\ UNCHANGED <<account, session, cache, invalidFor, demotedFor>>

\* Removing PlatformAdmin takes the legacy role away with it.
RevokeRole(r, g) ==
    /\ Executing(r)
    /\ May(r, "iam:RevokeRole")
    /\ g \in grants
    /\ grants' = grants \ {g}
    /\ account' = [account EXCEPT ![g[1]] =
                    IF g[2] = "PlatformAdmin" THEN [@ EXCEPT !.legacy = "user"] ELSE @]
    /\ Change
    /\ Done(r)
    /\ UNCHANGED <<session, cache, invalidFor, demotedFor>>

SetUserDisabled(r, u, disabled) ==
    /\ Executing(r)
    /\ May(r, "user:Disable")
    /\ u # request[r].user
    /\ Exists(u)
    /\ account' = [account EXCEPT ![u].disabled = disabled]
    /\ IF disabled THEN RevokeAllOf(u) ELSE UNCHANGED session
    /\ invalidFor' = [t \in DOMAIN invalidFor |->
            IF ~disabled /\ session[t].user = u /\ session[t].status = "live"
            THEN 0 ELSE invalidFor[t]]
    /\ Change
    /\ Done(r)
    /\ UNCHANGED <<grants, cache, demotedFor>>

-----------------------------------------------------------------------------
(* Time and restarts.                                                      *)

\* Mutant: the expiry of an entry is not looked at.
OlderKept(entry) ==
    IF entry = None \/ entry.left = 0 THEN entry ELSE [entry EXCEPT !.left = @ - 1]

\* An entry past its expiry is never used (Get), whether or not the minutely
\* sweep has removed it.
Older(entry) ==
    IF entry = None \/ entry.left = 0 THEN None ELSE [entry EXCEPT !.left = @ - 1]

\* A verification the gateway waits for does not outlive its timeout.
Tick ==
    /\ \A r \in Requests : Verifying(r) => request[r].age < VerifyMax
    /\ request' = [r \in Requests |->
            IF Verifying(r) THEN [request[r] EXCEPT !.age = @ + 1] ELSE request[r]]
    /\ cache' = [t \in Tokens |-> Older(cache[t])]
    /\ invalidFor' = [t \in DOMAIN invalidFor |->
            IF session[t].status = "none" \/ SessionOK(t) THEN 0 ELSE Capped(invalidFor[t])]
    /\ demotedFor' = [u \in DOMAIN demotedFor |-> IF IsAdmin(u) THEN 0 ELSE Capped(demotedFor[u])]
    /\ UNCHANGED <<authVars, changes>>

GatewayRestart ==
    /\ cache # [t \in Tokens |-> None]
    /\ cache' = [t \in Tokens |-> None]
    /\ request' = [r \in Requests |-> Idle]
    /\ UNCHANGED <<authVars, history>>

\* The migration every start runs: a legacy administrator without the
\* assignment gets it, anybody else without a platform role becomes Student.
Backfill ==
    {<<u, "PlatformAdmin">> : u \in {v \in Users : Exists(v) /\ account[v].legacy = "admin"}}
    \cup {<<u, "Student">> : u \in {v \in Users :
            Exists(v) /\ account[v].legacy # "admin" /\ PlatformKeys(v) = {}}}

AuthRestart ==
    /\ request' = [r \in Requests |-> Idle]
    /\ grants' = grants \cup Backfill
    /\ UNCHANGED <<account, session, cache, history>>

RequestStep(r) ==
    \/ \E t \in Tokens, kind \in {"call", "admin"} : Arrive(r, t, kind) \/ ArriveKnown(r, t, kind)
    \/ \E t \in Tokens, kind \in {"logout", "logoutAll", "refresh"} : ForgetToken(r, t, kind)
    \/ VerifySession(r) \/ RejectSession(r) \/ VerifyRoles(r) \/ VerifyFallback(r)
    \/ VerifyTimeout(r) \/ Admit(r)
    \/ RevokeSession(r) \/ LogoutAll(r) \/ NewSession(r) \/ RegisterGrant(r)
    \/ \E u \in Users : Login(r, u) \/ Register(r, u)
    \/ Denied(r) \/ ConfirmPassword(r)
    \/ \E u \in Users, role \in Roles : AssignRole(r, u, role)
    \/ \E g \in grants : RevokeRole(r, g)
    \/ \E u \in Users, disabled \in BOOLEAN : SetUserDisabled(r, u, disabled)

IdentityNext ==
    \/ \E r \in Requests : RequestStep(r)
    \/ \E t \in Tokens : SessionExpires(t)
    \/ Tick \/ GatewayRestart \/ AuthRestart

IdentitySpec == IdentityInit /\ [][IdentityNext]_identityVars

-----------------------------------------------------------------------------
(* Properties.                                                             *)

RequestState ==
    {Idle} \cup
    [pc : {"session", "roles", "fallback", "verified", "known", "revoke",
           "newSession", "grant", "confirmed"},
     kind : RequestKinds,
     tok : Tokens \cup {None}, caller : {"gateway", "auth"}, age : 0..VerifyMax,
     user : Users \cup {None}, legacy : {"user", "admin", None},
     roles : SUBSET PlatformRoles]

\* The type invariant of the tables, the token cache and the requests.
IdentityTypeOK ==
    /\ account \in [Users -> {None} \cup [legacy : {"user", "admin"}, disabled : BOOLEAN]]
    /\ grants \subseteq Users \X PlatformRoles
    /\ \A g \in grants : Exists(g[1])
    /\ session \in [Tokens -> [status : {"none", "live", "ended"},
                               user : Users \cup {None}]]
    /\ cache \in [Tokens -> {None} \cup
            [user : Users, roles : SUBSET PlatformRoles, left : 0..TTL]]
    /\ request \in [Requests -> RequestState]
    /\ invalidFor \in [Tokens \cap Observed -> 0..(Horizon + 1)]
    /\ demotedFor \in [Users \cap Observed -> 0..(Horizon + 1)]

\* A token that auth rejects (logged out, expired, of a disabled account) is
\* honoured by the gateway for no longer than the lifetime of a cache entry
\* plus one verification, however logouts, disables and verifications under
\* way interleave (tokencache.go, verifyIdentity).
SessionStaleBounded ==
    /\ IdentityTypeOK
    /\ \A t \in Tokens \cap Observed : cache[t] # None => invalidFor[t] <= Horizon

\* The same bound for privileges: once PlatformAdmin has been taken from a
\* user, no cached identity carries it longer than that, although the roles
\* are read in several statements after the session (verifiedIdentity).
AdminStaleBounded ==
    \A t \in Tokens :
        cache[t] # None /\ cache[t].user \in Observed /\ "PlatformAdmin" \in cache[t].roles =>
            demotedFor[cache[t].user] <= Horizon

\* Only AssignRole makes a user an administrator: what RevokeRole took away
\* comes back neither with the migration of a restart nor any other way
\* ("migration khởi động lại không khôi phục grant đã thu hồi",
\* docs/deployment/iam-operations.md:26).
RevokedStaysRevoked ==
    [][\A u \in Users :
        IsAdmin(u)' /\ ~IsAdmin(u) => \E r \in Requests : AssignRole(r, u, "PlatformAdmin")
      ]_identityVars

\* "Auth từ chối đăng nhập mới [...] của tài khoản disabled" and enabling the
\* account restores no session (docs/deployment/iam-operations.md:27): no
\* session begins while its account is disabled.
NoSessionWhileDisabled ==
    [][\A t \in Tokens :
        session[t].status = "none" /\ session'[t].status = "live" =>
            ~account[session'[t].user].disabled]_identityVars
=============================================================================
