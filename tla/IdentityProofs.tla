--------------------------- MODULE IdentityProofs ---------------------------
(***************************************************************************)
(* How long the gateway may go on believing what auth no longer says, and  *)
(* who can make an administrator: for every number of users, tokens,       *)
(* concurrent requests, restarts and changes, and every cache lifetime.    *)
(*                                                                         *)
(* A verified identity is assembled from several reads, carried by a       *)
(* request, stored, and used later.  The invariant dates it: what a        *)
(* request has learned was true no more than its own age ago, and what an  *)
(* entry says no more than its age plus one verification ago.              *)
(***************************************************************************)
EXTENDS Identity, TLAPS

\* Whose identity a session or a request has learned is a user's.
Knows(user) == user \in Users /\ Exists(user)

SessionsOwned == \A t \in Tokens : session[t].status = "live" => Knows(session[t].user)

\* What a request has learned by the point it has reached.
RequestSound(q) ==
    /\ q.pc \in {"session", "roles", "fallback", "verified", "confirmed", "known", "revoke"} =>
            q.tok \in Tokens
    /\ q.pc \in {"roles", "fallback", "verified", "confirmed", "known", "newSession", "grant"} =>
            Knows(q.user)
    /\ q.pc = "revoke" => q.kind = "logout"

IdentitySound ==
    /\ IdentityTypeOK
    /\ SessionsOwned
    /\ \A r \in Requests : RequestSound(request[r])

\* A user whose legacy role is administrator has the assignment as well.
LegacyAdminGranted == \A u \in Users : Exists(u) /\ account[u].legacy = "admin" => IsAdmin(u)

\* The clocks stand at 0 while auth accepts the token, and while the user is
\* an administrator.
ClocksReset ==
    /\ \A t \in Tokens \cap Observed :
            session[t].status = "none" \/ SessionOK(t) => invalidFor[t] = 0
    /\ \A u \in Users \cap Observed : IsAdmin(u) => demotedFor[u] = 0

\* What a verification the gateway waits for has read was so when it was sent
\* or later.
Believes(q) == \/ q.pc \in {"roles", "fallback"} /\ q.legacy = "admin"
               \/ q.pc = "verified" /\ "PlatformAdmin" \in q.roles
VerificationFresh(q) ==
    q.pc \in {"roles", "fallback", "verified"} /\ q.caller = "gateway" =>
        /\ q.tok \in Observed => invalidFor[q.tok] <= q.age
        /\ q.user \in Observed /\ Believes(q) => demotedFor[q.user] <= q.age

\* An entry is no older than the time it has been kept and one verification.
EntryAge(entry) == (TTL - entry.left) + VerifyMax
EntryFresh(t) ==
    cache[t] # None =>
        /\ t \in Observed => invalidFor[t] <= EntryAge(cache[t])
        /\ cache[t].user \in Observed /\ "PlatformAdmin" \in cache[t].roles =>
                demotedFor[cache[t].user] <= EntryAge(cache[t])

IInv ==
    /\ IdentitySound
    /\ LegacyAdminGranted
    /\ ClocksReset
    /\ \A r \in Requests : VerificationFresh(request[r])
    /\ \A t \in Tokens : EntryFresh(t)

-----------------------------------------------------------------------------
\* The row of a user and the request of a caller, as types.
AccountRow == [legacy : {"user", "admin"}, disabled : BOOLEAN]
Reached == {"session", "roles", "fallback", "verified", "known", "revoke",
            "newSession", "grant", "confirmed"}
Asking ==
    [pc : Reached, kind : RequestKinds, tok : Tokens \cup {None}, caller : {"gateway", "auth"},
     age : 0..VerifyMax, user : Users \cup {None}, legacy : {"user", "admin", None},
     roles : SUBSET PlatformRoles]
EntryRow == [user : Users, roles : SUBSET PlatformRoles, left : 0..TTL]

\* A request under way has all its fields; one that is not is idle.
LEMMA RequestFields ==
    /\ RequestState = {Idle} \cup Asking
    /\ Idle \in RequestState
    /\ Idle.pc = "idle"
    /\ \A q \in RequestState : q.pc # "idle" => q \in Asking
  BY DEF RequestState, Asking, Reached, Idle

\* A user that exists has a row.
LEMMA AccountFields ==
    /\ None \notin AccountRow
    /\ IdentityTypeOK => /\ account \in [Users -> {None} \cup AccountRow]
                         /\ \A u \in Users : Exists(u) <=> account[u] \in AccountRow
  BY IdentityConstants DEF IdentityTypeOK, AccountRow, Exists

\* A request that has just been made knows its token only.
LEMMA AskedFields ==
    ASSUME NEW kind \in RequestKinds, NEW t \in Tokens \cup {None},
           NEW caller \in {"gateway", "auth"}
    PROVE  /\ Asked(kind, t, caller) \in Asking
           /\ Asked(kind, t, caller).pc = "session"
           /\ Asked(kind, t, caller).tok = t
           /\ Asked(kind, t, caller).kind = kind
           /\ Asked(kind, t, caller).caller = caller
  BY IdentityConstants DEF Asked, Asking, Reached

\* What the gateway lets pass leaves it: it is over, or it is at auth.
LEMMA ForwardedFields ==
    ASSUME NEW kind, NEW t \in Tokens, NEW user, NEW roles
    PROVE  \/ Forwarded(kind, t, user, roles) = Idle
           \/ Forwarded(kind, t, user, roles) = Asked("admin", t, "auth")
  BY DEF Forwarded

\* A request that has created its account in the given table.
JustRegistered(q, table) == q.pc = "grant" /\ q.user \in Users /\ table[q.user] # None

\* A step that replaces one request keeps the others sound, as long as no
\* account disappears.
LEMMA RequestReplaced ==
    ASSUME IdentitySound, NEW r \in Requests, NEW q \in RequestState,
           request' = [request EXCEPT ![r] = q],
           RequestSound(q) \/ JustRegistered(q, account'),
           \A u \in Users : Exists(u) => Exists(u)'
    PROVE  /\ request' \in [Requests -> RequestState]
           /\ \A x \in Requests : RequestSound(request[x])'
  BY DEF IdentitySound, IdentityTypeOK, RequestSound, JustRegistered, Knows, Exists

\* A step of the verification, of the gateway or of a login changes its request only.
LEMMA OnlyRequest ==
    ASSUME IdentitySound, NEW r \in Requests, NEW q \in RequestState,
           request' = [request EXCEPT ![r] = q], RequestSound(q),
           UNCHANGED <<authVars, cache, history>>
    PROVE  IdentitySound'
  <1>1. /\ request' \in [Requests -> RequestState]
        /\ \A x \in Requests : RequestSound(request[x])'
    BY RequestReplaced DEF authVars, RequestSound, Knows, Exists
  <1> QED  BY <1>1 DEF IdentitySound, IdentityTypeOK, SessionsOwned, Knows, Exists, authVars, history

\* The steps of a verification, and of an administrator's request, that write
\* to no table.
LEMMA VerificationSound ==
    ASSUME IdentitySound, NEW r \in Requests,
           \/ VerifySession(r) \/ RejectSession(r) \/ VerifyRoles(r) \/ VerifyFallback(r)
           \/ VerifyTimeout(r) \/ Denied(r) \/ ConfirmPassword(r)
    PROVE  IdentitySound'
  <1> DEFINE q == request[r]
  <1>1. q \in RequestState /\ RequestSound(q)
    BY DEF IdentitySound, IdentityTypeOK
  <1>2. RequestSound(Idle) /\ Idle \in RequestState
    BY RequestFields DEF RequestSound
  <1>3. UNCHANGED <<authVars, cache, history>>
    BY DEF VerifySession, RejectSession, VerifyRoles, VerifyFallback, VerifyTimeout, Denied, ConfirmPassword
  <1>4. CASE Done(r)
    BY <1>2, <1>3, <1>4, OnlyRequest DEF Done
  <1>5. CASE VerifySession(r)
    <2>1. q \in Asking /\ q.tok \in Tokens /\ q.kind \in RequestKinds
      BY <1>1, <1>5, RequestFields DEF VerifySession, At, RequestSound, Asking
    <2> DEFINE u == session[q.tok].user
    <2>2. Knows(u) /\ account[u].legacy \in {"user", "admin"}
      BY <1>5, <2>1, AccountFields DEF VerifySession, SessionOK, IdentitySound, SessionsOwned, Knows, AccountRow
    <2> DEFINE known == [q EXCEPT !.pc = "known", !.user = u]
               roles == [q EXCEPT !.pc = "roles", !.user = u, !.legacy = account[u].legacy]
    <2>3. known \in RequestState /\ roles \in RequestState
      BY <2>1, <2>2, RequestFields DEF Asking, Reached, Knows
    <2>4. RequestSound(known) /\ RequestSound(roles)
      BY <2>1, <2>2 DEF RequestSound, Asking
    <2>5. request' = [request EXCEPT ![r] = known] \/ request' = [request EXCEPT ![r] = roles]
      BY <1>5 DEF VerifySession
    <2> QED  BY ONLY <1>3, <2>3, <2>4, <2>5, OnlyRequest, IdentitySound, r \in Requests
  <1>6. CASE VerifyRoles(r)
    <2>1. q \in Asking /\ q.pc = "roles"
      BY <1>1, <1>6, RequestFields DEF VerifyRoles, At
    <2> DEFINE keys == PlatformKeys(q.user)
               fallback == [q EXCEPT !.pc = "fallback"]
               verified == [q EXCEPT !.roles = keys, !.legacy = None, !.pc = "verified"]
    <2>2. fallback \in RequestState /\ verified \in RequestState
      BY <2>1, RequestFields DEF Asking, Reached, PlatformKeys
    <2>3. RequestSound(fallback) /\ RequestSound(verified)
      BY <1>1, <2>1 DEF RequestSound, Asking
    <2>4. request' = [request EXCEPT ![r] = fallback] \/ request' = [request EXCEPT ![r] = verified]
      BY <1>6 DEF VerifyRoles, Goto
    <2> QED  BY <1>3, <2>2, <2>3, <2>4, OnlyRequest
  <1>7. CASE VerifyFallback(r)
    <2>1. q \in Asking /\ q.pc = "fallback"
      BY <1>1, <1>7, RequestFields DEF VerifyFallback, At
    <2> DEFINE verified == [q EXCEPT !.roles = FallbackRoles(r), !.legacy = None, !.pc = "verified"]
    <2>2. FallbackRoles(r) \subseteq PlatformRoles
      BY DEF FallbackRoles, PlatformRoles
    <2>3. verified \in RequestState
      BY <2>1, <2>2, RequestFields DEF Asking, Reached
    <2>4. RequestSound(verified)
      BY <1>1, <2>1 DEF RequestSound, Asking
    <2>5. request' = [request EXCEPT ![r] = verified]
      BY <1>7 DEF VerifyFallback
    <2> QED  BY <1>3, <2>3, <2>4, <2>5, OnlyRequest
  <1>8. CASE ConfirmPassword(r) /\ Goto(r, "confirmed")
    <2>1. q \in Asking /\ q.pc = "verified"
      BY <1>1, <1>8, RequestFields DEF ConfirmPassword, Executing, At
    <2> DEFINE confirmed == [q EXCEPT !.pc = "confirmed"]
    <2>2. confirmed \in RequestState
      BY <2>1, RequestFields DEF Asking, Reached
    <2>3. RequestSound(confirmed)
      BY <1>1, <2>1 DEF RequestSound, Asking
    <2>4. request' = [request EXCEPT ![r] = confirmed]
      BY <1>8 DEF Goto
    <2> QED  BY <1>3, <2>2, <2>3, <2>4, OnlyRequest
  <1> QED  BY <1>4, <1>5, <1>6, <1>7, <1>8 DEF RejectSession, VerifyTimeout, Denied, ConfirmPassword

\* A request that has just been made is sound.
LEMMA AskedSound ==
    ASSUME NEW kind \in RequestKinds, NEW t \in Tokens, NEW caller \in {"gateway", "auth"}
    PROVE  Asked(kind, t, caller) \in RequestState /\ RequestSound(Asked(kind, t, caller))
  BY AskedFields, RequestFields DEF RequestSound

\* The gateway's own steps: a request arrives, is answered from the cache or
\* after a verification, or is a logout or refresh that forgets its token.
LEMMA GatewaySound ==
    ASSUME IdentitySound, NEW r \in Requests, NEW t \in Tokens, NEW kind \in RequestKinds,
           \/ Arrive(r, t, kind) \/ ArriveKnown(r, t, kind) \/ Admit(r)
           \/ ForgetToken(r, t, kind) /\ kind \in {"logout", "logoutAll", "refresh"}
    PROVE  IdentitySound'
  <1> DEFINE q == request[r]
  <1>1. q \in RequestState /\ RequestSound(q)
    BY DEF IdentitySound, IdentityTypeOK
  <1>2. \A x \in Tokens : \A user, roles, k :
            /\ Forwarded(k, x, user, roles) \in RequestState
            /\ RequestSound(Forwarded(k, x, user, roles))
    BY ForwardedFields, AskedSound, RequestFields DEF RequestSound, RequestKinds
  <1>3. CASE Arrive(r, t, kind)
    BY <1>3, AskedSound, OnlyRequest DEF Arrive
  <1>4. CASE ArriveKnown(r, t, kind)
    BY <1>2, <1>4, OnlyRequest DEF ArriveKnown
  <1>5. CASE Admit(r)
    <2>1. q \in Asking /\ q.tok \in Tokens /\ q.user \in Users
      BY <1>1, <1>5, RequestFields DEF Admit, At, RequestSound, Knows
    <2> DEFINE entry == [user |-> q.user, roles |-> q.roles, left |-> TTL]
    <2>2. entry \in EntryRow
      BY <2>1, IdentityConstants DEF Asking, EntryRow
    <2>3. cache' = [cache EXCEPT ![q.tok] = entry]
      BY <1>5 DEF Admit
    <2>4. cache' \in [Tokens -> {None} \cup EntryRow]
      BY <2>1, <2>2, <2>3 DEF IdentitySound, IdentityTypeOK, EntryRow
    <2>5. /\ request' = [request EXCEPT ![r] = Forwarded(q.kind, q.tok, q.user, q.roles)]
          /\ UNCHANGED <<authVars, history>>
      BY <1>5 DEF Admit, IdentitySound, IdentityTypeOK
    <2>6. /\ request' \in [Requests -> RequestState]
          /\ \A x \in Requests : RequestSound(request[x])'
      BY <1>2, <2>1, <2>5, RequestReplaced DEF Exists, authVars
    <2> QED
      BY <2>4, <2>5, <2>6 DEF IdentitySound, IdentityTypeOK, EntryRow, SessionsOwned, Knows, Exists,
                              authVars, history
  <1>6. CASE ForgetToken(r, t, kind) /\ kind \in {"logout", "logoutAll", "refresh"}
    <2> DEFINE a == Asked(kind, t, "auth")
               to == [a EXCEPT !.pc = IF kind = "logout" THEN "revoke" ELSE "session"]
    <2>1. to \in RequestState /\ RequestSound(to)
      BY <1>6, AskedFields, RequestFields DEF Asking, Reached, RequestSound
    <2>2. /\ request' = [request EXCEPT ![r] = to]
          /\ UNCHANGED <<authVars, history>>
      BY <1>6 DEF ForgetToken
    <2>3. cache' \in [Tokens -> {None} \cup EntryRow]
      BY <1>6 DEF ForgetToken, IdentitySound, IdentityTypeOK, EntryRow
    <2> HIDE DEF to
    <2>4. /\ request' \in [Requests -> RequestState]
          /\ \A x \in Requests : RequestSound(request[x])'
      BY <2>1, <2>2, RequestReplaced DEF Exists, authVars
    <2> QED
      BY <2>2, <2>3, <2>4 DEF IdentitySound, IdentityTypeOK, EntryRow, SessionsOwned, Knows, Exists,
                              authVars, history
  <1> QED  BY <1>3, <1>4, <1>5, <1>6

\* A step that changes the tables keeps the state sound when the tables keep
\* their types, no account disappears, live sessions have an owner, and the
\* request it is part of stays sound.
LEMMA TablesChanged ==
    ASSUME IdentitySound, NEW r \in Requests, NEW q \in RequestState,
           request' = [request EXCEPT ![r] = q],
           RequestSound(q) \/ JustRegistered(q, account'),
           account' \in [Users -> {None} \cup AccountRow],
           \A u \in Users : Exists(u) => Exists(u)',
           grants' \subseteq Users \X PlatformRoles,
           \A g \in grants' : g \in grants \/ Exists(g[1])',
           session' \in [Tokens -> [status : {"none", "live", "ended"}, user : Users \cup {None}]],
           SessionsOwned', UNCHANGED cache,
           invalidFor' \in [Tokens \cap Observed -> 0..(Horizon + 1)],
           demotedFor' \in [Users \cap Observed -> 0..(Horizon + 1)]
    PROVE  IdentitySound'
  <1>1. /\ request' \in [Requests -> RequestState]
        /\ \A x \in Requests : RequestSound(request[x])'
    BY RequestReplaced
  <1>2. \A g \in grants' : Exists(g[1])'
    BY DEF IdentitySound, IdentityTypeOK
  <1> QED
    BY <1>1, <1>2 DEF IdentitySound, IdentityTypeOK, AccountRow

\* Revoking sessions makes none live.
LEMMA RevokeSound ==
    ASSUME IdentitySound
    PROVE  /\ \A t \in Tokens : Revoke(t) \in [status : {"none", "live", "ended"},
                                               user : Users \cup {None}]
           /\ \A t \in Tokens : Revoke(t).status # "live"
           /\ \A t \in Tokens : Revoke(t).status = "none" => session[t].status = "none"
  BY DEF Revoke, IdentitySound, IdentityTypeOK

\* The steps of logins, logouts, refreshes and registrations on the tables.
LEMMA SessionSound ==
    ASSUME IdentitySound, NEW r \in Requests, NEW u \in Users,
           \/ RevokeSession(r) \/ LogoutAll(r) \/ NewSession(r) \/ RegisterGrant(r)
           \/ Login(r, u) \/ Register(r, u)
    PROVE  IdentitySound'
  <1> DEFINE q == request[r]
             SessionRow == [status : {"none", "live", "ended"}, user : Users \cup {None}]
  <1>1. q \in RequestState /\ RequestSound(q)
    BY DEF IdentitySound, IdentityTypeOK
  <1>2. /\ account \in [Users -> {None} \cup AccountRow]
        /\ grants \subseteq Users \X PlatformRoles
        /\ session \in [Tokens -> SessionRow]
        /\ invalidFor \in [Tokens \cap Observed -> 0..(Horizon + 1)]
        /\ demotedFor \in [Users \cap Observed -> 0..(Horizon + 1)]
        /\ SessionsOwned
    BY DEF IdentitySound, IdentityTypeOK, AccountRow
  <1>3. RequestSound(Idle) /\ Idle \in RequestState
    BY RequestFields DEF RequestSound
  <1> DEFINE to(pc) == [q EXCEPT !.pc = pc]
  <1>4. ASSUME q \in Asking, Knows(q.user)
        PROVE  to("newSession") \in RequestState /\ RequestSound(to("newSession"))
    BY <1>4, RequestFields DEF Asking, Reached, RequestSound
  <1>5. CASE RevokeSession(r)
    <2>1. q \in Asking /\ q.tok \in Tokens
      BY <1>1, <1>5, RequestFields DEF RevokeSession, At, RequestSound
    <2>2. UNCHANGED <<account, grants, cache, history>>
      BY <1>5 DEF RevokeSession
    <2>3. session' = [session EXCEPT ![q.tok] = Revoke(q.tok)] \/ session' = session
      BY <1>5 DEF RevokeSession
    <2>4. session' \in [Tokens -> SessionRow] /\ SessionsOwned'
      BY <1>2, <2>1, <2>2, <2>3, RevokeSound DEF SessionsOwned, Knows, Exists
    <2>5. CASE q.kind = "refresh"
      <3>1. Knows(q.user)
        BY <1>1, <1>5, <2>5 DEF RevokeSession, At, RequestSound
      <3>2. request' = [request EXCEPT ![r] = to("newSession")]
        BY <1>5, <2>5 DEF RevokeSession, Goto
      <3> HIDE DEF to
      <3> QED  BY <1>2, <1>4, <2>1, <2>2, <2>4, <3>1, <3>2, TablesChanged DEF Exists, history
    <2>6. CASE q.kind # "refresh"
      BY <1>2, <1>3, <1>5, <2>2, <2>4, <2>6, TablesChanged DEF RevokeSession, Done, Exists, history
    <2> QED  BY <2>5, <2>6
  <1>6. CASE LogoutAll(r)
    <2>1. session' \in [Tokens -> SessionRow] /\ SessionsOwned'
      BY <1>2, <1>6, RevokeSound DEF LogoutAll, RevokeAllOf, SessionsOwned, Knows, Exists
    <2> QED
      BY <1>2, <1>3, <1>6, <2>1, TablesChanged DEF LogoutAll, Done, Exists, history
  <1>7. CASE NewSession(r)
    <2>1. Knows(q.user)
      BY <1>1, <1>7 DEF NewSession, At, RequestSound
    <2>2. session' \in [Tokens -> SessionRow] /\ SessionsOwned'
      BY <1>2, <1>7, <2>1 DEF NewSession, SessionsOwned, Knows, Exists
    <2> QED
      BY <1>2, <1>3, <1>7, <2>2, TablesChanged DEF NewSession, Done, Exists, history
  <1>8. CASE RegisterGrant(r)
    <2>1. q \in Asking /\ Knows(q.user)
      BY <1>1, <1>8, RequestFields DEF RegisterGrant, At, RequestSound
    <2>2. /\ UNCHANGED <<account, session, cache, history>>
          /\ SessionsOwned'
      BY <1>2, <1>8 DEF RegisterGrant, SessionsOwned, Knows, Exists
    <2>3. CASE Done(r) /\ UNCHANGED grants
      BY <1>2, <1>3, <2>2, <2>3, TablesChanged DEF Done, Exists, history
    <2>4. CASE /\ grants' = grants \cup {<<q.user, "Student">>}
               /\ request' = [request EXCEPT ![r] = to("newSession")]
      <3>1. /\ grants' \subseteq Users \X PlatformRoles
            /\ \A g \in grants' : g \in grants \/ Exists(g[1])'
        BY <1>2, <2>1, <2>2, <2>4 DEF Knows, Exists, PlatformRoles
      <3>2. to("newSession") \in RequestState /\ RequestSound(to("newSession"))
        BY <1>4, <2>1
      <3> HIDE DEF to
      <3> QED  BY <1>2, <2>2, <2>4, <3>1, <3>2, TablesChanged DEF Exists, history
    <2> QED  BY <1>8, <2>3, <2>4 DEF RegisterGrant, Goto
  <1>9. CASE Login(r, u)
    <2> DEFINE a == [Asked("login", None, "auth") EXCEPT !.pc = "newSession", !.user = u]
    <2>1. Knows(u)
      BY <1>9 DEF Login, Knows
    <2>2. Asked("login", None, "auth") \in Asking
      BY AskedFields DEF RequestKinds
    <2>3. a \in RequestState /\ RequestSound(a)
      BY <2>1, <2>2, RequestFields DEF Asking, Reached, RequestSound
    <2> QED  BY <1>9, <2>3, OnlyRequest DEF Login
  <1>10. CASE Register(r, u)
    <2> DEFINE a == [Asked("register", None, "auth") EXCEPT !.pc = "grant", !.user = u]
               row == [legacy |-> "user", disabled |-> FALSE]
    <2>1. /\ account' = [account EXCEPT ![u] = row]
          /\ request' = [request EXCEPT ![r] = a]
          /\ UNCHANGED <<grants, session, cache, history>>
      BY <1>10 DEF Register
    <2>2. row \in AccountRow
      BY DEF AccountRow
    <2>3. /\ account' \in [Users -> {None} \cup AccountRow]
          /\ \A v \in Users : Exists(v) => Exists(v)'
          /\ account'[u] # None
      <3> HIDE DEF row
      <3> QED  BY <1>2, <2>1, <2>2, AccountFields DEF Exists
    <2>4. SessionsOwned'
      BY <1>2, <2>1, <2>3 DEF SessionsOwned, Knows
    <2>5. Asked("register", None, "auth") \in Asking
      BY AskedFields DEF RequestKinds
    <2>6. a \in RequestState /\ a.pc = "grant" /\ a.user = u
      BY <2>5, RequestFields DEF Asking, Reached
    <2> HIDE DEF a
    <2> QED
      BY <1>2, <2>1, <2>3, <2>4, <2>6, TablesChanged DEF JustRegistered, history
  <1> QED  BY <1>5, <1>6, <1>7, <1>8, <1>9, <1>10

\* What administrators do to assignments and accounts.
LEMMA AdministrationSound ==
    ASSUME IdentitySound, NEW r \in Requests,
           \/ \E u \in Users, role \in Roles : AssignRole(r, u, role)
           \/ \E g \in grants : RevokeRole(r, g)
           \/ \E u \in Users, disabled \in BOOLEAN : SetUserDisabled(r, u, disabled)
    PROVE  IdentitySound'
  <1> DEFINE SessionRow == [status : {"none", "live", "ended"}, user : Users \cup {None}]
  <1>1. /\ account \in [Users -> {None} \cup AccountRow]
        /\ grants \subseteq Users \X PlatformRoles
        /\ \A x \in grants : Exists(x[1])
        /\ session \in [Tokens -> SessionRow]
        /\ invalidFor \in [Tokens \cap Observed -> 0..(Horizon + 1)]
        /\ demotedFor \in [Users \cap Observed -> 0..(Horizon + 1)]
        /\ SessionsOwned
    BY DEF IdentitySound, IdentityTypeOK, AccountRow
  <1>2. RequestSound(Idle) /\ Idle \in RequestState
    BY RequestFields DEF RequestSound
  <1>3. 0 \in 0..(Horizon + 1)
    BY IdentityConstants DEF Horizon
  <1>4. \A row \in AccountRow : /\ [row EXCEPT !.legacy = "user"] \in AccountRow
                                /\ \A d \in BOOLEAN : [row EXCEPT !.disabled = d] \in AccountRow
    BY DEF AccountRow
  <1>5. \A v \in Users : Exists(v) <=> account[v] \in AccountRow
    BY AccountFields DEF IdentitySound
  <1>6. ASSUME NEW u \in Users, NEW role \in Roles, AssignRole(r, u, role)
        PROVE  IdentitySound'
    <2>1. demotedFor' \in [Users \cap Observed -> 0..(Horizon + 1)]
      BY <1>1, <1>3, <1>6 DEF AssignRole
    <2>2. /\ grants' \subseteq Users \X PlatformRoles
          /\ \A x \in grants' : x \in grants \/ Exists(x[1])'
      BY <1>1, <1>6, IdentityConstants DEF AssignRole, Exists
    <2>3. UNCHANGED <<account, session, cache, invalidFor>> /\ Done(r)
      BY <1>6 DEF AssignRole
    <2>4. SessionsOwned'
      BY <1>1, <2>3 DEF SessionsOwned, Knows, Exists
    <2> QED  BY <1>1, <1>2, <2>1, <2>2, <2>3, <2>4, TablesChanged DEF Done, Exists
  <1>7. ASSUME NEW g \in grants, RevokeRole(r, g)
        PROVE  IdentitySound'
    <2>1. /\ grants' \subseteq grants
          /\ UNCHANGED <<session, cache, invalidFor, demotedFor>> /\ Done(r)
          /\ account' = [account EXCEPT ![g[1]] =
                IF g[2] = "PlatformAdmin" THEN [account[g[1]] EXCEPT !.legacy = "user"]
                ELSE account[g[1]]]
      BY <1>7 DEF RevokeRole
    <2>2. /\ g[1] \in Users /\ account[g[1]] \in AccountRow
          /\ [account[g[1]] EXCEPT !.legacy = "user"] \in AccountRow
      BY <1>1, <1>4, <1>5
    <2>3. /\ account' \in [Users -> {None} \cup AccountRow]
          /\ \A v \in Users : Exists(v) => Exists(v)'
      BY <1>1, <2>1, <2>2, AccountFields DEF Exists
    <2>4. SessionsOwned'
      BY <1>1, <2>1, <2>3 DEF SessionsOwned, Knows
    <2> QED  BY <1>1, <1>2, <2>1, <2>3, <2>4, TablesChanged DEF Done
  <1>8. ASSUME NEW u \in Users, NEW disabled \in BOOLEAN, SetUserDisabled(r, u, disabled)
        PROVE  IdentitySound'
    <2>1. /\ UNCHANGED <<grants, cache, demotedFor>> /\ Done(r)
          /\ account' = [account EXCEPT ![u] = [account[u] EXCEPT !.disabled = disabled]]
          /\ account[u] \in AccountRow /\ [account[u] EXCEPT !.disabled = disabled] \in AccountRow
      BY <1>4, <1>5, <1>8 DEF SetUserDisabled
    <2>2. /\ account' \in [Users -> {None} \cup AccountRow]
          /\ \A v \in Users : Exists(v) => Exists(v)'
      BY <1>1, <2>1, AccountFields DEF Exists
    <2>3. /\ session' \in [Tokens -> SessionRow]
          /\ \A t \in Tokens : session'[t].status = "live" => session'[t] = session[t]
      BY <1>1, <1>8, RevokeSound DEF SetUserDisabled, RevokeAllOf
    <2>4. SessionsOwned'
      BY <1>1, <2>2, <2>3 DEF SessionsOwned, Knows
    <2>5. invalidFor' \in [Tokens \cap Observed -> 0..(Horizon + 1)]
      BY <1>1, <1>3, <1>8 DEF SetUserDisabled
    <2> QED  BY <1>1, <1>2, <2>1, <2>2, <2>3, <2>4, <2>5, TablesChanged DEF Done
  <1> QED  BY <1>6, <1>7, <1>8

\* An entry that grows older is still an entry; a clock stays in its range.
LEMMA Aging ==
    /\ \A entry \in {None} \cup EntryRow :
            Older(entry) # None =>
                entry # None /\ entry \in EntryRow /\ Older(entry) \in EntryRow
                /\ Older(entry).left = entry.left - 1
                /\ Older(entry).user = entry.user /\ Older(entry).roles = entry.roles
    /\ \A n \in 0..(Horizon + 1) : Capped(n) \in 0..(Horizon + 1) /\ Capped(n) <= n + 1
    /\ 0 \in 0..(Horizon + 1)
  <1>1. Horizon \in Nat /\ TTL \in Nat
    BY IdentityConstants DEF Horizon
  <1> QED  BY <1>1 DEF Older, EntryRow, Capped

\* Time, the ends of sessions and the restarts.
LEMMA EnvironmentSound ==
    ASSUME IdentitySound,
           (\E t \in Tokens : SessionExpires(t)) \/ Tick \/ GatewayRestart \/ AuthRestart
    PROVE  IdentitySound'
  <1> DEFINE SessionRow == [status : {"none", "live", "ended"}, user : Users \cup {None}]
  <1>1. /\ account \in [Users -> {None} \cup AccountRow]
        /\ session \in [Tokens -> SessionRow]
        /\ cache \in [Tokens -> {None} \cup EntryRow]
        /\ request \in [Requests -> RequestState]
        /\ SessionsOwned
        /\ \A r \in Requests : RequestSound(request[r])
    BY DEF IdentitySound, IdentityTypeOK, AccountRow, EntryRow
  <1>2. RequestSound(Idle) /\ RequestSound(Idle)' /\ Idle \in RequestState
    BY RequestFields DEF RequestSound
  <1>3. ASSUME NEW t \in Tokens, SessionExpires(t) PROVE IdentitySound'
    <2>1. /\ UNCHANGED <<account, grants, cache, request, history>>
          /\ session' = [session EXCEPT ![t] = [session[t] EXCEPT !.status = "ended"]]
      BY <1>3 DEF SessionExpires
    <2>2. session' \in [Tokens -> SessionRow] /\ SessionsOwned'
      BY <1>1, <2>1 DEF SessionsOwned, Knows, Exists
    <2> QED
      BY <1>1, <2>1, <2>2 DEF IdentitySound, IdentityTypeOK, RequestSound, Knows, Exists, history
  <1>4. CASE Tick
    <2>1. UNCHANGED <<authVars, changes>>
      BY <1>4 DEF Tick
    <2>2. request' \in [Requests -> RequestState] /\ \A r \in Requests : RequestSound(request[r])'
      <3> SUFFICES ASSUME NEW r \in Requests
                   PROVE  request'[r] \in RequestState /\ RequestSound(request[r])'
        BY <1>4 DEF Tick
      <3> DEFINE q == request[r]
      <3>1. CASE Verifying(r)
        <4>1. q \in Asking /\ q.age < VerifyMax
          BY <1>1, <1>4, <3>1, RequestFields DEF Tick, Verifying
        <4>2. request'[r] = [q EXCEPT !.age = q.age + 1]
          BY <1>4, <3>1 DEF Tick
        <4>3. q.age + 1 \in 0..VerifyMax
          BY <4>1, IdentityConstants DEF Asking
        <4>4. request'[r] \in RequestState
          BY <4>1, <4>2, <4>3, RequestFields DEF Asking
        <4>5. RequestSound(request[r])'
          BY <1>1, <2>1, <4>1, <4>2 DEF RequestSound, Asking, Knows, Exists, authVars
        <4> QED  BY <4>4, <4>5
      <3>2. CASE ~Verifying(r)
        BY <1>1, <1>4, <2>1, <3>2 DEF Tick, RequestSound, Knows, Exists, authVars
      <3> QED  BY <3>1, <3>2
    <2>3. cache' \in [Tokens -> {None} \cup EntryRow]
      BY <1>1, <1>4, Aging DEF Tick
    <2>4. /\ invalidFor' \in [Tokens \cap Observed -> 0..(Horizon + 1)]
          /\ demotedFor' \in [Users \cap Observed -> 0..(Horizon + 1)]
      BY <1>4, Aging DEF Tick, IdentitySound, IdentityTypeOK
    <2> QED
      BY <1>1, <2>1, <2>2, <2>3, <2>4
      DEF IdentitySound, IdentityTypeOK, EntryRow, SessionsOwned, Knows, Exists, authVars
  <1>5. CASE GatewayRestart
    BY <1>2, <1>5 DEF GatewayRestart, IdentitySound, IdentityTypeOK, SessionsOwned, Knows, Exists,
                      authVars, history
  <1>6. CASE AuthRestart
    <2>1. /\ UNCHANGED <<account, session, cache, history>>
          /\ grants' = grants \cup Backfill
          /\ request' = [r \in Requests |-> Idle]
      BY <1>6 DEF AuthRestart
    <2>2. \A g \in Backfill : g \in Users \X PlatformRoles /\ Exists(g[1])
      BY DEF Backfill, PlatformRoles
    <2>3. grants' \subseteq Users \X PlatformRoles /\ \A g \in grants' : Exists(g[1])'
      BY <2>1, <2>2 DEF IdentitySound, IdentityTypeOK, Exists
    <2> QED
      BY <1>2, <2>1, <2>3 DEF IdentitySound, IdentityTypeOK, SessionsOwned, Knows, Exists, history
  <1> QED  BY <1>3, <1>4, <1>5, <1>6

\* The initial tables are sound.
LEMMA SoundInit == IdentityInit => IdentitySound
  <1> SUFFICES ASSUME IdentityInit PROVE IdentitySound
    OBVIOUS
  <1> DEFINE row == [legacy |-> "admin", disabled |-> FALSE]
  <1>1. row \in AccountRow
    BY DEF AccountRow
  <1>2. row # None
    BY <1>1, AccountFields
  <1> HIDE DEF row
  <1>3. /\ account = [u \in Users |-> IF u = Root THEN row ELSE None]
        /\ grants = {<<Root, "PlatformAdmin">>} /\ Root \in Users
    BY IdentityConstants DEF IdentityInit, row
  <1>4. /\ account \in [Users -> {None} \cup AccountRow]
        /\ \A g \in grants : Exists(g[1])
        /\ grants \subseteq Users \X PlatformRoles
    BY <1>1, <1>2, <1>3 DEF Exists, PlatformRoles
  <1>5. Horizon \in Nat
    BY IdentityConstants DEF Horizon
  <1>6. IdentityTypeOK
    BY <1>4, <1>5, RequestFields DEF IdentityInit, IdentityTypeOK, AccountRow
  <1>7. SessionsOwned /\ \A r \in Requests : RequestSound(request[r])
    BY RequestFields DEF IdentityInit, SessionsOwned, RequestSound
  <1> QED  BY <1>6, <1>7 DEF IdentitySound

\* Every step keeps the state sound.
LEMMA SoundStep == IdentitySound /\ [IdentityNext]_identityVars => IdentitySound'
  <1> SUFFICES ASSUME IdentitySound, [IdentityNext]_identityVars PROVE IdentitySound'
    OBVIOUS
  <1>1. ASSUME NEW r \in Requests, RequestStep(r) PROVE IdentitySound'
    <2>1. Root \in Users
      BY IdentityConstants
    <2>2. CASE Admit(r)
      <3>1. request[r] \in Asking /\ request[r].tok \in Tokens
        BY <2>2, RequestFields DEF Admit, At, IdentitySound, IdentityTypeOK, RequestSound
      <3> QED  BY <2>2, <3>1, GatewaySound DEF Asking
    <2>3. CASE \/ VerifySession(r) \/ RejectSession(r) \/ VerifyRoles(r) \/ VerifyFallback(r)
               \/ VerifyTimeout(r) \/ Denied(r) \/ ConfirmPassword(r)
      BY <2>3, VerificationSound
    <2>4. CASE RevokeSession(r) \/ LogoutAll(r) \/ NewSession(r) \/ RegisterGrant(r)
      BY <2>1, <2>4, SessionSound
    <2>5. CASE \E u \in Users : Login(r, u) \/ Register(r, u)
      BY <2>5, SessionSound
    <2>6. CASE \E t \in Tokens, kind \in {"call", "admin"} : Arrive(r, t, kind) \/ ArriveKnown(r, t, kind)
      BY <2>6, GatewaySound DEF RequestKinds
    <2>7. CASE \E t \in Tokens, kind \in {"logout", "logoutAll", "refresh"} : ForgetToken(r, t, kind)
      BY <2>7, GatewaySound DEF RequestKinds
    <2>8. CASE \/ \E u \in Users, role \in Roles : AssignRole(r, u, role)
               \/ \E g \in grants : RevokeRole(r, g)
               \/ \E u \in Users, disabled \in BOOLEAN : SetUserDisabled(r, u, disabled)
      BY <2>8, AdministrationSound
    <2> QED  BY <1>1, <2>2, <2>3, <2>4, <2>5, <2>6, <2>7, <2>8 DEF RequestStep
  <1>2. CASE (\E t \in Tokens : SessionExpires(t)) \/ Tick \/ GatewayRestart \/ AuthRestart
    BY <1>2, EnvironmentSound
  <1>3. CASE UNCHANGED identityVars
    BY <1>3 DEF identityVars, IdentitySound, IdentityTypeOK, SessionsOwned, RequestSound, Knows,
                Exists, RequestState
  <1> QED  BY <1>1, <1>2, <1>3 DEF IdentityNext

\* The tables, the token cache and the requests keep their types, whatever the
\* requests, the administrators, the clock and the restarts do.
THEOREM IdentityTypeCorrect == IdentitySpec => []IdentityTypeOK
  <1>1. IdentitySound => IdentityTypeOK
    BY DEF IdentitySound
  <1> QED  BY <1>1, SoundInit, SoundStep, PTL DEF IdentitySpec

-----------------------------------------------------------------------------
(* Who can make an administrator.                                          *)

\* A user is an administrator by the assignment alone.
LEMMA AdminGrant ==
    /\ \A u : IsAdmin(u) <=> <<u, "PlatformAdmin">> \in grants
    /\ \A u : IsAdmin(u)' <=> <<u, "PlatformAdmin">> \in grants'
  BY DEF IsAdmin, PlatformKeys, PlatformRoles

\* Promoted: somebody is handed PlatformAdmin.
Promotion(u) == \E r \in Requests : AssignRole(r, u, "PlatformAdmin")

\* A legacy administrator has the assignment in every state, so the migration
\* of a restart has nobody to promote.
LEMMA AdministratorsMade ==
    ASSUME IdentitySound, LegacyAdminGranted, [IdentityNext]_identityVars
    PROVE  /\ LegacyAdminGranted'
           /\ \A u \in Users : IsAdmin(u)' /\ ~IsAdmin(u) => Promotion(u)
  <1> DEFINE Kept == /\ LegacyAdminGranted'
                     /\ \A u \in Users : IsAdmin(u)' /\ ~IsAdmin(u) => Promotion(u)
  <1>1. CASE UNCHANGED <<account, grants>>
    BY <1>1 DEF LegacyAdminGranted, IsAdmin, PlatformKeys, Exists
  <1>2. ASSUME NEW r \in Requests, NEW u \in Users, Register(r, u) PROVE Kept
    BY <1>2, AdminGrant DEF Register, LegacyAdminGranted, Exists, IdentitySound, IdentityTypeOK
  <1>3. ASSUME NEW r \in Requests, RegisterGrant(r) PROVE Kept
    <2>1. /\ account' = account
          /\ grants' = grants \/ grants' = grants \cup {<<request[r].user, "Student">>}
      BY <1>3 DEF RegisterGrant
    <2>2. \A v : <<v, "PlatformAdmin">> \in grants' <=> <<v, "PlatformAdmin">> \in grants
      BY <2>1
    <2>3. \A v : IsAdmin(v)' <=> IsAdmin(v)
      BY <2>2, AdminGrant
    <2> QED  BY <2>1, <2>3 DEF LegacyAdminGranted, Exists
  <1>4. ASSUME NEW r \in Requests, NEW u \in Users, NEW role \in Roles, AssignRole(r, u, role) PROVE Kept
    <2>1. account' = account /\ grants' = grants \cup {<<u, role>>}
      BY <1>4 DEF AssignRole
    <2>2. LegacyAdminGranted'
      BY <2>1, AdminGrant DEF LegacyAdminGranted, Exists
    <2>3. ASSUME NEW v \in Users, IsAdmin(v)', ~IsAdmin(v) PROVE v = u /\ role = "PlatformAdmin"
      BY <2>1, <2>3, AdminGrant
    <2> QED  BY <1>4, <2>2, <2>3 DEF Promotion
  <1>5. ASSUME NEW r \in Requests, NEW g \in grants, RevokeRole(r, g) PROVE Kept
    <2>1. /\ grants' = grants \ {g}
          /\ account' = [account EXCEPT ![g[1]] =
                IF g[2] = "PlatformAdmin" THEN [account[g[1]] EXCEPT !.legacy = "user"]
                ELSE account[g[1]]]
      BY <1>5 DEF RevokeRole
    <2>2. /\ g[1] \in Users /\ g = <<g[1], g[2]>>
          /\ account \in [Users -> {None} \cup AccountRow]
          /\ account[g[1]] \in AccountRow
      BY AccountFields DEF IdentitySound, IdentityTypeOK
    <2>3. ASSUME NEW v \in Users, Exists(v)', account'[v].legacy = "admin"
          PROVE  IsAdmin(v)'
      <3>1. v = g[1] => g[2] # "PlatformAdmin"
        BY <2>1, <2>2, <2>3 DEF AccountRow
      <3>2. account'[v] = account[v]
        BY <2>1, <2>2, <3>1
      <3>3. IsAdmin(v)
        BY <2>3, <3>2 DEF LegacyAdminGranted, Exists
      <3>4. <<v, "PlatformAdmin">> \in grants
        BY <3>3, AdminGrant
      <3>5. <<v, "PlatformAdmin">> # g
        BY <2>2, <3>1
      <3>6. <<v, "PlatformAdmin">> \in grants'
        BY <2>1, <3>4, <3>5
      <3> QED  BY <3>6, AdminGrant
    <2> QED  BY <2>1, <2>3, AdminGrant DEF LegacyAdminGranted
  <1>6. ASSUME NEW r \in Requests, NEW u \in Users, NEW disabled \in BOOLEAN,
               SetUserDisabled(r, u, disabled)
        PROVE  Kept
    BY <1>6, AdminGrant DEF SetUserDisabled, LegacyAdminGranted, Exists, IdentitySound, IdentityTypeOK
  <1>7. CASE AuthRestart
    BY <1>7, AdminGrant DEF AuthRestart, Backfill, LegacyAdminGranted, Exists
  <1>8. CASE \/ \E t \in Tokens : SessionExpires(t)
             \/ Tick \/ GatewayRestart \/ UNCHANGED identityVars
    BY <1>1, <1>8 DEF SessionExpires, Tick, GatewayRestart, identityVars, authVars
  <1>9. ASSUME NEW r \in Requests, RequestStep(r) PROVE Kept
    <2>1. CASE \/ \E t \in Tokens, kind \in {"call", "admin"} : Arrive(r, t, kind) \/ ArriveKnown(r, t, kind)
               \/ \E t \in Tokens, kind \in {"logout", "logoutAll", "refresh"} : ForgetToken(r, t, kind)
               \/ VerifySession(r) \/ RejectSession(r) \/ VerifyRoles(r) \/ VerifyFallback(r)
               \/ VerifyTimeout(r) \/ Admit(r) \/ Denied(r) \/ ConfirmPassword(r)
               \/ \E u \in Users : Login(r, u)
      <3>1. UNCHANGED <<account, grants>>
        BY <2>1 DEF Arrive, ArriveKnown, ForgetToken, VerifySession, RejectSession, VerifyRoles,
                    VerifyFallback, VerifyTimeout, Admit, Denied, ConfirmPassword, Login, authVars
      <3> QED  BY <1>1, <3>1
    <2>2. CASE RevokeSession(r) \/ LogoutAll(r) \/ NewSession(r)
      BY <1>1, <2>2 DEF RevokeSession, LogoutAll, NewSession
    <2> QED  BY <1>2, <1>3, <1>4, <1>5, <1>6, <1>9, <2>1, <2>2 DEF RequestStep
  <1> QED  BY <1>7, <1>8, <1>9 DEF IdentityNext

\* No assignment comes back by itself: a user becomes an administrator in no
\* other way than by AssignRole, in particular not by the migration that every
\* start of the auth service runs.
THEOREM NoPromotionByRestart == IdentitySpec => RevokedStaysRevoked
  <1>1. IdentityInit => LegacyAdminGranted
    BY AdminGrant DEF IdentityInit, LegacyAdminGranted, Exists
  <1>2. IdentitySound /\ LegacyAdminGranted /\ [IdentityNext]_identityVars => LegacyAdminGranted'
    BY AdministratorsMade
  <1>3. IdentitySound /\ LegacyAdminGranted /\ [IdentityNext]_identityVars =>
            [\A u \in Users : IsAdmin(u)' /\ ~IsAdmin(u) =>
                \E r \in Requests : AssignRole(r, u, "PlatformAdmin")]_identityVars
    BY AdministratorsMade DEF Promotion
  <1> QED
    BY <1>1, <1>2, <1>3, SoundInit, SoundStep, PTL DEF IdentitySpec, RevokedStaysRevoked

-----------------------------------------------------------------------------
(* How old what the gateway believes may be.                               *)

\* The points at which a verification has read something.
Learned == {"roles", "fallback", "verified"}

\* In a step of a request nobody else's request moves; only the three reads
\* of a verification lead to a point where something has been learned, and
\* only an answer that is admitted fills the cache.
LEMMA RequestMoves ==
    ASSUME IdentitySound, NEW r \in Requests, RequestStep(r)
    PROVE  /\ \A x \in Requests : x # r => request'[x] = request[x]
           /\ \/ VerifySession(r) \/ VerifyRoles(r) \/ VerifyFallback(r)
              \/ request'[r].pc \notin Learned
           /\ Admit(r) \/ \A t \in Tokens : cache'[t] \in {None, cache[t]}
  <1> DEFINE Settled == /\ \A x \in Requests : x # r => request'[x] = request[x]
                        /\ request'[r].pc \notin Learned
             Uncached == \A t \in Tokens : cache'[t] \in {None, cache[t]}
  <1> USE DEF Learned
  <1>1. request \in [Requests -> RequestState] /\ cache \in [Tokens -> {None} \cup EntryRow]
    BY DEF IdentitySound, IdentityTypeOK, EntryRow
  <1>2. Done(r) => Settled
    BY <1>1, RequestFields DEF Done
  <1>3. ASSUME NEW pc \in Reached \ Learned, request[r].pc # "idle", Goto(r, pc) PROVE Settled
    <2>1. request[r] \in Asking
      BY <1>1, <1>3, RequestFields
    <2> QED  BY <1>1, <1>3, <2>1 DEF Goto, Asking
  <1>4. \A t \in Tokens : \A user, roles, kind : Forwarded(kind, t, user, roles).pc \notin Learned
    BY ForwardedFields, AskedFields, RequestFields DEF RequestKinds
  <1>5. CASE VerifySession(r) \/ VerifyRoles(r) \/ VerifyFallback(r)
    BY <1>1, <1>5 DEF VerifySession, VerifyRoles, VerifyFallback, Goto
  <1>6. CASE \/ RejectSession(r) \/ VerifyTimeout(r) \/ Denied(r)
             \/ LogoutAll(r) \/ NewSession(r)
    BY <1>2, <1>6 DEF RejectSession, VerifyTimeout, Denied, LogoutAll, NewSession
  <1>7. CASE ConfirmPassword(r)
    BY <1>2, <1>3, <1>7 DEF ConfirmPassword, Executing, At, Reached
  <1>8. CASE RevokeSession(r) \/ RegisterGrant(r)
    BY <1>2, <1>3, <1>8 DEF RevokeSession, RegisterGrant, At, Reached
  <1>9. ASSUME NEW u \in Users, Login(r, u) \/ Register(r, u) PROVE Settled /\ Uncached
    <2>1. \A kind \in RequestKinds, pc \in {"newSession", "grant"} :
            [Asked(kind, None, "auth") EXCEPT !.pc = pc, !.user = u].pc = pc
      BY AskedFields DEF Asking
    <2>2. UNCHANGED cache
      BY <1>9 DEF Login, Register
    <2> QED  BY <1>1, <1>9, <2>1, <2>2 DEF Login, Register, RequestKinds
  <1>10. ASSUME NEW t \in Tokens, NEW kind \in RequestKinds,
                Arrive(r, t, kind) \/ ArriveKnown(r, t, kind) \/ ForgetToken(r, t, kind)
         PROVE  Settled /\ Uncached
    <2>1. Asked(kind, t, "auth") \in Asking
      BY AskedFields
    <2>2. CASE Arrive(r, t, kind)
      BY <1>1, <2>2, AskedFields DEF Arrive
    <2>3. CASE ArriveKnown(r, t, kind)
      BY <1>1, <1>4, <2>3 DEF ArriveKnown
    <2>4. CASE ForgetToken(r, t, kind)
      BY <1>1, <2>1, <2>4 DEF ForgetToken, Asking
    <2> QED  BY <1>10, <2>2, <2>3, <2>4
  <1>11. CASE Admit(r)
    <2>1. request[r].tok \in Tokens
      BY <1>11 DEF Admit, At, IdentitySound, RequestSound
    <2> QED  BY <1>1, <1>4, <1>11, <2>1 DEF Admit
  <1>12. CASE \/ \E u \in Users, role \in Roles : AssignRole(r, u, role)
              \/ \E g \in grants : RevokeRole(r, g)
              \/ \E u \in Users, disabled \in BOOLEAN : SetUserDisabled(r, u, disabled)
    BY <1>2, <1>12 DEF AssignRole, RevokeRole, SetUserDisabled
  <1>13. CASE \E t \in Tokens, kind \in {"call", "admin"} : Arrive(r, t, kind) \/ ArriveKnown(r, t, kind)
    BY <1>10, <1>13 DEF RequestKinds
  <1>14. CASE \E t \in Tokens, kind \in {"logout", "logoutAll", "refresh"} : ForgetToken(r, t, kind)
    BY <1>10, <1>14 DEF RequestKinds
  <1> QED
    BY <1>5, <1>6, <1>7, <1>8, <1>9, <1>11, <1>12, <1>13, <1>14 DEF RequestStep

\* Without time passing, no clock advances.
LEMMA ClocksStand ==
    ASSUME IdentitySound, [IdentityNext]_identityVars, ~Tick
    PROVE  /\ \A t \in Tokens \cap Observed : invalidFor'[t] \in {0, invalidFor[t]}
           /\ \A u \in Users \cap Observed : demotedFor'[u] \in {0, demotedFor[u]}
  <1>1. /\ invalidFor \in [Tokens \cap Observed -> 0..(Horizon + 1)]
        /\ demotedFor \in [Users \cap Observed -> 0..(Horizon + 1)]
    BY DEF IdentitySound, IdentityTypeOK
  <1>2. ASSUME NEW r \in Requests, RequestStep(r),
               \A u \in Users, role \in Roles : ~AssignRole(r, u, role),
               \A u \in Users, disabled \in BOOLEAN : ~SetUserDisabled(r, u, disabled)
        PROVE  UNCHANGED <<invalidFor, demotedFor>>
    BY <1>2 DEF RequestStep, Arrive, ArriveKnown, ForgetToken, VerifySession, RejectSession, VerifyRoles,
        VerifyFallback, VerifyTimeout, Admit, Denied, ConfirmPassword, Login, Register, RevokeSession,
        LogoutAll, NewSession, RegisterGrant, RevokeRole, history
  <1>3. ASSUME NEW r \in Requests, NEW u \in Users, NEW role \in Roles, AssignRole(r, u, role)
        PROVE  /\ UNCHANGED invalidFor
               /\ \A v \in Users \cap Observed : demotedFor'[v] \in {0, demotedFor[v]}
    BY <1>1, <1>3 DEF AssignRole
  <1>4. ASSUME NEW r \in Requests, NEW u \in Users, NEW disabled \in BOOLEAN,
               SetUserDisabled(r, u, disabled)
        PROVE  /\ UNCHANGED demotedFor
               /\ \A t \in Tokens \cap Observed : invalidFor'[t] \in {0, invalidFor[t]}
    BY <1>1, <1>4 DEF SetUserDisabled
  <1>5. ASSUME NEW t \in Tokens, SessionExpires(t) PROVE UNCHANGED history
    BY <1>5 DEF SessionExpires
  <1>6. CASE GatewayRestart \/ AuthRestart \/ UNCHANGED identityVars
    BY <1>6 DEF GatewayRestart, AuthRestart, identityVars, history
  <1> QED  BY <1>2, <1>3, <1>4, <1>5, <1>6 DEF IdentityNext, history

\* The clock of a token stands at 0 while auth accepts it.
LEMMA TokenClockReset ==
    ASSUME IdentitySound, ClocksReset, [IdentityNext]_identityVars,
           NEW t \in Tokens \cap Observed, (session[t].status = "none" \/ SessionOK(t))'
    PROVE  invalidFor'[t] = 0
  <1>1. /\ account \in [Users -> {None} \cup AccountRow]
        /\ \A u \in Users : Exists(u) <=> account[u] \in AccountRow
        /\ invalidFor \in [Tokens \cap Observed -> 0..(Horizon + 1)]
        /\ session \in [Tokens -> [status : {"none", "live", "ended"}, user : Users \cup {None}]]
    BY AccountFields DEF IdentitySound, IdentityTypeOK
  <1>2. session[t].status = "none" \/ SessionOK(t) => invalidFor[t] = 0
    BY DEF ClocksReset
  <1>3. CASE /\ session'[t] = session[t] \/ session[t].status = "none" \/ session'[t].status = "ended"
             /\ session[t].status = "live" =>
                    account'[session[t].user].disabled = account[session[t].user].disabled
             /\ invalidFor' = invalidFor
    BY <1>2, <1>3 DEF SessionOK
  <1>4. CASE UNCHANGED <<session, account, invalidFor>>
    BY <1>3, <1>4
  <1>5. CASE Tick
    BY <1>1, <1>5 DEF Tick, authVars, SessionOK
  <1>6. CASE GatewayRestart \/ AuthRestart \/ UNCHANGED identityVars
    BY <1>4, <1>6 DEF GatewayRestart, AuthRestart, identityVars, authVars, history
  <1>7. ASSUME NEW x \in Tokens, SessionExpires(x) PROVE invalidFor'[t] = 0
    BY <1>1, <1>3, <1>7 DEF SessionExpires, history
  <1>8. ASSUME NEW r \in Requests, RequestStep(r) PROVE invalidFor'[t] = 0
    <2>1. Revoke(t) = session[t] \/ Revoke(t).status = "ended"
      BY <1>1 DEF Revoke
    <2>2. CASE RevokeSession(r) \/ LogoutAll(r)
      BY <1>1, <1>3, <2>1, <2>2 DEF RevokeSession, LogoutAll, RevokeAllOf, history
    <2>3. CASE NewSession(r)
      BY <1>1, <1>3, <2>3 DEF NewSession, history
    <2>4. ASSUME NEW u \in Users, Register(r, u) PROVE invalidFor'[t] = 0
      <3>1. session[t].status = "live" => session[t].user # u
        BY <2>4 DEF Register, IdentitySound, SessionsOwned, Knows
      <3>2. /\ UNCHANGED <<session, invalidFor>>
            /\ \A v : v # u => account'[v] = account[v]
        BY <1>1, <2>4 DEF Register, history
      <3> QED  BY <1>3, <3>1, <3>2
    <2>5. ASSUME NEW g \in grants, RevokeRole(r, g) PROVE invalidFor'[t] = 0
      <3>1. g[1] \in Users /\ account[g[1]] \in AccountRow
        BY <1>1 DEF IdentitySound, IdentityTypeOK
      <3>2. \A u : account'[u].disabled = account[u].disabled \/ u \notin Users
        BY <1>1, <2>5, <3>1 DEF RevokeRole, AccountRow
      <3>3. session[t].status = "live" => session[t].user \in Users
        BY DEF IdentitySound, SessionsOwned, Knows
      <3>4. UNCHANGED <<session, invalidFor>>
        BY <2>5 DEF RevokeRole
      <3> QED  BY <1>3, <3>2, <3>3, <3>4
    <2>6. ASSUME NEW u \in Users, NEW disabled \in BOOLEAN, SetUserDisabled(r, u, disabled)
          PROVE  invalidFor'[t] = 0
      <3>1. account' = [account EXCEPT ![u] = [account[u] EXCEPT !.disabled = disabled]]
        BY <2>6 DEF SetUserDisabled
      <3>2. account[u] \in AccountRow /\ account'[u].disabled = disabled
        BY <1>1, <2>6, <3>1 DEF SetUserDisabled, AccountRow
      <3>3. invalidFor'[t] = IF ~disabled /\ session[t].user = u /\ session[t].status = "live"
                             THEN 0 ELSE invalidFor[t]
        BY <1>1, <2>6 DEF SetUserDisabled
      <3>4. CASE disabled
        <4>1. session'[t] = IF session[t].user = u THEN Revoke(t) ELSE session[t]
          BY <2>6, <3>4 DEF SetUserDisabled, RevokeAllOf
        <4> QED  BY <1>1, <1>2, <2>1, <3>1, <3>3, <3>4, <4>1 DEF SessionOK
      <3>5. CASE ~disabled
        BY <1>1, <1>2, <2>6, <3>1, <3>3, <3>5 DEF SessionOK, SetUserDisabled
      <3> QED  BY <3>4, <3>5
    <2>7. CASE UNCHANGED <<session, account, invalidFor>>
      BY <1>4, <2>7
    <2>8. CASE \/ VerifySession(r) \/ RejectSession(r) \/ VerifyRoles(r) \/ VerifyFallback(r)
               \/ VerifyTimeout(r) \/ Admit(r) \/ Denied(r) \/ ConfirmPassword(r) \/ RegisterGrant(r)
               \/ \E t1 \in Tokens, kind \in {"call", "admin"} : Arrive(r, t1, kind) \/ ArriveKnown(r, t1, kind)
               \/ \E t1 \in Tokens, kind \in {"logout", "logoutAll", "refresh"} : ForgetToken(r, t1, kind)
               \/ \E u \in Users : Login(r, u)
               \/ \E u \in Users, role \in Roles : AssignRole(r, u, role)
      BY <2>7, <2>8 DEF VerifySession, RejectSession, VerifyRoles, VerifyFallback, VerifyTimeout, Admit,
                        Denied, ConfirmPassword, RegisterGrant, Arrive, ArriveKnown, ForgetToken, Login,
                        AssignRole, authVars, history
    <2> QED  BY <1>8, <2>2, <2>3, <2>4, <2>5, <2>6, <2>8 DEF RequestStep
  <1> QED  BY <1>5, <1>6, <1>7, <1>8 DEF IdentityNext

\* The clock of a user stands at 0 while the user is an administrator.
LEMMA UserClockReset ==
    ASSUME IdentitySound, LegacyAdminGranted, ClocksReset, [IdentityNext]_identityVars,
           NEW u \in Users \cap Observed, IsAdmin(u)'
    PROVE  demotedFor'[u] = 0
  <1>1. demotedFor \in [Users \cap Observed -> 0..(Horizon + 1)]
    BY DEF IdentitySound, IdentityTypeOK
  <1>2. CASE Promotion(u)
    BY <1>1, <1>2 DEF Promotion, AssignRole
  <1>3. CASE Tick
    BY <1>1, <1>3 DEF Tick, authVars, IsAdmin, PlatformKeys
  <1>4. CASE ~Tick /\ ~Promotion(u)
    <2>1. IsAdmin(u)
      BY <1>4, AdministratorsMade
    <2> QED  BY <1>4, <2>1, ClocksStand DEF ClocksReset
  <1> QED  BY <1>2, <1>3, <1>4

\* A read of a verification is not older than the request that makes it.
LEMMA ReadsAreFresh ==
    ASSUME IInv, NEW r \in Requests,
           VerifySession(r) \/ VerifyRoles(r) \/ VerifyFallback(r)
    PROVE  VerificationFresh(request[r])'
  <1> DEFINE q == request[r]
  <1>1. /\ IdentitySound /\ LegacyAdminGranted /\ ClocksReset /\ VerificationFresh(q)
        /\ request \in [Requests -> RequestState] /\ RequestSound(q)
        /\ UNCHANGED <<authVars, history>>
    BY DEF IInv, IdentitySound, IdentityTypeOK, VerifySession, VerifyRoles, VerifyFallback
  <1>2. q \in Asking /\ q.age \in Nat /\ q.tok \in Tokens
    BY <1>1, IdentityConstants, RequestFields
    DEF VerifySession, VerifyRoles, VerifyFallback, At, Asking, RequestSound
  <1>3. UNCHANGED <<invalidFor, demotedFor>>
    BY <1>1 DEF history
  <1>4. CASE VerifySession(r)
    <2> DEFINE u == session[q.tok].user
    <2>1. SessionOK(q.tok) /\ q.pc = "session"
      BY <1>4 DEF VerifySession, At
    <2>2. Knows(u)
      BY <1>1, <1>2, <2>1 DEF IdentitySound, SessionsOwned, SessionOK
    <2>3. q.tok \in Observed => invalidFor[q.tok] = 0
      BY <1>1, <1>2, <2>1 DEF ClocksReset
    <2>4. u \in Observed /\ account[u].legacy = "admin" => demotedFor[u] = 0
      BY <1>1, <2>2 DEF ClocksReset, LegacyAdminGranted, Knows
    <2>5. \/ request'[r] = [q EXCEPT !.pc = "known", !.user = u]
          \/ request'[r] = [q EXCEPT !.pc = "roles", !.user = u, !.legacy = account[u].legacy]
      BY <1>1, <1>4 DEF VerifySession
    <2>6. \/ request'[r].pc = "known"
          \/ /\ request'[r].pc = "roles" /\ request'[r].user = u /\ request'[r].tok = q.tok
             /\ request'[r].legacy = account[u].legacy /\ request'[r].age = q.age
      BY <1>2, <2>5 DEF Asking
    <2> QED  BY <1>2, <1>3, <2>3, <2>4, <2>6 DEF VerificationFresh, Believes
  <1>5. CASE VerifyRoles(r)
    <2> DEFINE keys == PlatformKeys(q.user)
    <2>1. q.pc = "roles" /\ Knows(q.user)
      BY <1>1, <1>5 DEF VerifyRoles, At, RequestSound
    <2>2. q.user \in Observed /\ "PlatformAdmin" \in keys => demotedFor[q.user] = 0
      BY <1>1, <2>1 DEF ClocksReset, IsAdmin, Knows
    <2>3. \/ request'[r] = [q EXCEPT !.pc = "fallback"]
          \/ request'[r] = [q EXCEPT !.roles = keys, !.legacy = None, !.pc = "verified"]
      BY <1>1, <1>5 DEF VerifyRoles, Goto
    <2>4. /\ request'[r].user = q.user /\ request'[r].tok = q.tok /\ request'[r].age = q.age
          /\ request'[r].caller = q.caller
          /\ \/ request'[r].pc = "fallback" /\ request'[r].legacy = q.legacy
             \/ request'[r].pc = "verified" /\ request'[r].roles = keys
      BY <1>2, <2>3 DEF Asking
    <2> QED  BY <1>1, <1>2, <1>3, <2>1, <2>2, <2>4 DEF VerificationFresh, Believes
  <1>6. CASE VerifyFallback(r)
    <2>1. q.pc = "fallback"
      BY <1>6 DEF VerifyFallback, At
    <2>2. "PlatformAdmin" \in FallbackRoles(r) => q.legacy = "admin"
      BY DEF FallbackRoles
    <2>3. request'[r] = [q EXCEPT !.roles = FallbackRoles(r), !.legacy = None, !.pc = "verified"]
      BY <1>1, <1>6 DEF VerifyFallback
    <2>4. /\ request'[r].user = q.user /\ request'[r].tok = q.tok /\ request'[r].age = q.age
          /\ request'[r].caller = q.caller
          /\ request'[r].pc = "verified" /\ request'[r].roles = FallbackRoles(r)
      BY <1>2, <2>3 DEF Asking
    <2> QED  BY <1>1, <1>2, <1>3, <2>1, <2>2, <2>4 DEF VerificationFresh, Believes
  <1> QED  BY <1>4, <1>5, <1>6

\* An answer that is admitted becomes an entry no older than the verification.
LEMMA AdmittedIsFresh ==
    ASSUME IInv, NEW r \in Requests, Admit(r), NEW t \in Tokens, t = request[r].tok
    PROVE  EntryFresh(t)'
  <1> DEFINE q == request[r]
             entry == [user |-> q.user, roles |-> q.roles, left |-> TTL]
  <1>1. /\ VerificationFresh(q) /\ q \in RequestState /\ q.pc = "verified" /\ q.caller = "gateway"
        /\ cache \in [Tokens -> {None} \cup EntryRow]
        /\ UNCHANGED <<invalidFor, demotedFor>>
    BY DEF IInv, IdentitySound, IdentityTypeOK, EntryRow, Admit, At, history
  <1>2. q \in Asking /\ q.age \in 0..VerifyMax
    BY <1>1, RequestFields DEF Asking
  <1>3. cache'[t] = entry
    BY <1>1 DEF Admit
  <1>4. EntryAge(entry) = VerifyMax
    BY IdentityConstants DEF EntryAge
  <1>5. /\ t \in Observed => invalidFor[t] <= q.age
        /\ q.user \in Observed /\ "PlatformAdmin" \in q.roles => demotedFor[q.user] <= q.age
    BY <1>1 DEF VerificationFresh, Believes
  <1>6. q.tok \in Tokens /\ q.user \in Users
    BY <1>1 DEF IInv, IdentitySound, RequestSound, Knows
  <1>7. /\ \A x \in Tokens \cap Observed : invalidFor[x] \in Nat
        /\ \A u \in Users \cap Observed : demotedFor[u] \in Nat
    BY IdentityConstants DEF IInv, IdentitySound, IdentityTypeOK, Horizon
  <1> QED
    BY <1>1, <1>2, <1>3, <1>4, <1>5, <1>6, <1>7, IdentityConstants DEF EntryFresh

\* The clocks, ages and entries are numbers and records.
LEMMA FreshTypes ==
    ASSUME IdentitySound
    PROVE  /\ \A t \in Tokens \cap Observed : invalidFor[t] \in 0..(Horizon + 1)
           /\ \A u \in Users \cap Observed : demotedFor[u] \in 0..(Horizon + 1)
           /\ \A r \in Requests : request[r].pc \in Learned =>
                /\ request[r] \in Asking /\ request[r].age \in Nat
                /\ request[r].tok \in Tokens /\ request[r].user \in Users
           /\ \A t \in Tokens : cache[t] # None =>
                /\ cache[t] \in EntryRow /\ cache[t].left \in 0..TTL /\ cache[t].user \in Users
                /\ EntryAge(cache[t]) \in Nat
           /\ Horizon \in Nat /\ TTL \in Nat /\ VerifyMax \in Nat
  <1>1. Horizon \in Nat /\ TTL \in Nat /\ VerifyMax \in Nat
    BY IdentityConstants DEF Horizon
  <1>2. ASSUME NEW r \in Requests, request[r].pc \in Learned
        PROVE  /\ request[r] \in Asking /\ request[r].age \in Nat
               /\ request[r].tok \in Tokens /\ request[r].user \in Users
    <2>1. request[r] \in Asking
      BY <1>2, RequestFields DEF IdentitySound, IdentityTypeOK, Learned
    <2> QED
      BY <1>1, <1>2, <2>1 DEF Asking, IdentitySound, RequestSound, Knows, Learned
  <1>3. ASSUME NEW t \in Tokens, cache[t] # None
        PROVE  /\ cache[t] \in EntryRow /\ cache[t].left \in 0..TTL /\ cache[t].user \in Users
               /\ EntryAge(cache[t]) \in Nat
    <2>1. cache[t] \in EntryRow
      BY <1>3 DEF IdentitySound, IdentityTypeOK, EntryRow
    <2>2. cache[t].left \in 0..TTL /\ cache[t].user \in Users
      BY <2>1 DEF EntryRow
    <2> QED  BY <1>1, <2>1, <2>2 DEF EntryAge
  <1> QED  BY <1>1, <1>2, <1>3 DEF IdentitySound, IdentityTypeOK

\* A tick makes the requests and the entries older by as much as the clocks.
LEMMA TickFresh ==
    ASSUME IInv, Tick
    PROVE  /\ \A r \in Requests : VerificationFresh(request[r])'
           /\ \A t \in Tokens : EntryFresh(t)'
  <1>1. /\ IdentitySound /\ cache \in [Tokens -> {None} \cup EntryRow]
        /\ invalidFor \in [Tokens \cap Observed -> 0..(Horizon + 1)]
        /\ demotedFor \in [Users \cap Observed -> 0..(Horizon + 1)]
    BY DEF IInv, IdentitySound, IdentityTypeOK, EntryRow
  <1>2. /\ \A t \in Tokens \cap Observed : /\ invalidFor'[t] \in Nat
                                         /\ invalidFor'[t] <= invalidFor[t] + 1
        /\ \A u \in Users \cap Observed : /\ demotedFor'[u] \in Nat
                                         /\ demotedFor'[u] <= demotedFor[u] + 1
    BY <1>1, Aging, FreshTypes DEF Tick
  <1>3. ASSUME NEW r \in Requests PROVE VerificationFresh(request[r])'
    <2> DEFINE q == request[r]
    <2>1. CASE q.pc \in Learned /\ q.caller = "gateway"
      <3>1. request'[r] = [q EXCEPT !.age = q.age + 1]
        BY <2>1 DEF Tick, Verifying, Learned
      <3>2. q \in Asking /\ q.age \in Nat /\ q.tok \in Tokens /\ q.user \in Users
        BY <1>1, <2>1, FreshTypes
      <3>3. /\ request'[r].age = q.age + 1 /\ request'[r].pc = q.pc /\ request'[r].tok = q.tok
            /\ request'[r].user = q.user /\ request'[r].legacy = q.legacy /\ request'[r].roles = q.roles
        BY <3>1, <3>2 DEF Asking
      <3>4. VerificationFresh(q)
        BY DEF IInv
      <3>5. q.tok \in Observed => invalidFor'[q.tok] <= q.age + 1
        BY <1>2, <2>1, <3>2, <3>4, <1>1, FreshTypes DEF VerificationFresh, Learned
      <3>6. q.user \in Observed /\ Believes(q) => demotedFor'[q.user] <= q.age + 1
        BY <1>2, <2>1, <3>2, <3>4, <1>1, FreshTypes DEF VerificationFresh, Learned
      <3> QED  BY <3>3, <3>5, <3>6 DEF VerificationFresh, Believes
    <2>2. CASE ~(q.pc \in Learned /\ q.caller = "gateway")
      <3>1. q \in RequestState
        BY <1>1 DEF IdentitySound, IdentityTypeOK
      <3>2. \/ request'[r] = q
            \/ Verifying(r) /\ request'[r] = [q EXCEPT !.age = q.age + 1]
        BY DEF Tick
      <3>3. Verifying(r) => q \in Asking
        BY <3>1, RequestFields DEF Verifying
      <3>4. \/ request'[r] = q
            \/ request'[r].pc = q.pc /\ request'[r].caller = q.caller
        BY <3>2, <3>3 DEF Asking
      <3> QED  BY <2>2, <3>4 DEF VerificationFresh, Learned
    <2> QED  BY <2>1, <2>2
  <1>4. ASSUME NEW t \in Tokens PROVE EntryFresh(t)'
    <2>1. SUFFICES ASSUME cache'[t] # None
                   PROVE  /\ t \in Observed => invalidFor'[t] <= EntryAge(cache'[t])
                          /\ cache'[t].user \in Observed /\ "PlatformAdmin" \in cache'[t].roles =>
                                demotedFor'[cache'[t].user] <= EntryAge(cache'[t])
      BY DEF EntryFresh, EntryAge
    <2>2. /\ cache[t] # None /\ cache[t] \in EntryRow
          /\ cache'[t].left = cache[t].left - 1
          /\ cache'[t].user = cache[t].user /\ cache'[t].roles = cache[t].roles
      BY <1>1, <2>1, Aging DEF Tick
    <2>3. cache[t].left \in 0..TTL /\ cache[t].user \in Users /\ TTL \in Nat /\ VerifyMax \in Nat
      BY <1>1, <2>2, FreshTypes
    <2>4. EntryAge(cache'[t]) = EntryAge(cache[t]) + 1 /\ EntryAge(cache[t]) \in Nat
      BY <2>2, <2>3 DEF EntryAge
    <2>5. EntryFresh(t)
      BY DEF IInv
    <2>6. t \in Observed => invalidFor'[t] <= EntryAge(cache'[t])
      BY <1>1, <1>2, <2>2, <2>4, <2>5, FreshTypes DEF EntryFresh
    <2>7. cache'[t].user \in Observed /\ "PlatformAdmin" \in cache'[t].roles =>
                demotedFor'[cache'[t].user] <= EntryAge(cache'[t])
      BY <1>1, <1>2, <2>2, <2>3, <2>4, <2>5, FreshTypes DEF EntryFresh
    <2> QED  BY <2>6, <2>7
  <1> QED  BY <1>3, <1>4

\* What has been believed stays as old as it was while no time passes.
LEMMA StaysFresh ==
    ASSUME IInv, [IdentityNext]_identityVars, ~Tick
    PROVE  /\ \A r \in Requests : request'[r] = request[r] => VerificationFresh(request[r])'
           /\ \A t \in Tokens : cache'[t] \in {None, cache[t]} => EntryFresh(t)'
  <1>1. /\ \A t \in Tokens \cap Observed : invalidFor'[t] \in {0, invalidFor[t]}
        /\ \A u \in Users \cap Observed : demotedFor'[u] \in {0, demotedFor[u]}
    BY ClocksStand DEF IInv
  <1>2. ASSUME NEW r \in Requests, request'[r] = request[r] PROVE VerificationFresh(request[r])'
    <2> DEFINE q == request[r]
    <2>1. CASE q.pc \in Learned /\ q.caller = "gateway"
      <3>1. q.age \in Nat /\ q.tok \in Tokens /\ q.user \in Users /\ VerificationFresh(q)
        BY <2>1, FreshTypes DEF IInv
      <3> QED  BY <1>1, <1>2, <2>1, <3>1 DEF VerificationFresh, Believes, Learned
    <2>2. CASE ~(q.pc \in Learned /\ q.caller = "gateway")
      BY <1>2, <2>2 DEF VerificationFresh, Learned
    <2> QED  BY <2>1, <2>2
  <1>3. ASSUME NEW t \in Tokens, cache'[t] \in {None, cache[t]} PROVE EntryFresh(t)'
    <2>1. CASE cache'[t] = None
      BY <2>1 DEF EntryFresh
    <2>2. CASE cache'[t] = cache[t] /\ cache[t] # None
      <3>1. EntryAge(cache[t]) \in Nat /\ cache[t].user \in Users /\ EntryFresh(t)
        BY <2>2, FreshTypes DEF IInv
      <3> QED  BY <1>1, <2>2, <3>1 DEF EntryFresh, EntryAge
    <2> QED  BY <1>3, <2>1, <2>2
  <1> QED  BY <1>2, <1>3

\* The invariant is inductive.
LEMMA IInvStep == IInv /\ [IdentityNext]_identityVars => IInv'
  <1> SUFFICES ASSUME IInv, [IdentityNext]_identityVars PROVE IInv'
    OBVIOUS
  <1>1. IdentitySound' /\ LegacyAdminGranted'
    BY SoundStep, AdministratorsMade DEF IInv
  <1>2. ClocksReset'
    BY TokenClockReset, UserClockReset DEF IInv, ClocksReset
  <1>3. (\A r \in Requests : VerificationFresh(request[r])') /\ (\A t \in Tokens : EntryFresh(t)')
    <2>1. CASE Tick
      BY <2>1, TickFresh
    <2>2. CASE \E r \in Requests : RequestStep(r) /\ ~Tick
      <3>1. PICK r \in Requests : RequestStep(r) /\ ~Tick
        BY <2>2
      <3>2. IdentitySound
        BY DEF IInv
      <3>3. ASSUME NEW x \in Requests PROVE VerificationFresh(request[x])'
        <4>1. CASE x # r
          BY <3>1, <3>2, <4>1, RequestMoves, StaysFresh
        <4>2. CASE x = r /\ (VerifySession(r) \/ VerifyRoles(r) \/ VerifyFallback(r))
          BY <4>2, ReadsAreFresh
        <4>3. CASE x = r /\ request'[r].pc \notin Learned
          BY <4>3 DEF VerificationFresh, Learned
        <4> QED  BY <3>1, <3>2, <4>1, <4>2, <4>3, RequestMoves
      <3>4. ASSUME NEW t \in Tokens PROVE EntryFresh(t)'
        <4>1. CASE cache'[t] \in {None, cache[t]}
          BY <3>1, <4>1, StaysFresh
        <4>2. CASE Admit(r) /\ t = request[r].tok
          BY <4>2, AdmittedIsFresh
        <4>3. CASE Admit(r) /\ t # request[r].tok
          BY <3>1, <4>3, StaysFresh DEF Admit, IInv, IdentitySound, IdentityTypeOK
        <4> QED  BY <3>1, <3>2, <4>1, <4>2, <4>3, RequestMoves
      <3> QED  BY <3>3, <3>4
    <2>3. CASE ~Tick /\ ((\E t \in Tokens : SessionExpires(t)) \/ UNCHANGED identityVars)
      <3>1. UNCHANGED <<request, cache>>
        BY <2>3 DEF SessionExpires, identityVars
      <3> QED  BY <2>3, <3>1, StaysFresh
    <2>4. CASE ~Tick /\ (GatewayRestart \/ AuthRestart)
      <3>1. /\ \A r \in Requests : request'[r] = Idle
            /\ \A t \in Tokens : cache'[t] \in {None, cache[t]}
        BY <2>4 DEF GatewayRestart, AuthRestart
      <3>2. \A r \in Requests : VerificationFresh(request[r])'
        BY <3>1, RequestFields DEF VerificationFresh
      <3> QED  BY <2>4, <3>1, <3>2, StaysFresh
    <2> QED  BY <2>1, <2>2, <2>3, <2>4 DEF IdentityNext
  <1> QED  BY <1>1, <1>2, <1>3 DEF IInv

\* It holds at the start, and in every state.
LEMMA IInvAlways == IdentitySpec => []IInv
  <1>1. IdentityInit => IInv
    <2> SUFFICES ASSUME IdentityInit PROVE IInv
      OBVIOUS
    <2>1. LegacyAdminGranted
      BY AdminGrant DEF IdentityInit, LegacyAdminGranted, Exists
    <2>2. ClocksReset
      BY AdminGrant DEF IdentityInit, ClocksReset
    <2>3. \A r \in Requests : VerificationFresh(request[r])
      BY RequestFields DEF IdentityInit, VerificationFresh
    <2>4. \A t \in Tokens : EntryFresh(t)
      BY DEF IdentityInit, EntryFresh
    <2> QED  BY <2>1, <2>2, <2>3, <2>4, SoundInit DEF IInv
  <1> QED  BY <1>1, IInvStep, PTL DEF IdentitySpec

\* A token that auth rejects is honoured no longer than the lifetime of a
\* cache entry plus one verification, with any number of requests, logouts,
\* disables and restarts in between.
THEOREM RejectedTokenBounded == IdentitySpec => []SessionStaleBounded
  <1>1. IInv => SessionStaleBounded
    <2> SUFFICES ASSUME IInv, NEW t \in Tokens \cap Observed, cache[t] # None
                 PROVE  IdentityTypeOK /\ invalidFor[t] <= Horizon
      BY DEF IInv, IdentitySound, SessionStaleBounded
    <2>1. invalidFor[t] <= EntryAge(cache[t])
      BY DEF IInv, EntryFresh
    <2>2. EntryAge(cache[t]) <= Horizon /\ EntryAge(cache[t]) \in Nat
      BY FreshTypes DEF IInv, EntryAge, Horizon
    <2> QED  BY <2>1, <2>2, FreshTypes DEF IInv, IdentitySound
  <1> QED  BY <1>1, IInvAlways, PTL

\* Nor does a cached identity carry PlatformAdmin longer than that after it
\* has been taken from the user, although the role is read later than the
\* session, and from users.role when no assignment is found.
THEOREM DemotedAdminBounded == IdentitySpec => []AdminStaleBounded
  <1>1. IInv => AdminStaleBounded
    <2> SUFFICES ASSUME IInv, NEW t \in Tokens, cache[t] # None, cache[t].user \in Observed,
                        "PlatformAdmin" \in cache[t].roles
                 PROVE  demotedFor[cache[t].user] <= Horizon
      BY DEF AdminStaleBounded
    <2>1. demotedFor[cache[t].user] <= EntryAge(cache[t])
      BY DEF IInv, EntryFresh
    <2>2. EntryAge(cache[t]) <= Horizon /\ EntryAge(cache[t]) \in Nat
      BY FreshTypes DEF IInv, EntryAge, Horizon
    <2> QED  BY <2>1, <2>2, FreshTypes DEF IInv
  <1> QED  BY <1>1, IInvAlways, PTL
=============================================================================
