----------------------------- MODULE RateLimits -----------------------------
(***************************************************************************)
(* The ceilings a request meets on its way in: the gateway's token buckets *)
(* and its count of wrong room codes, the failed-login guard of the auth   *)
(* service and the tap counter of the study service, together with the way *)
(* the gateway finds the address it counts by.  Each of them locks its map *)
(* for one call, so a request is a sequence of gates with other requests   *)
(* and the clock in between.                                               *)
(*                                                                         *)
(* Limits are enabled and not in shadow mode, which are the defaults.  A   *)
(* bucket holds its tokens in units of 1/window, so that the refill is     *)
(* exact.  Passwords, room codes and user names are members of small sets. *)
(***************************************************************************)
EXTENDS Naturals, Sequences, FiniteSetsExt, Functions

CONSTANTS
    Addresses,          \* addresses requests come from
    Trusted,            \* TRUSTED_PROXIES
    Garbage,            \* a forwarded element that parses as no address
    Codes, LiveCodes,   \* room codes, and those of rooms that exist
    Accounts,           \* e-mail addresses, and the users behind tokens
    Requests,           \* requests under way at once
    Workloads,          \* kinds of requests and clients explored together
    Rule,               \* the rules, by name: limit, window and burst
    MaxKeys, IdleTTL,   \* bounds of the gateway's maps
    BadCodeLimit, BadCodeWindow,
    AccountIPLimit, AccountLimit, LoginWindow,
    AccountIPLock, AccountLock, LockMax,
    TapMax, TapWindow,
    MaxTime             \* bound on the clock

RuleNames == {"auth.login.ip", "live.join.ip", "live.join.code",
              "api.ip", "api.user", "live.player.ip"}

ASSUME LimitConstants ==
    /\ Trusted \subseteq Addresses /\ Addresses \ Trusted # {}
    /\ Garbage \notin Addresses
    /\ LiveCodes \subseteq Codes
    /\ Workloads \subseteq
          [kinds : SUBSET {"login", "join", "tap", "answer", "page", "events"},
           clients : SUBSET (Addresses \ Trusted)]
    /\ Rule \in [RuleNames -> [limit : Nat \ {0}, window : Nat \ {0}, burst : Nat \ {0}]]
    /\ {MaxKeys, IdleTTL, BadCodeLimit, BadCodeWindow, AccountIPLimit, AccountLimit,
        LoginWindow, AccountIPLock, AccountLock, LockMax, TapMax, TapWindow} \subseteq Nat \ {0}
    /\ MaxTime \in Nat /\ IsFiniteSet(Requests)
    /\ LockMax >= LoginWindow  \* both a quarter of an hour in the code

VARIABLES
    workload,       \* the requests and clients of this behaviour
    now,            \* the clock, in ticks
    buckets,        \* memoryLimiter.buckets
    failures,       \* failureTracker.entries, by address
    logins,         \* loginGuard.entries, by <<account>> and <<account, ip>>
    windows,        \* LocalLimiter.windows of the play bucket, by user
    request,        \* requests under way
    spent,          \* for each bucket: requests it let through, by the tick
    wrong,          \* 404 answers to a join, by address and tick
    guesses         \* passwords found wrong since a success, by login key and tick

counters == <<buckets, failures, logins, windows>>
record == <<spent, wrong, guesses>>
limitVars == <<workload, now, buckets, failures, logins, windows, request, spent, wrong, guesses>>

Idle == [pc |-> "idle"]
Ticks == 0..MaxTime
Never == [t \in Ticks |-> 0]
Plus(counts, t, n) == [counts EXCEPT ![t] = @ + n]

(* An entry is put into a map of which only the keys in keep are kept.     *)
Put(map, keep, key, entry) ==
    [k \in keep \cup {key} |-> IF k = key THEN entry ELSE map[k]]

Total(counts, from, to) == SumFunctionOnSet(counts, from..to)
LoginKeys == {<<a>> : a \in Accounts} \cup (Accounts \X Addresses)

LimitsInit ==
    /\ workload \in Workloads /\ now = 0
    /\ buckets = <<>> /\ failures = <<>> /\ logins = <<>> /\ windows = <<>>
    /\ request = [r \in Requests |-> Idle]
    /\ spent = <<>>
    /\ wrong = [ip \in Addresses |-> Never]
    /\ guesses = [k \in LoginKeys |-> Never]

-----------------------------------------------------------------------------
(* The address a request is counted by.                                    *)

(* The rightmost element of the chain that is an address and is not a      *)
(* trusted proxy, else the first element if it is an address, else peer.   *)
Rightmost(chain, peer) ==
    LET clients == {i \in DOMAIN chain : chain[i] \notin Trusted \cup {Garbage}} IN
    IF clients # {} THEN chain[Max(clients)]
    ELSE IF chain # <<>> /\ chain[1] # Garbage THEN chain[1] ELSE peer

(* Mutant of ClientIP: the first element of the header wins. *)
ClientIPLeftmost(peer, chain) ==
    IF peer \notin Trusted \/ chain = <<>> \/ chain[1] = Garbage THEN peer ELSE chain[1]

ClientIP(peer, chain) ==
    IF peer \notin Trusted \/ chain = <<>> THEN peer ELSE Rightmost(chain, peer)

(* A client sends a header of its own; the proxies append what they saw.   *)
Headers == {<<>>} \cup {<<a>> : a \in Addresses \cup {Garbage}}

Resolved(origin, header) ==
    {ClientIP(origin, header)} \cup {ClientIP(p, Append(header, origin)) : p \in Trusted}

-----------------------------------------------------------------------------
(* The gates of a request, in the order the gateway and the service apply  *)
(* them.                                                                   *)

Bucket(rule, key) == [gate |-> "bucket", rule |-> rule, key |-> <<rule, key>>]
Ask(gate) == [gate |-> gate]

(* ipAllowed: a rule of the path, none for event streams, the budget of    *)
(* the credential when there is one, that of the address otherwise.        *)
IPAllowed(kind, ip, who) ==
    CASE kind = "login"  -> <<Bucket("auth.login.ip", <<ip>>)>>
      [] kind = "events" -> <<>>
      [] kind \in {"tap", "answer"} -> <<Bucket("api.user", <<"token", who>>)>>
      [] OTHER -> <<Bucket("api.ip", <<ip>>)>>

(* The proxy the route leads to, and the service behind it.                *)
Proxied(kind, ip, who) ==
    CASE kind = "login"  -> <<Ask("guard")>>
      [] kind = "join"   -> <<Ask("badcode"), Bucket("live.join.ip", <<ip>>),
                              Bucket("live.join.code", <<ip, who>>)>>
      [] kind = "tap"    -> <<Bucket("api.user", <<"user", who>>), Ask("tap")>>
      [] kind = "answer" -> <<Bucket("live.player.ip", <<ip>>)>>
      [] OTHER -> <<>>

About(kind) == IF kind = "join" THEN Codes ELSE Accounts

Arrive(r) ==
    /\ request[r] = Idle
    /\ \E kind \in workload.kinds, origin \in workload.clients, header \in Headers :
         \E who \in About(kind), ip \in Resolved(origin, header) :
            request' = [request EXCEPT ![r] =
                [pc |-> "gates", kind |-> kind, origin |-> origin, ip |-> ip, who |-> who,
                 gates |-> IPAllowed(kind, ip, who) \o Proxied(kind, ip, who)]]
    /\ UNCHANGED <<workload, now, counters, record>>

AtGate(r, gate) ==
    request[r].pc = "gates" /\ request[r].gates # <<>> /\ Head(request[r].gates).gate = gate

(* The request goes on to its next gate, or is answered 429.               *)
Pass(r, allowed) ==
    request' = IF allowed THEN [request EXCEPT ![r].gates = Tail(@)]
                          ELSE [request EXCEPT ![r] = Idle]

-----------------------------------------------------------------------------
(* memoryLimiter.                                                          *)

(* Mutant of EvictLocked: only idle buckets are ever dropped. *)
EvictIdleOnly ==
    LET keys == DOMAIN buckets IN
    {IF Cardinality(keys) < MaxKeys THEN keys
     ELSE {k \in keys : now - buckets[k].seen <= IdleTTL}}

(* What evictLocked may leave: idle buckets go first, then any tenth.      *)
EvictLocked ==
    LET keys == DOMAIN buckets
        live == {k \in keys : now - buckets[k].seen <= IdleTTL}
        target == IF MaxKeys < 20 THEN 1 ELSE MaxKeys \div 10
    IN  IF Cardinality(keys) < MaxKeys THEN {keys}
        ELSE IF Cardinality(live) < MaxKeys THEN {live}
        ELSE {live \ gone : gone \in kSubset(target, live)}

(* Mutant of Refill: tokens are not capped at the burst. *)
RefillUncapped(key, rule) ==
    IF key \in DOMAIN buckets
    THEN buckets[key].tokens + (now - buckets[key].last) * rule.limit
    ELSE rule.burst * rule.window

Refill(key, rule) ==
    IF key \in DOMAIN buckets
    THEN Min({rule.burst * rule.window,
              buckets[key].tokens + (now - buckets[key].last) * rule.limit})
    ELSE rule.burst * rule.window

(* Allow: refill, then spend one token if there is one.                    *)
CheckBucket(r) ==
    /\ AtGate(r, "bucket")
    /\ LET key == Head(request[r].gates).key
           rule == Rule[Head(request[r].gates).rule]
           tokens == Refill(key, rule)
           allowed == tokens >= rule.window
       IN  \E keep \in IF key \in DOMAIN buckets THEN {DOMAIN buckets} ELSE EvictLocked :
             /\ buckets' = Put(buckets, keep, key,
                    [tokens |-> IF allowed THEN tokens - rule.window ELSE tokens,
                     last |-> now, seen |-> now])
             /\ spent' = Put(spent, keep, key,
                    Plus(IF key \in DOMAIN spent THEN spent[key] ELSE Never,
                         now, IF allowed THEN 1 ELSE 0))
             /\ Pass(r, allowed)
    /\ UNCHANGED <<workload, now, failures, logins, windows, wrong, guesses>>

-----------------------------------------------------------------------------
(* Wrong room codes.                                                       *)

(* Mutant of BadCodeBlocked: the limit itself still passes. *)
BadCodeBlockedOver(ip) ==
    /\ ip \in DOMAIN failures
    /\ now - failures[ip].windowStart < BadCodeWindow
    /\ failures[ip].count > BadCodeLimit

BadCodeBlocked(ip) ==
    /\ ip \in DOMAIN failures
    /\ now - failures[ip].windowStart < BadCodeWindow
    /\ failures[ip].count >= BadCodeLimit

CheckBadCode(r) ==
    /\ AtGate(r, "badcode")
    /\ Pass(r, ~BadCodeBlocked(request[r].ip))
    /\ UNCHANGED <<workload, now, counters, record>>

(* The quiz service answers a join; only a 404 is counted.                 *)
AnswerJoin(r) ==
    /\ request[r].pc = "gates" /\ request[r].gates = <<>> /\ request[r].kind = "join"
    /\ IF request[r].who \in LiveCodes
       THEN request' = [request EXCEPT ![r] = Idle] /\ UNCHANGED wrong
       ELSE /\ request' = [request EXCEPT ![r].pc = "badcode"]
            /\ wrong' = [ip \in Addresses |->
                  IF ip = request[r].ip THEN Plus(wrong[ip], now, 1) ELSE wrong[ip]]
    /\ UNCHANGED <<workload, now, counters, spent, guesses>>

(* RecordFailure of the tracker: a full map sheds the entries whose window *)
(* is over; if it stays full, a new key is not tracked.                    *)
FailuresKept(ip) ==
    IF ip \in DOMAIN failures \/ Cardinality(DOMAIN failures) < MaxKeys THEN DOMAIN failures
    ELSE {k \in DOMAIN failures : now - failures[k].windowStart < BadCodeWindow}

FailureCounted(ip) ==
    IF ip \in DOMAIN failures /\ now - failures[ip].windowStart < BadCodeWindow
    THEN [failures[ip] EXCEPT !.count = @ + 1]
    ELSE [windowStart |-> now, count |-> 1]

RecordBadCode(r) ==
    /\ request[r].pc = "badcode"
    /\ LET ip == request[r].ip
           kept == FailuresKept(ip)
           tracked == ip \in kept \/ Cardinality(kept) < MaxKeys
       IN  failures' = IF tracked THEN Put(failures, kept, ip, FailureCounted(ip))
                                  ELSE Restrict(failures, kept)
    /\ request' = [request EXCEPT ![r] = Idle]
    /\ UNCHANGED <<workload, now, buckets, logins, windows, record>>

-----------------------------------------------------------------------------
(* The failed-login guard of the auth service.                             *)

KeysOf(r) == {<<request[r].who, request[r].ip>>, <<request[r].who>>}
Locked(k) == k \in DOMAIN logins /\ now < logins[k].lockedUntil

(* Mutant of CheckGuard: only the account-and-address key is looked at. *)
CheckGuardByAddress(r) ==
    /\ AtGate(r, "guard")
    /\ Pass(r, ~Locked(<<request[r].who, request[r].ip>>))
    /\ UNCHANGED <<workload, now, counters, record>>

CheckGuard(r) ==
    /\ AtGate(r, "guard")
    /\ Pass(r, \A k \in KeysOf(r) : ~Locked(k))
    /\ UNCHANGED <<workload, now, counters, record>>

(* svc.Login compares the password; another error of it is an Answer.      *)
Verify(r) ==
    /\ request[r].pc = "gates" /\ request[r].gates = <<>> /\ request[r].kind = "login"
    /\ \/ request' = [request EXCEPT ![r].pc = "success"] /\ UNCHANGED guesses
       \/ /\ request' = [request EXCEPT ![r].pc = "failure"]
          /\ guesses' = [k \in LoginKeys |->
                IF k \in KeysOf(r) THEN Plus(guesses[k], now, 1) ELSE guesses[k]]
    /\ UNCHANGED <<workload, now, counters, spent, wrong>>

LimitOf(k) == IF Len(k) = 1 THEN AccountLimit ELSE AccountIPLimit
BaseLock(k) == IF Len(k) = 1 THEN AccountLock ELSE AccountIPLock

(* recordLocked: count the failure and lock the key for twice as long each *)
(* time once its budget is spent.  An entry whose window is over is        *)
(* replaced, its lock included.                                            *)
RecordLocked(k) ==
    LET fresh == k \notin DOMAIN logins \/ now - logins[k].windowStart >= LoginWindow
        entry == IF fresh THEN [failures |-> 0, windowStart |-> now, lockedUntil |-> 0]
                          ELSE logins[k]
        count == entry.failures + 1
        until == now + Min({LockMax, BaseLock(k) * 2^(count - LimitOf(k))})
    IN  [entry EXCEPT !.failures = count,
            !.lockedUntil = IF count >= LimitOf(k) THEN Max({@, until}) ELSE @]

RecordFailure(r) ==
    /\ request[r].pc = "failure"
    /\ logins' = [k \in DOMAIN logins \cup KeysOf(r) |->
                    IF k \in KeysOf(r) THEN RecordLocked(k) ELSE logins[k]]
    /\ request' = [request EXCEPT ![r] = Idle]
    /\ UNCHANGED <<workload, now, buckets, failures, windows, record>>

(* A success forgets what was counted, for its address and for everybody.  *)
RecordSuccess(r) ==
    /\ request[r].pc = "success"
    /\ logins' = Restrict(logins, DOMAIN logins \ KeysOf(r))
    /\ guesses' = [k \in LoginKeys |-> IF k \in KeysOf(r) THEN Never ELSE guesses[k]]
    /\ request' = [request EXCEPT ![r] = Idle]
    /\ UNCHANGED <<workload, now, buckets, failures, windows, spent, wrong>>

-----------------------------------------------------------------------------
(* LocalLimiter: a fixed window that starts with the first tap in it.      *)

Tap(r) ==
    /\ AtGate(r, "tap")
    /\ LET u == request[r].who
           open == u \in DOMAIN windows /\ now < windows[u].start + TapWindow
           entry == IF open THEN [windows[u] EXCEPT !.hits = @ + 1]
                            ELSE [start |-> now, hits |-> 1]
       IN  windows' = Put(windows, DOMAIN windows, u, entry) /\ Pass(r, entry.hits <= TapMax)
    /\ UNCHANGED <<workload, now, buckets, failures, logins, record>>

(* Everything else is answered without a counter, a login too when it      *)
(* fails with another error than a wrong password.                         *)
Answer(r) ==
    /\ request[r].pc = "gates" /\ request[r].gates = <<>>
    /\ request[r].kind # "join"
    /\ request' = [request EXCEPT ![r] = Idle]
    /\ UNCHANGED <<workload, now, counters, record>>

Tick ==
    /\ now < MaxTime
    /\ now' = now + 1
    /\ UNCHANGED <<workload, counters, request, record>>

LimitsNext ==
    \/ \E r \in Requests :
          \/ Arrive(r) \/ CheckBucket(r) \/ CheckBadCode(r) \/ AnswerJoin(r) \/ RecordBadCode(r)
          \/ CheckGuard(r) \/ Verify(r) \/ RecordFailure(r) \/ RecordSuccess(r)
          \/ Tap(r) \/ Answer(r)
    \/ Tick

LimitsSpec == LimitsInit /\ [][LimitsNext]_limitVars

-----------------------------------------------------------------------------
(* Properties.                                                             *)

(* Every map holds well-formed entries no later than the clock, and the    *)
(* bounded ones stay within MaxKeys, whatever keys clients present.        *)
LimitsTypeOK ==
    /\ now \in Ticks
    /\ Cardinality(DOMAIN buckets) <= MaxKeys /\ DOMAIN spent = DOMAIN buckets
    /\ \A k \in DOMAIN buckets :
          /\ buckets[k] \in [tokens : Nat, last : 0..now, seen : 0..now]
          /\ buckets[k].tokens <= Rule[k[1]].burst * Rule[k[1]].window
    /\ DOMAIN failures \subseteq Addresses /\ Cardinality(DOMAIN failures) <= MaxKeys
    /\ \A ip \in DOMAIN failures : failures[ip] \in [windowStart : 0..now, count : Nat \ {0}]
    /\ DOMAIN logins \subseteq LoginKeys
    /\ \A k \in DOMAIN logins :
          logins[k] \in [failures : Nat \ {0}, windowStart : 0..now, lockedUntil : 0..(now + LockMax)]
    /\ DOMAIN windows \subseteq Accounts
    /\ \A u \in DOMAIN windows : windows[u] \in [start : 0..now, hits : Nat \ {0}]
    /\ wrong \in [Addresses -> [Ticks -> Nat]] /\ guesses \in [LoginKeys -> [Ticks -> Nat]]
    /\ \A r \in Requests : request[r].pc \in {"idle", "gates", "badcode", "failure", "success"}

(* A bucket lets through, between any two moments, at most its burst and   *)
(* what its rate refills in between (memoryLimiter.Allow), as long as it   *)
(* is not evicted.                                                         *)
BucketBudget ==
    /\ LimitsTypeOK
    /\ \A k \in DOMAIN spent : \A from, to \in 0..now :
        from <= to =>
            Total(spent[k], from, to) * Rule[k[1]].window
                <= Rule[k[1]].burst * Rule[k[1]].window + (to - from) * Rule[k[1]].limit

(* An address that is tracked learns of at most BadCodeLimit wrong room    *)
(* codes in its window, and one more for every other request that was past *)
(* the check when the budget ran out (badCodeBlocked and recordBadCode are *)
(* on either side of the call to the quiz service).                        *)
WrongCodesBounded ==
    \A ip \in DOMAIN failures :
        now - failures[ip].windowStart < BadCodeWindow =>
            Total(wrong[ip], failures[ip].windowStart, now)
                <= BadCodeLimit + Cardinality(Requests) - 1

(* Times a lock can run out inside one window when each is twice the last. *)
Unlocks(k) == Cardinality({n \in 1..LoginWindow : BaseLock(k) * (2^n - 1) < LoginWindow})

(* The passwords tried in the window of an account, or of an account from  *)
(* one address, since the last success are bounded by its limit and the    *)
(* few times its lock can run out, for any number of addresses, requests   *)
(* in flight included (Blocked, Login and RecordFailure are three separate *)
(* steps).                                                                 *)
GuessesBounded ==
    \A k \in DOMAIN logins :
        now - logins[k].windowStart < LoginWindow =>
            Total(guesses[k], logins[k].windowStart, now)
                <= LimitOf(k) - 1 + Cardinality(Requests) * (1 + Unlocks(k))

(* Requests in flight add no more than themselves to what may be tried.    *)
AttemptsBounded == WrongCodesBounded /\ GuessesBounded

(* A request from an address that is no trusted proxy is counted under     *)
(* that address, whatever X-Forwarded-For it brought, directly or through  *)
(* a proxy that appends what it saw.                                       *)
CountedByOrigin ==
    \A r \in Requests : request[r] # Idle => request[r].ip = request[r].origin
=============================================================================
