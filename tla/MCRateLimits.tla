---------------------------- MODULE MCRateLimits ----------------------------
(* Two clients and one trusted proxy, one live room and one wrong code, one *)
(* account, two requests at a time.                                         *)
EXTENDS RateLimits, TLC

CONSTANTS a1, a2, proxy, good, bad, user, q1, q2

MCAddresses == {a1, a2, proxy}
MCTrusted == {proxy}
MCCodes == {good, bad}
MCLive == {good}
MCAccounts == {user}
MCRequests == {q1, q2}

R(limit, window, burst) == [limit |-> limit, window |-> window, burst |-> burst]
MCRule == [n \in RuleNames |->
    IF n = "live.player.ip" THEN R(1, 1, 1) ELSE
    IF n \in {"auth.login.ip", "api.user"} THEN R(1, 2, 2) ELSE R(1, 2, 1)]
Load(kinds, clients) == [kinds |-> kinds, clients |-> clients]
MCWorkloads == {Load({"login"}, {a1, a2}), Load({"join"}, {a1}),
                Load({"tap", "events"}, {a1}), Load({"answer", "page"}, {a1, a2})}

Symmetric == Permutations(MCRequests)
=============================================================================
