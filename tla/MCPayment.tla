----------------------------- MODULE MCPayment ------------------------------
(* Small instance of Payment: one deposit order and one manual credit feed *)
(* a wallet from which two requests buy two sets, in any order.            *)
EXTENDS Payment, TLC

CONSTANTS u1, u2, o1, t1, s1, s2, c1, w1, r1, b1, b2

MCUsers == {u1}
MCOrders == {o1}
MCTransfers == {t1}
MCAmounts == {1}
MCBankRefs == {r1}
MCCreators == {c1}
MCWorkers == {w1}
MCSets == {s1, s2}
MCOwner == (s1 :> u1) @@ (s2 :> u2)
MCBuyers == {b1, b2}
=============================================================================
