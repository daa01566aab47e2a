----------------------------- MODULE MCDeposits -----------------------------
(* Small instance of Deposits: the limits of the code (5 pending orders,   *)
(* 10,000 to 50,000,000 VND) are scaled down so that they are reached.     *)
EXTENDS Deposits, TLC

CONSTANTS u1, o1, o2, t1, t2, c1, c2, w1, w2, r1, r2

MCUsers == {u1}
MCOrders == {o1, o2}
MCTransfers == {t1, t2}
MCOneTransfer == {t1}
MCAmounts == {1, 2}
MCBankRefs == {r1, r2}
MCOneBankRef == {r1}
MCCreators == {c1, c2}
MCWorkers == {w1, w2}

\* Orders, transfers, bank references and requests are interchangeable.
MCSymmetry ==
    Permutations(MCOrders) \cup Permutations(MCTransfers) \cup
    Permutations(MCCreators) \cup Permutations(MCWorkers) \cup
    Permutations(MCBankRefs)
=============================================================================
