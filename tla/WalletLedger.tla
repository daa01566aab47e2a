---------------------------- MODULE WalletLedger ----------------------------
(***************************************************************************)
(* What the payment service promises its users: a wallet balance that is   *)
(* never negative, and study sets that are bought once, each purchase      *)
(* taking the money and giving the set in one indivisible step.            *)
(***************************************************************************)
EXTENDS Integers

CONSTANTS Users, Sets, Amounts

VARIABLES
    balance,        \* money a user may spend
    owned           \* pairs of a user and a study set it has bought

ledgerVars == <<balance, owned>>

LedgerInit ==
    /\ balance = [u \in Users |-> 0]
    /\ owned = {}

\* Money arrives, from a bank transfer or from an administrator.
TopUp(u, a) ==
    /\ a > 0
    /\ balance' = [balance EXCEPT ![u] = @ + a]
    /\ UNCHANGED owned

\* A user buys a set it does not own with money it has.
Buy(u, s, p) ==
    /\ <<u, s>> \notin owned
    /\ p \in 1..balance[u]
    /\ balance' = [balance EXCEPT ![u] = @ - p]
    /\ owned' = owned \cup {<<u, s>>}

LedgerNext ==
    \/ \E u \in Users, a \in Amounts : TopUp(u, a)
    \/ \E u \in Users, s \in Sets, p \in Amounts : Buy(u, s, p)

LedgerSpec == LedgerInit /\ [][LedgerNext]_ledgerVars
=============================================================================
