------------------------------- MODULE Wallet -------------------------------
(***************************************************************************)
(* The wallet ledger of the payment service, table wallet_transaction.     *)
(* The table has no balance column: a balance is the sum of the user's     *)
(* credit rows minus the sum of its debit rows, and rows are only ever     *)
(* inserted, so the two sums represent the table.                          *)
(***************************************************************************)
EXTENDS Naturals

CONSTANTS
    Users,          \* account holders
    Amounts         \* amounts in VND a request, a transfer or a price may carry

ASSUME WalletConstants == Amounts \subseteq Nat

VARIABLES
    credit,         \* SUM(amount_vnd) of every user's credit rows
    debit           \* SUM(amount_vnd) of every user's debit rows

walletVars == <<credit, debit>>

\* GetBalance: what the user may spend.
Balance(u) == credit[u] - debit[u]

\* INSERT of a credit row.
CreditWallet(u, a) ==
    /\ credit' = [credit EXCEPT ![u] = @ + a]
    /\ UNCHANGED debit

\* Mutant of DebitWallet: the amount of the debit row is negated, though its
\* direction already says that money leaves.
DebitNegated(u, a) ==
    /\ debit' = [debit EXCEPT ![u] = @ - a]
    /\ UNCHANGED credit

\* INSERT of a debit row; nothing in the table refuses an overdraft.
DebitWallet(u, a) ==
    /\ debit' = [debit EXCEPT ![u] = @ + a]
    /\ UNCHANGED credit

WalletInit ==
    /\ credit = [u \in Users |-> 0]
    /\ debit = [u \in Users |-> 0]
=============================================================================
