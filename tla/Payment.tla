------------------------------ MODULE Payment -------------------------------
(***************************************************************************)
(* The payment service: deposits and purchases run concurrently and meet   *)
(* in the wallet ledger.  A deposit holds the row lock of its order, a     *)
(* purchase the advisory lock of its user, and neither takes the other's.  *)
(***************************************************************************)
EXTENDS Deposits, Purchases

paymentVars == <<depositVars, purchaseVars, walletVars>>

PaymentInit == DepositInit /\ PurchaseInit /\ WalletInit

PaymentNext ==
    \/ DepositNext /\ UNCHANGED purchaseVars
    \/ PurchaseNext /\ UNCHANGED depositVars

PaymentSpec == PaymentInit /\ [][PaymentNext]_paymentVars

\* PostgreSQL grants an advisory lock to a waiter in turn, and a handler whose
\* query returned runs on.
PurchaseFairness ==
    \A b \in Buyers : /\ SF_paymentVars(BuyLock(b) /\ UNCHANGED depositVars)
                      /\ WF_paymentVars(BuyCheck(b) /\ UNCHANGED depositVars)
                      /\ WF_paymentVars(BuyCommit(b) /\ UNCHANGED depositVars)

PaymentFairSpec == PaymentSpec /\ DepositFairness /\ PurchaseFairness

\* The type invariant of the two components together.
PaymentTypeOK == TypeOK /\ PurchaseTypeOK

\* The balance the service shows and the sets it has sold.
Ledger == INSTANCE WalletLedger WITH
    balance <- [u \in Users |-> Balance(u)],
    owned <- entitled

\* The service implements the abstract ledger: however deposits, manual
\* credits, purchases, retries and failures interleave, the wallet behaves as
\* if every credit and every purchase happened in one step.
ImplementsLedger == Ledger!LedgerSpec
=============================================================================
