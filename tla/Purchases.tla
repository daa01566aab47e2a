----------------------------- MODULE Purchases ------------------------------
(***************************************************************************)
(* Buying a study set with wallet money: prices set by owners, the         *)
(* purchase transaction under the per-user advisory lock, the entitlements *)
(* it grants, manual credits by an administrator, and the access decision. *)
(* The module has no specification of its own: module Payment composes it  *)
(* with the deposits that fill the wallet.                                 *)
(***************************************************************************)
EXTENDS Wallet, FiniteSets

CONSTANTS
    Sets,           \* study sets
    Owner,          \* Owner[s]: the user the study service names as owner of s
    Buyers,         \* concurrent POST /v1/entitlements/purchase requests
    MaxAdjusted,    \* bound on the sum of the manual credits of a user
    NoBuyer

ASSUME PurchaseConstants ==
    /\ DOMAIN Owner = Sets
    /\ MaxAdjusted \in Nat
    /\ NoBuyer \notin Buyers

\* study_set_price; a set without a row is free.
PriceRow == [type : {"free", "one_time"}, vnd : Amounts]
Free == [type |-> "free", vnd |-> 0]

VARIABLES
    price,          \* study_set_price by study set
    entitled,       \* entitlement rows: pairs of a user and a study set
    purchases,      \* number of purchase rows of a user for a study set
    adjusted,       \* sum of the adjustment rows of a user
    walletLock,     \* holder of pg_advisory_xact_lock(user)
    buyer           \* state of every purchase request

purchaseVars == <<price, entitled, purchases, adjusted, walletLock, buyer>>

BuyerState ==
    [pc : {"idle"}] \cup
    [pc : {"priced", "locked", "checked"}, user : Users, set : Sets, vnd : Amounts]

NoPurchase == [pc |-> "idle"]

PurchaseInit ==
    /\ price = [s \in Sets |-> Free]
    /\ entitled = {}
    /\ purchases = [p \in Users \X Sets |-> 0]
    /\ adjusted = [u \in Users |-> 0]
    /\ walletLock = [u \in Users |-> NoBuyer]
    /\ buyer = [b \in Buyers |-> NoPurchase]

-----------------------------------------------------------------------------
(* Prices and manual credits.                                              *)

ChargesMoney(p) == p.type = "one_time" /\ p.vnd > 0

\* setPrice by the owner of the set (everyone else is refused), one_time only
\* with a positive price.  The row is upserted; free keeps whatever price_vnd
\* the request carried.
SetPrice(s, p) ==
    /\ p.type = "one_time" => p.vnd > 0
    /\ price' = [price EXCEPT ![s] = p]
    /\ UNCHANGED <<entitled, purchases, adjusted, walletLock, buyer, walletVars>>

\* AdminCredit: the adjustment row and its audit entry in one transaction.
\* Nothing identifies the request, so a repeated one credits again.
AdminCredit(u, a) ==
    /\ a > 0
    /\ adjusted[u] + a <= MaxAdjusted
    /\ adjusted' = [adjusted EXCEPT ![u] = @ + a]
    /\ CreditWallet(u, a)
    /\ UNCHANGED <<price, entitled, purchases, walletLock, buyer>>

-----------------------------------------------------------------------------
(* PurchaseStudySet, split where another request can run.                  *)

\* The price is read before the transaction begins; a free set is refused.
BuyGetPrice(b, u, s) ==
    /\ buyer[b] = NoPurchase
    /\ ChargesMoney(price[s])
    /\ buyer' = [buyer EXCEPT ![b] = [pc |-> "priced", user |-> u, set |-> s,
                                      vnd |-> price[s].vnd]]
    /\ UNCHANGED <<price, entitled, purchases, adjusted, walletLock, walletVars>>

\* Mutant of BuyLock: the advisory lock is not taken.
BuyUnlocked(b) ==
    /\ buyer[b].pc = "priced"
    /\ buyer' = [buyer EXCEPT ![b].pc = "locked"]
    /\ UNCHANGED <<price, entitled, purchases, adjusted, walletLock, walletVars>>

\* BEGIN and pg_advisory_xact_lock(user).
BuyLock(b) ==
    /\ buyer[b].pc = "priced"
    /\ walletLock[buyer[b].user] = NoBuyer
    /\ walletLock' = [walletLock EXCEPT ![buyer[b].user] = b]
    /\ buyer' = [buyer EXCEPT ![b].pc = "locked"]
    /\ UNCHANGED <<price, entitled, purchases, adjusted, walletVars>>

\* The transaction ends and its advisory lock goes with it.
EndPurchase(b) ==
    /\ walletLock' = [u \in Users |-> IF walletLock[u] = b THEN NoBuyer ELSE walletLock[u]]
    /\ buyer' = [buyer EXCEPT ![b] = NoPurchase]

\* Mutants of MayBuy: one of its two checks forgotten.
MayBuyAgain(b) == Balance(buyer[b].user) >= buyer[b].vnd
MayOverdraw(b) == <<buyer[b].user, buyer[b].set>> \notin entitled

\* The checks inside the transaction: not owned yet and enough balance.
MayBuy(b) ==
    /\ <<buyer[b].user, buyer[b].set>> \notin entitled
    /\ Balance(buyer[b].user) >= buyer[b].vnd

\* Mutant of BuyCheck: a refusal returns without ending the transaction.
BuyCheckLeaksLock(b) ==
    /\ buyer[b].pc = "locked"
    /\ buyer' = [buyer EXCEPT ![b] = IF MayBuy(b) THEN [@ EXCEPT !.pc = "checked"]
                                                ELSE NoPurchase]
    /\ UNCHANGED <<price, entitled, purchases, adjusted, walletLock, walletVars>>

\* ErrAlreadyOwned and ErrInsufficientBalance roll back.
BuyCheck(b) ==
    /\ buyer[b].pc = "locked"
    /\ IF MayBuy(b)
         THEN /\ buyer' = [buyer EXCEPT ![b].pc = "checked"]
              /\ UNCHANGED walletLock
         ELSE EndPurchase(b)
    /\ UNCHANGED <<price, entitled, purchases, adjusted, walletVars>>

\* DebitWallet, InsertEntitlement (ON CONFLICT DO NOTHING) and COMMIT.
BuyCommit(b) ==
    LET u == buyer[b].user
        s == buyer[b].set
    IN  /\ buyer[b].pc = "checked"
        /\ DebitWallet(u, buyer[b].vnd)
        /\ purchases' = [purchases EXCEPT ![<<u, s>>] = @ + 1]
        /\ entitled' = entitled \cup {<<u, s>>}
        /\ EndPurchase(b)
        /\ UNCHANGED <<price, adjusted>>

\* A database error or a client that goes away: the transaction rolls back.
BuyFail(b) ==
    /\ buyer[b].pc \in {"priced", "locked", "checked"}
    /\ EndPurchase(b)
    /\ UNCHANGED <<price, entitled, purchases, adjusted, walletVars>>

PurchaseNext ==
    \/ \E s \in Sets, p \in PriceRow : SetPrice(s, p)
    \/ \E u \in Users, a \in Amounts : AdminCredit(u, a)
    \/ \E b \in Buyers, u \in Users, s \in Sets : BuyGetPrice(b, u, s)
    \/ \E b \in Buyers : BuyLock(b)
    \/ \E b \in Buyers : BuyCheck(b)
    \/ \E b \in Buyers : BuyCommit(b)
    \/ \E b \in Buyers : BuyFail(b)

-----------------------------------------------------------------------------
(* GetAccessInfo.                                                          *)

\* Mutant of HasAccess: the price is consulted before the entitlement.
HasAccessByPrice(u, s, reachable) ==
    ~ChargesMoney(price[s]) \/ (reachable /\ Owner[s] = u)

\* The owner lookup fails closed when the study service cannot be reached.
HasAccess(u, s, reachable) ==
    \/ ~ChargesMoney(price[s])
    \/ reachable /\ Owner[s] = u
    \/ <<u, s>> \in entitled

-----------------------------------------------------------------------------
(* Properties.                                                             *)

\* Every variable holds a value the tables and the handlers can hold.
PurchaseTypeOK ==
    /\ price \in [Sets -> PriceRow \cup {Free}]
    /\ entitled \subseteq Users \X Sets
    /\ purchases \in [Users \X Sets -> Nat]
    /\ adjusted \in [Users -> 0..MaxAdjusted]
    /\ walletLock \in [Users -> Buyers \cup {NoBuyer}]
    /\ buyer \in [Buyers -> BuyerState]

\* No wallet is overdrawn: the balance was checked several steps before the
\* debit is written, and nothing but the advisory lock stops a second purchase
\* of the same user in between.
NoOverdraft == \A u \in Users : debit[u] <= credit[u]

\* Paying and owning coincide: whoever has an entitlement paid for it exactly
\* once, and whoever paid has it, under concurrent requests and failures.
ChargedExactlyOnce ==
    \A u \in Users, s \in Sets :
        purchases[<<u, s>>] = IF <<u, s>> \in entitled THEN 1 ELSE 0

\* A buyer never loses the set, whatever its owner later does to the price and
\* though the study service may be down when access is checked.
BuyerKeepsAccess ==
    \A u \in Users, s \in Sets :
        purchases[<<u, s>>] > 0 => \A reachable \in BOOLEAN : HasAccess(u, s, reachable)

\* Every purchase request gets its answer: nobody waits for ever for an
\* advisory lock that a refused or failed purchase should have released.
PurchaseEnds == \A b \in Buyers : (buyer[b] # NoPurchase) ~> (buyer[b] = NoPurchase)
=============================================================================
