------------------------------ MODULE Deposits ------------------------------
(***************************************************************************)
(* Deposit orders of the payment service: creation under the pending-order *)
(* limit, cancellation, and the two ways a bank transfer reaches the       *)
(* wallet, the SePay webhook and the lookup made when a client polls the   *)
(* status of its order.  Both end in CreditDepositIfPaidRef, which locks   *)
(* the order row, checks it and writes the ledger row and the new status   *)
(* in one database transaction.                                            *)
(*                                                                         *)
(* An order and its SePay code are one identifier.  The deposit rows of    *)
(* the ledger are kept one by one; every insert also adds to the sum of    *)
(* the user's credit rows in module Wallet.                                *)
(***************************************************************************)
EXTENDS Wallet, FiniteSets

CONSTANTS
    Orders,         \* order codes GenerateOrderCode may draw
    Transfers,      \* transactions of the bank account SePay watches
    BankRefs,       \* bank reference numbers, the empty string among them
    ById,           \* listed under the transaction id
    MinDeposit,     \* minDepositVND
    MaxDeposit,     \* maxDepositVND
    MaxPending,     \* maxPendingOrders
    Creators,       \* concurrent POST /v1/payments/orders requests
    Workers,        \* concurrent webhook and status-poll requests
    MaxFailures,    \* bound on the failed requests of a behaviour
    NoOrder, NoTransfer, NoCode, NoWorker

ASSUME DepositConstants ==
    /\ MinDeposit \in Nat \ {0}
    /\ MaxDeposit \in Nat
    /\ MaxPending \in Nat \ {0}
    /\ IsFiniteSet(Creators)
    /\ MaxFailures \in Nat
    /\ NoCode \notin Orders
    /\ NoWorker \notin Workers
    /\ ById \notin BankRefs

\* The status column; the code never writes EXPIRED.
Status == {"PENDING", "PAID", "CANCELLED"}

OrderRow == [user : Users, amount : Amounts, status : Status]

\* What SePay knows of a transfer.  code is the order code the webhook
\* extracts, mentions are the codes its text contains, and listedAs is what the
\* transaction list of the SePay API identifies it by: the id the webhook
\* carries, or a bank reference, which other transfers may share.
TransferRow ==
    [code : Orders \cup {NoCode}, mentions : SUBSET Orders,
     amount : Amounts, listedAs : {ById} \cup BankRefs]

\* ref_id of a deposit row: a transaction id of SePay or a bank reference.
Refs == ({"id"} \X Transfers) \cup ({"reference"} \X BankRefs)

\* A deposit row of wallet_transaction.  The columns are ref, user and amount;
\* order and transfer remember where the row came from.
DepositRow ==
    [ref : Refs, user : Users, amount : Amounts, order : Orders, transfer : Transfers]

ASSUME NullConstants == NoOrder \notin OrderRow /\ NoTransfer \notin TransferRow

VARIABLES
    order,      \* payment_order, by order code
    transfer,   \* the bank account's incoming transactions
    deposits,   \* wallet_transaction rows of type deposit
    rowLock,    \* holder of the row lock of an order (SELECT ... FOR UPDATE)
    creator,    \* state of every order-creation request
    worker,     \* state of every webhook or poll request
    failures    \* failed requests so far

depositVars == <<order, transfer, deposits, rowLock, creator, worker, failures>>
vars == <<depositVars, walletVars>>

CreatorState == [pc : {"idle"}] \cup [pc : {"counted"}, user : Users, amount : Amounts]

WorkerState ==
    [pc : {"idle"}] \cup
    [pc : {"found", "locked"}, order : Orders, amount : Amounts,
     ref : Refs, transfer : Transfers]

Idle == [pc |-> "idle"]

-----------------------------------------------------------------------------
Exists(o) == order[o] # NoOrder

IsPending(o) == Exists(o) /\ order[o].status = "PENDING"

\* Orders counted by CountPendingByUser.
Pending(u) == {o \in Orders : IsPending(o) /\ order[o].user = u}

DepositInit ==
    /\ order = [o \in Orders |-> NoOrder]
    /\ transfer = [t \in Transfers |-> NoTransfer]
    /\ deposits = {}
    /\ rowLock = [o \in Orders |-> NoWorker]
    /\ creator = [c \in Creators |-> Idle]
    /\ worker = [w \in Workers |-> Idle]
    /\ failures = 0

-----------------------------------------------------------------------------
(* Order creation.                                                         *)

\* Mutant of CreateOrderCount: the limit tested with <=.
CreateOrderCountOffByOne(c, u, a) ==
    /\ creator[c] = Idle
    /\ MinDeposit <= a /\ a <= MaxDeposit
    /\ Cardinality(Pending(u)) <= MaxPending
    /\ creator' = [creator EXCEPT ![c] = [pc |-> "counted", user |-> u, amount |-> a]]
    /\ UNCHANGED <<order, transfer, deposits, walletVars, rowLock, worker, failures>>

\* CreateOrder up to the limit check: the amount is in range and the user has
\* fewer than MaxPending pending orders.  The request then talks to SePay for
\* the bank account, so the count is stale when the row is inserted.
CreateOrderCount(c, u, a) ==
    /\ creator[c] = Idle
    /\ MinDeposit <= a /\ a <= MaxDeposit
    /\ Cardinality(Pending(u)) < MaxPending
    /\ creator' = [creator EXCEPT ![c] = [pc |-> "counted", user |-> u, amount |-> a]]
    /\ UNCHANGED <<order, transfer, deposits, walletVars, rowLock, worker, failures>>

\* The INSERT.  sepay_order_code is UNIQUE: a code already drawn fails.
CreateOrderInsert(c, o) ==
    /\ creator[c].pc = "counted"
    /\ order' = IF Exists(o) THEN order
                ELSE [order EXCEPT ![o] = [user |-> creator[c].user,
                                           amount |-> creator[c].amount,
                                           status |-> "PENDING"]]
    /\ creator' = [creator EXCEPT ![c] = Idle]
    /\ UNCHANGED <<transfer, deposits, walletVars, rowLock, worker, failures>>

\* Mutant of CancelPendingOrder: status read first and written without a lock.
CancelUnlocked(o, u) ==
    /\ o \in Pending(u)
    /\ order' = [order EXCEPT ![o].status = "CANCELLED"]
    /\ UNCHANGED <<transfer, deposits, walletVars, rowLock, creator, worker, failures>>

\* Mutant of CancelPendingOrder: the cancelled order is written as EXPIRED, a
\* status the table admits and no reader expects.
CancelAsExpired(o, u) ==
    /\ o \in Pending(u)
    /\ rowLock[o] = NoWorker
    /\ order' = [order EXCEPT ![o].status = "EXPIRED"]
    /\ UNCHANGED <<transfer, deposits, walletVars, rowLock, creator, worker, failures>>

\* CancelPendingByID: one UPDATE that tests owner and status.  It waits for
\* the row lock a crediting transaction holds and then tests again.
CancelPendingOrder(o, u) ==
    /\ o \in Pending(u)
    /\ rowLock[o] = NoWorker
    /\ order' = [order EXCEPT ![o].status = "CANCELLED"]
    /\ UNCHANGED <<transfer, deposits, walletVars, rowLock, creator, worker, failures>>

-----------------------------------------------------------------------------
(* The bank.  A customer pays any amount with any text; the text can hide  *)
(* the code from the webhook (DEPOSIT matches DEP[A-Z0-9]+ first) or hold  *)
(* several codes.                                                          *)

BankTransfer(t, row) ==
    /\ transfer[t] = NoTransfer
    /\ \A o \in row.mentions : Exists(o)
    /\ row.code = NoCode \/ row.code \in row.mentions
    /\ transfer' = [transfer EXCEPT ![t] = row]
    /\ UNCHANGED <<order, deposits, walletVars, rowLock, creator, worker, failures>>

-----------------------------------------------------------------------------
(* Crediting.                                                              *)

Find(w, o, t, r) ==
    worker' = [worker EXCEPT ![w] = [pc |-> "found", order |-> o,
                                     amount |-> transfer[t].amount,
                                     ref |-> r, transfer |-> t]]

\* ServeHTTP of the webhook up to GetOrderByCode.  A transfer without a code
\* and a code without an order are skipped.  SePay may deliver any number of
\* times, in any order.
WebhookReceive(w, t) ==
    /\ worker[w] = Idle
    /\ transfer[t] # NoTransfer
    /\ transfer[t].code # NoCode
    /\ Exists(transfer[t].code)
    /\ Find(w, transfer[t].code, t, <<"id", t>>)
    /\ UNCHANGED <<order, transfer, deposits, walletVars, rowLock, creator, failures>>

\* FindIncomingTransaction: an incoming transfer of exactly this amount whose
\* code is this order's or whose text contains it.
Matches(t, o) ==
    /\ transfer[t] # NoTransfer
    /\ transfer[t].amount = order[o].amount
    /\ transfer[t].code = o \/ o \in transfer[t].mentions

\* The reference reconcilePendingOrder credits under: the id, or the bank
\* reference, itself unchecked, when the id is empty.
LookupRef(t) ==
    IF transfer[t].listedAs = ById THEN <<"id", t>>
    ELSE <<"reference", transfer[t].listedAs>>

\* GetOrderStatus of a pending order: reconcilePendingOrder looks the transfer
\* up at SePay.
StatusPoll(w, o, t) ==
    /\ worker[w] = Idle
    /\ IsPending(o)
    /\ Matches(t, o)
    /\ Find(w, o, t, LookupRef(t))
    /\ UNCHANGED <<order, transfer, deposits, walletVars, rowLock, creator, failures>>

\* Mutants of MayCredit: one of its two checks forgotten.
MayCreditAnyStatus(w) == order[worker[w].order].amount = worker[w].amount
MayCreditAnyAmount(w) == order[worker[w].order].status = "PENDING"

\* The checks made on the locked row.
MayCredit(w) ==
    /\ order[worker[w].order].status = "PENDING"
    /\ order[worker[w].order].amount = worker[w].amount

\* SELECT ... FOR UPDATE, then the checks; already_processed and
\* amount_mismatch roll back.
CreditLock(w) ==
    /\ worker[w].pc = "found"
    /\ rowLock[worker[w].order] = NoWorker
    /\ IF MayCredit(w)
         THEN /\ rowLock' = [rowLock EXCEPT ![worker[w].order] = w]
              /\ worker' = [worker EXCEPT ![w].pc = "locked"]
         ELSE /\ worker' = [worker EXCEPT ![w] = Idle]
              /\ UNCHANGED rowLock
    /\ UNCHANGED <<order, transfer, deposits, walletVars, creator, failures>>

\* Mutant of RefTaken: the unique index is missing.
RefNeverTaken(r) == FALSE

\* The partial unique index on ref_id already holds this reference.
RefTaken(r) == \E d \in deposits : d.ref = r

\* INSERT ... ON CONFLICT DO NOTHING, UPDATE status = PAID and COMMIT.
CreditCommit(w) ==
    LET o == worker[w].order
        u == order[o].user
        a == order[o].amount
    IN  /\ worker[w].pc = "locked"
        /\ IF RefTaken(worker[w].ref)
             THEN UNCHANGED <<deposits, walletVars>>
             ELSE /\ deposits' = deposits \cup
                        {[ref |-> worker[w].ref, user |-> u, amount |-> a,
                          order |-> o, transfer |-> worker[w].transfer]}
                  /\ CreditWallet(u, a)
        /\ order' = [order EXCEPT ![o].status = "PAID"]
        /\ rowLock' = [rowLock EXCEPT ![o] = NoWorker]
        /\ worker' = [worker EXCEPT ![w] = Idle]
        /\ UNCHANGED <<transfer, creator, failures>>

\* Mutant of CreditFail: the early return of an error leaves the transaction
\* open, and its row lock with it.
CreditFailLeaksLock(w) ==
    /\ worker[w].pc \in {"found", "locked"}
    /\ failures < MaxFailures
    /\ failures' = failures + 1
    /\ worker' = [worker EXCEPT ![w] = Idle]
    /\ UNCHANGED <<order, transfer, deposits, walletVars, rowLock, creator>>

\* A database error, a cancelled request or a crash: the transaction rolls
\* back.  The webhook still answers 200, so SePay has no reason to retry.
CreditFail(w) ==
    /\ worker[w].pc \in {"found", "locked"}
    /\ failures < MaxFailures
    /\ failures' = failures + 1
    /\ rowLock' = [o \in Orders |-> IF rowLock[o] = w THEN NoWorker ELSE rowLock[o]]
    /\ worker' = [worker EXCEPT ![w] = Idle]
    /\ UNCHANGED <<order, transfer, deposits, walletVars, creator>>

-----------------------------------------------------------------------------
DepositNext ==
    \/ \E c \in Creators, u \in Users, a \in Amounts : CreateOrderCount(c, u, a)
    \/ \E c \in Creators, o \in Orders : CreateOrderInsert(c, o)
    \/ \E o \in Orders, u \in Users : CancelPendingOrder(o, u)
    \/ \E t \in Transfers, row \in TransferRow : BankTransfer(t, row)
    \/ \E w \in Workers, t \in Transfers : WebhookReceive(w, t)
    \/ \E w \in Workers, o \in Orders, t \in Transfers : StatusPoll(w, o, t)
    \/ \E w \in Workers : CreditLock(w)
    \/ \E w \in Workers : CreditCommit(w)
    \/ \E w \in Workers : CreditFail(w)

Init == DepositInit /\ WalletInit

Spec == Init /\ [][DepositNext]_vars

\* The deposit page polls the status of an unpaid order every three seconds,
\* PostgreSQL queues the waiters of a row lock, and a handler that reached its
\* commit runs on.  Worker slots bound the model, not the server, so a poll
\* that finds a slot again and again gets it.  Nothing is assumed of SePay,
\* whose webhook may never come.
DepositFairness ==
    /\ \A o \in Orders : SF_vars(\E w \in Workers, t \in Transfers : StatusPoll(w, o, t))
    /\ \A w \in Workers : SF_vars(CreditLock(w)) /\ WF_vars(CreditCommit(w))

-----------------------------------------------------------------------------
(* Properties.                                                             *)

\* Every variable holds a value the tables and the handlers can hold.
TypeOK ==
    /\ order \in [Orders -> OrderRow \cup {NoOrder}]
    /\ transfer \in [Transfers -> TransferRow \cup {NoTransfer}]
    /\ deposits \subseteq DepositRow
    /\ credit \in [Users -> Nat]
    /\ debit \in [Users -> Nat]
    /\ rowLock \in [Orders -> Workers \cup {NoWorker}]
    /\ creator \in [Creators -> CreatorState]
    /\ worker \in [Workers -> WorkerState]
    /\ failures \in 0..MaxFailures

\* The references a transfer can be credited under: its webhook always carries
\* the id, a lookup what the list names it by.
RefsOf(t) == {<<"id", t>>, LookupRef(t)}

\* However often the webhook is delivered, whatever polls race it and however
\* many orders its text names, a transfer listed under its id is credited at
\* most once, and any other at most twice: under the id and under the bank
\* reference, to two different orders.
CreditsPerTransfer ==
    \A d, e \in deposits :
        (d.transfer = e.transfer /\ d # e) =>
            /\ transfer[d.transfer].listedAs # ById
            /\ {d.ref, e.ref} = RefsOf(d.transfer)
            /\ d.order # e.order

\* A deposit order is credited at most once, even when the customer pays it
\* twice or the webhook and a poll credit it together.
OneCreditPerOrder ==
    \A d, e \in deposits : d.order = e.order => d = e

\* Every deposit row is money that arrived for this order: its transfer carries
\* exactly the amount credited and names the order, and the credit went to the
\* order's owner.
CreditBackedByTransfer ==
    \A d \in deposits :
        /\ Exists(d.order)
        /\ Matches(d.transfer, d.order)
        /\ order[d.order].user = d.user
        /\ order[d.order].amount = d.amount

\* No order becomes PAID without money: a transfer that names it arrived with
\* its amount, and a reference of this transfer is in the ledger.  The row need
\* not be this order's, which is all that PaidOrderWasCredited, below, asks for
\* more.
PaidByTransfer ==
    \A o \in Orders :
        (Exists(o) /\ order[o].status = "PAID") =>
            \E t \in Transfers :
                Matches(t, o) /\ \E d \in deposits : d.ref \in RefsOf(t)

\* All of this together: however deliveries, polls, cancellations and failures
\* overlap, an order is credited once, with money that arrived for it, and a
\* transfer is never credited more often than it has references.
CreditsSound ==
    /\ TypeOK /\ CreditsPerTransfer /\ OneCreditPerOrder
    /\ CreditBackedByTransfer /\ PaidByTransfer

\* A paid or cancelled order keeps its row for ever: a cancellation never
\* undoes a credit and a late credit never revives a cancelled order.
FinalStatusStable ==
    [][\A o \in Orders :
        (Exists(o) /\ order[o].status # "PENDING") => order'[o] = order[o]]_vars

\* Requests that passed the limit check and have not inserted their order.
Counted(u) == {c \in Creators : creator[c].pc = "counted" /\ creator[c].user = u}

\* The pending-order limit is checked before the insert, so it can be overrun,
\* but never by more than the other requests in flight.
PendingOverrunBounded ==
    \A u \in Users :
        Cardinality(Pending(u)) + Cardinality(Counted(u))
            <= MaxPending + Cardinality(Creators) - 1

\* A transfer of an order's amount that names the order is applied: the order
\* does not stay pending, though the webhook may be lost or fail.
TransferEventuallyApplied ==
    \A o \in Orders, t \in Transfers :
        (IsPending(o) /\ Matches(t, o)) ~> ~IsPending(o)

\* docs/payment/webhook-flow.md: a reference already in the ledger means the
\* order was credited already, so an order marked PAID has its deposit row.
PaidOrderWasCredited ==
    \A o \in Orders :
        (Exists(o) /\ order[o].status = "PAID") => \E d \in deposits : d.order = o

\* docs/payment/webhook-flow.md: the transaction id is the deduplication key, so
\* a transfer is not credited twice.
TransferCreditedOnce ==
    \A d, e \in deposits : d.transfer = e.transfer => d = e

=============================================================================
