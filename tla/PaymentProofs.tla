--------------------------- MODULE PaymentProofs ----------------------------
(***************************************************************************)
(* Proofs about the payment service, for any number of users, orders,      *)
(* transfers, study sets and concurrent requests: the deposits on their    *)
(* own, then the composed service, in which the deposit invariants         *)
(* survive, wallets are never overdrawn, and which implements the abstract *)
(* ledger.                                                                 *)
(***************************************************************************)
EXTENDS Payment, FiniteSetTheorems, TLAPS, Integers

\* A worker that is past its lookup carries a well-typed request.
LEMMA WorkerFields ==
    ASSUME NEW x \in WorkerState, x.pc \in {"found", "locked"}
    PROVE  /\ x \in [pc : {"found", "locked"}, order : Orders, amount : Amounts,
                     ref : Refs, transfer : Transfers]
           /\ x.order \in Orders
           /\ x.amount \in Amounts
           /\ x.ref \in Refs
           /\ x.transfer \in Transfers
  BY DEF WorkerState

\* A request that passed the limit check remembers a user and an amount.
LEMMA CreatorFields ==
    ASSUME NEW x \in CreatorState, x.pc = "counted"
    PROVE  x.user \in Users /\ x.amount \in Amounts
  BY DEF CreatorState

\* The idle state is a state of both kinds of request.
LEMMA IdleTypes == Idle \in CreatorState /\ Idle \in WorkerState
  BY DEF Idle, CreatorState, WorkerState

\* An order row that exists has the columns of payment_order.
LEMMA OrderFields ==
    ASSUME TypeOK, NEW o \in Orders, Exists(o)
    PROVE  /\ order[o] \in OrderRow
           /\ order[o].user \in Users
           /\ order[o].amount \in Amounts
           /\ order[o].status \in Status
  BY DEF TypeOK, Exists, OrderRow

\* What a request knows about the transfer it found: the transfer exists,
\* carries the amount and names the order, and the reference is one of its own.
Found(o, a, r, t) ==
    /\ Exists(o)
    /\ transfer[t] # NoTransfer
    /\ transfer[t].amount = a
    /\ transfer[t].code = o \/ o \in transfer[t].mentions
    /\ r \in RefsOf(t)

WorkersFound ==
    \A w \in Workers :
        worker[w].pc \in {"found", "locked"} =>
            Found(worker[w].order, worker[w].amount, worker[w].ref, worker[w].transfer)

\* A worker that passed the checks holds the row lock, and the row is still the
\* one it checked.
LockedRowUnchanged ==
    \A w \in Workers :
        worker[w].pc = "locked" =>
            /\ rowLock[worker[w].order] = w
            /\ IsPending(worker[w].order)
            /\ order[worker[w].order].amount = worker[w].amount

DepositsFound ==
    \A d \in deposits :
        /\ Found(d.order, d.amount, d.ref, d.transfer)
        /\ order[d.order].status = "PAID"
        /\ order[d.order].user = d.user
        /\ order[d.order].amount = d.amount

\* The unique index of ref_id.
OneCreditPerRef ==
    \A d, e \in deposits : d.ref = e.ref => d = e

\* The inductive invariant.
IInv ==
    /\ TypeOK
    /\ WorkersFound
    /\ LockedRowUnchanged
    /\ DepositsFound
    /\ OneCreditPerOrder
    /\ OneCreditPerRef
    /\ PaidByTransfer

-----------------------------------------------------------------------------
\* The empty tables and idle requests satisfy the inductive invariant.
THEOREM InitIInv == Init => IInv
  <1> SUFFICES ASSUME Init PROVE IInv
    OBVIOUS
  <1> USE DEF Init, DepositInit, WalletInit
  <1>1. TypeOK
    BY IdleTypes, DepositConstants DEF TypeOK
  <1>2. WorkersFound /\ LockedRowUnchanged
    BY DEF WorkersFound, LockedRowUnchanged, Idle
  <1>3. DepositsFound /\ OneCreditPerOrder /\ OneCreditPerRef /\ PaidByTransfer
    BY DEF DepositsFound, OneCreditPerOrder, OneCreditPerRef, PaidByTransfer, Exists
  <1> QED BY <1>1, <1>2, <1>3 DEF IInv

\* A step keeps the types; a commit needs to know that its order exists.
LEMMA TypeOKStep == TypeOK /\ LockedRowUnchanged /\ [DepositNext]_vars => TypeOK'
  <1> SUFFICES ASSUME TypeOK, LockedRowUnchanged, [DepositNext]_vars PROVE TypeOK'
    OBVIOUS
  <1> USE DEF TypeOK
  <1>1. ASSUME NEW c \in Creators, NEW u \in Users, NEW a \in Amounts,
               CreateOrderCount(c, u, a)
        PROVE  TypeOK'
    <2>1. [pc |-> "counted", user |-> u, amount |-> a] \in CreatorState
      BY DEF CreatorState
    <2> QED BY <1>1, <2>1 DEF CreateOrderCount, walletVars
  <1>2. ASSUME NEW c \in Creators, NEW o \in Orders, CreateOrderInsert(c, o)
        PROVE  TypeOK'
    <2>1. creator[c].user \in Users /\ creator[c].amount \in Amounts
      BY <1>2, CreatorFields DEF CreateOrderInsert
    <2>2. [user |-> creator[c].user, amount |-> creator[c].amount, status |-> "PENDING"]
            \in OrderRow
      BY <2>1 DEF OrderRow, Status
    <2>3. order' \in [Orders -> OrderRow \cup {NoOrder}]
      BY <1>2, <2>2 DEF CreateOrderInsert
    <2>4. creator' \in [Creators -> CreatorState]
      BY <1>2, IdleTypes DEF CreateOrderInsert
    <2> QED BY <1>2, <2>3, <2>4 DEF CreateOrderInsert, walletVars
  <1>3. ASSUME NEW o \in Orders, NEW u \in Users, CancelPendingOrder(o, u)
        PROVE  TypeOK'
    <2>1. order[o] \in OrderRow
      BY <1>3 DEF CancelPendingOrder, Pending, IsPending, Exists
    <2>2. [order[o] EXCEPT !.status = "CANCELLED"] \in OrderRow
      BY <2>1 DEF OrderRow, Status
    <2>3. order' \in [Orders -> OrderRow \cup {NoOrder}]
      BY <1>3, <2>2 DEF CancelPendingOrder
    <2> QED BY <1>3, <2>3 DEF CancelPendingOrder, walletVars
  <1>4. ASSUME NEW t \in Transfers, NEW row \in TransferRow, BankTransfer(t, row)
        PROVE  TypeOK'
    BY <1>4 DEF BankTransfer, walletVars
  <1>5. ASSUME NEW w \in Workers, NEW o \in Orders, NEW t \in Transfers, NEW r \in Refs,
               transfer[t] # NoTransfer, Find(w, o, t, r)
        PROVE  worker' \in [Workers -> WorkerState]
    <2>1. transfer[t].amount \in Amounts
      BY <1>5 DEF TransferRow
    <2>2. [pc |-> "found", order |-> o, amount |-> transfer[t].amount, ref |-> r,
           transfer |-> t] \in WorkerState
      BY <2>1 DEF WorkerState
    <2> QED BY <1>5, <2>2 DEF Find
  <1>6. \A t \in Transfers :
           <<"id", t>> \in Refs /\ (transfer[t] # NoTransfer => LookupRef(t) \in Refs)
    BY DEF Refs, LookupRef, TransferRow
  <1>7. ASSUME NEW w \in Workers, NEW t \in Transfers, WebhookReceive(w, t)
        PROVE  TypeOK'
    <2>1. transfer[t].code \in Orders
      BY <1>7 DEF WebhookReceive, TransferRow
    <2> QED BY <1>5, <1>6, <1>7, <2>1 DEF WebhookReceive, walletVars
  <1>8. ASSUME NEW w \in Workers, NEW o \in Orders, NEW t \in Transfers, StatusPoll(w, o, t)
        PROVE  TypeOK'
    BY <1>5, <1>6, <1>8 DEF StatusPoll, Matches, walletVars
  <1>9. ASSUME NEW w \in Workers, CreditLock(w)
        PROVE  TypeOK'
    <2>1. worker[w].order \in Orders
      BY <1>9, WorkerFields DEF CreditLock
    <2>2. [worker[w] EXCEPT !.pc = "locked"] \in WorkerState
      <3>1. worker[w] \in [pc : {"found", "locked"}, order : Orders, amount : Amounts,
                           ref : Refs, transfer : Transfers]
        BY <1>9, WorkerFields DEF CreditLock
      <3> QED BY <3>1 DEF WorkerState
    <2>3. worker' \in [Workers -> WorkerState]
      BY <1>9, <2>2, IdleTypes DEF CreditLock
    <2>4. rowLock' \in [Orders -> Workers \cup {NoWorker}]
      BY <1>9, <2>1 DEF CreditLock
    <2> QED BY <1>9, <2>3, <2>4 DEF CreditLock, walletVars
  <1>10. ASSUME NEW w \in Workers, CreditCommit(w)
         PROVE  TypeOK'
    <2> DEFINE o == worker[w].order
    <2>1. /\ o \in Orders /\ worker[w].ref \in Refs /\ worker[w].transfer \in Transfers
          /\ order[o] \in OrderRow
          /\ order[o].user \in Users /\ order[o].amount \in Amounts
      <3>1. worker[w].pc = "locked"
        BY <1>10 DEF CreditCommit
      <3>2. o \in Orders /\ worker[w].ref \in Refs /\ worker[w].transfer \in Transfers
        BY <3>1, WorkerFields
      <3>3. Exists(o)
        BY <3>1 DEF LockedRowUnchanged, IsPending
      <3> QED BY <3>2, <3>3, OrderFields
    <2>2. [ref |-> worker[w].ref, user |-> order[o].user, amount |-> order[o].amount,
           order |-> o, transfer |-> worker[w].transfer] \in DepositRow
      BY <2>1 DEF DepositRow
    <2>3. deposits' \subseteq DepositRow
      BY <1>10, <2>2 DEF CreditCommit
    <2>4. credit' \in [Users -> Nat] /\ debit' \in [Users -> Nat]
      BY <1>10, <2>1, WalletConstants DEF CreditCommit, CreditWallet, walletVars
    <2>5. order' \in [Orders -> OrderRow \cup {NoOrder}]
      <3>1. [order[o] EXCEPT !.status = "PAID"] \in OrderRow
        BY <2>1 DEF OrderRow, Status
      <3> QED BY <1>10, <2>1, <3>1 DEF CreditCommit
    <2>6. rowLock' \in [Orders -> Workers \cup {NoWorker}] /\ worker' \in [Workers -> WorkerState]
      BY <1>10, IdleTypes DEF CreditCommit
    <2> QED BY <1>10, <2>3, <2>4, <2>5, <2>6 DEF CreditCommit
  <1>11. ASSUME NEW w \in Workers, CreditFail(w)
         PROVE  TypeOK'
    BY <1>11, IdleTypes, DepositConstants DEF CreditFail, walletVars
  <1>12. CASE UNCHANGED vars
    BY <1>12 DEF vars, depositVars, walletVars
  <1> QED
    BY <1>1, <1>2, <1>3, <1>4, <1>7, <1>8, <1>9, <1>10, <1>11, <1>12 DEF DepositNext

\* Facts about a request survive every step that changes neither its transfer
\* nor removes its order.
LEMMA FoundStable ==
    ASSUME NEW o \in Orders, NEW a, NEW r, NEW t \in Transfers,
           Found(o, a, r, t), Exists(o)', transfer'[t] = transfer[t]
    PROVE  Found(o, a, r, t)'
  BY DEF Found, RefsOf, LookupRef

\* Orders are never deleted and transfers never change.
LEMMA RowsStay ==
    ASSUME IInv, [DepositNext]_vars
    PROVE  /\ \A o \in Orders : Exists(o) => Exists(o)'
           /\ \A t \in Transfers : transfer[t] # NoTransfer => transfer'[t] = transfer[t]
  <1> USE DEF IInv, TypeOK
  <1>1. ASSUME NEW c \in Creators, NEW o \in Orders, CreateOrderInsert(c, o)
        PROVE  \A p \in Orders : Exists(p) => Exists(p)'
    BY <1>1 DEF CreateOrderInsert, Exists
  <1>2. ASSUME NEW o \in Orders, NEW s \in Status, Exists(o),
               order' = [order EXCEPT ![o].status = s]
        PROVE  \A p \in Orders : Exists(p) => Exists(p)'
    <2>1. order'[o] \in OrderRow
      BY <1>2 DEF OrderRow, Exists
    <2> QED BY <1>2, <2>1, NullConstants DEF Exists
  <1>3. ASSUME NEW o \in Orders, NEW u \in Users, CancelPendingOrder(o, u)
        PROVE  \A p \in Orders : Exists(p) => Exists(p)'
    BY <1>2, <1>3 DEF CancelPendingOrder, Pending, IsPending, Status
  <1>4. ASSUME NEW w \in Workers, CreditCommit(w)
        PROVE  \A p \in Orders : Exists(p) => Exists(p)'
    <2>1. worker[w].order \in Orders /\ Exists(worker[w].order)
      BY <1>4, WorkerFields DEF CreditCommit, LockedRowUnchanged, IsPending
    <2> QED BY <1>2, <1>4, <2>1 DEF CreditCommit, Status
  <1>5. ASSUME UNCHANGED order
        PROVE  \A p \in Orders : Exists(p) => Exists(p)'
    BY <1>5 DEF Exists
  <1>6. \A o \in Orders : Exists(o) => Exists(o)'
    BY <1>1, <1>3, <1>4, <1>5
       DEF DepositNext, CreateOrderCount, BankTransfer, WebhookReceive, StatusPoll,
           CreditLock, CreditFail, vars, depositVars
  <1>7. \A t \in Transfers : transfer[t] # NoTransfer => transfer'[t] = transfer[t]
    BY DEF DepositNext, CreateOrderCount, CreateOrderInsert, CancelPendingOrder, BankTransfer,
           WebhookReceive, StatusPoll, CreditLock, CreditCommit, CreditFail, vars, depositVars
  <1> QED BY <1>6, <1>7

\* The rows a locked worker depends on are left alone by everyone else.
THEOREM StepIInv == IInv /\ [DepositNext]_vars => IInv'
  <1> SUFFICES ASSUME IInv, [DepositNext]_vars PROVE IInv'
    OBVIOUS
  <1>1. TypeOK'
    BY TypeOKStep DEF IInv
  <1>2. /\ \A o \in Orders : Exists(o) => Exists(o)'
        /\ \A t \in Transfers : transfer[t] # NoTransfer => transfer'[t] = transfer[t]
    BY RowsStay
  <1>3. TypeOK
    BY DEF IInv
  <1>5. WorkersFound'
    <2>1. ASSUME NEW w \in Workers, NEW o \in Orders, NEW t \in Transfers, NEW r,
                 Find(w, o, t, r), Found(o, transfer[t].amount, r, t)
          PROVE  WorkersFound'
      <3> SUFFICES ASSUME NEW v \in Workers, worker'[v].pc \in {"found", "locked"}
                   PROVE  Found(worker[v].order, worker[v].amount, worker[v].ref, worker[v].transfer)'
        BY DEF WorkersFound
      <3>1. transfer'[t] = transfer[t] /\ Exists(o)'
        BY <1>2, <2>1 DEF Found
      <3>2. CASE v = w
        BY <3>1, <3>2, <2>1, <1>3, FoundStable DEF Find, TypeOK, Found
      <3>3. CASE v # w
        <4>1. worker'[v] = worker[v]
          BY <3>3, <2>1, <1>3 DEF Find, TypeOK
        <4>2. Found(worker[v].order, worker[v].amount, worker[v].ref, worker[v].transfer)
          BY <4>1 DEF IInv, WorkersFound
        <4>3. worker[v].order \in Orders /\ worker[v].transfer \in Transfers
          BY <4>1, <1>3, WorkerFields DEF TypeOK
        <4> QED BY <4>1, <4>2, <4>3, <1>2, FoundStable DEF Found
      <3> QED BY <3>2, <3>3
    <2>2. ASSUME NEW w \in Workers, NEW t \in Transfers, WebhookReceive(w, t)
          PROVE  WorkersFound'
      <3>1. transfer[t].code \in Orders /\ Found(transfer[t].code, transfer[t].amount, <<"id", t>>, t)
        BY <2>2, <1>3 DEF WebhookReceive, Found, RefsOf, TypeOK, TransferRow
      <3> QED BY <3>1, <2>1, <2>2 DEF WebhookReceive
    <2>3. ASSUME NEW w \in Workers, NEW o \in Orders, NEW t \in Transfers, StatusPoll(w, o, t)
          PROVE  WorkersFound'
      <3>1. transfer[t] # NoTransfer /\ Exists(o)
        BY <2>3 DEF StatusPoll, Matches, IsPending
      <3>2. Found(o, transfer[t].amount, LookupRef(t), t)
        BY <2>3, <3>1 DEF StatusPoll, Matches, Found, RefsOf
      <3> QED BY <2>1, <2>3, <3>2 DEF StatusPoll
    <2>4. ASSUME \A v \in Workers : worker'[v].pc \in {"found", "locked"} =>
                    /\ worker[v].pc \in {"found", "locked"}
                    /\ worker'[v].order = worker[v].order
                    /\ worker'[v].amount = worker[v].amount
                    /\ worker'[v].ref = worker[v].ref
                    /\ worker'[v].transfer = worker[v].transfer
          PROVE  WorkersFound'
      <3> SUFFICES ASSUME NEW v \in Workers, worker'[v].pc \in {"found", "locked"}
                   PROVE  Found(worker[v].order, worker[v].amount, worker[v].ref, worker[v].transfer)'
        BY DEF WorkersFound
      <3>1. Found(worker[v].order, worker[v].amount, worker[v].ref, worker[v].transfer)
        BY <2>4 DEF IInv, WorkersFound
      <3>2. worker[v].order \in Orders /\ worker[v].transfer \in Transfers
        BY <2>4, <1>3, WorkerFields DEF TypeOK
      <3> QED BY <2>4, <3>1, <3>2, <1>2, FoundStable DEF Found
    <2>5. ASSUME NEW w \in Workers, CreditLock(w) \/ CreditCommit(w) \/ CreditFail(w)
          PROVE  WorkersFound'
      BY <2>4, <2>5, <1>3 DEF CreditLock, CreditCommit, CreditFail, Idle, TypeOK, WorkerState
    <2>6. CASE UNCHANGED worker
      BY <2>4, <2>6
    <2> QED
      BY <2>2, <2>3, <2>5, <2>6 DEF DepositNext, CreateOrderCount, CreateOrderInsert,
         CancelPendingOrder, BankTransfer, vars, depositVars
  <1>6. LockedRowUnchanged'
    <2> USE <1>3 DEF TypeOK
    <2>1. \A v \in Workers : worker[v].pc = "locked" =>
            /\ worker[v].order \in Orders
            /\ rowLock[worker[v].order] = v
            /\ IsPending(worker[v].order)
            /\ order[worker[v].order].amount = worker[v].amount
      BY WorkerFields DEF IInv, LockedRowUnchanged
    <2>2. ASSUME NEW c \in Creators, NEW o \in Orders, CreateOrderInsert(c, o)
          PROVE  LockedRowUnchanged'
      BY <2>1, <2>2 DEF CreateOrderInsert, LockedRowUnchanged, IsPending, Exists
    <2>3. ASSUME NEW o \in Orders, NEW u \in Users, CancelPendingOrder(o, u)
          PROVE  LockedRowUnchanged'
      BY <2>1, <2>3, DepositConstants DEF CancelPendingOrder, LockedRowUnchanged, IsPending, Exists
    <2>4. ASSUME NEW w \in Workers, NEW t \in Transfers, WebhookReceive(w, t)
          PROVE  LockedRowUnchanged'
      BY <2>1, <2>4 DEF WebhookReceive, Find, LockedRowUnchanged, IsPending, Exists
    <2>5. ASSUME NEW w \in Workers, NEW o \in Orders, NEW t \in Transfers, StatusPoll(w, o, t)
          PROVE  LockedRowUnchanged'
      BY <2>1, <2>5 DEF StatusPoll, Find, LockedRowUnchanged, IsPending, Exists
    <2>6. ASSUME NEW w \in Workers, CreditLock(w)
          PROVE  LockedRowUnchanged'
      <3>1. worker[w].order \in Orders /\ worker[w].pc = "found" /\ Exists(worker[w].order)
        BY <2>6, WorkerFields DEF CreditLock, IInv, WorkersFound, Found
      <3>2. CASE MayCredit(w)
        <4>1. \A v \in Workers \ {w} : worker'[v] = worker[v]
          BY <2>6, <3>2 DEF CreditLock
        <4>2. /\ worker'[w].order = worker[w].order /\ worker'[w].amount = worker[w].amount
              /\ rowLock'[worker[w].order] = w /\ UNCHANGED order
          <5>1. worker[w] \in [pc : {"found", "locked"}, order : Orders, amount : Amounts,
                               ref : Refs, transfer : Transfers]
            BY <3>1, WorkerFields
          <5>2. worker'[w] = [worker[w] EXCEPT !.pc = "locked"]
            BY <2>6, <3>2 DEF CreditLock
          <5>3. rowLock' = [rowLock EXCEPT ![worker[w].order] = w] /\ UNCHANGED order
            BY <2>6, <3>2 DEF CreditLock
          <5> QED BY <3>1, <5>1, <5>2, <5>3
        <4>3. \A v \in Workers \ {w} : worker[v].pc = "locked" =>
                 /\ worker[v].order # worker[w].order
                 /\ rowLock'[worker[v].order] = v
          <5>1. rowLock[worker[w].order] \notin Workers
            BY <2>6, DepositConstants DEF CreditLock
          <5>2. rowLock' = [rowLock EXCEPT ![worker[w].order] = w]
            BY <2>6, <3>2 DEF CreditLock
          <5> QED BY <2>1, <3>1, <5>1, <5>2
        <4> QED
          BY <2>1, <3>1, <3>2, <4>1, <4>2, <4>3 DEF LockedRowUnchanged, MayCredit, IsPending, Exists
      <3>3. CASE ~MayCredit(w)
        BY <2>1, <2>6, <3>3 DEF CreditLock, LockedRowUnchanged, Idle, IsPending, Exists
      <3> QED BY <3>2, <3>3
    <2>7. ASSUME NEW w \in Workers, CreditCommit(w)
          PROVE  LockedRowUnchanged'
      <3>1. worker[w].pc = "locked" /\ worker'[w].pc = "idle"
        BY <2>7 DEF CreditCommit, Idle
      <3>2. \A v \in Workers \ {w} : worker'[v] = worker[v]
        BY <2>7 DEF CreditCommit
      <3>3. \A v \in Workers \ {w} : worker[v].pc = "locked" =>
               /\ worker[v].order # worker[w].order
               /\ rowLock'[worker[v].order] = v
               /\ order'[worker[v].order] = order[worker[v].order]
        BY <2>1, <2>7, <3>1 DEF CreditCommit
      <3> QED BY <2>1, <3>1, <3>2, <3>3 DEF LockedRowUnchanged, IsPending, Exists
    <2>8. ASSUME NEW w \in Workers, CreditFail(w)
          PROVE  LockedRowUnchanged'
      BY <2>1, <2>8 DEF CreditFail, LockedRowUnchanged, Idle, IsPending, Exists
    <2>9. CASE UNCHANGED <<order, rowLock, worker>>
      BY <2>1, <2>9 DEF LockedRowUnchanged, IsPending, Exists
    <2> QED
      BY <2>2, <2>3, <2>4, <2>5, <2>6, <2>7, <2>8, <2>9
         DEF DepositNext, CreateOrderCount, BankTransfer, vars, depositVars
  <1>7. ASSUME UNCHANGED deposits,
               \A d \in deposits : order'[d.order] = order[d.order]
        PROVE  DepositsFound' /\ OneCreditPerOrder' /\ OneCreditPerRef'
    <2>1. OneCreditPerOrder' /\ OneCreditPerRef'
      BY <1>7 DEF IInv, OneCreditPerOrder, OneCreditPerRef
    <2>2. ASSUME NEW d \in deposits
          PROVE  Found(d.order, d.amount, d.ref, d.transfer)'
      <3>1. d.order \in Orders /\ d.transfer \in Transfers
        BY <1>3, <2>2 DEF TypeOK, DepositRow
      <3>2. Found(d.order, d.amount, d.ref, d.transfer)
        BY <2>2 DEF IInv, DepositsFound
      <3> QED BY <1>2, <3>1, <3>2, FoundStable DEF Found
    <2> QED BY <1>7, <2>1, <2>2 DEF IInv, DepositsFound
  <1>8. ASSUME NEW d \in deposits
        PROVE  /\ d.order \in Orders /\ Exists(d.order)
               /\ order[d.order].status = "PAID"
    BY <1>3, <1>8 DEF TypeOK, DepositRow, IInv, DepositsFound, Found
  <1>9. ASSUME NEW w \in Workers, CreditCommit(w)
        PROVE  DepositsFound' /\ OneCreditPerOrder' /\ OneCreditPerRef'
    <2> DEFINE o == worker[w].order
               new == [ref |-> worker[w].ref, user |-> order[o].user, amount |-> order[o].amount,
                       order |-> o, transfer |-> worker[w].transfer]
    <2>1. /\ o \in Orders /\ Exists(o) /\ order[o] \in OrderRow /\ order[o].status = "PENDING"
          /\ worker[w].transfer \in Transfers /\ worker[w].ref \in Refs
          /\ Found(o, order[o].amount, worker[w].ref, worker[w].transfer)
      <3>1. worker[w].pc = "locked"
        BY <1>9 DEF CreditCommit
      <3> QED
        BY <3>1, <1>3, WorkerFields
           DEF TypeOK, IInv, LockedRowUnchanged, WorkersFound, IsPending, Exists
    <2>2. order' = [order EXCEPT ![o].status = "PAID"]
      BY <1>9 DEF CreditCommit
    <2>3. order'[o] = [order[o] EXCEPT !.status = "PAID"]
      BY <1>3, <2>1, <2>2 DEF TypeOK
    <2>4. \A d \in deposits : d.order # o /\ order'[d.order] = order[d.order]
      BY <1>3, <1>8, <2>1, <2>2 DEF TypeOK
    <2>5. CASE RefTaken(worker[w].ref)
      <3>1. UNCHANGED deposits
        BY <1>9, <2>5 DEF CreditCommit
      <3> QED BY <1>7, <2>4, <3>1
    <2>6. CASE ~RefTaken(worker[w].ref)
      <3>1. deposits' = deposits \cup {new}
        BY <1>9, <2>6 DEF CreditCommit
      <3>2. DepositsFound'
        <4>1. ASSUME NEW d \in deposits
              PROVE  Found(d.order, d.amount, d.ref, d.transfer)'
          <5>1. d.order \in Orders /\ d.transfer \in Transfers
            BY <1>3, <4>1 DEF TypeOK, DepositRow
          <5>2. Found(d.order, d.amount, d.ref, d.transfer)
            BY <4>1 DEF IInv, DepositsFound
          <5> QED BY <1>2, <5>1, <5>2, FoundStable DEF Found
        <4>2. ASSUME NEW d, d = new
              PROVE  /\ Found(d.order, d.amount, d.ref, d.transfer)'
                     /\ order'[d.order].status = "PAID"
                     /\ order'[d.order].user = d.user
                     /\ order'[d.order].amount = d.amount
          <5>1. d.order \in Orders /\ d.transfer \in Transfers
            BY <2>1, <4>2
          <5>2. Found(d.order, d.amount, d.ref, d.transfer)
            BY <2>1, <4>2
          <5>3. Found(d.order, d.amount, d.ref, d.transfer)'
            BY <1>2, <5>1, <5>2, FoundStable DEF Found
          <5>4. order'[d.order] = [order[o] EXCEPT !.status = "PAID"]
            BY <2>3, <4>2
          <5> QED BY <2>1, <4>2, <5>3, <5>4 DEF OrderRow
        <4>3. \A d \in deposits : /\ order'[d.order].status = "PAID"
                                  /\ order'[d.order].user = d.user
                                  /\ order'[d.order].amount = d.amount
          BY <2>4 DEF IInv, DepositsFound
        <4> QED BY <3>1, <4>1, <4>2, <4>3 DEF DepositsFound
      <3>3. OneCreditPerOrder'
        BY <2>4, <3>1 DEF IInv, OneCreditPerOrder
      <3>4. OneCreditPerRef'
        BY <2>6, <3>1 DEF IInv, OneCreditPerRef, RefTaken
      <3> QED BY <3>2, <3>3, <3>4
    <2> QED BY <2>5, <2>6
  <1>10. DepositsFound' /\ OneCreditPerOrder' /\ OneCreditPerRef'
    <2>1. ASSUME NEW c \in Creators, NEW o \in Orders, CreateOrderInsert(c, o)
          PROVE  \A d \in deposits : order'[d.order] = order[d.order]
      BY <1>3, <1>8, <2>1 DEF CreateOrderInsert, TypeOK, Exists
    <2>2. ASSUME NEW o \in Orders, NEW u \in Users, CancelPendingOrder(o, u)
          PROVE  \A d \in deposits : order'[d.order] = order[d.order]
      BY <1>3, <1>8, <2>2 DEF CancelPendingOrder, Pending, IsPending, TypeOK
    <2> QED
      BY <1>7, <1>9, <2>1, <2>2
         DEF DepositNext, CreateOrderCount, CreateOrderInsert, CancelPendingOrder, BankTransfer,
             WebhookReceive, StatusPoll, CreditLock, CreditFail, vars, depositVars
  <1>11. PaidByTransfer'
    <2>1. deposits \subseteq deposits'
      BY DEF DepositNext, CreateOrderCount, CreateOrderInsert, CancelPendingOrder, BankTransfer,
             WebhookReceive, StatusPoll, CreditLock, CreditCommit, CreditFail, vars, depositVars
    <2>2. ASSUME NEW o \in Orders, Exists(o), order[o].status = "PAID",
                 order'[o].amount = order[o].amount
          PROVE  \E t \in Transfers :
                    Matches(t, o)' /\ \E d \in deposits' : d.ref \in RefsOf(t)'
      <3>1. PICK t \in Transfers : Matches(t, o) /\ \E d \in deposits : d.ref \in RefsOf(t)
        BY <2>2 DEF IInv, PaidByTransfer
      <3>2. transfer'[t] = transfer[t]
        BY <1>2, <3>1 DEF Matches
      <3>3. Matches(t, o)' /\ RefsOf(t)' = RefsOf(t)
        BY <2>2, <3>1, <3>2 DEF Matches, RefsOf, LookupRef
      <3> QED  BY <2>1, <3>1, <3>3
    <2>3. ASSUME \A o \in Orders : order'[o].status = "PAID" /\ Exists(o)' => order'[o] = order[o]
          PROVE  PaidByTransfer'
      BY <2>2, <2>3 DEF PaidByTransfer, Exists
    <2>4. ASSUME NEW c \in Creators, NEW o \in Orders, CreateOrderInsert(c, o)
          PROVE  PaidByTransfer'
      BY <1>3, <2>3, <2>4 DEF CreateOrderInsert, TypeOK
    <2>5. ASSUME NEW o \in Orders, NEW u \in Users, CancelPendingOrder(o, u)
          PROVE  PaidByTransfer'
      <3>1. order[o] \in OrderRow /\ order' = [order EXCEPT ![o] = [order[o] EXCEPT !.status = "CANCELLED"]]
        BY <1>3, <2>5 DEF CancelPendingOrder, Pending, IsPending, Exists, TypeOK
      <3>2. [order[o] EXCEPT !.status = "CANCELLED"].status = "CANCELLED"
        BY <3>1 DEF OrderRow
      <3> QED  BY <1>3, <2>3, <3>1, <3>2 DEF TypeOK
    <2>6. ASSUME NEW w \in Workers, CreditCommit(w)
          PROVE  PaidByTransfer'
      <3>1. PICK o \in Orders, t \in Transfers :
            /\ o = worker[w].order /\ t = worker[w].transfer
            /\ order[o] \in OrderRow /\ worker[w].ref \in Refs
            /\ Found(o, order[o].amount, worker[w].ref, t)
        <4>1. worker[w].pc = "locked"
          BY <2>6 DEF CreditCommit
        <4> QED
          BY <4>1, <1>3, WorkerFields
             DEF TypeOK, IInv, LockedRowUnchanged, WorkersFound, IsPending, Exists
      <3>2. order' = [order EXCEPT ![o] = [order[o] EXCEPT !.status = "PAID"]]
        BY <2>6, <3>1 DEF CreditCommit
      <3>3. \A p \in Orders : order'[p].amount = order[p].amount /\ (p # o => order'[p] = order[p])
        BY <1>3, <3>1, <3>2 DEF TypeOK, OrderRow
      <3>4. Matches(t, o)' /\ RefsOf(t)' = RefsOf(t)
        <4>1. Matches(t, o)
          BY <3>1 DEF Found, Matches
        <4>2. transfer'[t] = transfer[t]
          BY <1>2, <3>1 DEF Found
        <4> QED  BY <3>1, <3>3, <4>1, <4>2 DEF Matches, RefsOf, LookupRef
      <3>5. \E d \in deposits' : d.ref \in RefsOf(t)
        <4>1. CASE RefTaken(worker[w].ref)
          BY <2>1, <3>1, <4>1 DEF RefTaken, Found
        <4>2. CASE ~RefTaken(worker[w].ref)
          <5> DEFINE new == [ref |-> worker[w].ref, user |-> order[o].user,
                             amount |-> order[o].amount, order |-> o, transfer |-> t]
          <5>1. new \in deposits'
            BY <2>6, <3>1, <4>2 DEF CreditCommit
          <5>2. new.ref \in RefsOf(t)
            BY <3>1 DEF Found
          <5> QED  BY <5>1, <5>2
        <4> QED  BY <4>1, <4>2
      <3>6. ASSUME NEW p \in Orders, Exists(p)', order'[p].status = "PAID"
            PROVE  \E v \in Transfers :
                      Matches(v, p)' /\ \E d \in deposits' : d.ref \in RefsOf(v)'
        <4>1. CASE p = o
          BY <3>1, <3>4, <3>5, <4>1
        <4>2. CASE p # o
          BY <2>2, <3>3, <3>6, <4>2 DEF Exists
        <4> QED  BY <4>1, <4>2
      <3> QED  BY <3>6 DEF PaidByTransfer
    <2>7. CASE UNCHANGED order
      BY <2>3, <2>7
    <2> QED
      BY <2>4, <2>5, <2>6, <2>7
         DEF DepositNext, CreateOrderCount, BankTransfer, WebhookReceive, StatusPoll, CreditLock,
             CreditFail, vars, depositVars
  <1> QED BY <1>1, <1>5, <1>6, <1>10, <1>11 DEF IInv

\* The inductive invariant holds in every reachable state of the deposits.
THEOREM IInvHolds == Spec => []IInv
  BY InitIInv, StepIInv, PTL DEF Spec

-----------------------------------------------------------------------------
(* The results.                                                            *)

\* Every variable keeps its type, in every behaviour.
THEOREM TypeCorrect == Spec => []TypeOK
  <1>1. IInv => TypeOK
    BY DEF IInv
  <1> QED BY <1>1, IInvHolds, PTL

\* A reference is used once and an order credited once, and a transfer has no
\* third reference.
LEMMA IInvBoundsCredits == IInv => CreditsPerTransfer
  <1> SUFFICES ASSUME IInv, NEW d \in deposits, NEW e \in deposits,
                      d.transfer = e.transfer, d # e
               PROVE  /\ transfer[d.transfer].listedAs # ById
                      /\ {d.ref, e.ref} = RefsOf(d.transfer)
                      /\ d.order # e.order
    BY DEF CreditsPerTransfer
  <1>1. d.ref \in RefsOf(d.transfer) /\ e.ref \in RefsOf(d.transfer)
    BY DEF IInv, DepositsFound, Found
  <1>2. d.ref # e.ref /\ d.order # e.order
    BY DEF IInv, OneCreditPerRef, OneCreditPerOrder
  <1> QED  BY <1>1, <1>2 DEF RefsOf, LookupRef

\* No number of webhook deliveries, polls and failures credits a transfer under
\* more references than it has: once when it is listed under its id, else at most
\* under the id and the bank reference, to two orders.
THEOREM TransferCreditsBounded == Spec => []CreditsPerTransfer
  <1>1. IInv => CreditsPerTransfer
    BY IInvBoundsCredits
  <1> QED BY <1>1, IInvHolds, PTL

\* A deposit order is credited at most once.
THEOREM OrderCreditedOnce == Spec => []OneCreditPerOrder
  <1>1. IInv => OneCreditPerOrder
    BY DEF IInv
  <1> QED BY <1>1, IInvHolds, PTL

\* Every deposit row is backed by a transfer of its amount that names its order,
\* and went to the owner of that order.
THEOREM CreditsBacked == Spec => []CreditBackedByTransfer
  <1>1. IInv => CreditBackedByTransfer
    BY DEF IInv, DepositsFound, Found, CreditBackedByTransfer, Matches
  <1> QED BY <1>1, IInvHolds, PTL

\* An order is PAID only if a transfer of its amount that names it arrived and one
\* of this transfer's references is in the ledger: what is missing when another
\* order took the reference is a credit, never the money.
THEOREM PaidOrdersHaveMoney == Spec => []PaidByTransfer
  <1>1. IInv => PaidByTransfer
    BY DEF IInv
  <1> QED BY <1>1, IInvHolds, PTL

\* The credits are sound in every behaviour: the five results above, which the
\* deposits run checks together.
THEOREM CreditsAreSound == Spec => []CreditsSound
  <1>1. TypeOK /\ CreditsPerTransfer /\ OneCreditPerOrder /\ CreditBackedByTransfer
          /\ PaidByTransfer => CreditsSound
    BY DEF CreditsSound
  <1> QED
    BY <1>1, TypeCorrect, TransferCreditsBounded, OrderCreditedOnce, CreditsBacked,
       PaidOrdersHaveMoney, PTL

\* A paid or cancelled order is never written again: CreditDepositIfPaidRef
\* commits only what it found pending under the row lock.
THEOREM FinalStatusKept == Spec => FinalStatusStable
  <1> DEFINE Stable == \A o \in Orders :
                 (Exists(o) /\ order[o].status # "PENDING") => order'[o] = order[o]
  <1>1. IInv /\ [DepositNext]_vars => [Stable]_vars
    <2> SUFFICES ASSUME IInv, DepositNext PROVE Stable
      OBVIOUS
    <2> USE DEF IInv, TypeOK
    <2>1. ASSUME NEW c \in Creators, NEW o \in Orders, CreateOrderInsert(c, o)
          PROVE  Stable
      BY <2>1 DEF CreateOrderInsert, Exists
    <2>2. ASSUME NEW o \in Orders, NEW u \in Users, CancelPendingOrder(o, u)
          PROVE  Stable
      BY <2>2 DEF CancelPendingOrder, Pending, IsPending
    <2>3. ASSUME NEW w \in Workers, CreditCommit(w)
          PROVE  Stable
      <3>1. worker[w].order \in Orders /\ order[worker[w].order].status = "PENDING"
        BY <2>3, WorkerFields DEF CreditCommit, LockedRowUnchanged, IsPending
      <3> QED BY <2>3, <3>1 DEF CreditCommit
    <2>4. ASSUME UNCHANGED order PROVE Stable
      BY <2>4
    <2> QED
      BY <2>1, <2>2, <2>3, <2>4
         DEF DepositNext, CreateOrderCount, BankTransfer, WebhookReceive, StatusPoll,
             CreditLock, CreditFail
  <1>2. Spec => [][Stable]_vars
    BY <1>1, IInvHolds, PTL DEF Spec
  <1> QED BY <1>2 DEF FinalStatusStable
-----------------------------------------------------------------------------
(* The limit of pending orders.                                            *)

\* The pending orders of a user, and the requests that have counted them and
\* not yet inserted, all of which found fewer than the limit.
Overrun ==
    \A u \in Users :
        /\ IsFiniteSet(Pending(u))
        /\ Cardinality(Pending(u)) + Cardinality(Counted(u))
             <= MaxPending + Cardinality(Creators) - 1

LEMMA CreatorsFinite ==
    /\ IsFiniteSet(Creators) /\ Cardinality(Creators) \in Nat
    /\ MaxPending \in Nat /\ MaxPending >= 1
    /\ \A S \in SUBSET Creators : /\ IsFiniteSet(S) /\ Cardinality(S) \in Nat
                                  /\ Cardinality(S) <= Cardinality(Creators)
  BY DepositConstants, FS_Subset, FS_CardinalityType

LEMMA InitOverrun == Init => Overrun
  <1> SUFFICES ASSUME Init, NEW u \in Users
               PROVE  /\ IsFiniteSet(Pending(u))
                      /\ Cardinality(Pending(u)) + Cardinality(Counted(u))
                           <= MaxPending + Cardinality(Creators) - 1
    BY DEF Overrun
  <1>1. Pending(u) = {} /\ Counted(u) = {}
    BY DEF Init, DepositInit, Pending, IsPending, Exists, Counted, Idle
  <1> QED
    BY <1>1, CreatorsFinite, FS_EmptySet

\* The INSERT makes one order pending, for the request that leaves the count.
LEMMA InsertOverrun ==
    ASSUME TypeOK, Overrun, NEW c \in Creators, NEW o \in Orders, CreateOrderInsert(c, o)
    PROVE  Overrun'
  <1> SUFFICES ASSUME NEW u \in Users
               PROVE  /\ IsFiniteSet(Pending(u)')
                      /\ Cardinality(Pending(u)') + Cardinality(Counted(u)')
                           <= MaxPending + Cardinality(Creators) - 1
    BY DEF Overrun
  <1>1. /\ IsFiniteSet(Pending(u)) /\ Cardinality(Pending(u)) \in Nat
        /\ Cardinality(Pending(u)) + Cardinality(Counted(u))
             <= MaxPending + Cardinality(Creators) - 1
    BY FS_CardinalityType DEF Overrun
  <1>2. Counted(u) \in SUBSET Creators
    BY DEF Counted
  <1>3. IsFiniteSet(Counted(u)) /\ Cardinality(Counted(u)) \in Nat
    BY <1>2, CreatorsFinite
  <1>4. creator[c].pc = "counted" /\ creator'[c] = Idle
        /\ \A d \in Creators \ {c} : creator'[d] = creator[d]
    BY DEF CreateOrderInsert, TypeOK
  <1>5. Counted(u)' = Counted(u) \ {c}
    BY <1>4 DEF Counted, Idle
  <1>6. /\ \A p \in Orders \ {o} : order'[p] = order[p]
        /\ order'[o] = order[o] \/ (order'[o].user = creator[c].user)
    BY DEF CreateOrderInsert, TypeOK
  <1>7. CASE u = creator[c].user
    <2>1. c \in Counted(u)
      BY <1>4, <1>7 DEF Counted
    <2>2. Cardinality(Counted(u)') = Cardinality(Counted(u)) - 1
      BY <2>1, <1>3, <1>5, FS_RemoveElement
    <2>3. Pending(u)' \in SUBSET (Pending(u) \cup {o})
      BY <1>6 DEF Pending, IsPending, Exists
    <2>4. /\ IsFiniteSet(Pending(u) \cup {o})
          /\ Cardinality(Pending(u) \cup {o}) <= Cardinality(Pending(u)) + 1
          /\ Cardinality(Pending(u) \cup {o}) \in Nat
      <3>1. IsFiniteSet(Pending(u)) /\ Cardinality(Pending(u)) \in Nat
        BY <1>1
      <3>2. /\ IsFiniteSet(Pending(u) \cup {o})
            /\ Cardinality(Pending(u) \cup {o}) \in {Cardinality(Pending(u)), Cardinality(Pending(u)) + 1}
        BY <3>1, FS_AddElement
      <3> QED
        BY <3>1, <3>2
    <2>5. /\ IsFiniteSet(Pending(u)') /\ Cardinality(Pending(u)') \in Nat
          /\ Cardinality(Pending(u)') <= Cardinality(Pending(u)) + 1
      BY <1>1, <2>3, <2>4, FS_Subset, FS_CardinalityType
    <2> QED
      BY <1>1, <1>3, <2>2, <2>5, CreatorsFinite
  <1>8. CASE u # creator[c].user
    <2>1. Pending(u)' \in SUBSET Pending(u)
      BY <1>6, <1>8 DEF Pending, IsPending, Exists
    <2>2. /\ IsFiniteSet(Pending(u)') /\ Cardinality(Pending(u)') \in Nat
          /\ Cardinality(Pending(u)') <= Cardinality(Pending(u))
      BY <1>1, <2>1, FS_Subset, FS_CardinalityType
    <2>3. Counted(u)' \in SUBSET Counted(u)
      BY <1>5
    <2>4. /\ Cardinality(Counted(u)') \in Nat
          /\ Cardinality(Counted(u)') <= Cardinality(Counted(u))
      BY <1>3, <2>3, FS_Subset, FS_CardinalityType
    <2> QED
      BY <1>1, <1>3, <2>2, <2>4, CreatorsFinite
  <1> QED
    BY <1>7, <1>8

\* A request counts fewer orders than the limit, and it is one of Creators.
LEMMA CountOverrun ==
    ASSUME TypeOK, Overrun, NEW c \in Creators, NEW x \in Users, NEW a \in Amounts,
           CreateOrderCount(c, x, a)
    PROVE  Overrun'
  <1> SUFFICES ASSUME NEW u \in Users
               PROVE  /\ IsFiniteSet(Pending(u)')
                      /\ Cardinality(Pending(u)') + Cardinality(Counted(u)')
                           <= MaxPending + Cardinality(Creators) - 1
    BY DEF Overrun
  <1>1. /\ IsFiniteSet(Pending(u)) /\ Cardinality(Pending(u)) \in Nat
        /\ Cardinality(Pending(u)) + Cardinality(Counted(u))
             <= MaxPending + Cardinality(Creators) - 1
    BY FS_CardinalityType DEF Overrun
  <1>2. Pending(u)' = Pending(u)
    BY DEF CreateOrderCount, Pending, IsPending, Exists
  <1>3. Counted(u)' \in SUBSET Creators
    BY DEF Counted
  <1>4. CASE u = x
    <2>1. Cardinality(Pending(u)) < MaxPending
      BY <1>4 DEF CreateOrderCount
    <2>2. /\ Cardinality(Counted(u)') \in Nat
          /\ Cardinality(Counted(u)') <= Cardinality(Creators)
      BY <1>3, CreatorsFinite
    <2> QED
      BY <1>1, <1>2, <2>1, <2>2, CreatorsFinite
  <1>5. CASE u # x
    <2>1. Counted(u)' = Counted(u)
      BY <1>5 DEF CreateOrderCount, Counted, TypeOK, Idle
    <2> QED
      BY <1>1, <1>2, <2>1
  <1> QED
    BY <1>4, <1>5

\* Every other step leaves the requests alone and makes no order pending.
LEMMA OtherOverrun ==
    ASSUME Overrun, UNCHANGED creator,
           \A o \in Orders : order'[o] = order[o]
                             \/ order'[o].status \in {"PAID", "CANCELLED"}
    PROVE  Overrun'
  <1> SUFFICES ASSUME NEW u \in Users
               PROVE  /\ IsFiniteSet(Pending(u)')
                      /\ Cardinality(Pending(u)') + Cardinality(Counted(u)')
                           <= MaxPending + Cardinality(Creators) - 1
    BY DEF Overrun
  <1>1. /\ IsFiniteSet(Pending(u)) /\ Cardinality(Pending(u)) \in Nat
        /\ Cardinality(Pending(u)) + Cardinality(Counted(u))
             <= MaxPending + Cardinality(Creators) - 1
    BY FS_CardinalityType DEF Overrun
  <1>2. Pending(u)' \in SUBSET Pending(u)
    BY DEF Pending, IsPending, Exists
  <1>3. /\ IsFiniteSet(Pending(u)') /\ Cardinality(Pending(u)') \in Nat
        /\ Cardinality(Pending(u)') <= Cardinality(Pending(u))
    BY <1>1, <1>2, FS_Subset, FS_CardinalityType
  <1>4. Counted(u) \in SUBSET Creators /\ Counted(u)' = Counted(u)
    BY DEF Counted
  <1>5. Cardinality(Counted(u)) \in Nat
    BY <1>4, CreatorsFinite
  <1> QED
    BY <1>1, <1>3, <1>4, <1>5, CreatorsFinite

LEMMA StepOverrun == IInv /\ Overrun /\ [DepositNext]_vars => Overrun'
  <1> SUFFICES ASSUME IInv, Overrun, [DepositNext]_vars PROVE Overrun'
    OBVIOUS
  <1> USE DEF IInv
  <1>1. ASSUME NEW o \in Orders, NEW u \in Users, CancelPendingOrder(o, u)
        PROVE  Overrun'
    <2>1. UNCHANGED creator /\ order' = [order EXCEPT ![o].status = "CANCELLED"]
          /\ order[o] \in OrderRow
      BY <1>1, OrderFields DEF CancelPendingOrder, Pending, IsPending
    <2>2. \A p \in Orders : order'[p] = order[p] \/ order'[p].status = "CANCELLED"
      BY <2>1 DEF TypeOK, OrderRow
    <2> QED
      BY <2>1, <2>2, OtherOverrun
  <1>2. ASSUME NEW w \in Workers, CreditCommit(w)
        PROVE  Overrun'
    <2> DEFINE o == worker[w].order
    <2>1. o \in Orders /\ order[o] \in OrderRow
      BY <1>2, WorkerFields, OrderFields DEF CreditCommit, LockedRowUnchanged, IsPending, TypeOK
    <2>2. UNCHANGED creator /\ order' = [order EXCEPT ![o].status = "PAID"]
      BY <1>2 DEF CreditCommit
    <2> HIDE DEF o
    <2>3. \A p \in Orders : order'[p] = order[p] \/ order'[p].status = "PAID"
      BY <2>1, <2>2 DEF TypeOK, OrderRow
    <2> QED
      BY <2>2, <2>3, OtherOverrun
  <1>3. ASSUME UNCHANGED <<order, creator>> PROVE Overrun'
    BY <1>3, OtherOverrun
  <1> QED
    BY <1>1, <1>2, <1>3, CountOverrun, InsertOverrun
       DEF DepositNext, BankTransfer, WebhookReceive, StatusPoll, CreditLock, CreditFail,
           vars, depositVars

\* The limit of pending orders, tested by CreateOrder before the INSERT, is
\* exceeded by at most the other requests under way, for every number of
\* users, orders and requests.
THEOREM PendingLimitHolds == Spec => []PendingOverrunBounded
  <1>1. Overrun => PendingOverrunBounded
    BY DEF Overrun, PendingOverrunBounded
  <1>2. Spec => []Overrun
    BY IInvHolds, InitOverrun, StepOverrun, PTL DEF Spec
  <1> QED
    BY <1>1, <1>2, PTL

-----------------------------------------------------------------------------
(* The composed service.                                                   *)

\* An order is created for a positive amount.
PositiveOrders ==
    /\ \A c \in Creators : creator[c].pc = "counted" => creator[c].amount > 0
    /\ \A o \in Orders : Exists(o) => order[o].amount > 0

\* A request past the lock holds the advisory lock of its user, its price is
\* positive, and its checks still hold when it commits: deposits and manual
\* credits only add money, and no other purchase of the user can run.
BuyersLocked ==
    \A b \in Buyers :
        /\ buyer[b] # NoPurchase => buyer[b].vnd > 0
        /\ buyer[b].pc \in {"locked", "checked"} => walletLock[buyer[b].user] = b
        /\ buyer[b].pc = "checked" => MayBuy(b)

\* The inductive invariant of the composition.
PInv ==
    /\ IInv
    /\ PurchaseTypeOK
    /\ PositiveOrders
    /\ BuyersLocked
    /\ NoOverdraft
    /\ ChargedExactlyOnce

-----------------------------------------------------------------------------
\* A purchase under way remembers its user, its study set and the price it read.
LEMMA BuyerFields ==
    ASSUME NEW x \in BuyerState, x # NoPurchase \/ x.pc \in {"priced", "locked", "checked"}
    PROVE  /\ x \in [pc : {"priced", "locked", "checked"}, user : Users, set : Sets, vnd : Amounts]
           /\ x.user \in Users /\ x.set \in Sets /\ x.vnd \in Amounts /\ x.vnd \in Nat
  BY WalletConstants DEF BuyerState, NoPurchase

\* The idle state is a state of a purchase request.
LEMMA NoPurchaseType == NoPurchase \in BuyerState /\ NoPurchase.pc = "idle"
  BY DEF NoPurchase, BuyerState

\* The empty tables and idle requests satisfy the inductive invariant.
THEOREM InitPInv == PaymentInit => PInv
  <1> SUFFICES ASSUME PaymentInit PROVE PInv
    OBVIOUS
  <1> USE DEF PaymentInit
  <1>1. IInv
    BY InitIInv DEF Init
  <1>2. PurchaseTypeOK
    BY NoPurchaseType, PurchaseConstants DEF PurchaseInit, PurchaseTypeOK
  <1>3. PositiveOrders
    BY DEF DepositInit, PositiveOrders, Exists, Idle
  <1>4. BuyersLocked
    BY NoPurchaseType DEF PurchaseInit, BuyersLocked
  <1>5. NoOverdraft
    <2> SUFFICES ASSUME NEW u \in Users PROVE debit[u] <= credit[u]
      BY DEF NoOverdraft
    <2>1. debit[u] = 0 /\ credit[u] = 0
      BY DEF WalletInit
    <2> QED BY <2>1
  <1>6. ChargedExactlyOnce
    <2> SUFFICES ASSUME NEW u \in Users, NEW s \in Sets PROVE purchases[<<u, s>>] = 0 /\ <<u, s>> \notin entitled
      BY DEF ChargedExactlyOnce
    <2>1. <<u, s>> \in Users \X Sets
      OBVIOUS
    <2> QED BY <2>1 DEF PurchaseInit
  <1> QED BY <1>1, <1>2, <1>3, <1>4, <1>5, <1>6 DEF PInv

\* What a deposit step does to the wallets: nothing, or one positive credit.
LEMMA DepositTouchesWallet ==
    ASSUME PInv, DepositNext
    PROVE  /\ debit' = debit
           /\ \/ credit' = credit
              \/ \E u \in Users, a \in Amounts : a > 0 /\ credit' = [credit EXCEPT ![u] = @ + a]
  <1>1. ASSUME NEW w \in Workers, CreditCommit(w)
        PROVE  /\ debit' = debit
               /\ \/ credit' = credit
                  \/ \E u \in Users, a \in Amounts :
                        a > 0 /\ credit' = [credit EXCEPT ![u] = @ + a]
    <2>1. worker[w].order \in Orders /\ Exists(worker[w].order)
      BY <1>1, WorkerFields DEF CreditCommit, PInv, IInv, TypeOK, LockedRowUnchanged, IsPending
    <2>2. /\ order[worker[w].order].user \in Users
          /\ order[worker[w].order].amount \in Amounts
          /\ order[worker[w].order].amount > 0
      BY <2>1, OrderFields DEF PInv, IInv, PositiveOrders
    <2> QED BY <1>1, <2>2 DEF CreditCommit, CreditWallet, walletVars
  <1> QED
    BY <1>1 DEF DepositNext, CreateOrderCount, CreateOrderInsert, CancelPendingOrder, BankTransfer,
                WebhookReceive, StatusPoll, CreditLock, CreditFail, walletVars

\* The effect of every purchase step on the ledger.
LEMMA PurchaseTouchesWallet ==
    ASSUME PInv, PurchaseNext
    PROVE  \/ UNCHANGED <<walletVars, entitled, purchases>>
           \/ /\ UNCHANGED <<debit, entitled, purchases>>
              /\ \E u \in Users, a \in Amounts : a > 0 /\ credit' = [credit EXCEPT ![u] = @ + a]
           \/ \E b \in Buyers : BuyCommit(b)
  BY DEF PurchaseNext, SetPrice, AdminCredit, CreditWallet, BuyGetPrice, BuyLock, BuyCheck, BuyFail,
         walletVars

\* A deposit step leaves the purchases alone and only adds money.
LEMMA DepositStepPInv ==
    ASSUME PInv, DepositNext, UNCHANGED purchaseVars
    PROVE  PInv'
  <1>1. IInv'
    BY StepIInv DEF PInv
  <1>2. PurchaseTypeOK'
    BY DEF PInv, PurchaseTypeOK, purchaseVars
  <1>3. PositiveOrders'
    <2> USE DEF PInv, IInv, TypeOK, PositiveOrders
    <2>1. ASSUME NEW c \in Creators, NEW u \in Users, NEW a \in Amounts, CreateOrderCount(c, u, a)
          PROVE  PositiveOrders'
      <3>1. a > 0
        BY <2>1, DepositConstants, WalletConstants DEF CreateOrderCount
      <3> QED BY <2>1, <3>1 DEF CreateOrderCount, Exists
    <2>2. ASSUME NEW c \in Creators, NEW o \in Orders, CreateOrderInsert(c, o)
          PROVE  PositiveOrders'
      BY <2>2 DEF CreateOrderInsert, Exists, Idle
    <2>3. ASSUME NEW o \in Orders, NEW st, Exists(o), order' = [order EXCEPT ![o].status = st],
                 UNCHANGED creator
          PROVE  PositiveOrders'
      <3>1. order[o] \in OrderRow
        BY <2>3, OrderFields
      <3>2. order'[o] = [order[o] EXCEPT !.status = st]
        BY <2>3
      <3>3. order'[o].amount = order[o].amount
        BY <3>1, <3>2 DEF OrderRow
      <3> QED BY <2>3, <3>3 DEF Exists
    <2>4. ASSUME NEW o \in Orders, NEW u \in Users, CancelPendingOrder(o, u)
          PROVE  PositiveOrders'
      BY <2>3, <2>4 DEF CancelPendingOrder, Pending, IsPending
    <2>5. ASSUME NEW w \in Workers, CreditCommit(w)
          PROVE  PositiveOrders'
      <3>1. worker[w].order \in Orders /\ Exists(worker[w].order)
        BY <2>5, WorkerFields DEF CreditCommit, LockedRowUnchanged, IsPending
      <3> QED BY <2>3, <2>5, <3>1 DEF CreditCommit
    <2>6. CASE UNCHANGED <<order, creator>>
      BY <2>6 DEF Exists
    <2> QED
      BY <2>1, <2>2, <2>4, <2>5, <2>6
         DEF DepositNext, BankTransfer, WebhookReceive, StatusPoll, CreditLock, CreditFail
  <1>4. /\ \A u \in Users : credit'[u] >= credit[u] /\ debit'[u] = debit[u]
        /\ credit \in [Users -> Nat] /\ debit \in [Users -> Nat] /\ credit' \in [Users -> Nat]
    BY DepositTouchesWallet, WalletConstants, <1>1 DEF PInv, IInv, TypeOK
  <1>5. BuyersLocked'
    <2> SUFFICES ASSUME NEW b \in Buyers PROVE buyer[b].pc = "checked" => MayBuy(b)'
      BY DEF PInv, BuyersLocked, purchaseVars
    <2> HAVE buyer[b].pc = "checked"
    <2>1. buyer[b].user \in Users /\ buyer[b].vnd \in Nat /\ MayBuy(b)
      BY BuyerFields DEF PInv, PurchaseTypeOK, BuyersLocked
    <2> QED BY <2>1, <1>4 DEF MayBuy, Balance, purchaseVars
  <1>6. NoOverdraft'
    BY <1>4 DEF PInv, NoOverdraft
  <1>7. ChargedExactlyOnce'
    BY DEF PInv, ChargedExactlyOnce, purchaseVars
  <1> QED BY <1>1, <1>2, <1>3, <1>5, <1>6, <1>7 DEF PInv

\* A purchase step leaves the deposits alone.
LEMMA PurchaseStepIInv ==
    ASSUME PInv, UNCHANGED depositVars, credit' \in [Users -> Nat], debit' \in [Users -> Nat]
    PROVE  IInv' /\ PositiveOrders'
  BY DEF PInv, IInv, TypeOK, WorkersFound, Found, RefsOf, LookupRef, LockedRowUnchanged, DepositsFound,
         OneCreditPerOrder, OneCreditPerRef, PaidByTransfer, Matches, PositiveOrders, IsPending,
         Exists, depositVars

\* A purchase request that does not write the ledger.
LEMMA QuietStepPInv ==
    ASSUME PInv, UNCHANGED <<depositVars, walletVars, entitled, purchases>>,
           PurchaseTypeOK', BuyersLocked'
    PROVE  PInv'
  <1>1. IInv' /\ PositiveOrders'
    BY PurchaseStepIInv DEF PInv, IInv, TypeOK, walletVars
  <1>2. NoOverdraft' /\ ChargedExactlyOnce'
    BY DEF PInv, NoOverdraft, ChargedExactlyOnce, walletVars
  <1> QED BY <1>1, <1>2 DEF PInv

\* A step of prices, manual credits or purchases keeps the invariant.
LEMMA PurchaseStepPInv ==
    ASSUME PInv, PurchaseNext, UNCHANGED depositVars
    PROVE  PInv'
  <1> USE DEF PurchaseTypeOK, walletVars
  <1>0. /\ PurchaseTypeOK /\ BuyersLocked
        /\ credit \in [Users -> Nat] /\ debit \in [Users -> Nat]
    BY DEF PInv, IInv, TypeOK
  <1>1. ASSUME NEW s \in Sets, NEW p \in PriceRow, SetPrice(s, p)
        PROVE  PInv'
    <2>1. PurchaseTypeOK'
      BY <1>0, <1>1 DEF SetPrice
    <2>2. BuyersLocked'
      BY <1>0, <1>1 DEF SetPrice, BuyersLocked, MayBuy, Balance
    <2> QED BY <1>1, <2>1, <2>2, QuietStepPInv DEF SetPrice
  <1>2. ASSUME NEW u \in Users, NEW a \in Amounts, AdminCredit(u, a)
        PROVE  PInv'
    <2>1. PurchaseTypeOK'
      BY <1>0, <1>2, WalletConstants, PurchaseConstants DEF AdminCredit
    <2>2. /\ credit' \in [Users -> Nat] /\ UNCHANGED debit
          /\ \A v \in Users : credit'[v] >= credit[v]
      BY <1>0, <1>2, WalletConstants DEF AdminCredit, CreditWallet
    <2>3. IInv' /\ PositiveOrders'
      BY <1>0, <2>2, PurchaseStepIInv
    <2>4. BuyersLocked'
      <3> SUFFICES ASSUME NEW b \in Buyers, buyer[b].pc = "checked" PROVE MayBuy(b)'
        BY <1>0, <1>2 DEF BuyersLocked, AdminCredit
      <3>1. buyer[b].user \in Users /\ buyer[b].vnd \in Nat /\ MayBuy(b)
        BY <1>0, BuyerFields DEF BuyersLocked
      <3>2. UNCHANGED <<buyer, entitled>>
        BY <1>2 DEF AdminCredit
      <3>3. Balance(buyer[b].user)' >= Balance(buyer[b].user)
        BY <1>0, <2>2, <3>1, <3>2 DEF Balance
      <3>4. Balance(buyer[b].user) \in Int /\ Balance(buyer[b].user)' \in Int
        BY <1>0, <2>2, <3>1, <3>2 DEF Balance
      <3> QED BY <3>1, <3>2, <3>3, <3>4 DEF MayBuy
    <2>5. NoOverdraft'
      BY <1>0, <2>2 DEF PInv, NoOverdraft
    <2>6. ChargedExactlyOnce'
      BY <1>2 DEF AdminCredit, PInv, ChargedExactlyOnce
    <2> QED BY <2>1, <2>3, <2>4, <2>5, <2>6 DEF PInv
  <1>3. ASSUME NEW b \in Buyers, NEW u \in Users, NEW s \in Sets, BuyGetPrice(b, u, s)
        PROVE  PInv'
    <2>1. price[s].vnd \in Amounts /\ price[s].vnd > 0
      BY <1>0, <1>3 DEF BuyGetPrice, ChargesMoney, PriceRow, Free
    <2>2. [pc |-> "priced", user |-> u, set |-> s, vnd |-> price[s].vnd] \in BuyerState
      BY <2>1 DEF BuyerState
    <2>3. PurchaseTypeOK'
      BY <1>0, <1>3, <2>2 DEF BuyGetPrice
    <2>4. BuyersLocked'
      BY <1>0, <1>3, <2>1 DEF BuyGetPrice, BuyersLocked, MayBuy, Balance
    <2> QED BY <1>3, <2>3, <2>4, QuietStepPInv DEF BuyGetPrice
  <1>4. ASSUME NEW b \in Buyers, BuyLock(b)
        PROVE  PInv'
    <2>1. /\ buyer[b].user \in Users /\ buyer[b] # NoPurchase
          /\ buyer[b] \in [pc : {"priced", "locked", "checked"}, user : Users, set : Sets, vnd : Amounts]
      BY <1>0, <1>4, BuyerFields, NoPurchaseType DEF BuyLock
    <2>2. /\ buyer'[b] = [buyer[b] EXCEPT !.pc = "locked"]
          /\ \A c \in Buyers \ {b} : buyer'[c] = buyer[c]
      BY <1>0, <1>4 DEF BuyLock
    <2>3. buyer'[b] \in BuyerState /\ buyer'[b].user = buyer[b].user /\ buyer'[b].vnd = buyer[b].vnd
          /\ buyer'[b].pc = "locked"
      BY <2>1, <2>2 DEF BuyerState
    <2>4. PurchaseTypeOK'
      BY <1>0, <1>4, <2>1, <2>3 DEF BuyLock
    <2>5. \A c \in Buyers \ {b} : buyer[c].pc \in {"locked", "checked"} =>
             walletLock'[buyer[c].user] = c
      BY <1>0, <1>4, <2>1, BuyerFields, PurchaseConstants DEF BuyLock, BuyersLocked
    <2>6. BuyersLocked'
      BY <1>0, <1>4, <2>1, <2>2, <2>3, <2>5 DEF BuyLock, BuyersLocked, MayBuy, Balance
    <2> QED BY <1>4, <2>4, <2>6, QuietStepPInv DEF BuyLock
  <1>5. ASSUME NEW b \in Buyers, EndPurchase(b)
        PROVE  /\ buyer' \in [Buyers -> BuyerState]
               /\ walletLock' \in [Users -> Buyers \cup {NoBuyer}]
               /\ buyer'[b] = NoPurchase /\ buyer'[b].pc = "idle"
               /\ \A c \in Buyers \ {b} :
                     /\ buyer'[c] = buyer[c]
                     /\ buyer[c].pc \in {"locked", "checked"} => walletLock'[buyer[c].user] = c
    <2>1. buyer' \in [Buyers -> BuyerState] /\ buyer'[b] = NoPurchase /\ buyer'[b].pc = "idle"
      BY <1>0, <1>5, NoPurchaseType DEF EndPurchase
    <2>2. walletLock' \in [Users -> Buyers \cup {NoBuyer}]
      BY <1>0, <1>5 DEF EndPurchase
    <2>3. ASSUME NEW c \in Buyers \ {b}
          PROVE  /\ buyer'[c] = buyer[c]
                 /\ buyer[c].pc \in {"locked", "checked"} => walletLock'[buyer[c].user] = c
      BY <1>0, <1>5, <2>3, BuyerFields DEF EndPurchase, BuyersLocked
    <2> QED BY <2>1, <2>2, <2>3
  <1>6. ASSUME NEW b \in Buyers, EndPurchase(b),
               UNCHANGED <<price, entitled, purchases, adjusted, walletVars>>
        PROVE  PInv'
    <2>1. PurchaseTypeOK'
      BY <1>0, <1>5, <1>6
    <2>2. BuyersLocked'
      BY <1>0, <1>5, <1>6, NoPurchaseType DEF BuyersLocked, MayBuy, Balance
    <2> QED BY <1>6, <2>1, <2>2, QuietStepPInv
  <1>7. ASSUME NEW b \in Buyers, BuyCheck(b)
        PROVE  PInv'
    <2>1. CASE MayBuy(b)
      <3>1. /\ buyer[b] # NoPurchase
            /\ buyer[b] \in [pc : {"priced", "locked", "checked"}, user : Users, set : Sets, vnd : Amounts]
        BY <1>0, <1>7, BuyerFields, NoPurchaseType DEF BuyCheck
      <3>2. /\ buyer'[b] = [buyer[b] EXCEPT !.pc = "checked"]
            /\ \A c \in Buyers \ {b} : buyer'[c] = buyer[c]
        BY <1>0, <1>7, <2>1 DEF BuyCheck
      <3>3. /\ buyer'[b] \in BuyerState /\ buyer'[b].pc = "checked"
            /\ buyer'[b].user = buyer[b].user /\ buyer'[b].set = buyer[b].set
            /\ buyer'[b].vnd = buyer[b].vnd
        BY <3>1, <3>2 DEF BuyerState
      <3>4. PurchaseTypeOK'
        BY <1>0, <1>7, <2>1, <3>3 DEF BuyCheck
      <3>5. BuyersLocked'
        BY <1>0, <1>7, <2>1, <3>1, <3>2, <3>3 DEF BuyCheck, BuyersLocked, MayBuy, Balance
      <3> QED BY <1>7, <2>1, <3>4, <3>5, QuietStepPInv DEF BuyCheck
    <2>2. CASE ~MayBuy(b)
      BY <1>6, <1>7, <2>2 DEF BuyCheck
    <2> QED BY <2>1, <2>2
  <1>8. ASSUME NEW b \in Buyers, BuyFail(b)
        PROVE  PInv'
    BY <1>6, <1>8 DEF BuyFail
  <1>9. ASSUME NEW b \in Buyers, BuyCommit(b)
        PROVE  PInv'
    <2> DEFINE u == buyer[b].user
               s == buyer[b].set
               n == buyer[b].vnd
    <2>1. u \in Users /\ s \in Sets /\ n \in Nat /\ MayBuy(b) /\ walletLock[u] = b
      BY <1>0, <1>9, BuyerFields DEF BuyCommit, BuyersLocked
    <2>2. /\ debit' = [debit EXCEPT ![u] = @ + n] /\ UNCHANGED <<credit, price, adjusted>>
          /\ purchases' = [purchases EXCEPT ![<<u, s>>] = @ + 1]
          /\ entitled' = entitled \cup {<<u, s>>}
          /\ EndPurchase(b)
      BY <1>9 DEF BuyCommit, DebitWallet
    <2>3. debit' \in [Users -> Nat] /\ credit' \in [Users -> Nat]
      BY <1>0, <2>1, <2>2
    <2>4. PurchaseTypeOK'
      BY <1>0, <1>5, <2>1, <2>2
    <2>5. IInv' /\ PositiveOrders'
      BY <2>3, PurchaseStepIInv
    <2>6. NoOverdraft'
      BY <1>0, <2>1, <2>2 DEF PInv, NoOverdraft, MayBuy, Balance
    <2>7. ChargedExactlyOnce'
      <3> SUFFICES ASSUME NEW v \in Users, NEW x \in Sets
                   PROVE  purchases'[<<v, x>>] = IF <<v, x>> \in entitled' THEN 1 ELSE 0
        BY DEF ChargedExactlyOnce
      <3>1. /\ <<v, x>> \in Users \X Sets /\ <<u, s>> \in Users \X Sets
            /\ purchases[<<v, x>>] = IF <<v, x>> \in entitled THEN 1 ELSE 0
            /\ <<u, s>> \notin entitled
        BY <2>1 DEF PInv, ChargedExactlyOnce, MayBuy
      <3>2. CASE <<v, x>> = <<u, s>>
        BY <1>0, <2>2, <3>1, <3>2
      <3>3. CASE <<v, x>> # <<u, s>>
        BY <1>0, <2>2, <3>1, <3>3
      <3> QED BY <3>2, <3>3
    <2>8. BuyersLocked'
      <3>1. ASSUME NEW c \in Buyers \ {b}, buyer[c].pc = "checked"
            PROVE  MayBuy(c)'
        <4>1. buyer[c].user \in Users /\ buyer[c].user # u /\ MayBuy(c) /\ buyer'[c] = buyer[c]
          BY <1>0, <1>5, <2>1, <2>2, <3>1, BuyerFields DEF BuyersLocked
        <4> QED BY <1>0, <2>1, <2>2, <4>1 DEF MayBuy, Balance
      <3> QED BY <1>0, <1>5, <2>2, <3>1, NoPurchaseType DEF BuyersLocked
    <2> QED BY <2>4, <2>5, <2>6, <2>7, <2>8 DEF PInv
  <1> QED
    BY <1>1, <1>2, <1>3, <1>4, <1>7, <1>8, <1>9 DEF PurchaseNext

\* Every step of the payment service keeps the invariant.
THEOREM StepPInv == PInv /\ [PaymentNext]_paymentVars => PInv'
  <1> SUFFICES ASSUME PInv, [PaymentNext]_paymentVars PROVE PInv'
    OBVIOUS
  <1>1. CASE DepositNext /\ UNCHANGED purchaseVars
    BY <1>1, DepositStepPInv
  <1>2. CASE PurchaseNext /\ UNCHANGED depositVars
    BY <1>2, PurchaseStepPInv
  <1>3. CASE UNCHANGED paymentVars
    <2>1. PurchaseTypeOK' /\ BuyersLocked'
      BY <1>3 DEF PInv, PurchaseTypeOK, BuyersLocked, MayBuy, Balance, paymentVars, purchaseVars, walletVars
    <2> QED BY <1>3, <2>1, QuietStepPInv DEF paymentVars, purchaseVars
  <1> QED BY <1>1, <1>2, <1>3 DEF PaymentNext

\* The inductive invariant holds in every reachable state of the service.
THEOREM PInvHolds == PaymentSpec => []PInv
  BY InitPInv, StepPInv, PTL DEF PaymentSpec

-----------------------------------------------------------------------------
(* The results.                                                            *)

\* Every variable of the composed service keeps its type.
THEOREM PaymentTypeCorrect == PaymentSpec => []PaymentTypeOK
  <1>1. PInv => PaymentTypeOK
    BY DEF PInv, IInv, PaymentTypeOK
  <1> QED BY <1>1, PInvHolds, PTL

\* No wallet is ever overdrawn, for any number of concurrent purchases,
\* deposits and failures: the advisory lock keeps a checked balance checked.
THEOREM WalletNeverOverdrawn == PaymentSpec => []NoOverdraft
  <1>1. PInv => NoOverdraft
    BY DEF PInv
  <1> QED BY <1>1, PInvHolds, PTL

\* Every entitlement was paid for exactly once and every payment granted one.
THEOREM EntitlementPaidOnce == PaymentSpec => []ChargedExactlyOnce
  <1>1. PInv => ChargedExactlyOnce
    BY DEF PInv
  <1> QED BY <1>1, PInvHolds, PTL

\* A buyer keeps access whatever happens to the price and to the owner lookup.
THEOREM BuyerAlwaysHasAccess == PaymentSpec => []BuyerKeepsAccess
  <1>1. PInv => BuyerKeepsAccess
    BY DEF PInv, ChargedExactlyOnce, BuyerKeepsAccess, HasAccess
  <1> QED BY <1>1, PInvHolds, PTL

\* The composition does not break the deposits: transfers, credits and PAID
\* orders keep these bounds while purchases spend from the same wallets and an
\* administrator corrects them.
THEOREM CreditsSoundInPayment == PaymentSpec => []CreditsSound
  <1>1. PInv => IInv
    BY DEF PInv
  <1>2. IInv => CreditBackedByTransfer
    BY DEF IInv, DepositsFound, Found, CreditBackedByTransfer, Matches
  <1>3. IInv => CreditsSound
    BY <1>2, IInvBoundsCredits DEF IInv, CreditsSound
  <1> QED BY <1>1, <1>3, PInvHolds, PTL

\* Nor does it break the limit of pending orders: purchases create none.
THEOREM PendingLimitHoldsInPayment == PaymentSpec => []PendingOverrunBounded
  <1>1. PaymentInit => Overrun
    BY InitOverrun DEF PaymentInit, Init
  <1>2. PInv /\ Overrun /\ [PaymentNext]_paymentVars => Overrun'
    <2> SUFFICES ASSUME PInv, Overrun, [PaymentNext]_paymentVars PROVE Overrun'
      OBVIOUS
    <2>1. CASE DepositNext
      BY <2>1, StepOverrun DEF PInv
    <2>2. CASE UNCHANGED depositVars
      BY <2>2, OtherOverrun DEF depositVars
    <2> QED BY <2>1, <2>2 DEF PaymentNext, paymentVars
  <1>3. Overrun => PendingOverrunBounded
    BY DEF Overrun, PendingOverrunBounded
  <1> QED BY <1>1, <1>2, <1>3, PInvHolds, PTL DEF PaymentSpec

-----------------------------------------------------------------------------
(* Locks.                                                                  *)

\* A lock that is held is held by a transaction past it: the row lock of an
\* order by one that credits this order, the advisory lock of a user by a
\* purchase of theirs.
RowLocksHeld ==
    \A o \in Orders :
        rowLock[o] # NoWorker => /\ worker[rowLock[o]].pc = "locked"
                                 /\ worker[rowLock[o]].order = o
WalletLocksHeld ==
    \A u \in Users :
        walletLock[u] # NoBuyer => /\ buyer[walletLock[u]].pc \in {"locked", "checked"}
                                   /\ buyer[walletLock[u]].user = u

LocksHeld == RowLocksHeld /\ WalletLocksHeld

\* A crediting transaction ends with its row lock.
LEMMA RowLocksStep ==
    ASSUME IInv, RowLocksHeld, DepositNext
    PROVE  RowLocksHeld'
  <1>0. /\ rowLock \in [Orders -> Workers \cup {NoWorker}] /\ worker \in [Workers -> WorkerState]
        /\ NoWorker \notin Workers
    BY DepositConstants DEF IInv, TypeOK
  <1>1. ASSUME UNCHANGED <<rowLock, worker>> PROVE RowLocksHeld'
    BY <1>1 DEF RowLocksHeld
  <1>2. ASSUME NEW w \in Workers, NEW x, worker[w] = Idle,
               worker' = [worker EXCEPT ![w] = x], UNCHANGED rowLock
        PROVE  RowLocksHeld'
    <2>1. \A o \in Orders : rowLock[o] # w
      BY <1>0, <1>2 DEF RowLocksHeld, Idle
    <2> QED
      BY <1>0, <1>2, <2>1 DEF RowLocksHeld
  <1>3. ASSUME NEW w \in Workers, CreditLock(w) PROVE RowLocksHeld'
    <2>1. /\ worker[w].order \in Orders
          /\ worker[w] \in [pc : {"found", "locked"}, order : Orders, amount : Amounts,
                            ref : Refs, transfer : Transfers]
      BY <1>0, <1>3, WorkerFields DEF CreditLock
    <2>2. \A o \in Orders : rowLock[o] # w
      BY <1>0, <1>3 DEF RowLocksHeld, CreditLock
    <2>3. CASE MayCredit(w)
      <3>1. /\ worker'[w] = [worker[w] EXCEPT !.pc = "locked"]
            /\ \A v \in Workers \ {w} : worker'[v] = worker[v]
            /\ rowLock' = [rowLock EXCEPT ![worker[w].order] = w]
        BY <1>0, <1>3, <2>3 DEF CreditLock
      <3>2. worker'[w].pc = "locked" /\ worker'[w].order = worker[w].order
        BY <2>1, <3>1
      <3> QED
        BY <1>0, <2>1, <2>2, <3>1, <3>2 DEF RowLocksHeld
    <2>4. CASE ~MayCredit(w)
      <3>1. rowLock' = rowLock /\ \A v \in Workers \ {w} : worker'[v] = worker[v]
        BY <1>0, <1>3, <2>4 DEF CreditLock
      <3> QED
        BY <1>0, <2>2, <3>1 DEF RowLocksHeld
    <2> QED
      BY <2>3, <2>4
  <1>4. ASSUME NEW w \in Workers, CreditCommit(w) \/ CreditFail(w) PROVE RowLocksHeld'
    <2>1. \A v \in Workers \ {w} : worker'[v] = worker[v]
      BY <1>0, <1>4 DEF CreditCommit, CreditFail
    <2>2. \A o \in Orders : rowLock'[o] = IF rowLock[o] = w THEN NoWorker ELSE rowLock[o]
      <3>1. CASE CreditCommit(w)
        <4>1. rowLock' = [rowLock EXCEPT ![worker[w].order] = NoWorker] /\ worker[w].pc = "locked"
          BY <3>1 DEF CreditCommit
        <4>2. \A o \in Orders : rowLock[o] = w => o = worker[w].order
          BY <1>0 DEF RowLocksHeld
        <4>3. rowLock[worker[w].order] = w
          BY <4>1 DEF IInv, LockedRowUnchanged
        <4> QED
          BY <1>0, <4>1, <4>2, <4>3
      <3>2. CASE CreditFail(w)
        BY <3>2 DEF CreditFail
      <3> QED
        BY <1>4, <3>1, <3>2
    <2> QED
      BY <1>0, <2>1, <2>2 DEF RowLocksHeld
  <1>5. ASSUME \/ \E c \in Creators, u \in Users, a \in Amounts : CreateOrderCount(c, u, a)
               \/ \E c \in Creators, o \in Orders : CreateOrderInsert(c, o)
               \/ \E o \in Orders, u \in Users : CancelPendingOrder(o, u)
               \/ \E t \in Transfers, row \in TransferRow : BankTransfer(t, row)
        PROVE  RowLocksHeld'
    BY <1>1, <1>5 DEF CreateOrderCount, CreateOrderInsert, CancelPendingOrder, BankTransfer
  <1>6. ASSUME NEW w \in Workers, NEW t \in Transfers,
               WebhookReceive(w, t) \/ \E o \in Orders : StatusPoll(w, o, t)
        PROVE  RowLocksHeld'
    BY <1>2, <1>6 DEF WebhookReceive, StatusPoll, Find
  <1> QED
    BY <1>3, <1>4, <1>5, <1>6 DEF DepositNext

\* A purchase ends with its advisory lock, also where it is refused or fails.
LEMMA WalletLocksStep ==
    ASSUME PInv, WalletLocksHeld, PurchaseNext
    PROVE  WalletLocksHeld'
  <1>0. /\ walletLock \in [Users -> Buyers \cup {NoBuyer}] /\ buyer \in [Buyers -> BuyerState]
        /\ NoBuyer \notin Buyers
    BY PurchaseConstants DEF PInv, PurchaseTypeOK
  <1>1. ASSUME UNCHANGED <<walletLock, buyer>> PROVE WalletLocksHeld'
    BY <1>1 DEF WalletLocksHeld
  <1>2. ASSUME NEW b \in Buyers, NEW u \in Users, NEW s \in Sets, BuyGetPrice(b, u, s)
        PROVE  WalletLocksHeld'
    <2>1. \A v \in Users : walletLock[v] # b
      BY <1>0, <1>2 DEF WalletLocksHeld, BuyGetPrice, NoPurchase
    <2>2. walletLock' = walletLock /\ \A c \in Buyers \ {b} : buyer'[c] = buyer[c]
      BY <1>0, <1>2 DEF BuyGetPrice
    <2> QED
      BY <1>0, <2>1, <2>2 DEF WalletLocksHeld
  <1>3. ASSUME NEW b \in Buyers, BuyLock(b) PROVE WalletLocksHeld'
    <2>1. buyer[b] \in [pc : {"priced", "locked", "checked"}, user : Users, set : Sets, vnd : Amounts]
      BY <1>0, <1>3, BuyerFields DEF BuyLock
    <2>2. \A v \in Users : walletLock[v] # b
      BY <1>0, <1>3 DEF WalletLocksHeld, BuyLock
    <2>3. /\ buyer'[b] = [buyer[b] EXCEPT !.pc = "locked"]
          /\ \A c \in Buyers \ {b} : buyer'[c] = buyer[c]
          /\ walletLock' = [walletLock EXCEPT ![buyer[b].user] = b]
      BY <1>0, <1>3 DEF BuyLock
    <2>4. buyer'[b].pc = "locked" /\ buyer'[b].user = buyer[b].user
      BY <2>1, <2>3
    <2> QED
      BY <1>0, <2>1, <2>2, <2>3, <2>4 DEF WalletLocksHeld
  <1>4. ASSUME NEW b \in Buyers, EndPurchase(b) PROVE WalletLocksHeld'
    <2>1. /\ \A c \in Buyers \ {b} : buyer'[c] = buyer[c]
          /\ \A v \in Users : walletLock'[v] = IF walletLock[v] = b THEN NoBuyer ELSE walletLock[v]
      BY <1>0, <1>4 DEF EndPurchase
    <2> QED
      BY <1>0, <2>1 DEF WalletLocksHeld
  <1>5. ASSUME NEW b \in Buyers, BuyCheck(b) PROVE WalletLocksHeld'
    <2>1. CASE MayBuy(b)
      <3>1. buyer[b] \in [pc : {"priced", "locked", "checked"}, user : Users, set : Sets, vnd : Amounts]
        BY <1>0, <1>5, BuyerFields DEF BuyCheck
      <3>2. /\ buyer'[b] = [buyer[b] EXCEPT !.pc = "checked"]
            /\ \A c \in Buyers \ {b} : buyer'[c] = buyer[c]
            /\ walletLock' = walletLock
        BY <1>0, <1>5, <2>1 DEF BuyCheck
      <3>3. buyer'[b].pc = "checked" /\ buyer'[b].user = buyer[b].user
        BY <3>1, <3>2
      <3>4. ASSUME NEW u \in Users, walletLock'[u] # NoBuyer
            PROVE  /\ buyer'[walletLock'[u]].pc \in {"locked", "checked"}
                   /\ buyer'[walletLock'[u]].user = u
        <4>1. /\ walletLock[u] \in Buyers /\ walletLock'[u] = walletLock[u]
              /\ buyer[walletLock[u]].pc \in {"locked", "checked"} /\ buyer[walletLock[u]].user = u
          BY <1>0, <3>2, <3>4 DEF WalletLocksHeld
        <4>2. CASE walletLock[u] = b
          BY <3>3, <4>1, <4>2
        <4>3. CASE walletLock[u] # b
          BY <3>2, <4>1, <4>3
        <4> QED
          BY <4>2, <4>3
      <3> QED
        BY <3>4 DEF WalletLocksHeld
    <2>2. CASE ~MayBuy(b)
      BY <1>4, <1>5, <2>2 DEF BuyCheck
    <2> QED
      BY <2>1, <2>2
  <1>6. ASSUME NEW b \in Buyers, BuyCommit(b) \/ BuyFail(b) PROVE WalletLocksHeld'
    BY <1>4, <1>6 DEF BuyCommit, BuyFail
  <1>7. ASSUME \/ \E s \in Sets, p \in PriceRow : SetPrice(s, p)
               \/ \E u \in Users, a \in Amounts : AdminCredit(u, a)
        PROVE  WalletLocksHeld'
    BY <1>1, <1>7 DEF SetPrice, AdminCredit
  <1> QED
    BY <1>2, <1>3, <1>5, <1>6, <1>7 DEF PurchaseNext

\* The safety half of PurchaseEnds and TransferEventuallyApplied: no lock is
\* leaked.  Whoever waits for the advisory lock of a user, or for the row of an
\* order, waits for a transaction that already has all the locks it will take,
\* so nobody waits for a finished request and no two wait for each other.
THEOREM NoLockLeaked == PaymentSpec => []LocksHeld
  <1>1. PaymentInit => LocksHeld
    BY DEF PaymentInit, DepositInit, PurchaseInit, LocksHeld, RowLocksHeld, WalletLocksHeld
  <1>2. PInv /\ LocksHeld /\ [PaymentNext]_paymentVars => LocksHeld'
    <2> SUFFICES ASSUME PInv, LocksHeld, [PaymentNext]_paymentVars PROVE LocksHeld'
      OBVIOUS
    <2>1. CASE DepositNext /\ UNCHANGED purchaseVars
      <3>1. RowLocksHeld'
        BY <2>1, RowLocksStep DEF PInv, LocksHeld
      <3>2. WalletLocksHeld'
        BY <2>1 DEF LocksHeld, WalletLocksHeld, purchaseVars
      <3> QED
        BY <3>1, <3>2 DEF LocksHeld
    <2>2. CASE PurchaseNext /\ UNCHANGED depositVars
      <3>1. WalletLocksHeld'
        BY <2>2, WalletLocksStep DEF LocksHeld
      <3>2. RowLocksHeld'
        BY <2>2 DEF LocksHeld, RowLocksHeld, depositVars
      <3> QED
        BY <3>1, <3>2 DEF LocksHeld
    <2>3. CASE UNCHANGED paymentVars
      BY <2>3 DEF LocksHeld, RowLocksHeld, WalletLocksHeld, paymentVars, depositVars, purchaseVars
    <2> QED
      BY <2>1, <2>2, <2>3 DEF PaymentNext
  <1> QED
    BY <1>1, <1>2, PInvHolds, PTL DEF PaymentSpec

\* Every step of the service is a step of the abstract ledger or leaves it
\* unchanged.
LEMMA StepRefines ==
    ASSUME PInv, [PaymentNext]_paymentVars
    PROVE  [Ledger!LedgerNext]_(Ledger!ledgerVars)
  <1> DEFINE bal == [u \in Users |-> Balance(u)]
  <1>0. /\ credit \in [Users -> Nat] /\ debit \in [Users -> Nat]
        /\ \A u \in Users : debit[u] <= credit[u]
    BY DEF PInv, IInv, TypeOK, NoOverdraft
  <1>1. ASSUME NEW u \in Users, NEW a \in Amounts, a > 0,
               credit' = [credit EXCEPT ![u] = @ + a], UNCHANGED <<debit, entitled>>
        PROVE  Ledger!TopUp(u, a)
    <2>1. bal' = [bal EXCEPT ![u] = @ + a]
      <3>1. a \in Nat
        BY WalletConstants
      <3>2. \A v \in Users : Balance(v)' = IF v = u THEN Balance(v) + a ELSE Balance(v)
        BY <1>0, <1>1, <3>1 DEF Balance
      <3> QED BY <3>2
    <2> QED BY <1>1, <2>1 DEF Ledger!TopUp
  <1>2. ASSUME NEW b \in Buyers, BuyCommit(b)
        PROVE  Ledger!Buy(buyer[b].user, buyer[b].set, buyer[b].vnd)
    <2>1. /\ buyer[b].user \in Users /\ buyer[b].vnd \in Nat /\ buyer[b].vnd > 0
          /\ MayBuy(b)
      BY <1>2, BuyerFields, NoPurchaseType DEF BuyCommit, PInv, PurchaseTypeOK, BuyersLocked
    <2>2. /\ debit' = [debit EXCEPT ![buyer[b].user] = @ + buyer[b].vnd] /\ UNCHANGED credit
          /\ entitled' = entitled \cup {<<buyer[b].user, buyer[b].set>>}
      BY <1>2 DEF BuyCommit, DebitWallet
    <2>3. bal' = [bal EXCEPT ![buyer[b].user] = @ - buyer[b].vnd]
      BY <1>0, <2>1, <2>2 DEF Balance
    <2>4. buyer[b].vnd \in 1..bal[buyer[b].user]
      BY <1>0, <2>1 DEF MayBuy, Balance
    <2> QED BY <2>1, <2>2, <2>3, <2>4 DEF Ledger!Buy, MayBuy
  <1>3. CASE UNCHANGED <<walletVars, entitled>>
    BY <1>3 DEF Ledger!ledgerVars, walletVars, Balance
  <1>4. CASE DepositNext /\ UNCHANGED purchaseVars
    BY <1>1, <1>3, <1>4, DepositTouchesWallet DEF Ledger!LedgerNext, purchaseVars, walletVars
  <1>5. CASE PurchaseNext
    <2>1. ASSUME NEW b \in Buyers, BuyCommit(b)
          PROVE  Ledger!LedgerNext
      <3>1. buyer[b].user \in Users /\ buyer[b].set \in Sets /\ buyer[b].vnd \in Amounts
        BY <2>1, BuyerFields DEF BuyCommit, PInv, PurchaseTypeOK
      <3> QED BY <1>2, <2>1, <3>1 DEF Ledger!LedgerNext
    <2> QED BY <1>1, <1>3, <1>5, <2>1, PurchaseTouchesWallet DEF Ledger!LedgerNext, walletVars
  <1> QED BY <1>3, <1>4, <1>5 DEF PaymentNext, paymentVars, purchaseVars, walletVars

\* The payment service implements the abstract ledger.
THEOREM PaymentImplementsLedger == PaymentSpec => ImplementsLedger
  <1>1. PaymentInit => Ledger!LedgerInit
    BY DEF PaymentInit, WalletInit, PurchaseInit, Ledger!LedgerInit, Balance
  <1>2. PInv /\ [PaymentNext]_paymentVars => [Ledger!LedgerNext]_(Ledger!ledgerVars)
    BY StepRefines
  <1>3. PaymentSpec => Ledger!LedgerSpec
    BY <1>1, <1>2, PInvHolds, PTL DEF PaymentSpec, Ledger!LedgerSpec
  <1> QED BY <1>3 DEF ImplementsLedger
=============================================================================
