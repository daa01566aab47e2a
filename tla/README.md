# TLA+ models of the hquizlet platform

hquizlet is a learning platform made of Go services (`services/auth`, `class`, `file`,
`gateway`, `payment`, `quiz`, `study`), each with its own PostgreSQL schema, Redis and
NATS beside them, a React front end (`apps/web`) and two Rust crates that the running
services do not call. This directory holds models of the parts in which several
requests, callbacks, jobs or deliveries meet in shared state, the TLC configurations
that check them, and TLAPS proofs of the properties that matter most. `PROJECT.json`
maps every definition to the source lines it stands for.

Contents: [1 Inventory](#1-inventory) · [2 Modules](#2-modules) · [3 Runs](#3-runs) ·
[4 Fairness](#4-fairness) · [5 Proofs](#5-proofs) · [6 Findings](#6-findings) ·
[7 Not modelled](#7-not-modelled) · [8 Plan](#8-plan)

## 1 Inventory

### Payment (`services/payment`)

* **State.** `payment_order` (status PENDING, PAID or CANCELLED), the append-only
  `wallet_transaction` with a partial unique index on the reference of a deposit,
  `study_set_price`, `entitlement`. There is no balance column: a balance is a sum.
* **Operations.** Create, cancel and poll a deposit order; receive a SePay webhook; set a
  price; buy a study set; credit a wallet as administrator; decide on access.
* **Interactions.** SePay delivers webhooks and answers lookups; the study service names
  the owner of a set; the browser polls an unpaid order every three seconds.
* **Hard.** Webhook and poll credit the same transfer, under different references;
  a webhook whose credit failed is answered with 200 and not repeated; cancelling races
  crediting; the balance is checked several statements before the debit; the limit on
  pending orders is checked before a call to SePay and the insert comes after it.
* **Correct when** no order is credited twice and no transfer more often than it has
  references (the documents promise once: see [Findings](#6-findings)), every credit is backed by
  money, final orders stay final, no wallet is overdrawn, sets are paid for exactly once,
  a buyer keeps access, and nobody waits for a lock for ever.

### Live quiz (`services/quiz/internal/live`)

* **State.** `live_sessions` (status, question index, `state_version`), participants,
  answers, the outbox, all in PostgreSQL; the current question and the leaderboard in
  Redis; auto-close timers in the memory of the process; SSE clients.
* **Operations.** Create, join, start, close, next, end, submit an answer, reconnect; the
  auto-close callback; recovery after a restart; the outbox worker and the broadcaster.
* **Hard.** Host requests and callbacks decide on the same row; Redis, outbox and timers
  are updated after the row, one by one, and failures there are only logged; a restart can
  fall between any two writes; a submission checks the session, the deadline and the keys
  in separate statements; totals are rewritten while answers commit; clients retry.
* **Correct when** the row follows the quiz in order, nothing is announced that did not
  happen, a question left open is closed, no answer counts twice, and an accepted answer
  is stored.

### Protected quiz player (`services/study`, quiz sessions and snapshots)

* **State.** Questions of the study set, content-addressed snapshots, a snapshot cache in
  every replica, session rows with answers and deadline, scores in `learning_sessions`.
* **Operations.** Start, page, answer, submit, peek, delete; hourly cleanup of expired
  sessions and of snapshots nobody refers to.
* **Hard.** Starts on several replicas count sessions concurrently; the owner edits the
  questions while they are played; nothing submits an exam at its deadline except the next
  request; cleanup runs between the two transactions of a start.
* **Correct when** the session limit holds, answers freeze at submission and deadline, an
  instant solution is shown only for a final answer, the recorded score is that of the
  frozen answers, and a session keeps its questions.

### Delivery of live events (`quiz/internal/live/outbox`, `realtime`, `events`)

* **State.** Outbox rows with `attempts` and `published_at`, what each worker has claimed,
  JetStream, a Redis stream cut to its newest entries, the channels of SSE clients.
* **Operations.** After a step of the session: insert the outbox row, append to the stream,
  broadcast. Workers claim a batch, publish, mark or give up. A client connects, is
  registered, gets the replay and then what is broadcast.
* **Hard.** None of the writes shares a transaction with the step, errors are only logged;
  `FOR UPDATE SKIP LOCKED` runs outside a transaction, so two workers claim the same rows;
  events that used up their attempts stay at the head of the outbox; the handler reads the
  session and the replay before the channel is registered; a full channel drops events.
* **Correct when** only what the broker has is marked, an event is published or uses up
  its attempts, and a client that keeps up has seen the newest version.

### Study sets and imports (`services/study`)

* **State.** Study sets (shown, hidden, deleted), flashcards with positions, quiz questions,
  `import_jobs`, uploads in a blob store, goroutines.
* **Operations.** Edit cards and questions, delete or moderate a set, import inside a
  request or in a job that works in chunks and reports its progress.
* **Hard.** A job is a goroutine whose only trace is its row; chunks are committed one by
  one; positions are read before they are used; a quiz import replaces questions and mirror
  cards in different transactions; two replacements under READ COMMITTED do not see each
  other; nothing resumes a job after a restart.
* **Correct when** an unfinished row has a worker, the reported count is never ahead of the
  cards, an import keeps the order of its file, and an undisturbed quiz import leaves questions
  and mirror cards that agree.

### Classes (`services/class`) and completions (`services/study` to `services/class`)

* **State.** Classes, members with roles, assigned sets; learning sessions, the trigger-filled
  outbox, the JetStream stream with its deduplication window, activity rows.
* **Operations.** Create and delete a class, reset its code, join, add, change, remove, leave,
  assign; save progress; publish, deliver and record completions; show a dashboard.
* **Hard.** Permission, count and statement are separate; the error of the owner's row is
  dropped; publishing and marking are separate, and the stream delivers again.
* **Correct when** the owner stays the owner, the member limit is overrun by no more than
  the requests in flight, students see only their own rows unless the class shows its
  leaderboard, and every completion is recorded in the end and once.

### Class videos (`services/class`, private videos)

* **State.** Video rows, files and `.part` files in an SFTP store, uploads and conversions
  under way, the deletion queue filled by a trigger.
* **Hard.** Database and store have no common transaction, and the commit of an upload may
  fail after it happened; a worker converts for minutes under a row lock that a broken
  connection gives away; rows vanish by cascade; the first error ends a cleaning round.
* **Correct when** every object is named by a row or the queue, what can be watched stays
  so until somebody deletes it, and queued objects go in the end.

### Identity (`services/auth`, `services/gateway`, `packages/authz`)

* **State.** Accounts with a legacy role and a disabled flag, role assignments, sessions; the
  token cache of the gateway, in memory, with a lifetime per entry.
* **Operations.** Register, log in, refresh, log out (once or everywhere), verify, assign and
  revoke roles, disable and enable, the backfill every start runs.
* **Hard.** A verification reads session and roles in several statements and its answer is
  cached after the fact; the services restart independently; a migration that fills in
  missing roles runs at every start; the legacy column and the assignments overlap.
* **Correct when** a revoked session or privilege outlives its revocation by a known bound,
  and only an assignment makes an administrator.

### Limits (`gateway/ratelimit.go`, `clientip.go`, `auth/.../login_guard.go`, `study/.../quiz_limits.go`)

* **State.** Token buckets, wrong room codes, failed logins with locks, taps, all maps in
  memory, the first two bounded.
* **Hard.** Asking and counting are separate steps around a call to another service; full
  maps drop entries; the counted address is taken from headers.
* **Correct when** a bucket never exceeds burst and refill, requests in flight add no more
  than themselves to the attempts, and nobody is counted under an address of their choice.

### Other parts

The practice engine, files, the cache wrapper, the web application and the Rust crates are
not modelled (section 7). The complete list, with the reason for every part left out, is in
`PROJECT.json` under `components`; everything hard to test, with its line, under `hazards`.

## 2 Modules

```
WalletLedger <--implements-- Payment = Deposits + Purchases, over Wallet
LiveQuiz     <--implements-- LiveSession <--extended by-- LiveAnswers
QuizAttempts <--implements-- ProtectedQuiz
                             LiveDelivery      RateLimits
Authz <--extended by-- Identity
      <--extended by-- StudyContent
      <--extended by-- Classroom <--extended by-- ClassVideos
proofs:      PaymentProofs (Deposits, Payment)      LiveAnswersProofs (LiveSession, LiveAnswers)
             ClassVideosProofs (Classroom, ClassVideos)      <Module>Proofs for LiveDelivery,
             ProtectedQuiz, Identity, StudyContent and RateLimits
instances:   MC<Module> for each module with a specification (LiveSession needs none;
             MCClassroom instantiates ClassVideos and with it Classroom)
```

Common conventions. One action is one stretch of a handler that no other actor can
interrupt: a statement or a whole transaction, or the part of a transaction between two
lock operations. A handler in progress is a record with a `pc` and the values it has read.
Requests that are refused without changing anything are not actions unless a property
reads the refusal. Operators named as *Mutant of X* are plausible bugs of `X`; they
belong to no specification and are there to show that the properties notice them.

**Wallet** holds the sums of credit and debit rows, which is all the code ever computes
from the ledger.

**Deposits** has orders, bank transfers, deposit rows and row locks. `CreateOrderCount`
and `CreateOrderInsert` are the two halves of `CreateOrder`, `CancelPendingOrder` the
single conditional UPDATE, `WebhookReceive` and `StatusPoll` the two ways into
`CreditDepositIfPaidRef`, which `CreditLock`, `CreditCommit` and `CreditFail` model.
A transfer is described by what the code can tell of it: the code its webhook yields, the
codes its text contains, its amount, and what SePay's transaction list identifies it by
(`listedAs`): its id, or, when the id is empty, a bank reference that nothing in the code checks
and other transfers may share. `LookupRef` is that fallback of `reconcilePendingOrder`; the
webhook always uses the id, so one transfer can be credited under two references (`RefsOf`). An
order and its code are one identifier.

**Purchases** has prices, entitlements and the purchase transaction, split into
`BuyGetPrice`, `BuyLock`, `BuyCheck`, `BuyCommit` and `BuyFail`; `AdminCredit`,
`SetPrice`, and `HasAccess`, the decision of `GetAccessInfo`. **Payment** runs both on
one wallet and maps it to **WalletLedger**, in which a top-up and a purchase are single
steps: `balance` is the difference of the sums, `owned` the entitlement rows.

**LiveSession** has the row, the Redis question, the outbox, host requests, one timer per
question with its callback, the scheduler's map, and restarts. The compare-and-swap is
`CommandWrite` and `CallbackWrite`; `CommandFail` and `CallbackFail` are updates whose
outcome the caller does not learn; `CommandProject` and `CallbackProject` are the Redis
and outbox writes whose errors are only logged. Redis update and outbox insert are one
step because no request reads the outbox. The row maps to **LiveQuiz**, the quiz as
host and players know it.

**LiveAnswers** extends it with joining, submitting and the three places of a score: answer
rows, totals, leaderboard. `FinalizeScores` is one UPDATE with a subquery, so it reads its
sums (`FinalizeRead`) before it writes them (`FinalizeWrite`); an answer may commit in
between. Two conversions are modelled by what they do: `CorrectIndex`, which does not
survive JSON (`ReloadedCorrect`), and the answer, which comes back from a JSONB column as
different text (`JsonbText` against `Marshalled`). Scores are in units of 500 points.

**ProtectedQuiz** has the version of the questions, snapshots with their age, caches,
session rows and recorded scores. `phase` is the position of the clock with respect to
deadline and expiry. The cleanup of snapshots is one DELETE, which takes the rows that no
session refers to when it begins (`PickUnreferenced`) and takes effect when it commits
(`DeletePicked`); sessions inserted in between are not looked at again. `stored` records of a
session whether its snapshot was there, and not picked, when the row was inserted.
`StartSnapshot` joins the read of the questions and `Put`: between
the two only an edit matters, and an edit there is indistinguishable from one after both,
since the starter goes on with what it has read. `CreateCount` and `CreateInsert` are the
transaction under the advisory lock. `ActPage`, `ActAnswer` and `ActSubmit` are the three
actions of `ActWith`, which share `AutoSubmitted` (the deadline) and `Serve` (page,
record, write). Left out because they only refuse: access checks, rate limits and the
window of `Peek`. Also left out: sessions from before snapshots existed, and the cascade
of a deleted study set. `AttemptOf` maps a session row to an attempt of **QuizAttempts**: open,
over (late and not submitted), submitted, or gone (deleted, expired or purged). There, beginning
an attempt is one step within the limit, a submission one step that records the score of the
answers, and an attempt that is gone stays gone.

**LiveDelivery** knows a step of the session only by the version it gave the row; two
steps may be telling at once. `StoreEvent`, `StreamEvent` and `Broadcast` are the three
best-effort writes in their order, each of which may fail. `Claim` holds nothing after it
has read, as the code's statement outside a transaction; the claimed rows are a set, which
`Turn` takes oldest first; `Publish` may report a failure
that was a success; `MarkPublished` ends at its first error. `Connect`, `Register`,
`WriteReplay` and `WriteEvent` are the stages of one SSE request. Two history
fields of a client say which events were broadcast before its channel was registered
(`before`) and which its full channel dropped (`dropped`).

**Authz** is the evaluator: roles a principal brings to a resource, the managed policies of
those roles as sets of statements, deny by default, deny before allow. It is used by the
guards of three modules, so that a role change in the model changes what requests may do.

**Identity** has one process per request. `VerifySession`, `VerifyRoles` and
`VerifyFallback` are the statements of `verifiedIdentity`; `Arrive`, `ArriveKnown`, `Admit`
and `ForgetToken` the gateway around its cache. A request to the admin console is verified
again by auth (`Forwarded`). `Tick` ages cache entries and verifications; it cannot pass a
verification that has reached its timeout. `invalidFor` and `demotedFor` are history
variables that count for how long auth would have refused a token or a privilege.

**RateLimits** takes a request through a list of gates, which `IPAllowed` and `Proxied` give
for its kind, and lets others pass between any two. `ClientIP` resolves the address from
peer and chain; `EvictLocked` is the set of what a full map may keep, because Go's map
order is arbitrary. Tokens are kept in units of 1/window to make the refill exact. The
history variables `spent`, `wrong` and `guesses` count by tick what a bucket let through,
the wrong codes an address was told of, and the passwords found wrong since the last success
under a login key.

**StudyContent** has cards, questions, jobs and tasks (requests and goroutines). A
transaction is one step, except that the replacement of the questions is `ReplaceDelete`
and `ReplaceInsert`, since the DELETE sees only what is committed when it starts. `alone`
records whether anything else touched the set since a task began, `lost` the jobs whose
goroutine, or its update of the status, was lost. The blob store may keep an upload whose `Put`
or `Delete` reported an error, and an UPDATE whose reply is lost may have been applied.
`recorded` is the `minio_key` of a job: `SetImportFileFails` leaves the row pending without it.

**Classroom** splits every handler into its admission (permission and reads, `Ask...`) and
its statement, and `addMember` into permission, `CountMembers` and `InsertMember`.
`SaveProgress` writes the session and, by the trigger, the outbox; `PollOutbox`,
`PublishEvent`, `NoteCompletion` are publisher and consumer. The dashboard is a set of
operators over the current tables. **ClassVideos** adds rows, objects and the queue:
uploads step by step with their deferred undo, the worker with its row lock (which
`LoseTransaction` takes away), deletion by request and by cascade, the cleaner. `strayed`
holds keys whose writer died or lost its lock or connection: the code has no way to find
those, and the properties exempt exactly them.

## 3 Runs

Every limit of the code is scaled down so that it is reached. Where a run has several
scenarios, the MC module has a variable `scenario` that is chosen at the start and never
changes; the scenarios share the actions and the properties.

| run | instance | checks | distinct states |
|---|---|---|---|
| `deposits` | 1 user, 2 orders, 2 transfers, amounts 1 and 2, 2 creations, 2 crediting requests, limit 1, 2 bank references, 1 failure | `CreditsSound`: types, a transfer credited at most once per reference and an order once, credits backed by money, paid orders have some; overrun of the pending limit bounded by the requests in flight; final orders stay final | 695,427 |
| `payment` | 1 user with wallet, 1 order, 1 transfer, 2 sets (one of them the user's own), 2 purchases, 1 manual credit, 1 failure | no overdraft; paying and owning coincide; a buyer keeps access; refinement of `WalletLedger`; purchases end; a matching transfer is applied | 67,950 |
| `live_session` | 2 questions, 1 host request at a time, 2 restarts, 1 failure, with fairness | armed timers are registered; Redis and outbox never ahead of the row; refinement of `LiveQuiz`; a question that recovery found open is closed in the end | 112,502 |
| `live_answers` | 1 player, 2 submissions, 1 host request; "faults": 1 question, 2 keys, 1 restart or failure; "questions": 2 questions, 1 key | no answer counted twice; one answer per question, to an opened one; accepted answers are stored and announced ones exist | 1,560,654 |
| `live_delivery` | "outbox": 3 events, 2 workers of which one is steady, batch 2, 1 attempt; "sse": 2 steps, 1 client with a channel of 1, 1 restart | only what the broker has is marked; a client was shown every broadcast version or a later one, except what its full channel dropped and what was broadcast between its read and its registration; an event is published or exhausted, unless a full batch of exhausted ones stands before it | 68,613 |
| `quiz` | 2 questions sharing a passage, 2 versions with opposite solutions, 1 replica; "play": 1 session, practice or exam; "sessions" and "edited": 2 starts, 2 tokens, limit 1, exam of one question, with cleanups of snapshots in the one, and in the other with edits and a cache that evicts nothing | recorded score; session limit; shown answers final; refinement of `QuizAttempts`; a session inserted with its snapshot in place keeps it | 124,090 |
| `identity` | an administrator and a newcomer, 2 tokens, 2 requests, cache lifetime 1, verification up to 1, 2 changes; only the observed session expires by itself | revoked sessions and privileges end within lifetime and verification; only an assignment makes an administrator | 2,526,586 |
| `limits` | 2 clients, 1 proxy, maps of 2 entries, limits of 1 or 2, 2 requests, 2 ticks, four workloads | buckets keep their budget; wrong codes and wrong passwords bounded; nobody counted under a forged address | 1,299,677 |
| `content` | 1 set, 1 job of 2 chunks, 1 request, 2 edits or restarts, 4 cards | an unfinished job has a worker, but in the cases named, and finds its upload; reported is committed, exact at the end; order of the file; an undisturbed quiz import replaces questions and mirror cards alike | 1,814,881 |
| `class` | 1 class; "members": 4 users, room for 2, 2 requests; "study": 2 keys, 1 set; "videos": 1 video, 2 workers, batch 1 | owner, roles, member limit and visibility; completions neither lost, doubled nor made up, and delivered; no object leaked; playable stays playable; the queue drains | 214,395 |
| `deposit_paid_uncredited`, `live_timer` | smaller instances of the same modules | one statement of the documentation each, which the code does not satisfy: see [Findings](#6-findings) | |

Why the bounds are enough for the question asked. Two of everything that can conflict
(orders for one transfer, transfers for one order, requests for one row, questions whose
timers can meet, keys for one answer, starters for one limit, workers for one video or one
event) give every pair of conflicting steps in every order; the failure and restart bounds
put one fault, in recovery two restarts, at every point. All safety and
action properties of the runs are proved for every value of the constants (section 5), so for
them the runs serve to find mistakes in the statements; for liveness the instances are all
there is. In `live_session` the host request meets the
callbacks of both questions, which close through the same compare-and-swap; several host
requests at once are covered by those theorems. Only with two questions can a submission be
compared with the deadline of the next one, and only with faults can an accepted answer be
lost, hence the two scenarios of `live_answers`. One replica is enough in `quiz`, because
replicas share everything but the cache, which loses its entries at every point in "play". Three
events against a batch of two show both an event in the batch of exhausted ones and one
behind it. In `identity` one request is the administrator's and the other anybody's; the
history variables saturate one tick past the bound. The lifetimes of locks in `limits` (1, 2,
capped at 2 ticks in a window of 2) let a lock run out inside its window. One video draws
two keys and is taken by two workers; videos do not share state apart from the queue, whose
rounds of one key end at every position.
Symmetry is used only for interchangeable orders, transfers, requests, tokens and
keys, and never in a run with a liveness property.

`CHECK_DEADLOCK FALSE` is set everywhere: orders, transfers, timers, tokens and keys are
used up, and a quiz that has ended or a ledger without further requests may rest for ever.

## 4 Fairness

* `DepositFairness`: the deposit page polls an unpaid order every three seconds
  (`apps/web`), PostgreSQL queues the waiters of a row lock, a handler past its checks
  runs on. Polls get strong fairness because the worker slots of the model, not the
  server, keep them waiting. **Nothing is assumed of SePay's webhook**: the property
  `TransferEventuallyApplied` shows that polling alone repairs a lost or failed webhook.
* `PurchaseFairness`: PostgreSQL grants advisory locks in turn, handlers run on. No
  fairness is given to failures, prices or new purchases.
* `LiveFairness`: the Go runtime fires an armed timer, and callbacks and requests that
  have begun run on. Which requests the host sends is left open, and so are failures and
  restarts.
* `DeliveryFairness` of `Classroom`: the publisher polls for ever and some day an attempt
  both publishes and marks; some day a delivery is recorded and acknowledged. The latter
  two get strong fairness because failures and disconnections come in between; the loops of
  `event_worker.go` and `completions.go` retry without limit.
* `CleanupFairness` of `ClassVideos`: the cleaner runs every minute (weak), and a store that
  keeps answering some day deletes (strong).
* `DeliveryFairness` of `LiveDelivery`: the loop of a *steady* worker goes on, an attempt of
  it some day succeeds or is counted, and it some day marks. Nothing is assumed of the other
  workers, of clients or of restarts.
* `ProtectedQuiz`, `LiveAnswers`, `Identity`, `RateLimits` and `StudyContent` have no
  fairness: the services promise nothing about a learner who never returns, a client that
  never asks again, or a job whose process was replaced.

## 5 Proofs

All theorems hold for every value of the constants that satisfies the named assumptions of the
modules: `WalletConstants`, `DepositConstants`, `NullConstants` and `PurchaseConstants`;
`LiveConstants` and `AnswerConstants`; `DeliveryConstants` and `DeliveryNulls`;
`QuizConstants` and `QuizNulls`; `IdentityConstants`; `ContentConstants` and `ContentNulls`;
`ClassConstants`, `ClassNulls`, `VideoConstants` and `VideoNulls`; `LimitConstants`. They say
that numbers are natural and limits positive, that null values lie outside the sets they
extend, that tables given as constants are total, and, where a property counts requests, that
the requests are finitely many. Only `LimitConstants` relates two limits: a lock may grow as
long as the window of the login guard, both being a quarter of an hour in `login_guard.go`.

Every safety and action property of a passing run, and the three refinements, are stated by a
theorem. Each module proves that its inductive invariant holds initially and is kept by every
action, one lemma per action or group of actions, and derives the properties.

**PaymentProofs.** `CreditsPerTransfer` and `OneCreditPerOrder` are not inductive. `IInv`
adds `LockedRowUnchanged` (a worker past its checks holds the row lock, and the row is still
the pending one it checked), `WorkersFound` (a worker past its lookup has found an existing
transfer of the amount it carries that names its order, and carries one of its references),
`DepositsFound` (the same of every deposit row, whose order is PAID), `OneCreditPerRef` (the
unique index of the ledger) and `PaidByTransfer` (of a PAID order, a transfer of its amount that
names it has arrived, and one of its references is in the ledger, be it for another order). From
`IInv` follow the type invariant, `TransferCreditsBounded`, `OrderCreditedOnce` and `CreditsBacked`, together
`CreditsAreSound`, and the action property `FinalStatusKept`. `Overrun` counts the requests
that have counted the pending orders and not yet inserted: with the pending orders they are
at most the limit and the other requests, which gives `PendingLimitHolds`.

For the composition `PInv` adds that the holder of an advisory lock is the only purchase of
its user past `BuyLock`, and that a purchase past its checks still satisfies them: credits may
arrive meanwhile, debits may not. It yields `WalletNeverOverdrawn`, `EntitlementPaidOnce`,
`BuyerAlwaysHasAccess` and, step by step, `PaymentImplementsLedger`;
`CreditsSoundInPayment` and `PendingLimitHoldsInPayment` carry the deposit theorems
over. `NoLockLeaked` is the safety half of the two liveness properties: the holder of a lock
is a transaction that has every lock it will take, so nobody waits for a finished request and
no two wait for each other.

**LiveAnswersProofs.** The version alone orders the rows. `LInv` says that a row a handler
has read lies in the past of the current one, and equals it when the versions agree; hence
a compare-and-swap that matches replaces exactly the row the decision was taken on. With
the consistency of the row (index and status fit together), the registration of armed
timers and the facts about projections it is inductive, and gives `TimersRegistered`,
`ProjectionsNeverAhead` and `SessionImplementsQuiz`. For `RecoveredQuestionCloses`, which TLC
checks, `RecoveredQuestionWatched` proves what the argument rests on: while the row has not
changed and no call has failed, the timer recovery armed, or the callback it became, is on its
way with the current row in hand, and no request is left that would stop it. Fairness is all
that is missing then.

`AInv` extends it to the answers. `CheckedOpened` and `CommittedStored` give the two
properties of single answers. For the totals, `TotalsBacked` says that not only a total but
also the sum a finalization has read and will write is at most what the player's answers are
worth, which only grows; `BoardBacked` compares the leaderboard with the answers that no
submission still has to add to it. What a sum does when an answer is added is proved by a
least counterexample on cardinalities, induction over data being out of reach. A step of the
composition is one of the session, or one that at most counts a failure (`AnswersStepLive`), so
the theorems of the session hold with the players beside it: `AnswersImplementQuiz`,
`ProjectionsNeverAheadInAnswers`, `TimersRegisteredInAnswers` and
`RecoveredQuestionWatchedInAnswers`.

**LiveDeliveryProofs.** `DInv` has the order of the stages (`Told`: stored before read, read
before sent, sent before marked) and `InSight`: every version that was broadcast is, for every registered
client, covered by the snapshot it is about to write, in its channel, covered by what it was
shown, dropped, or from the window before its registration. From them `OnlySentIsMarked` and
`ClientsCatchUp`, for every size of batch, channel and stream.

**ProtectedQuizProofs.** `LockHeld` and `RoomWhileHeld` say that the advisory lock of a
learner is held exactly by the request that has counted, and that its count is still right
while it is held; they make `SessionCap` inductive, and count and insert one step of
`QuizAttempts`. `Scored` ties the recorded score to the row. The action properties rest on
`Evolves`, what any step may make of a session row: the mode and the snapshot stay, a submission
is not taken back, an answer changes only while the session is active, and in instant mode once.
`SnapshotsAreKept` is proved of all rows, soft-deleted ones included (`Backed`): a
cleanup that begins after the insert picks nothing a row refers to, and an older one does not
delete what it has not picked. For `PlayerImplementsAttempts` a request is split by what it
does to its row (`Played`): nothing, a submission, or one answer; snapshots, caches and
cleanups are stutters.

**IdentityProofs.** A verified identity is assembled from several reads, carried, stored and
used later. `VerificationFresh` dates what a request has learned (no more than its own age),
`EntryFresh` what a cache entry says (no more than its age and one verification), and
`ClocksReset` starts both clocks. `LegacyAdminGranted` (whoever is an administrator by the
legacy column has the assignment as well) shows that the backfill at a restart promotes
nobody. This gives `RejectedTokenBounded`, `DemotedAdminBounded` and `NoPromotionByRestart`.

**StudyContentProofs.** `SInv` describes a task by what it has read and whether it has been
alone since (`TaskFine`), and a job by its row, its file and the cards it made (`JobFine`,
`CardsFine`). Most actions touch one task, so two frame lemmas (`Undisturbed`,
`JobUndisturbed`) say which changes elsewhere leave the other tasks fine. It gives `JobsEnd`,
`ReportsAreTrue`, `ImportedInOrder` and `MirrorsMatchQuestions`.

**ClassVideosProofs.** `CInv` has three parts. `MInv`: an admitted request still fits its
class when its statement runs (`CallsFit`), and the members of a class with the requests let
through to it stay within the limit and the requests in flight (`RoomKept`). `EInv`: a
completed session has its event in the outbox, unless the stream has had it (`EventsKept`),
whatever is in outbox, stream or table was earned by a completed session (`EventsEarned`), and a
class notes it once. `VInv`: a row lock has one owner and
keeps the row where it is (`LocksHeld`), a bundle that may still be used is not queued for
deletion (`OutputsKept`), and `Accounted`: every object has a row, a place in the queue, an
upload that answers for it, or has strayed. From them `MembershipIsSound`,
`CompletionsAreCounted`, `NothingIsLeaked` and `WatchedVideosStay`.

**RateLimitsProofs.** `RequestsTyped` fixes the order of a request's gates and that it is
counted by its origin. `Budget` says of a bucket that what it let through up to its last
request, with the tokens left, is at most burst and refill. For room codes `CodesOf` counts,
per address, the joins that were told of a wrong code and not yet counted (`Untold`), within
those past the check (`Joining`). For passwords `GuessesOf` needs one more idea: an `Epoch`
m, the number of times the lock of the key has run out in its window. Each lock is twice the
last, so m locks take 2^m - 1 times the first, and m is at most `Unlocks`. Sums over ticks
are again handled by a least counterexample, and powers of two as the number of subsets.

**Only model-checked.** The six liveness properties (`TransferEventuallyApplied`,
`PurchaseEnds`, `RecoveredQuestionCloses`, `EventPublished`, `CompletionDelivered`,
`QueueDrains`), since neither fairness nor `ENABLED` is within the prover's reach; the safety they rest on is
proved where it is more than a guard (`NoLockLeaked`, `RecoveredQuestionWatched`,
`CompletionsAreCounted`, `NothingIsLeaked`). Also the two
statements that are violated; and that a history variable or an abstraction stands for what
the text above says, which is a matter of reading.

## 6 Findings

Two runs show that the code does not do what a comment or document of the repository says.

1. `deposit_paid_uncredited`: a transfer whose text names two orders of one amount credits
   the first; the second meets the reference conflict, which the code takes for its own
   credit, and becomes PAID without one. `PaidOrdersHaveMoney` bounds the damage: the transfer
   exists, has the amount of the order and names it, so a credit is lost and none invented.
2. `live_timer`: the deferred `CancelTimer` of a late callback stops the timer of the next
   question, which then stays open. No fault is needed.

Further statements of the repository are formulas of the modules that the code violates.
Those with a configuration can be run by hand, `tlc -config <cfg> <module>`:

| formula | configuration, module | what the code does, and what it says |
|---|---|---|
| `ScoredAgainstSnapshot` | `MCLiveScoring.cfg`, MCLiveAnswers | `CorrectIndex` is tagged `json:"-"` (`live/model/model.go:61`), so the reloaded snapshot has index zero and answers are scored against the first choice; `service.go:450`: "Find correct answer from snapshot" |
| `SafeRetry` | `MCLiveRetry.cfg`, MCLiveAnswers | a repeated submission compares JSONB text with marshalled text, never equal, and is refused as a conflict; `repository.go:251`: "for safe client retries" |
| `TransferCreditedOnce` | `MCCreditedTwice.cfg`, MCDeposits | a transfer whose text names two orders and whose id is empty in the transaction list is credited to one under the id, by the webhook, and to the other under the bank reference, by a poll (`order_svc.go:198-201`); `docs/payment/webhook-flow.md` calls the id the deduplication key that excludes a double credit. Whether SePay ever omits the id nothing in the repository says |
| `SnapshotIsFresh` | `MCLiveWindow.cfg`, MCLiveDelivery | an event broadcast after the handler read the session and before its channel is registered (`handlers.go:296`) reaches the client neither way; `redisstore.go:261-262` says "the caller will send a fresh snapshot" |
| `SessionHasSnapshot` | `MCQuizSnapshot.cfg`, MCProtectedQuiz | a cleanup between `Put`, which leaves an old snapshot old, and the insert of the session, or one whose DELETE began before that insert, deletes the snapshot; the session is playable only where it is cached. `QuestionsKept` shows that this gap at the start is the only one |
| `NoSessionWhileDisabled` | `MCDisabledLogin.cfg`, MCIdentity | a login that has passed the check of the flag inserts its session after the account was disabled and its sessions were revoked; enabling the account then makes that session valid. `docs/deployment/iam-operations.md:27` says that enabling restores no session |
| `CompletionWithinClass` | `MCDashboard.cfg`, MCClassroom | completions are collected from all members, the denominator counts students only, so a staff member who did the set makes more completions than learners; `dashboard.go:114-116` |
| `QuestionsFromOneSave` | none, StudyContent | two concurrent saves of the questions of a set leave both, since the DELETE of the second does not see the rows of the first; `quiz_question.go:109-110`: "replaces all quiz questions" |
| `ImportAppends` | none, StudyContent | the import inside a request starts at the number of cards, not after the highest position; `import.go:55` |

Met while modelling, without a formula of their own:

* The ids a browser sends back as `Last-Event-ID` are those of broadcasts or snapshots, while
  the Redis stream is searched for the uuid of a domain event, so a reconnecting client gets
  a snapshot and never a replay. The client is up to date all the same, but
  for what `CaughtUp` excepts.
* The outbox row and the stream entry of a step are written after it, outside its
  transaction; a process that stops in between loses the event for good.
* An import request whose `SetImportFile` fails (`import_job.go:68-71`) never calls `failJob`: the
  row stays pending for ever. Errors of `blob.Delete` are dropped and a failed `Put` is not
  followed by one, so uploads may stay in the store with nothing that looks for them.
* `failJob` sets the count of an import to 0 although its chunks stay committed.
* `class/internal/events/outbox.go` has an outbox worker that no code starts.
* `class_study_sets` has no foreign key into the study service: a deleted set stays assigned.
* A success clears the entries of its account (`login_guard.go:94-103`), the failures other
  requests have left there included, so `AttemptsBounded` counts since the last success.
* `evictLocked` (`gateway/ratelimit.go:107-108`) says it drops "the least recently seen" and
  drops whatever the map iteration yields first.
* A transfer that arrives after its order was cancelled, and a repeated manual credit, are
  left to the administrator; an exam whose learner never comes back is never submitted; an
  import job whose process was replaced stays `running` for ever.

## 7 Not modelled

Text, layout, QR codes, e-mail, HTTP codes, logs and metrics carry no property. Permission is
modelled where a role can change while a request is under way (auth, class, study content);
in payment, live and protected quiz the checks only refuse and are left out. Reports and
leaderboard reads change nothing. Organizations are left out because no code gives a class or
a set one; their policies are in `Authz`. Folders, tags and profile fields are single
statements. The practice engine generates questions at random and keeps nothing. The file
service, quiz audio storage and text to speech are thin layers over an object store, of which
`ClassVideos` models the hard case. The Redis limiter and the table of practice starts count
like the limiter in memory. `pkg/cache` wraps a client library. The web application is
represented only by its polling, the Rust crates by nothing, since no service calls them.
Transcoding, spreadsheets and generated code are outside. Time is modelled by its order or by
a few ticks, not by durations. Database transactions are modelled at READ COMMITTED with the
locks the code takes; PostgreSQL itself, Redis, NATS and Go's runtime are taken to work
as documented. Presence and heartbeats of live players are not modelled.

## 8 Plan

Done: all modules of section 2 with their runs, and theorems for every safety and action
property the runs check.

What would add most next:

1. Abstract specifications for the components that have none: session tokens whose privileges
   are a bounded time behind auth (`Identity`), a queue of keys between upload and deletion
   (`ClassVideos`), an exactly-once counter of completions (`Classroom`), each shown to be
   implemented, step by step, from the invariants already proved.
2. The window between `Put` and the insert of a session (finding `SessionHasSnapshot`): once the
   code touches the snapshot it reuses, the formula becomes an invariant to prove.
3. The helpers the proof modules share (least elements, sums by cases) in fewer words.
