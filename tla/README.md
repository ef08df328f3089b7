# A verification project for dist-txn

dist-txn moves money between wallets with a choreographed saga: a transaction
service owns the transfers, a wallet service owns the balances, and they talk
through Kafka with an outbox table on each side. This directory models that
program in TLA+, checks it with TLC on small instances and proves the safety
properties of both services, of wallet creation, of the outbox publisher and of the
whole program with TLAPS for instances of any size.

Paths below are relative to `src/apps/`; `TX` is `transaction-service/src`, `W` is
`wallet-service/src`.

## 1. Inventory

| Component | State | Operations | Code |
|---|---|---|---|
| Transfers | `transfers` table | `createTransfer`, guarded status updates | `TX/application/services/transfer.service.ts`, `TX/infrastructure/persistence/transfer.repository.impl.ts` |
| Transaction event handlers | (tables) | five handlers, one per wallet topic | `TX/infrastructure/messaging/kafka.event-handler.ts` |
| Saga timeout job | rows read and not yet recovered | every 10 s: find the 100 oldest stuck, recover one by one | `TX/application/services/saga-timeout.service.ts` |
| Wallet repository | `wallets`, `wallet_ledger_entries` | `updateBalanceWithLedger` | `W/infrastructure/persistence/wallet.repository.impl.ts` |
| Wallet event handlers | events whose failure is not yet answered | debit, credit, refund with retries | `W/infrastructure/messaging/kafka.event-handler.ts` |
| Dead letter queue | `dead_letter_queue`, replays under way | route, replay, markProcessed, markFailed | `W/infrastructure/messaging/dlq.service.ts`, `W/interface/http/dlq.controller.ts` |
| Outbox publishers | `outbox` tables, polls under way | every 50 ms: select, emit, mark, commit | `*/application/services/outbox-publisher.service.ts` |
| Kafka | topics, group offsets | emit, deliver, commit offset | external; used in `kafka.producer.service.ts`, `main.ts` |
| Wallet creation | `wallets`, requests under way | check, then insert | `W/application/services/wallet.service.ts`, `W/interface/http/wallet.controller.ts` |
| HTTP, DTOs, wiring, containers | none | | `interface/http`, `application/dtos`, `*.module.ts`, `docker` |

**How they interact.** `POST /transfers` writes a transfer and a
`transfer.initiated` row in one transaction. Each publisher sends its rows to one
topic per event type. The wallet service debits on `transfer.initiated`, credits
on its own `wallet.debited`, refunds on `wallet.credit-failed`, and writes each
outcome to its outbox, in the transaction that moves the money when there is
one. The transaction service turns `wallet.*` events into guarded status
updates. `wallet.credit-failed` comes from two sides: from a failed credit and
from the timeout job, which uses it to ask for a refund.

**What is hard.** Nothing orders two topics, so events of one transfer overtake
each other. Delivery is at least once (and at most once for a group that joins
late), and a *failed* handler leaves nothing behind that a second delivery could
recognise; its failure and the row that announces it are two transactions. Two consumers may
handle one event at once (a rebalance, or two copies of it): both pass the duplicate check, one
moves the money and the other throws. The timeout job decides by a
status that lags behind the money. Two calls may move the money of one wallet, or
of one transfer twice, at the same moment. A `catch` cannot tell a passing database
error, or the unique index that rejects a repetition, from a business failure. The publisher does not await its sends, marks rows
it has not sent for certain, and takes no lock. Replays are two transactions, and so
is the creation of a wallet, of which a user may ask several times at once.

**What makes each part correct.** Transfers: a terminal status is final, is
announced once, and every transfer ends. Timeout job: a refund is asked for
exactly when the job ended a DEBITED transfer. Wallets: the ledger accounts for
every balance and is announced entry by entry. Dead letters: PROCESSED means
refunded. Creation: one wallet per user, and answers that are true. Publisher: nothing marked unsent, nothing left behind. Saga: statuses
are backed by money, a debit always goes somewhere, and, as long as a handler that
fails has not moved its money, a transfer is not paid twice.

`PROJECT.json` lists the hazards line by line with the properties for each.

## 2. Modules

| Module | Models | Builds on |
|---|---|---|
| `Events` | event payloads, request validation, failure reasons | |
| `Outbox` | the outbox table | `Events` |
| `TransactionService` | transfers, its five handlers, the timeout job; open environment `TX_Next` | `Outbox` |
| `WalletRepository` | `updateBalanceWithLedger` over balances, ledger, outbox | `Outbox` |
| `AtomicCalls` | abstract specification: calls of `updateBalanceWithLedger` as single steps, with their outcomes | `WalletRepository` |
| `WalletLedger` | concurrent calls of `updateBalanceWithLedger`, statement by statement; implements `AtomicCalls` | `WalletRepository` |
| `WalletCreation` | concurrent `POST /wallets`, statement by statement | |
| `WalletService` | three handlers, dead letters, replays | `WalletRepository` |
| `OpenWalletService` | the wallet service in an environment that delivers at will | `WalletService` |
| `Kafka` | the broker as the services use it (external) | `Events` |
| `Saga` | the whole program, with a budget of faults | both services, `Kafka` |
| `SagaContract` | abstract specification: what a transfer promises | |
| `OutboxPublisher` | the publisher in detail | |
| `TableProofs` | lemmas about outbox rows and about sums over the rows of a table | `Outbox` |
| `TransactionServiceProofs` | theorems about `TransactionService` | `TableProofs` |
| `WalletServiceProofs` | what the actions of `WalletService` keep, whoever calls them | `TableProofs` |
| `OpenWalletServiceProofs` | theorems about `OpenWalletService` | `WalletServiceProofs` |
| `SagaProofs` | theorems about `Saga` and `SagaContract` | `TransactionServiceProofs`, `WalletServiceProofs` |
| `WalletLedgerProofs` | theorems about `WalletLedger` | `TableProofs` |
| `WalletCreationProofs` | theorems about `WalletCreation` | |
| `OutboxPublisherProofs` | theorems about `OutboxPublisher` | |
| `MC*` | instances for TLC | |

**State and code.** A table is a function or a set of records. The uuid of an
outbox row is its event and a counter (`copy`), since a repeated failure writes an
equal event again. Failure texts are labels of the code path that wrote them.
A database transaction is one step when the code wraps it in
`dataSource.transaction`; what the code does in several transactions, or holds in
memory across an `await`, is several steps: the timeout job (`stuck`: what was
read and not yet recovered), a handler in its `catch` (`failing`: the attempt has
failed, the row or letter is not written), a replay (`replays`: the letter is read, then the
refund attempted, then recorded), a poll of the publisher (`entries`). A process stop empties exactly
these memories (`TX_restart`, `W_restart`, `abort`).

The timeout job compares `timeout_at` with a clock (`now`), which moves on while
deadlines are ahead. `SAGA_TIMEOUT_MS` is not a number of the model: a new row gets
any deadline, in any order, and may be overdue when it is committed, since the timeout is
computed before the transaction. `Oldest` is the query's
ORDER BY and LIMIT; equal deadlines come in any order.

A handler of the wallet service has one movement of money (`Movement`) and a
`catch` that answers any error in the same way. It comes there (`W_catch`) because the
movement cannot be made (`Throws`), or because of a database error (`dbError`), also one
where the commit succeeded and its answer was lost. The row or letter is written by
`W_answer`; when that write fails too, the handler throws (`W_abandon`) and the event is
redelivered.

*Overlapping deliveries.* The duplicate check of `updateBalanceWithLedger` is its first
statement. Two calls with one key can both pass it; the first to commit makes the entry, and
the other throws, on the unique index or, for a debit, on the balance its UPDATE finds:
it is *overtaken* (the last argument of `Throws`). `W_overtake` is this pair of handlers of
one event: the money is moved once, and the event is in `failing` although it is. A refund is
tried three times, and its second try finds the entry, so the handler of
`wallet.credit-failed` does not come to its catch that way; a replay has one try and does
(`replay` reads the letter and notes whether its call would still be the first,
`replayRefund` may be overtaken since). `failing` and `replays` are sets: `others` says that
another handler of the event, or replay of the letter, is where this one was
(`Leave`).

`Saga` keeps three ways apart in which an event comes again: "redelivery", after its handler has
ended; "overlap", while a handler of it runs; "republish", a second copy in the topic. A
redelivery after the handler has ended finds the ledger entry and does nothing if the money was
moved; an overlapping one may throw, and needs no error of the database for it.

`inbox` holds the messages a group has not committed. Sending a message still
there adds nothing: consuming two copies is consuming one and having it
redelivered, or delivered to two consumers at once. A handler of the transaction service that throws leaves no trace (its
transaction is rolled back) and is called again, so only calls that return are
steps. The consumers leave `fromBeginning` off, so a group that joins late misses
what its topics already hold: the fault "lost" loses a message for any of the
groups that subscribe to it.

`WalletLedger` opens up the one transaction that others race for. At READ COMMITTED
a statement sees what is committed when it starts; the UPDATE waits for a row that
matches and is locked, and looks at it again; the INSERT waits for an equal key not
yet committed and is rejected by a committed one. Statements that only read or
insert rows nobody else can touch are folded into the commit. A call ends as `returned`,
`threw` (the code or the unique index rejects it) or `failed` (the database does, or the answer
to its commit is lost with the money moved). `AtomicCalls` says what callers may rely on: a
call returns with `updateBalanceWithLedger` of `WalletRepository` done in one step, and throws
only where `Throws` says so, "overtaken" meaning that an entry of its key was committed
after it had passed the check. So `Throws` is not an assumption about the repository but
what the statements have been shown to do.

`WalletCreation` looks at `createWallet` in the same way: the count sees committed rows,
the INSERT waits for an equal `user_id` not yet committed and is rejected by a
committed one. It is a module of its own: a wallet id is a fresh uuid, so no transfer
names a wallet before it exists, and creation and transfers do not meet (`Wallets` and
`Seed` of `WalletRepository` are the wallets there are and what they hold; the program
itself has no endpoint that pays money in).

`setOnLocked` without `setLock` makes TypeORM emit no `FOR UPDATE`; `OutboxPublisher`
therefore takes no lock. Sums over rows and wallets use `SumFunction` and
`SumFunctionOnSet` of the community modules.

The validation that the two wallets of a transfer differ compares strings, and
Postgres takes a uuid in upper and lower case alike: `CreateTransferDto` allows a
wallet to pay itself, which `ToItself` singles out where it matters.

## 3. Runs

| Run | Instance and bounds | Shows |
|---|---|---|
| `TransactionService.cfg` | 2 transfers, 2 deadlines (equal, or either one first), 1 row per job, any event about them any number of times | AnnouncedOnce, CompensatedOnce, TerminalIsFinal, EveryTransferEnds |
| `WalletService.cfg` | 2 transfers, 2 wallets, balances up to 4 so that sums overflow, 2 failed deliveries, answered or not | BalanceAccounted, EntryAnnouncedOnce, ProcessedMeansRefunded |
| `SagaFaults.cfg` | 1 transfer (covered, to itself, to an unknown wallet, or not covered), a timeout, a replay, any 2 faults of different kinds (all kinds but republication) | MessagesAreTrue, LedgerMatchesTransfers, StatusBackedByLedger, DebitNeverStranded, CompletedNeverRefunded, PaidOnce, MoneyConserved, KeepsContract, DebitSettles |
| `OutboxPublisher.cfg` | 3 rows, batch of 2, 2 polls, 1 failed send, 1 aborted poll | MarkedWasSent, CopiesExplained, EveryRowPublished |
| `WalletLedger.cfg` | 5 calls: a debit twice, another debit, a refund that overflows unless a debit has come first, a credit; any statement may fail | CallsAreAtomic (tables and outcomes), ReturnedIsRecorded, EveryCallEnds |
| `WalletCreation.cfg` | 3 requests of one user, 2 of another; any statement may fail, any answer may be lost | OneWalletPerUser, AnswersAreTrue, UserServed, EveryPostAnswered |
| `PendingTimeout.cfg`, `DebitedTimeout.cfg` | 1 transfer, no faults | the two timeouts do not mean what their comments say |
| `FailedDebit.cfg` | 2 transfers, 1 redelivery, 1 republication | a failed debit may leave a debit behind |
| `Repetition.cfg` | 1 transfer, 1 overlapping delivery, no timeout | a repetition that overlaps refunds a completed transfer |
| `RowsLocked.cfg`, `FailedPublish.cfg` | as `OutboxPublisher.cfg`, no abort | no row is locked, a failed send is not retried |

**Why these bounds are enough.** Transfers share nothing but balances and the batch of
the timeout job, so one transfer with faults, two that compete for one balance
(`WalletService.cfg`, `FailedDebit.cfg`), and two that compete for a batch of one are the
interesting cases. `MoneyConserved` of several transfers is proved, not model-checked. Two
faults (`MaxFaults` is how many kinds a behaviour may have) reach every pair: a failure and
the loss, restart or repetition that meets it. The transfer
to an unknown wallet fails its credit by itself, so that one failure of the database is enough
for a dead letter; the open environments of the two service runs deliver without any bound on
repetition (`Inputs`, what the wallet service may be sent from outside, are
`transfer.initiated` and `wallet.credit-failed`, the two topics it takes from the
transaction service). Amounts 1 to 3 against balances 0 to 4 reach insufficient funds,
exact cover and overflow. Three rows and a batch of two make a row wait.
`MaxBalance` (the largest bigint), `MaxFailures` (failure rows and letters, written or
to be written), `MaxReplays` (replays under way at a time), `MaxTime` and `Deadlines` (the clock), `STUCK_LIMIT`, `Budget` and `MaxFaults` (faults), `MaxFailedSends` and `MaxAborts` are the bounds; deadlock is not checked
in the `Saga`, publisher, `WalletLedger` and `WalletCreation` runs, which stop when all work is done.
Calls of `updateBalanceWithLedger` meet in a row or a key: the five calls have every
pair that can (same key, same row and type, opposite signs, different rows). Of three
requests for one wallet, one can be in the check, one wait and one roll back.

**Fairness.** `TX_FairSpec`: time passes (`tick`), the cron starts the job, and
a recovery that is due again and again is carried out in the end (strong
fairness per transfer and status read: the job meets each row every ten seconds,
but a failing database or a restart may take it away in between; a recovery that
failed for ever would be another matter, and with `STUCK_LIMIT` of them the job would
read nothing else). `FairSpec` of
`Saga`: the wallet service's publisher polls on a timer, and Kafka redelivers to its handlers
until an offset is committed; nothing is assumed of the transaction service, clients, timeouts
or operators, and no debit needs them to settle. The
publisher: polls are started and end, and the client ends every send.
`WalletLedger` and `WalletCreation`: a statement that need not wait is executed.

## 4. What the violated runs say

1. A PENDING timeout does not mean that there was no debit (`saga-timeout.service.ts:100`).
   The status lags behind the ledger; the saga then credits the receiver of a FAILED transfer.
2. A DEBITED timeout does not mean that there was no credit (`saga-timeout.service.ts:161`).
   The refund comes on top of the credit.
3. A failed debit may have to be rolled back (`docs/SPECS.md:433`): redelivery tries again. (So
   it may after an overlapping delivery of `transfer.initiated`, which announces as failed the
   debit that another delivery has made.)
4. `updateBalanceWithLedger` does not always return the existing entry for a transaction id that
   was processed (`W/domain/repositories/wallet.repository.ts:20`, `docs/SPECS.md:16`): a call that
   overlaps the first throws, and the `catch` of `handleWalletDebited` announces a failed credit.
   A COMPLETED transfer is refunded by an overlapping delivery alone.
5. The publisher locks no row (`outbox-publisher.service.ts:55`).
6. A failed publish is not retried (`outbox-publisher.service.ts:28`).

The contract the program does keep (`SagaContract`, checked as `KeepsContract`)
is weaker than the documents: the status only moves forward and never runs ahead
of the money, each leg happens at most once and only after the debit; but credit
and refund do not exclude each other.

## 5. Proofs

`TransactionServiceProofs` proves, for every `Transfers`, `WalletIds` and
`Requests`, and for any delivery of events, from the assumptions
`RequestsAssumption`, `TimeAssumption` and `NoTransferAssumption`, whatever the deadlines
and the limit of the query:

- `TX_TypeCorrect`, `TX_AnnouncesOnce`, `TX_CompensatesOnce`: `TX_Spec => []...`
- `TX_TerminalIsFinal`: `TX_Spec => [][...]_txVars`

The inductive invariant is `TX_Inv == TX_TypeOK /\ AnnouncedOnce /\
CompensatedOnce`. It needs no strengthening beyond the conjunction: the rows of
the outbox are determined by the transfers table, and each update of a status
writes the rows it calls for in the same step. The argument is one lemma per
kind of step: creation, confirmation (PENDING to DEBITED), an end without
refund (`EndKeepsInv`, four callers), the DEBITED timeout, publication, and steps
that leave both tables alone; `InsertAddsRow` and `SetStatusEffect` say once what
a write changes. Finality does not need the invariant: every guarded update asks
for a status that is in flight.

`WalletLedgerProofs` proves, for any `Calls` with any `Arguments`, from
`CallsAssumption` and `WalletsAssumption`: `LedgerTypeCorrect` (no balance is negative
or beyond a bigint), `ReturnedIsAlwaysRecorded`, and `CallsAreSerializable`, that
concurrent calls implement `AtomicCalls`, the calls which `WalletService` and `Saga` are
built on: what they do to the tables, which of them return, and which throw. The invariant adds `RowHeld`: a call past its UPDATE holds the row of its
wallet, what it has written still fits the committed balance, and once past the
unique index no committed entry has its key. That needs both: the row lock keeps
the balance, and two calls with one key have one wallet, so the lock keeps the key
as well. The mapping is the identity on the tables, the outcome of a call that has ended, and for
`overtaken` the calls that have passed the check while the ledger has their key. A commit is the
atomic call, which overtakes those of its key that have passed the check; a check that finds
the entry, a rejection and a failure end a call and leave the tables alone; every other statement is a
stutter.

`WalletCreationProofs` proves, for any `Users` and `Posts`, from `PostsAssumption`:
`CreationTypeCorrect`, `UserHasOneWallet` and `AnswersAreAlwaysTrue`. The two facts that
make the invariant inductive are `KeyHeld` (past its INSERT a request is the only one
of its user there, and no row has its user) and `RowsHaveMakers` (a row was made by
the request that drew its id, which is over, so that whoever is turned away is turned
away for another one's wallet).

`OutboxPublisherProofs` proves, for any `Polls`, `Rows` and bounds, from
`PublisherAssumption`: `PublisherTypeCorrect`, `MarkedIsAlwaysSent` and
`CopiesAreExplained`. `CopiesExplained` is not inductive: while a row is unpublished,
nothing but the polls that hold it limits its copies. The strengthening
`CopiesBounded` counts the holders until the row is published and all polls
afterwards (`Allowance`); `EmittedWasSent` says that what a poll will mark has a copy.
`OldestBounded` is the fact about the query that the batch limit rests on: the rows
with fewer than n rows before them are at most n, since their ranks differ.

`OpenWalletServiceProofs` proves, for any `Transfers`, `Wallets`, `Inputs` and bounds,
from `WalletsAssumption` and `InputsAssumption`: `W_TypeCorrect`,
`W_BalanceIsAccounted`, `W_AnnouncesEntriesOnce` and `W_ProcessedIsRefunded`. The
invariant is `W_Inv == RepositoryInv /\ MemoryInv`, in `WalletServiceProofs`, where
each action is shown to keep it whoever calls it, so that `SagaProofs` can use the
same lemmas. None of the properties is inductive alone:

- A refund that finds a duplicate returns with nothing done, and a letter becomes
  PROCESSED all the same. That is right because the duplicate is a refund:
  `RefundIdsAreApart` (the derived id) and `KeysUnique` (the unique index).
- The entry is announced once because entry and row are written together
  (`EntriesHaveRows`, `RowsHaveEntries`) and an equal entry is never written again.
- What a replay has in memory when it is to be recorded is true (`ReplaysAreRefunded`).

Sums: the library's induction theorems cannot be instantiated (they take an operator),
but well-founded induction over sets can be had from a *set* of subsets
(`SubsetInduction` in `TableProofs`), and with it what `SumFunctionOnSet` does when an
element is added (`SumWith`), for unions and for bounds. `BalanceAccounted` and `MoneyConserved` rest
on these.

`SagaProofs` proves, for any `Transfers`, `Wallets`, `Requests` and `Budget`, from the
assumptions above and `BudgetAssumption`, what the program does under any faults:

| Theorem | Says |
|---|---|
| `SagaTypeCorrect` | `Spec => []TypeOK` |
| `MessagesAreAlwaysTrue`, `LedgerAlwaysMatches`, `StatusIsAlwaysBacked` | the two services agree |
| `WalletsStaySafe` | the properties of `OpenWalletService` hold in the program |
| `ProgramRunsTransactionService`, `TransfersStaySafe` | `Spec => TX_Spec`, and so the properties of `TransactionService` hold in it |
| `ProgramKeepsContract` | `Spec => KeepsContract`: the program implements `SagaContract` |
| `DebitsAreNeverStranded` | `Spec => []DebitNeverStranded` |
| `CompletedIsNeverRefunded` | `Spec => []CompletedNeverRefunded`, if `BigintsSuffice` |
| `TransfersArePaidOnce` | `Spec => []PaidOnce`, if `BigintsSuffice` |
| `MoneyIsConserved` | `Spec => []MoneyConserved`, if `BigintsSuffice` and the wallets are finite |

*The invariant.* `SagaInv == TX_Inv /\ W_Inv /\ BrokerInv /\ FaultsInv /\ TruthInv`.
Neither service reads the other's tables; what each believes of them it was told. So
`LedgerMatchesTransfers` and `StatusBackedByLedger` are not inductive: a step that
debits on `transfer.initiated`, or confirms on `wallet.debited`, does what the payload
says. `MessagesAreTrue` closes the gap: whatever event sits in an outbox, an inbox, a
`catch`, a letter or a replay, the transfer exists with these wallets and this amount,
and the money it speaks of has moved. It stays true because rows and entries are
never removed, which is also why late and repeated deliveries make no message false.

*The steps.* Every action of `Next` is one of four kinds for tables and messages
(`StepKind`): it leaves both tables alone, accepts a transfer, reports on one, or pays. The
invariant and the contract are proved once per kind, not once per action.

*No debit is stranded.* Inductive with `SagaInv`, seen as `InHand`: when a handler ends,
it has paid, or left a row or a letter; when it throws, the event stays in the inbox. A
credit taken for a repetition has been made, or is of a wallet that pays itself.

*What a failed handler means.* The last three theorems hold while `FailedIsNotMoved`: no
error of the database, and no overlapping delivery, has come between. Both make a handler fail
whose money has moved, and then the refund comes on top of the credit (`Repetition.cfg` shows it
for an overlap). The guard is in the properties themselves; redelivery after a handler has
ended, republication, loss, restarts and timeouts are not excluded by it.

*Completed is never refunded, and nobody is paid twice.* The strengthening `RefundsJustified`:
while `FailedIsNotMoved`, a refund is asked for, or made, only for a transfer that will not
complete (`NeverCompletes`): one whose receiver does not exist, or one that the timeout job
failed as DEBITED (`TimedOutDebited`, which is final). This needs that a credit fails for want
of a receiver only, hence of room:
`BigintsSuffice` says that the largest bigint holds every entry that all transfers can
make (a transfer makes two entries of one wallet at most), and `ThereIsRoom` derives
from `BalanceAccounted` that no credit or refund then overflows. PostgreSQL's bigint is
about 9.2e18; the `Saga` runs meet the hypothesis (`MaxBalance` is chosen for it), and
`WalletService.cfg`, where nothing depends on it, has overflow.

*Money is conserved.* `Undisturbed` adds to `FailedIsNotMoved` that no message was lost and no
transfer timed out as DEBITED; a timeout of a PENDING one moves no money and is allowed. Then
refunds only return what has no receiver (`OnlyReturns`), `DebitNeverStranded` gives every debit
its credit or refund once all is quiet, never both (`LegsCancel`), and the balances are the seed
and the signed entries (`BalancesAddUp`). Without `Undisturbed` it is false: in the run
`Repetition` a credited transfer is refunded, in `DebitedTimeout` it is about to be.

**Only model-checked.** Liveness: `EveryTransferEnds`, `DebitSettles`, `EveryRowPublished`,
`EveryCallEnds`, `UserServed` and `EveryPostAnswered`. TLAPS has no rules for fairness and
ENABLED here. Each invariant and action property of a passing run has a theorem.

## 6. Not modelled

Read-only endpoints, DTO mapping, health checks, dependency injection, schema
synchronisation and containers have no behaviour of their own.
`outbox.repository.impl.ts`, `findLedgerEntry`, and `save` and `updateStatus` of the transfer
repository have no caller.

Amounts are exact in the model. In the program an amount is a JavaScript number: it is
written as the shortest decimal that reads back as the same number, balances are
added up by PostgreSQL, and only the balance that `GET /wallets/:id` shows is rounded
(`transformers.ts`), above 2^53.

Nothing relates two requests of a client: one that is sent again, because its answer
was lost, makes a second transfer (`createTransfer` draws the id), and two equal
requests are two transfers in the model as well.

The publisher's one step in `Saga` (`publish`) stands for the polls of
`OutboxPublisher`; its faults "republish" and "lost" are what `CopiesExplained` and
`FailedPublishRetried` show of them. There is no refinement between the two: when a row
is marked matters to no other step, and a mapping would have to foresee it.

## 7. Plan

All safety properties that the runs check are proved. What is left:

1. Weaker hypotheses for the three theorems that have any: `CompletedIsNeverRefunded`
   asks for room in every wallet, where the receiver's would do.
2. Refinements not stated yet: that the wallet service inside `Saga` implements
   `OpenWalletService` (with `MaxFailures` lifted), as the transaction service does
   `TX_Spec`.
3. The safety part of the liveness arguments: that a step which must happen stays
   enabled until it does (`EveryCallEnds`: the lock order; `EveryTransferEnds`: rows
   ahead of a stuck one only become fewer).
