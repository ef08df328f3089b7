-------------------------------- MODULE Saga --------------------------------
(***************************************************************************)
(* The whole program: the two services, their outbox publishers and the    *)
(* broker between them.  Every transaction, handler, publication, timeout  *)
(* recovery and dead letter replay is a step, in any order the program     *)
(* allows.  Faults are drawn from a budget, so that a run can say which    *)
(* ones it is about; without fault steps the system may still be as slow   *)
(* as it likes, since a timeout may elapse at any moment.                  *)
(***************************************************************************)
EXTENDS TransactionService, WalletService, Kafka

CONSTANTS
    Budget,    \* how many faults of each kind a behaviour may have
    MaxFaults  \* and of how many kinds they may be

VARIABLE faults  \* how many are left

vars == <<transfers, txOutbox, now, stuck, balance, ledger, walletOutbox,
          failing, deadLetters, replays, inbox, faults>>

FaultKinds ==
    {"redelivery",   \* a handler has ended, and the event comes again
     "overlap",      \* the event comes again while a handler of it runs: a
                     \* rebalance, or two copies of it, with two consumers
     "republish",    \* an event is sent again: overlapping polls, or a crash
                     \* before published_at is written
     "lost",         \* an outbox row is marked published, and was not sent or
                     \* reached its topic before a group had joined
     "database",     \* the database fails a statement, or the answer to one
     "restart"}      \* a service loses what it holds in memory

ASSUME BudgetAssumption == Budget \in [FaultKinds -> Nat]

\* No fault of this kind has happened yet.
Without(k) == faults[k] = Budget[k]

FaultsBounded == Cardinality({k \in FaultKinds : ~Without(k)}) <= MaxFaults

\* The step has the faults of K.
Spend(K) ==
    IF K = {}
    THEN UNCHANGED faults
    ELSE /\ \A k \in K : faults[k] > 0
         /\ faults' = [k \in FaultKinds |-> IF k \in K THEN faults[k] - 1
                                                       ELSE faults[k]]
         /\ FaultsBounded'

When(fault, k) == IF fault THEN {k} ELSE {}

Init ==
    /\ TX_Init
    /\ W_Init
    /\ Kafka_Init
    /\ faults = Budget

-----------------------------------------------------------------------------
(* The publishers.  An emit is not awaited: its failure is never seen, and *)
(* the row is marked all the same.  A group without committed offsets      *)
(* starts behind what its topics already hold: it misses a message that    *)
(* another group may get.                                                  *)

publish(r, mark, unmarked) ==
    \/ Spend({}) /\ emit(r.event) /\ mark
    \/ Spend({"republish"}) /\ emit(r.event) /\ unmarked
    \/ /\ Spend({"lost"})
       /\ \E gs \in (SUBSET Subscribers(r.event)) \ {Subscribers(r.event)} :
            emitTo(gs, r.event)
       /\ mark

TX_processOutbox(r) ==
    /\ r \in Unpublished(txOutbox)
    /\ publish(r, TX_markPublished(r), UNCHANGED txVars)
    /\ UNCHANGED walletVars

W_processOutbox(r) ==
    /\ r \in Unpublished(walletOutbox)
    /\ publish(r, W_markPublished(r), UNCHANGED repositoryVars)
    /\ UNCHANGED <<failing, deadLetters, replays>>
    /\ UNCHANGED txVars

-----------------------------------------------------------------------------
(* The consumers.  A handler of the transaction service that throws has    *)
(* rolled back and is called again, so only its calls that return are      *)
(* steps; a debit or credit of the wallet service that throws is caught,   *)
(* and W_endCatch is the end of that catch block.                          *)

acknowledge(g, e, redelivered) ==
    IF redelivered THEN UNCHANGED inbox ELSE commitOffset(g, e)

TX_consume(e) ==
    \E redelivered \in BOOLEAN :
      /\ e \in inbox["transactionService"]
      /\ Spend(When(redelivered, "redelivery"))
      /\ acknowledge("transactionService", e, redelivered)
      /\ TX_handle(e)
      /\ UNCHANGED walletVars

\* While e is in failing one handler of it, or more, is in its catch.  Of two
\* that overlap either may be the one whose offset counts.
W_consume(e) ==
    /\ e \in inbox["walletService"]
    /\ \/ \E redelivered \in BOOLEAN :
            /\ Spend(When(redelivered, "redelivery")
                       \cup When(e \in failing, "overlap"))
            /\ acknowledge("walletService", e, redelivered)
            /\ W_handle(e)
       \/ \E dbError \in BOOLEAN :
            /\ e \notin failing
            /\ Spend(When(dbError, "database"))
            /\ W_catch(e, dbError)
            /\ UNCHANGED inbox
       \/ \E redelivered \in BOOLEAN :
            /\ Spend({"overlap"})
            /\ acknowledge("walletService", e, redelivered)
            /\ W_overtake(e)
    /\ UNCHANGED txVars

\* A handler leaves its catch: it returns, or throws for redelivery.
W_endCatch(e) ==
    /\ \E others \in BOOLEAN :
         \/ \E redelivered \in BOOLEAN :
              /\ Spend(When(redelivered, "redelivery")
                         \cup When(others, "overlap"))
              /\ acknowledge("walletService", e, redelivered)
              /\ W_answer(e, others)
         \/ /\ Spend({"database"} \cup When(others, "overlap"))
            /\ W_abandon(e, others)
            /\ UNCHANGED inbox
    /\ UNCHANGED txVars

-----------------------------------------------------------------------------
(* Requests, timers, operators and crashes.                                *)

TX_local ==
    /\ \/ \E t \in Transfers, r \in Requests, at \in Deadlines :
            createTransfer(t, r, at)
       \/ tick
       \/ findStuckTransfers
       \/ \E s \in stuck : recoverStuckTransfer(s)
    /\ Spend({})
    /\ UNCHANGED <<walletVars, inbox>>

TX_fault ==
    /\ \/ TX_restart /\ Spend({"restart"})
       \/ (\E s \in stuck : skipStuckTransfer(s)) /\ Spend({"database"})
    /\ UNCHANGED <<walletVars, inbox>>

W_local ==
    /\ \/ W_restart /\ Spend({"restart"})
       \/ (\E d \in deadLetters : replay(d)) /\ ReplaysBounded' /\ Spend({})
       \/ \E p \in replays, others \in BOOLEAN :
            \/ Spend({"database"}) /\ abandonReplay(p, others)
            \/ \E dbError \in BOOLEAN :
                 /\ Spend(When(dbError, "database"))
                 /\ \/ replayRefund(p, dbError, others) /\ ReplaysBounded'
                    \/ markReplayed(p, dbError, others)
    /\ UNCHANGED <<txVars, inbox>>

Next ==
    \/ TX_local
    \/ TX_fault
    \/ W_local
    \/ \E r \in txOutbox : TX_processOutbox(r)
    \/ \E r \in walletOutbox : W_processOutbox(r)
    \/ \E e \in inbox["transactionService"] : TX_consume(e)
    \/ \E e \in inbox["walletService"] : W_consume(e)
    \/ \E e \in failing : W_endCatch(e)

Spec == Init /\ [][Next]_vars

\* The wallet service's publisher polls on a timer, and its messages come again
\* until their offsets are committed.  Nothing is assumed of the transaction
\* service, clients, timeouts or operators.
Fairness ==
    /\ WF_vars(\E r \in walletOutbox : W_processOutbox(r))
    /\ WF_vars(\/ \E e \in inbox["walletService"] : W_consume(e)
               \/ \E e \in failing : W_endCatch(e))

FairSpec == Spec /\ Fairness

-----------------------------------------------------------------------------
(* Properties.                                                             *)

\* Types of the whole state.
TypeOK ==
    /\ TX_TypeOK
    /\ W_TypeOK
    /\ Kafka_TypeOK
    /\ faults \in [FaultKinds -> Nat]

\* The events that have yet to be handled by group g, sent or not.
Pending(g) ==
    inbox[g] \cup
      {e \in {r.event : r \in Unpublished(txOutbox)
                               \cup Unpublished(walletOutbox)} :
         e.topic \in Subscriptions[g]}

PendingAbout(g, topic, t) ==
    \E e \in Pending(g) : e.topic = topic /\ e.transferId = t

\* Money only moves for a transfer somebody asked for: each ledger entry is
\* of a wallet, a type and an amount the transfers table justifies, and
\* nothing is credited or refunded that was not debited before.  The two
\* services never read each other's tables; only payloads carry this.
LedgerMatchesTransfers ==
    \A l \in ledger :
      LET t == l.transactionId.of
      IN  /\ t \in Created
          /\ l.amount = transfers[t].amount
          /\ l.walletId = IF l.type = "CREDIT"
                          THEN transfers[t].receiverWalletId
                          ELSE transfers[t].senderWalletId
          /\ l.transactionId.refund = (l.type = "REFUND")
          /\ Debited(t)

\* A status is only ever as far as the money is: DEBITED and COMPLETED have
\* a debit, COMPLETED a credit, and a recovery only acts on what it read.
StatusBackedByLedger ==
    /\ \A t \in Created :
         /\ transfers[t].status \in {"DEBITED", "COMPLETED"} => Debited(t)
         /\ transfers[t].status = "COMPLETED" => Credited(t)
    /\ \A s \in stuck : s.status = "DEBITED" => Debited(s.transferId)

\* Every event the program has written, wherever it is now: in an outbox, on
\* its way, with a handler or a replay, or in a letter.
Messages ==
    {r.event : r \in txOutbox \cup walletOutbox}
      \cup (UNION {inbox[g] : g \in Groups}) \cup failing
      \cup {d.payload : d \in deadLetters} \cup {p.payload : p \in replays}

\* What e says is so: somebody asked for this transfer, with these wallets
\* and this amount, and the money e speaks of has moved.
IsTrue(e) ==
    LET t == e.transferId
    IN  /\ t \in Created
        /\ \/ e = TransferInitiated(t, transfers[t])
           \/ e \in EventsAbout(t)
           \/ e.topic \in {"transfer.completed", "transfer.failed"}
        /\ e.topic \in {"wallet.debited", "wallet.credited",
                        "wallet.credit-failed", "wallet.refunded"} => Debited(t)
        /\ e.topic = "wallet.credited" => Credited(t)
        /\ e.topic = "wallet.refunded" => Refunded(t)

\* Handlers never look up what an event tells them, and need not: whatever is
\* delivered again, late or out of order, is still so when it arrives.
MessagesAreTrue == \A e \in Messages : IsTrue(e)

\* The credit of a transfer of a wallet to itself has the wallet and the
\* transaction id of its debit: it is taken for a repetition and dropped.
ToItself(t) == /\ t \in Created
               /\ transfers[t].senderWalletId = transfers[t].receiverWalletId

\* A debit is never stranded: until the receiver has the money or the sender
\* has it back, a message that will move it is still on its way to the wallet
\* service or a dead letter waits for the operator.  Holds as long as no row
\* is marked published without having been sent; a transfer of a wallet to
\* itself has only the timeout to get its money back.
DebitNeverStranded ==
    Without("lost") =>
      \A t \in Transfers :
        Debited(t) =>
          \/ ToItself(t)
          \/ Credited(t) \/ Refunded(t)
          \/ PendingAbout("walletService", "wallet.debited", t)
          \/ PendingAbout("walletService", "wallet.credit-failed", t)
          \/ \E d \in deadLetters : d.payload.transferId = t

\* A handler that fails has not moved its money: no error of the database
\* comes between, and no delivery overlaps another of the same event.  (And a
\* credit that fails for want of its wallet fails again on every try, unlike
\* one that is too large for now; here every sum fits in a bigint.)
FailedIsNotMoved == Without("database") /\ Without("overlap")

\* A completed transfer is never refunded, nor is a refund under way, even
\* with timeouts, redelivery, loss and restarts: as long as a failed handler
\* means a failed movement of money, a refund needs a FAILED transfer or one
\* that is not credited.
CompletedNeverRefunded ==
    FailedIsNotMoved =>
      \A t \in Transfers :
        StatusIn(t, {"COMPLETED"}) =>
          /\ ~Refunded(t)
          /\ ~PendingAbout("walletService", "wallet.credit-failed", t)
          /\ \A d \in deadLetters : d.payload.transferId # t

\* The timeout job has failed t, and asked for its refund.
TimedOutDebited(t) == /\ StatusIn(t, {"FAILED"})
                      /\ transfers[t].failureReason = TimeoutDebited

\* A transfer is not both credited and refunded, however often its events come
\* again and whoever replays its letters: as long as a failed handler means a
\* failed movement, only a timeout of a DEBITED row can ask for the refund of
\* a transfer that is, or will be, credited.
PaidOnce ==
    FailedIsNotMoved =>
      \A t \in Transfers : Credited(t) /\ Refunded(t) => TimedOutDebited(t)

\* Nothing is on its way between the services.
Quiet == /\ \A g \in Groups : inbox[g] = {}
         /\ Unpublished(txOutbox) \cup Unpublished(walletOutbox) = {}

SumOfBalances(b) == SumFunctionOnSet(b, Wallets)

\* Nothing but repetitions and crashes has come between: no timeout of a
\* DEBITED row asked for a refund, nothing was lost.
Undisturbed ==
    /\ FailedIsNotMoved
    /\ Without("lost")
    /\ \A t \in Transfers : ~TimedOutDebited(t)

\* With nothing on its way the wallets hold what they held at the start, if
\* the behaviour is undisturbed and no wallet pays itself: an event that comes
\* again once its handler has ended changes nothing.
MoneyConserved ==
    (Quiet /\ Undisturbed /\ \A t \in Transfers : ~ToItself(t))
      => SumOfBalances(balance) = SumOfBalances(Seed)

\* Every debit is settled in the end: the receiver is credited, the sender
\* refunded, or a dead letter asks for the operator, unless a message is lost
\* or a wallet pays itself.
DebitSettles ==
    \A t \in Transfers :
      Debited(t) ~> \/ Credited(t) \/ Refunded(t)
                    \/ \E d \in deadLetters : d.payload.transferId = t
                    \/ ToItself(t) \/ ~Without("lost")

-----------------------------------------------------------------------------
(* The program keeps the contract of SagaContract, with the transfers      *)
(* table for the status and the ledger for the movements of money.         *)

StatusOf(t) == IF t \in Created THEN transfers[t].status ELSE "NONE"
LegsOf(t)   == {l.type : l \in {m \in ledger : m.transactionId.of = t}}

Contract == INSTANCE SagaContract
              WITH status <- [t \in Transfers |-> StatusOf(t)],
                   legs   <- [t \in Transfers |-> LegsOf(t)]

\* Each step of the program is one step of the contract or none.
KeepsContract == Contract!Spec

-----------------------------------------------------------------------------
(* What comments and documents say of the code, and the code does not do.  *)

\* The step in which t fails for this reason.
FailsNow(t, reason) == /\ StatusIn(t, InFlight)
                       /\ StatusIn(t, {"FAILED"})'
                       /\ transfers'[t].failureReason = reason

\* saga-timeout.service.ts says of a PENDING timeout that "the debit never
\* happened, so we can safely mark it as FAILED".
PendingTimeoutMeansNoDebit ==
    [][\A t \in Created : FailsNow(t, TimeoutPending) => ~Debited(t)]_vars

\* saga-timeout.service.ts says of a DEBITED timeout that "the sender was
\* debited but credit/completion never happened".
DebitedTimeoutMeansNoCredit ==
    [][\A t \in Created : FailsNow(t, TimeoutDebited) => ~Credited(t)]_vars

\* SPECS.md says of a failed debit that no compensation is needed since there
\* is nothing to roll back.
FailedDebitMeansNoDebit ==
    \A t \in Created :
      transfers[t].failureReason = DebitError => ~Debited(t)

\* wallet.repository.ts says of updateBalanceWithLedger that it "returns
\* existing ledger entry if transactionId already processed (idempotency)",
\* and SPECS.md that all operations are idempotent, so that an event may come
\* again at any time.  An overlapping repetition throws, and its handler asks
\* for the refund of a transfer that is paid, and completes.
RepetitionIsHarmless ==
    \A t \in Transfers : ~(StatusIn(t, {"COMPLETED"}) /\ Refunded(t))
=============================================================================
