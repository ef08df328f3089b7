--------------------------- MODULE WalletService ---------------------------
(***************************************************************************)
(* The wallet service (apps/wallet-service): its Kafka handlers and its    *)
(* dead letter queue, over the tables of WalletRepository.                 *)
(*                                                                         *)
(* A handler attempts one movement of money and, in a catch that takes any *)
(* error, a passing one of the database as much as a missing wallet,       *)
(* writes a row or a letter instead.  The attempt and the answer to its    *)
(* failure are two transactions; in between the handler holds the event.   *)
(***************************************************************************)
EXTENDS WalletRepository, Functions

CONSTANT MaxReplays  \* bound on the replays under way at a time

VARIABLES
    failing,      \* events whose attempt has failed and is not yet answered
    deadLetters,  \* the dead_letters table
    replays       \* replays of a letter that are under way

walletVars == <<balance, ledger, walletOutbox, deadLetters, failing, replays>>

DeadLetterStatus == {"PENDING", "PROCESSED", "FAILED"}

\* The uuid of a letter is its payload and how many letters had it before.
DeadLetter == [payload : Event, copy : Nat, status : DeadLetterStatus]

\* A replay has read the letter, when the refund was still to be made
\* ("calls") or was made already ("repeats"); then the refund is attempted.
Replay == [payload : Event, copy : Nat,
           step : {"calls", "repeats", "refunded", "failed"}]

W_Init == Repository_Init /\ failing = {} /\ deadLetters = {} /\ replays = {}

-----------------------------------------------------------------------------
(* KafkaEventHandler and DlqService.                                       *)

\* handleTransferInitiated debits the sender.
debit(e) ==
    [walletId |-> e.senderWalletId,
     transactionId |-> transferTransactionId(e.transferId),
     amount |-> e.amount, type |-> "DEBIT",
     event |-> WalletDebited(e.transferId, e.senderWalletId, e.amount,
                             e.receiverWalletId)]

\* handleWalletDebited credits the receiver.
credit(e) ==
    [walletId |-> e.receiverWalletId,
     transactionId |-> transferTransactionId(e.transferId),
     amount |-> e.amount, type |-> "CREDIT",
     event |-> WalletCredited(e.transferId, e.receiverWalletId, e.amount)]

\* handleWalletCreditFailed, and a replay, refund the sender.
refund(e) ==
    [walletId |-> e.senderWalletId,
     transactionId |-> generateRefundTransactionId(e.transferId),
     amount |-> e.amount, type |-> "REFUND",
     event |-> WalletRefunded(e.transferId, e.senderWalletId, e.amount)]

Movement(e) == CASE e.topic = "transfer.initiated"   -> debit(e)
                 [] e.topic = "wallet.debited"       -> credit(e)
                 [] e.topic = "wallet.credit-failed" -> refund(e)

\* The call of updateBalanceWithLedger returns.
moveMoney(e) ==
    LET m == Movement(e)
    IN  updateBalanceWithLedger(m.walletId, m.transactionId, m.amount, m.type,
                                m.event)

MovementIsMade(e) == isDuplicate(Movement(e).walletId, Movement(e).transactionId)

MovementThrows(e, overtaken) ==
    LET m == Movement(e)
    IN  Throws(m.walletId, m.transactionId, m.amount, m.type, overtaken)

\* The call throws.  A database error may be a commit whose answer was lost.
moveMoneyFails(e, dbError, overtaken) ==
    \/ dbError /\ moveMoney(e)
    \/ (dbError \/ MovementThrows(e, overtaken)) /\ UNCHANGED repositoryVars

\* A handler that returns without having caught anything.
W_handle(e) ==
    /\ moveMoney(e)
    /\ UNCHANGED <<failing, deadLetters, replays>>

\* A handler comes to its catch.  Of the three attempts to refund only what
\* they leave behind counts: nothing, or the money of a lost answer.
W_catch(e, dbError) ==
    /\ moveMoneyFails(e, dbError, FALSE)
    /\ failing' = failing \cup {e}
    /\ UNCHANGED <<deadLetters, replays>>

\* Two handlers of e have passed the check: one moves the money and returns,
\* and the other, overtaken, comes to its catch.  A refund has a second try,
\* which finds the entry.
W_overtake(e) ==
    /\ e.topic # "wallet.credit-failed"
    /\ ~MovementIsMade(e)
    /\ moveMoney(e)
    /\ failing' = failing \cup {e}
    /\ UNCHANGED <<deadLetters, replays>>

\* x is done with; others are where it was, and S does not count them.
Leave(S, x, others) == IF others THEN S ELSE S \ {x}

debitFailed(e) ==
    WalletDebitFailed(e.transferId, e.senderWalletId, DebitError)

\* A slip: a failed credit is announced as a credit.
creditFailed_credited(e) ==
    WalletCredited(e.transferId, e.receiverWalletId, e.amount)

\* It carries the sender and the amount, for the refund.
creditFailed(e) ==
    WalletCreditFailed(e.transferId, e.receiverWalletId, CreditError,
                       e.walletId, e.amount)

\* A slip: an exhausted refund is logged and forgotten.
routeToDlq_dropped(e) == UNCHANGED deadLetters

routeToDlq(e) ==
    deadLetters' = deadLetters \cup
        {[payload |-> e,
          copy |-> Cardinality({d \in deadLetters : d.payload = e}),
          status |-> "PENDING"]}

\* The catch writes its row or its letter, and the handler returns.
W_answer(e, others) ==
    /\ e \in failing
    /\ \/ /\ e.topic = "transfer.initiated"
          /\ writeOutboxEntry(debitFailed(e))
          /\ UNCHANGED deadLetters
       \/ /\ e.topic = "wallet.debited"
          /\ writeOutboxEntry(creditFailed(e))
          /\ UNCHANGED deadLetters
       \/ /\ e.topic = "wallet.credit-failed"
          /\ routeToDlq(e)
          /\ UNCHANGED repositoryVars
    /\ failing' = Leave(failing, e, others)
    /\ UNCHANGED replays

\* That write fails as well: the handler throws and the event is redelivered.
W_abandon(e, others) ==
    /\ e \in failing
    /\ failing' = Leave(failing, e, others)
    /\ UNCHANGED <<repositoryVars, deadLetters, replays>>

-----------------------------------------------------------------------------
(* DlqController.replay: read the letter, attempt the refund, record what  *)
(* came of it.  Replays of one letter may run at the same time.            *)

\* getById, and the check that the letter is not PROCESSED.
replay(d) ==
    /\ d \in deadLetters
    /\ d.status # "PROCESSED"
    /\ replays' = replays \cup
         {[payload |-> d.payload, copy |-> d.copy,
           step |-> IF MovementIsMade(d.payload) THEN "repeats" ELSE "calls"]}
    /\ UNCHANGED <<repositoryVars, failing, deadLetters>>

\* The one attempt to refund, overtaken if the refund has been made since.
replayRefund(p, dbError, others) ==
    /\ p \in replays
    /\ p.step \in {"calls", "repeats"}
    /\ \E step \in {"refunded", "failed"} :
         /\ IF step = "refunded"
            THEN ~dbError /\ moveMoney(p.payload)
            ELSE moveMoneyFails(p.payload, dbError, p.step = "calls")
         /\ replays' = Leave(replays, p, others) \cup {[p EXCEPT !.step = step]}
    /\ UNCHANGED <<failing, deadLetters>>

\* A slip: the letter is marked PROCESSED whatever came of the refund.
replayStatus_processed(p, dbError) == IF dbError THEN "FAILED" ELSE "PROCESSED"

\* markProcessed is in the try block too, so when it fails the letter of a
\* refund that was made ends FAILED.
replayStatus(p, dbError) ==
    IF p.step = "refunded" /\ ~dbError THEN "PROCESSED" ELSE "FAILED"

\* markProcessed or markFailed: an UPDATE by id, whatever the status is now.
markReplayed(p, dbError, others) ==
    /\ p \in replays
    /\ p.step \in {"refunded", "failed"}
    /\ deadLetters' =
         {IF d.payload = p.payload /\ d.copy = p.copy
          THEN [d EXCEPT !.status = replayStatus(p, dbError)]
          ELSE d : d \in deadLetters}
    /\ replays' = Leave(replays, p, others)
    /\ UNCHANGED <<repositoryVars, failing>>

\* markFailed fails as well: the operator sees an error, the letter stays.
abandonReplay(p, others) ==
    /\ p \in replays
    /\ p.step \in {"refunded", "failed"}
    /\ replays' = Leave(replays, p, others)
    /\ UNCHANGED <<repositoryVars, failing, deadLetters>>

ReplaysBounded == Cardinality(replays) <= MaxReplays

\* The process stops, between a failure and its answer, or between a refund
\* and its recording.
W_restart ==
    /\ failing # {} \/ replays # {}
    /\ failing' = {}
    /\ replays' = {}
    /\ UNCHANGED <<repositoryVars, deadLetters>>

-----------------------------------------------------------------------------
(* What the ledger says of a transfer.                                     *)

Moved(t, type) == \E l \in ledger : l.transactionId.of = t /\ l.type = type

Debited(t)  == Moved(t, "DEBIT")
Credited(t) == Moved(t, "CREDIT")
Refunded(t) == Moved(t, "REFUND")

-----------------------------------------------------------------------------
(* Properties.                                                             *)

\* Types of the tables and of what is in memory; a balance is a bigint
\* that satisfies CHECK (balance >= 0).
W_TypeOK ==
    /\ balance \in [Wallets -> 0 .. MaxBalance]
    /\ \A l \in ledger : l \in LedgerEntry
    /\ \A r \in walletOutbox : r \in OutboxRow
    /\ \A e \in failing : e \in Event
    /\ \A d \in deadLetters : d \in DeadLetter
    /\ \A p \in replays : p \in Replay
    /\ IsFiniteSet(ledger) /\ IsFiniteSet(walletOutbox)
    /\ IsFiniteSet(deadLetters)

\* What a ledger entry does to its wallet.
SignedAmount(l) == IF l.type = "DEBIT" THEN 0 - l.amount ELSE l.amount

Entries(w) == {l \in ledger : l.walletId = w}

\* The ledger accounts for every balance: whatever is redelivered, fails or
\* is replayed, a balance is the seed plus the entries of the wallet.
BalanceAccounted ==
    \A w \in Wallets :
      balance[w] = Seed[w] + SumFunction([l \in Entries(w) |-> SignedAmount(l)])

FailureRows ==
    {r \in walletOutbox : r.event.topic \in {"wallet.debit-failed",
                                             "wallet.credit-failed"}}

\* The event updateBalanceWithLedger writes with a ledger entry.
TopicOf(l) == CASE l.type = "DEBIT"  -> "wallet.debited"
                [] l.type = "CREDIT" -> "wallet.credited"
                [] l.type = "REFUND" -> "wallet.refunded"

RowsOf(l) == {r \in walletOutbox : /\ r.event.topic = TopicOf(l)
                                   /\ r.event.transferId = l.transactionId.of
                                   /\ r.event.walletId = l.walletId}

\* Money moves once and is announced once: a wallet has one entry per
\* transaction id, exactly one event announces it with its amount, and no
\* success is announced that the ledger does not hold.
EntryAnnouncedOnce ==
    /\ \A l \in ledger :
         /\ Cardinality(RowsOf(l)) = 1
         /\ \A r \in RowsOf(l) : r.event.amount = l.amount
         /\ \A m \in ledger :
              (m.walletId = l.walletId /\ m.transactionId = l.transactionId)
                => m = l
    /\ walletOutbox = FailureRows \cup UNION {RowsOf(l) : l \in ledger}

\* A letter is only reported PROCESSED once the money is back, whatever
\* other replays, handlers and crashes run between refund and recording.
ProcessedMeansRefunded ==
    \A d \in deadLetters :
      d.status = "PROCESSED" => Refunded(d.payload.transferId)
=============================================================================
