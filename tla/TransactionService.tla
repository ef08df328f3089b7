------------------------- MODULE TransactionService -------------------------
(***************************************************************************)
(* The transaction service (apps/transaction-service): the transfers       *)
(* table, its outbox, the five Kafka handlers and the saga timeout job.    *)
(*                                                                         *)
(* Alone, the module is an open system: TX_Next lets any event about an    *)
(* existing transfer arrive at any time, in any order, any number of       *)
(* times.  Saga closes it with the wallet service and the broker.          *)
(***************************************************************************)
EXTENDS Outbox

CONSTANTS
    NoTransfer,  \* no row with this transfer id
    Deadlines,   \* the values timeout_at may get
    MaxTime,     \* bound on the clock: later deadlines never pass
    STUCK_LIMIT  \* how many rows one job reads: 100 in the code

ASSUME TimeAssumption == /\ Deadlines \subseteq Nat
                         /\ MaxTime \in Nat
                         /\ STUCK_LIMIT \in Nat \ {0}

VARIABLES
    transfers,  \* the transfers table, by transfer id
    txOutbox,   \* the outbox table of the transaction service
    now,        \* the clock the timeout job reads
    stuck       \* rows findStuckTransfers read and the job has yet to recover

txVars == <<transfers, txOutbox, now, stuck>>

TransferStatus == {"PENDING", "DEBITED", "COMPLETED", "FAILED"}
InFlight       == {"PENDING", "DEBITED"}
Terminal       == {"COMPLETED", "FAILED"}

Transfer ==
    [senderWalletId : WalletIds, receiverWalletId : WalletIds,
     amount : Nat \ {0}, status : TransferStatus, timeoutAt : Nat,
     failureReason : FailureReason \cup {NoReason}]

ASSUME NoTransferAssumption == NoTransfer \notin Transfer

Created == {t \in Transfers : transfers[t] # NoTransfer}

\* The rows an UPDATE ... WHERE status IN S touches.
StatusIn(t, S) == t \in Created /\ transfers[t].status \in S

TX_Init ==
    /\ transfers = [t \in Transfers |-> NoTransfer]
    /\ txOutbox = {}
    /\ now = 0
    /\ stuck = {}

-----------------------------------------------------------------------------
(* TransferService.                                                        *)

\* The timeout is taken from the clock before the transaction: rows need not
\* appear in the order of their timeouts, and one may be overdue when it does.
createTransfer(t, r, timeoutAt) ==
    /\ t \notin Created
    /\ transfers' = [transfers EXCEPT ![t] =
         [senderWalletId |-> r.senderWalletId,
          receiverWalletId |-> r.receiverWalletId, amount |-> r.amount,
          status |-> "PENDING", timeoutAt |-> timeoutAt,
          failureReason |-> NoReason]]
    /\ txOutbox' = Insert(txOutbox, TransferInitiated(t, r))
    /\ UNCHANGED <<now, stuck>>

-----------------------------------------------------------------------------
(* KafkaEventHandler.                                                      *)

SetStatus(t, new, reason) ==
    transfers' = [transfers EXCEPT ![t].status = new,
                                   ![t].failureReason = reason]

\* A slip: the UPDATE forgets the expected status.
updateTransferStatus_unguarded(t, expected, new) ==
    /\ SetStatus(t, new, NoReason)
    /\ UNCHANGED txOutbox

updateTransferStatus(t, expected, new) ==
    /\ IF StatusIn(t, {expected}) THEN SetStatus(t, new, NoReason)
                                  ELSE UNCHANGED transfers
    /\ UNCHANGED txOutbox

\* A slip: the row is written although the UPDATE affected nothing.
updateStatusWithOutbox_unchecked(t, expected, new, reason, e) ==
    /\ IF StatusIn(t, {expected}) THEN SetStatus(t, new, reason)
                                  ELSE UNCHANGED transfers
    /\ txOutbox' = Insert(txOutbox, e)

\* One transaction: the outbox row is written only if the guarded UPDATE
\* affected the transfer.
updateStatusWithOutbox(t, expected, new, reason, e) ==
    IF StatusIn(t, {expected})
    THEN /\ SetStatus(t, new, reason)
         /\ txOutbox' = Insert(txOutbox, e)
    ELSE UNCHANGED <<transfers, txOutbox>>

TX_handleWalletDebited(e) ==
    updateTransferStatus(e.transferId, "PENDING", "DEBITED")

TX_handleWalletDebitFailed(e) ==
    updateStatusWithOutbox(e.transferId, "PENDING", "FAILED", e.reason,
                           TransferFailed(e.transferId, e.reason))

\* A slip: a credit that overtakes its debit completes a PENDING transfer.
TX_handleWalletCredited_early(e) ==
    IF StatusIn(e.transferId, InFlight)
    THEN /\ SetStatus(e.transferId, "COMPLETED", NoReason)
         /\ txOutbox' = Insert(txOutbox, TransferCompleted(e.transferId))
    ELSE UNCHANGED <<transfers, txOutbox>>

TX_handleWalletCredited(e) ==
    updateStatusWithOutbox(e.transferId, "DEBITED", "COMPLETED", NoReason,
                           TransferCompleted(e.transferId))

TX_handleWalletCreditFailed(e) ==
    updateStatusWithOutbox(e.transferId, "DEBITED", "FAILED", e.reason,
                           TransferFailed(e.transferId, e.reason))

TX_handleWalletRefunded(e) == UNCHANGED <<transfers, txOutbox>>

TX_handle(e) ==
    /\ \/ e.topic = "wallet.debited"       /\ TX_handleWalletDebited(e)
       \/ e.topic = "wallet.debit-failed"  /\ TX_handleWalletDebitFailed(e)
       \/ e.topic = "wallet.credited"      /\ TX_handleWalletCredited(e)
       \/ e.topic = "wallet.credit-failed" /\ TX_handleWalletCreditFailed(e)
       \/ e.topic = "wallet.refunded"      /\ TX_handleWalletRefunded(e)
    /\ UNCHANGED <<now, stuck>>

-----------------------------------------------------------------------------
(* SagaTimeoutService.  The job reads the stuck rows in one query and then *)
(* recovers them one by one, each by the status it READ; jobs started      *)
(* every ten seconds may overlap, so a read may add to rows still waiting. *)

\* The clock moves on to the next deadline, as long as there is one.
tick ==
    /\ now < MaxTime
    /\ \E t \in Created : transfers[t].timeoutAt >= now
    /\ now' = now + 1
    /\ UNCHANGED <<transfers, txOutbox, stuck>>

\* A slip: the query forgets the status.
stuckTransfers_anyStatus == {t \in Created : transfers[t].timeoutAt < now}

\* WHERE status IN ('PENDING', 'DEBITED') AND timeout_at < now.
stuckTransfers ==
    {t \in Created : StatusIn(t, InFlight) /\ transfers[t].timeoutAt < now}

\* ORDER BY timeout_at LIMIT n: n of them, or all, and none left out that is
\* older than one taken; equal timeouts come in any order.
Oldest(S, n) ==
    {B \in SUBSET S :
       /\ \/ Cardinality(B) = n
          \/ B = S /\ Cardinality(S) < n
       /\ \A t \in B, u \in S \ B :
            transfers[t].timeoutAt <= transfers[u].timeoutAt}

findStuckTransfers ==
    /\ \E batch \in Oldest(stuckTransfers, STUCK_LIMIT) :
         stuck' = stuck \cup {[transferId |-> t, status |-> transfers[t].status] :
                                 t \in batch}
    /\ stuck' # stuck
    /\ UNCHANGED <<transfers, txOutbox, now>>

handleStuckPending(t) ==
    updateStatusWithOutbox(t, "PENDING", "FAILED", TimeoutPending,
                           TransferFailed(t, TimeoutPending))

\* A slip: the two wallet ids change places.
compensation_swapped(t) ==
    WalletCreditFailed(t, transfers[t].senderWalletId, TimeoutCompensation,
                       transfers[t].receiverWalletId, transfers[t].amount)

\* wallet.credit-failed makes the wallet service refund the sender.
compensation(t) ==
    WalletCreditFailed(t, transfers[t].receiverWalletId, TimeoutCompensation,
                       transfers[t].senderWalletId, transfers[t].amount)

\* A slip: the refund is asked for although another step was faster.
handleStuckDebited_unchecked(t) ==
    IF StatusIn(t, {"DEBITED"})
    THEN /\ SetStatus(t, "FAILED", TimeoutDebited)
         /\ txOutbox' = Insert(Insert(txOutbox,
                                      TransferFailed(t, TimeoutDebited)),
                               compensation(t))
    ELSE /\ txOutbox' = Insert(txOutbox, compensation(t))
         /\ UNCHANGED transfers

handleStuckDebited(t) ==
    IF StatusIn(t, {"DEBITED"})
    THEN /\ SetStatus(t, "FAILED", TimeoutDebited)
         /\ txOutbox' = Insert(Insert(txOutbox,
                                      TransferFailed(t, TimeoutDebited)),
                               compensation(t))
    ELSE UNCHANGED <<transfers, txOutbox>>

recoverStuckTransfer(s) ==
    /\ s \in stuck
    /\ \/ s.status = "PENDING" /\ handleStuckPending(s.transferId)
       \/ s.status = "DEBITED" /\ handleStuckDebited(s.transferId)
    /\ stuck' = stuck \ {s}
    /\ UNCHANGED now

\* The recovery of one transfer throws: logged, and the job goes on.
skipStuckTransfer(s) ==
    /\ s \in stuck
    /\ stuck' = stuck \ {s}
    /\ UNCHANGED <<transfers, txOutbox, now>>

\* The process stops: the rows the job had read are gone, the tables stay.
TX_restart ==
    /\ stuck # {}
    /\ stuck' = {}
    /\ UNCHANGED <<transfers, txOutbox, now>>

TX_markPublished(r) ==
    /\ r \in Unpublished(txOutbox)
    /\ txOutbox' = MarkPublished(txOutbox, r)
    /\ UNCHANGED <<transfers, now, stuck>>

-----------------------------------------------------------------------------
(* The service in an environment that may deliver any event about any      *)
(* created transfer, whatever was delivered before.                        *)

\* What the wallet service can have said about t, and the service's own
\* compensation, which comes back on wallet.credit-failed.
EventsAbout(t) ==
    LET s == transfers[t].senderWalletId
        r == transfers[t].receiverWalletId
        a == transfers[t].amount
    IN  {WalletDebited(t, s, a, r), WalletDebitFailed(t, s, DebitError),
         WalletCredited(t, r, a), WalletCreditFailed(t, r, CreditError, s, a),
         WalletCreditFailed(t, r, TimeoutCompensation, s, a),
         WalletRefunded(t, s, a)}

TX_Next ==
    \/ \E t \in Transfers, r \in Requests, at \in Deadlines :
         createTransfer(t, r, at)
    \/ \E t \in Created : \E e \in EventsAbout(t) : TX_handle(e)
    \/ tick
    \/ findStuckTransfers
    \/ \E s \in stuck : recoverStuckTransfer(s) \/ skipStuckTransfer(s)
    \/ TX_restart
    \/ \E r \in txOutbox : TX_markPublished(r)

\* Time passes and the job is started every ten seconds.  A recovery fails
\* only when the database does and a restart loses what was read, so a
\* recovery that is due again and again is carried out in the end: strong
\* fairness, per transfer and status read.
TX_Fairness ==
    /\ WF_txVars(tick)
    /\ WF_txVars(findStuckTransfers)
    /\ \A t \in Transfers, s \in InFlight :
         SF_txVars(recoverStuckTransfer([transferId |-> t, status |-> s]))

TX_Spec     == TX_Init /\ [][TX_Next]_txVars
TX_FairSpec == TX_Spec /\ TX_Fairness

-----------------------------------------------------------------------------
(* Properties.                                                             *)

\* Types of the tables and of what the timeout job holds in memory.
TX_TypeOK ==
    /\ transfers \in [Transfers -> Transfer \cup {NoTransfer}]
    /\ \A r \in txOutbox : r \in OutboxRow
    /\ IsFiniteSet(txOutbox)
    /\ now \in Nat
    /\ \A s \in stuck : s.transferId \in Created /\ s.status \in InFlight
    /\ stuck \subseteq [transferId : Transfers, status : InFlight]

\* The rows that announce the end of t: transfer.completed, transfer.failed.
TerminalRows(t) ==
    {r \in txOutbox : /\ r.event.transferId = t
                      /\ r.event.topic \in {"transfer.completed",
                                            "transfer.failed"}}

\* The announcement a terminal transfer should have made.
Announcement(t) == IF transfers[t].status = "COMPLETED"
                   THEN TransferCompleted(t)
                   ELSE TransferFailed(t, transfers[t].failureReason)

\* The end of a transfer is announced when it happens, once, and for the
\* reason the row records, however handlers, overlapping timeout jobs,
\* restarts and redelivered events interleave (updateStatusWithOutbox and
\* the two recoveries share one guarded UPDATE).
AnnouncedOnce ==
    \A t \in Transfers :
      \/ ~StatusIn(t, Terminal) /\ TerminalRows(t) = {}
      \/ /\ StatusIn(t, Terminal)
         /\ \E r \in TerminalRows(t) : /\ TerminalRows(t) = {r}
                                       /\ r.event = Announcement(t)

\* The rows that ask the wallet service to refund t.
CompensationRows(t) ==
    {r \in txOutbox : /\ r.event.transferId = t
                      /\ r.event.topic = "wallet.credit-failed"}

\* The timeout job asks for a refund exactly when it is the one that failed
\* a DEBITED transfer, once, to the wallet and for the amount of the
\* transfer: never because a row it had read as DEBITED has moved on since.
CompensatedOnce ==
    \A t \in Transfers :
      IF StatusIn(t, {"FAILED"}) /\ transfers[t].failureReason = TimeoutDebited
      THEN \E r \in CompensationRows(t) : /\ CompensationRows(t) = {r}
                                          /\ r.event = compensation(t)
      ELSE CompensationRows(t) = {}

\* A terminal transfer never changes, whatever event arrives late and
\* whatever a recovery read before.
TerminalIsFinal ==
    [][\A t \in Transfers :
         StatusIn(t, Terminal) => transfers'[t] = transfers[t]]_txVars

\* Every transfer whose timeout passes ends, even if no event about it ever
\* arrives and although a job reads only the oldest rows: the timeout job is
\* the backstop of every lost or dropped message, across failed recoveries
\* and restarts, and no row keeps another out of the query for ever.
EveryTransferEnds ==
    \A t \in Transfers :
      StatusIn(t, InFlight) /\ transfers[t].timeoutAt < MaxTime
        ~> StatusIn(t, Terminal)
=============================================================================
