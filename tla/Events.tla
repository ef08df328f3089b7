------------------------------- MODULE Events -------------------------------
(***************************************************************************)
(* The contract the two services share (libs/common): the transfers and    *)
(* wallet ids they talk about, the events of the saga, and the outbox rows *)
(* that carry them.  Timestamps, log lines and the wording of reasons are  *)
(* left out: a reason is the label of the code path that wrote it.         *)
(***************************************************************************)
EXTENDS Naturals, FiniteSets

CONSTANTS
    Transfers,  \* transfer ids; each is handed out once, by uuidv7()
    WalletIds,  \* wallet ids a client may name, existing or not
    Requests    \* the bodies of POST /transfers that clients send

\* What the validation pipe lets through: a positive amount.  The check that
\* the wallets differ compares the ids as the client spelled them, and a uuid
\* column takes more than one spelling of a uuid: it keeps no wallet from
\* paying itself.
CreateTransferDto ==
    [senderWalletId : WalletIds, receiverWalletId : WalletIds,
     amount : Nat \ {0}]

ASSUME RequestsAssumption == Requests \subseteq CreateTransferDto

DebitError          == "debit error"
CreditError         == "credit error"
TimeoutPending      == "saga timeout: debit not processed"
TimeoutDebited      == "saga timeout: credit not processed"
TimeoutCompensation == "saga timeout: triggering compensation"
NoReason            == "null"

FailureReason == {DebitError, CreditError, TimeoutPending, TimeoutDebited,
                  TimeoutCompensation}

-----------------------------------------------------------------------------
(* Events.  The topic stands for the event type: OUTBOX_EVENT_TO_TOPIC is  *)
(* one to one.                                                             *)

TransferInitiated(t, r) ==
    [topic |-> "transfer.initiated", transferId |-> t,
     senderWalletId |-> r.senderWalletId,
     receiverWalletId |-> r.receiverWalletId, amount |-> r.amount]

WalletDebited(t, wallet, amount, receiver) ==
    [topic |-> "wallet.debited", transferId |-> t, walletId |-> wallet,
     amount |-> amount, receiverWalletId |-> receiver]

WalletDebitFailed(t, wallet, reason) ==
    [topic |-> "wallet.debit-failed", transferId |-> t, walletId |-> wallet,
     reason |-> reason]

WalletCredited(t, wallet, amount) ==
    [topic |-> "wallet.credited", transferId |-> t, walletId |-> wallet,
     amount |-> amount]

WalletCreditFailed(t, wallet, reason, sender, amount) ==
    [topic |-> "wallet.credit-failed", transferId |-> t, walletId |-> wallet,
     reason |-> reason, senderWalletId |-> sender, amount |-> amount]

WalletRefunded(t, wallet, amount) ==
    [topic |-> "wallet.refunded", transferId |-> t, walletId |-> wallet,
     amount |-> amount]

TransferCompleted(t) == [topic |-> "transfer.completed", transferId |-> t]

TransferFailed(t, reason) ==
    [topic |-> "transfer.failed", transferId |-> t, reason |-> reason]

\* Every event the saga can put on a topic.
Event ==
    [topic : {"transfer.initiated"}, transferId : Transfers,
     senderWalletId : WalletIds, receiverWalletId : WalletIds,
     amount : Nat \ {0}]
      \cup [topic : {"wallet.debited"}, transferId : Transfers,
            walletId : WalletIds, amount : Nat \ {0},
            receiverWalletId : WalletIds]
      \cup [topic : {"wallet.debit-failed"}, transferId : Transfers,
            walletId : WalletIds, reason : FailureReason]
      \cup [topic : {"wallet.credited"}, transferId : Transfers,
            walletId : WalletIds, amount : Nat \ {0}]
      \cup [topic : {"wallet.credit-failed"}, transferId : Transfers,
            walletId : WalletIds, reason : FailureReason,
            senderWalletId : WalletIds, amount : Nat \ {0}]
      \cup [topic : {"wallet.refunded"}, transferId : Transfers,
            walletId : WalletIds, amount : Nat \ {0}]
      \cup [topic : {"transfer.completed"}, transferId : Transfers]
      \cup [topic : {"transfer.failed"}, transferId : Transfers,
            reason : FailureReason]
=============================================================================
