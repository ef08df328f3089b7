-------------------------- MODULE WalletRepository --------------------------
(***************************************************************************)
(* The wallet service's tables and the transaction that moves money:       *)
(* updateBalanceWithLedger changes a balance, writes the ledger entry that *)
(* justifies it and the event that announces it, all or nothing.           *)
(***************************************************************************)
EXTENDS Outbox, Integers

CONSTANTS
    Wallets,     \* the wallets that exist; other wallet ids are unknown
    Seed,        \* their balances before the first transfer
    MaxBalance   \* the largest bigint: a larger sum is a database error

ASSUME WalletsAssumption == /\ Wallets \subseteq WalletIds
                            /\ MaxBalance \in Nat
                            /\ Seed \in [Wallets -> 0 .. MaxBalance]

VARIABLES
    balance,      \* wallets.balance, by wallet id
    ledger,       \* the wallet_ledger_entries table
    walletOutbox  \* the outbox table of the wallet service

repositoryVars == <<balance, ledger, walletOutbox>>

LedgerEntryType == {"DEBIT", "CREDIT", "REFUND"}

\* A debit and a credit carry the transfer id, a refund an id derived from it
\* that is always the same and is no transfer's id.
transferTransactionId(t)       == [of |-> t, refund |-> FALSE]
generateRefundTransactionId(t) == [of |-> t, refund |-> TRUE]

TransactionId == [of : Transfers, refund : BOOLEAN]

LedgerEntry == [walletId : Wallets, transactionId : TransactionId,
                type : LedgerEntryType, amount : Nat \ {0}]

Repository_Init ==
    /\ balance = Seed
    /\ ledger = {}
    /\ walletOutbox = {}

\* A slip: neither the check nor a unique index stops a repetition.
isDuplicate_unchecked(w, txn) == FALSE

\* The idempotency check, by wallet and transaction id, whatever the type.
isDuplicate(w, txn) ==
    \E l \in ledger : l.walletId = w /\ l.transactionId = txn

\* A slip: the UPDATE of a debit forgets "balance >= amount".
Affected_uncovered(w, amount, type) ==
    w \in Wallets /\ (type # "DEBIT" => balance[w] + amount <= MaxBalance)

\* The relative UPDATE affects one row: the wallet exists, a debit is
\* covered, a sum fits in a bigint.
Affected(w, amount, type) ==
    /\ w \in Wallets
    /\ IF type = "DEBIT" THEN balance[w] >= amount
                         ELSE balance[w] + amount <= MaxBalance

\* A slip: a refund is subtracted.
newBalance_sign(w, amount, type) ==
    IF type = "CREDIT" THEN balance[w] + amount ELSE balance[w] - amount

newBalance(w, amount, type) ==
    IF type = "DEBIT" THEN balance[w] - amount ELSE balance[w] + amount

\* A slip: a duplicate is announced again.
returnDuplicate_announced(e) ==
    /\ walletOutbox' = Insert(walletOutbox, e)
    /\ UNCHANGED <<balance, ledger>>

\* For a duplicate the transaction returns what is there and writes nothing.
returnDuplicate(e) == UNCHANGED repositoryVars

\* The transaction returns.
updateBalanceWithLedger(w, txn, amount, type, e) ==
    \/ isDuplicate(w, txn) /\ returnDuplicate(e)
    \/ /\ ~isDuplicate(w, txn)
       /\ Affected(w, amount, type)
       /\ balance' = [balance EXCEPT ![w] = newBalance(w, amount, type)]
       /\ ledger' = ledger \cup {[walletId |-> w, transactionId |-> txn,
                                  type |-> type, amount |-> amount]}
       /\ walletOutbox' = Insert(walletOutbox, e)

\* The transaction throws and is rolled back: wallet not found, insufficient
\* balance or overflow.  A call is overtaken when another with its key commits
\* after it has passed the check: it throws although the entry is there, on
\* the unique index, or on the balance its UPDATE finds.
Throws(w, txn, amount, type, overtaken) ==
    \/ overtaken /\ isDuplicate(w, txn)
    \/ ~isDuplicate(w, txn) /\ ~Affected(w, amount, type)

\* A transaction of its own, for events that no ledger entry goes with.
writeOutboxEntry(e) ==
    /\ walletOutbox' = Insert(walletOutbox, e)
    /\ UNCHANGED <<balance, ledger>>

W_markPublished(r) ==
    /\ r \in Unpublished(walletOutbox)
    /\ walletOutbox' = MarkPublished(walletOutbox, r)
    /\ UNCHANGED <<balance, ledger>>
=============================================================================
