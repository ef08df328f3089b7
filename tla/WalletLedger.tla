---------------------------- MODULE WalletLedger ----------------------------
(***************************************************************************)
(* updateBalanceWithLedger statement by statement.  Calls of it run at the *)
(* same time: consumers before and after a rebalance, replays, handlers of *)
(* different topics.  Each is a transaction at READ COMMITTED: it reads    *)
(* what others have committed, an UPDATE waits for the row and looks at it *)
(* again, and the unique index on (wallet_id, transaction_id) is the last  *)
(* word on duplicates.                                                     *)
(*                                                                         *)
(* balance, ledger and walletOutbox are the committed tables; what a call  *)
(* has written and not committed is its own.                               *)
(***************************************************************************)
EXTENDS WalletRepository

CONSTANTS
    Calls,      \* the calls that may run, each once; a repetition is another
    Arguments,  \* the arguments of each call
    NoCall      \* holder of a row nobody has locked

Argument == [walletId : WalletIds, transactionId : TransactionId,
             amount : Nat \ {0}, type : LedgerEntryType, event : Event]

ASSUME CallsAssumption == /\ Arguments \in [Calls -> Argument]
                          /\ NoCall \notin Calls

VARIABLES
    pc,       \* the last statement each call has executed
    holder,   \* the call that has locked each wallet's row
    written   \* the balance each call has written to its row

callVars   == <<pc, holder, written>>
ledgerVars == <<repositoryVars, callVars>>

walletOf(c) == Arguments[c].walletId
txnOf(c)    == Arguments[c].transactionId
amountOf(c) == Arguments[c].amount
typeOf(c)   == Arguments[c].type

Init ==
    /\ Repository_Init
    /\ pc = [c \in Calls |-> "called"]
    /\ holder = [w \in Wallets |-> NoCall]
    /\ written = [c \in Calls |-> 0]

\* The call ends, and its locks are released.
release(c) == holder' = [w \in Wallets |-> IF holder[w] = c THEN NoCall
                                                            ELSE holder[w]]

\* A slip: the connection goes back to the pool without a rollback.
rollback_leaked(c) == UNCHANGED <<repositoryVars, holder, written>>

\* The transaction is rolled back.
rollback(c) ==
    /\ release(c)
    /\ UNCHANGED <<repositoryVars, written>>

\* The caller sees why the call cannot be made.
throw(c) == pc' = [pc EXCEPT ![c] = "threw"] /\ rollback(c)

SameKey(c, d) == walletOf(c) = walletOf(d) /\ txnOf(c) = txnOf(d)

\* A slip: the check reads entries that are not committed yet.
duplicateSeen_dirty(c) ==
    \/ isDuplicate(walletOf(c), txnOf(c))
    \/ \E d \in Calls \ {c} : pc[d] = "inserted" /\ SameKey(c, d)

duplicateSeen(c) == isDuplicate(walletOf(c), txnOf(c))

\* The idempotency check; for a duplicate the transaction ends here.
check(c) ==
    /\ pc[c] = "called"
    /\ pc' = [pc EXCEPT ![c] = IF duplicateSeen(c) THEN "returned"
                                                   ELSE "checked"]
    /\ UNCHANGED <<repositoryVars, holder, written>>

\* A slip: the UPDATE does not wait for the row.
rowFree_always(c) == TRUE

\* The UPDATE locks the row, waiting for the call that has it.
rowFree(c) == holder[walletOf(c)] = NoCall

\* The relative UPDATE, on the balance as it is when the row is locked.  A row
\* that does not match, or overflows, as committed is not waited for.
update(c) ==
    LET w == walletOf(c)
    IN  /\ pc[c] = "checked"
        /\ \/ /\ Affected(w, amountOf(c), typeOf(c))
              /\ rowFree(c)
              /\ pc' = [pc EXCEPT ![c] = "updated"]
              /\ holder' = [holder EXCEPT ![w] = c]
              /\ written' = [written EXCEPT ![c] =
                               newBalance(w, amountOf(c), typeOf(c))]
              /\ UNCHANGED repositoryVars
           \/ /\ ~Affected(w, amountOf(c), typeOf(c))
              /\ throw(c)

\* A slip: the index is not unique.
indexRejects_never(c) == FALSE

indexRejects(c) == isDuplicate(walletOf(c), txnOf(c))

\* The INSERT of the ledger entry; an equal key another call has inserted and
\* not committed makes it wait.
insert(c) ==
    /\ pc[c] = "updated"
    /\ \A d \in Calls \ {c} : ~(pc[d] = "inserted" /\ SameKey(c, d))
    /\ IF indexRejects(c)
       THEN throw(c)
       ELSE /\ pc' = [pc EXCEPT ![c] = "inserted"]
            /\ UNCHANGED <<repositoryVars, holder, written>>

\* The INSERT of the outbox row and the commit.  The answer to the commit may
\* be lost: for the caller the call has failed although the money has moved.
commit(c) ==
    /\ pc[c] = "inserted"
    /\ balance' = [balance EXCEPT ![walletOf(c)] = written[c]]
    /\ ledger' = ledger \cup {[walletId |-> walletOf(c),
                               transactionId |-> txnOf(c),
                               type |-> typeOf(c), amount |-> amountOf(c)]}
    /\ walletOutbox' = Insert(walletOutbox, Arguments[c].event)
    /\ \E answer \in {"returned", "failed"} : pc' = [pc EXCEPT ![c] = answer]
    /\ release(c)
    /\ UNCHANGED written

\* The database fails a statement, or the process stops.
fail(c) ==
    /\ pc[c] \in {"called", "checked", "updated", "inserted"}
    /\ pc' = [pc EXCEPT ![c] = "failed"]
    /\ rollback(c)

Next == \E c \in Calls :
          check(c) \/ update(c) \/ insert(c) \/ commit(c) \/ fail(c)

\* A statement that can be executed is executed.
Spec == /\ Init /\ [][Next]_ledgerVars
        /\ \A c \in Calls :
             WF_ledgerVars(check(c) \/ update(c) \/ insert(c) \/ commit(c))

-----------------------------------------------------------------------------
(* Properties.                                                             *)

\* Types of the tables and of the calls.
TypeOK ==
    /\ balance \in [Wallets -> 0 .. MaxBalance]
    /\ \A l \in ledger : l \in LedgerEntry
    /\ \A r \in walletOutbox : r \in OutboxRow
    /\ IsFiniteSet(walletOutbox)
    /\ pc \in [Calls -> {"called", "checked", "updated", "inserted",
                         "returned", "threw", "failed"}]
    /\ holder \in [Wallets -> Calls \cup {NoCall}]
    /\ written \in [Calls -> 0 .. MaxBalance]

\* What the callers see of the calls: how each has ended, and which of those
\* that run have passed the check before an entry of their key was committed.
Ended == {"returned", "threw", "failed"}

Atomic == INSTANCE AtomicCalls
            WITH outcome   <- [c \in Calls |-> IF pc[c] \in Ended
                                              THEN pc[c] ELSE "running"],
                 overtaken <- {c \in Calls : /\ pc[c] \in {"checked", "updated"}
                                            /\ isDuplicate(walletOf(c), txnOf(c))}

\* The calls are as good as atomic: whatever they interleave, wait for or
\* abort, the tables only change by a whole call, whose duplicate check and
\* balance check hold at the moment it commits, and a call throws only for the
\* tables as they are then or because another of its key has overtaken it.
CallsAreAtomic == Atomic!Spec

\* A call that returns tells the truth: the ledger has an entry for its
\* wallet and transaction id, its own or the one it took for a duplicate.
ReturnedIsRecorded ==
    \A c \in Calls :
      pc[c] = "returned" => isDuplicate(walletOf(c), txnOf(c))

\* No call waits for ever, since a call holds one row and waits for none
\* while it does, and every end of a call releases it.
EveryCallEnds == \A c \in Calls : <>(pc[c] \in Ended)
=============================================================================
