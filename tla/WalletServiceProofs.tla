------------------------ MODULE WalletServiceProofs ------------------------
(***************************************************************************)
(* What the actions of the wallet service keep, for every set of transfers *)
(* and wallets, whoever calls them: an environment that delivers at will   *)
(* (OpenWalletServiceProofs) or the rest of the program (SagaProofs).      *)
(***************************************************************************)
EXTENDS WalletService, TableProofs

\* The events that move money.
MoneyTopics == {"transfer.initiated", "wallet.debited", "wallet.credit-failed"}

FailureTopics == {"wallet.debit-failed", "wallet.credit-failed"}

-----------------------------------------------------------------------------
(* The invariant: one half is about the tables of the repository, the      *)
(* other about failures, letters and replays.                              *)

RepositoryTypeOK ==
    /\ balance \in [Wallets -> 0 .. MaxBalance]
    /\ \A l \in ledger : l \in LedgerEntry
    /\ \A r \in walletOutbox : r \in OutboxRow
    /\ IsFiniteSet(ledger) /\ IsFiniteSet(walletOutbox)

\* The id of an entry says whether it is a refund: so a repeated refund finds
\* a refund, and a repeated debit or credit one of those.
RefundIdsAreApart ==
    \A l \in ledger : l.transactionId.refund = (l.type = "REFUND")

\* The unique index on (wallet_id, transaction_id).
KeysUnique ==
    \A l, m \in ledger :
      (m.walletId = l.walletId /\ m.transactionId = l.transactionId) => m = l

\* EntryAnnouncedOnce, row by row.
EntriesHaveRows ==
    \A l \in ledger :
      \E r \in walletOutbox : RowsOf(l) = {r} /\ r.event.amount = l.amount

RowsHaveEntries ==
    \A r \in walletOutbox :
      r.event.topic \in FailureTopics \/ \E l \in ledger : r \in RowsOf(l)

RepositoryInv ==
    /\ RepositoryTypeOK
    /\ RefundIdsAreApart
    /\ KeysUnique
    /\ EntriesHaveRows
    /\ RowsHaveEntries
    /\ BalanceAccounted

MemoryTypeOK ==
    /\ \A e \in failing : e \in Event /\ e.topic \in MoneyTopics
    /\ \A d \in deadLetters :
         d \in DeadLetter /\ d.payload.topic = "wallet.credit-failed"
    /\ \A p \in replays :
         p \in Replay /\ p.payload.topic = "wallet.credit-failed"
    /\ IsFiniteSet(deadLetters)

\* What a replay is about to record is true.
ReplaysAreRefunded ==
    \A p \in replays : p.step = "refunded" => Refunded(p.payload.transferId)

MemoryInv ==
    /\ MemoryTypeOK
    /\ ReplaysAreRefunded
    /\ ProcessedMeansRefunded

W_Inv == RepositoryInv /\ MemoryInv

-----------------------------------------------------------------------------
(* What a movement is and what it changes.                                 *)

\* A movement is well typed, and its event announces exactly its entry.
LEMMA MovementFacts ==
    ASSUME NEW e \in Event, e.topic \in MoneyTopics
    PROVE  /\ Movement(e).walletId \in WalletIds
           /\ Movement(e).transactionId \in TransactionId
           /\ Movement(e).transactionId.of = e.transferId
           /\ Movement(e).transactionId.refund = (Movement(e).type = "REFUND")
           /\ Movement(e).amount \in Nat \ {0}
           /\ Movement(e).type \in LedgerEntryType
           /\ Movement(e).event \in Event
           /\ Movement(e).event.topic = TopicOf(Movement(e))
           /\ Movement(e).event.transferId = e.transferId
           /\ Movement(e).event.walletId = Movement(e).walletId
           /\ Movement(e).event.amount = Movement(e).amount
<1>1. CASE e.topic = "transfer.initiated"
  <2>1. /\ e.transferId \in Transfers /\ e.amount \in Nat \ {0}
        /\ e.senderWalletId \in WalletIds /\ e.receiverWalletId \in WalletIds
    BY <1>1 DEF Event
  <2>2. Movement(e) = debit(e)
    BY <1>1 DEF Movement
  <2>. DEFINE a == WalletDebited(e.transferId, e.senderWalletId, e.amount,
                               e.receiverWalletId)
  <2>3. /\ a \in Event
        /\ a.topic = "wallet.debited" /\ a.transferId = e.transferId
        /\ a.walletId = Movement(e).walletId /\ a.amount = e.amount
    BY <2>1, <2>2 DEF debit, WalletDebited, Event
  <2>. HIDE DEF a
  <2>4. /\ Movement(e).event = a /\ Movement(e).amount = e.amount
        /\ Movement(e).type = "DEBIT"
        /\ Movement(e).walletId \in WalletIds
        /\ Movement(e).transactionId = transferTransactionId(e.transferId)
    BY <2>1, <2>2 DEF debit, a
  <2>5. TopicOf(Movement(e)) = "wallet.debited"
    BY <2>4 DEF TopicOf
  <2>6. /\ transferTransactionId(e.transferId) \in TransactionId
        /\ transferTransactionId(e.transferId).of = e.transferId
        /\ transferTransactionId(e.transferId).refund = FALSE
    BY <2>1 DEF transferTransactionId, TransactionId
  <2>. QED
    BY <2>1, <2>3, <2>4, <2>5, <2>6 DEF LedgerEntryType
<1>2. CASE e.topic = "wallet.debited"
  <2>1. /\ e.transferId \in Transfers /\ e.amount \in Nat \ {0}
        /\ e.receiverWalletId \in WalletIds
    BY <1>2 DEF Event
  <2>2. Movement(e) = credit(e)
    BY <1>2 DEF Movement
  <2>. DEFINE a == WalletCredited(e.transferId, e.receiverWalletId, e.amount)
  <2>3. /\ a \in Event
        /\ a.topic = "wallet.credited" /\ a.transferId = e.transferId
        /\ a.walletId = Movement(e).walletId /\ a.amount = e.amount
    BY <2>1, <2>2 DEF credit, WalletCredited, Event
  <2>. HIDE DEF a
  <2>4. /\ Movement(e).event = a /\ Movement(e).amount = e.amount
        /\ Movement(e).type = "CREDIT"
        /\ Movement(e).walletId \in WalletIds
        /\ Movement(e).transactionId = transferTransactionId(e.transferId)
    BY <2>1, <2>2 DEF credit, a
  <2>5. TopicOf(Movement(e)) = "wallet.credited"
    BY <2>4 DEF TopicOf
  <2>6. /\ transferTransactionId(e.transferId) \in TransactionId
        /\ transferTransactionId(e.transferId).of = e.transferId
        /\ transferTransactionId(e.transferId).refund = FALSE
    BY <2>1 DEF transferTransactionId, TransactionId
  <2>. QED
    BY <2>1, <2>3, <2>4, <2>5, <2>6 DEF LedgerEntryType
<1>3. CASE e.topic = "wallet.credit-failed"
  <2>1. /\ e.transferId \in Transfers /\ e.amount \in Nat \ {0}
        /\ e.senderWalletId \in WalletIds
    BY <1>3 DEF Event
  <2>2. Movement(e) = refund(e)
    BY <1>3 DEF Movement
  <2>. DEFINE a == WalletRefunded(e.transferId, e.senderWalletId, e.amount)
  <2>3. /\ a \in Event
        /\ a.topic = "wallet.refunded" /\ a.transferId = e.transferId
        /\ a.walletId = Movement(e).walletId /\ a.amount = e.amount
    BY <2>1, <2>2 DEF refund, WalletRefunded, Event
  <2>. HIDE DEF a
  <2>4. /\ Movement(e).event = a /\ Movement(e).amount = e.amount
        /\ Movement(e).type = "REFUND"
        /\ Movement(e).walletId \in WalletIds
        /\ Movement(e).transactionId = generateRefundTransactionId(e.transferId)
    BY <2>1, <2>2 DEF refund, a
  <2>5. TopicOf(Movement(e)) = "wallet.refunded"
    BY <2>4 DEF TopicOf
  <2>6. /\ generateRefundTransactionId(e.transferId) \in TransactionId
        /\ generateRefundTransactionId(e.transferId).of = e.transferId
        /\ generateRefundTransactionId(e.transferId).refund = TRUE
    BY <2>1 DEF generateRefundTransactionId, TransactionId
  <2>. QED
    BY <2>1, <2>3, <2>4, <2>5, <2>6 DEF LedgerEntryType
<1>. QED
  BY <1>1, <1>2, <1>3 DEF MoneyTopics

\* The entry and the outbox row a movement writes.
EntryOf(e) == [walletId |-> Movement(e).walletId,
               transactionId |-> Movement(e).transactionId,
               type |-> Movement(e).type, amount |-> Movement(e).amount]

RowFor(e, n) == [event |-> e, copy |-> n, published |-> FALSE]

\* The transaction found a repetition and wrote nothing.
Repeats(e) ==
    /\ isDuplicate(Movement(e).walletId, Movement(e).transactionId)
    /\ UNCHANGED repositoryVars

\* The transaction moved the money: a balance, an entry and a row are new.
Moves(e) ==
    /\ EntryOf(e) \in LedgerEntry
    /\ ~isDuplicate(Movement(e).walletId, Movement(e).transactionId)
    /\ balance' = [balance EXCEPT ![EntryOf(e).walletId] =
                     @ + SignedAmount(EntryOf(e))]
    /\ balance[EntryOf(e).walletId] + SignedAmount(EntryOf(e)) \in 0 .. MaxBalance
    /\ ledger' = ledger \cup {EntryOf(e)}
    /\ \E n \in Nat :
         walletOutbox' = walletOutbox \cup {RowFor(Movement(e).event, n)}

\* A call that returns does one or the other.
LEMMA MoveEffect ==
    ASSUME RepositoryTypeOK, NEW e \in Event, e.topic \in MoneyTopics,
           moveMoney(e)
    PROVE  Repeats(e) \/ Moves(e)
<1>. DEFINE m == Movement(e)
            w == m.walletId
<1>1. CASE isDuplicate(w, m.transactionId) /\ returnDuplicate(m.event)
  BY <1>1 DEF Repeats, returnDuplicate
<1>2. CASE /\ ~isDuplicate(w, m.transactionId)
           /\ Affected(w, m.amount, m.type)
           /\ balance' = [balance EXCEPT ![w] = newBalance(w, m.amount, m.type)]
           /\ ledger' = ledger \cup {EntryOf(e)}
           /\ walletOutbox' = Insert(walletOutbox, m.event)
  <2>1. /\ m.transactionId \in TransactionId /\ m.amount \in Nat \ {0}
        /\ m.type \in LedgerEntryType /\ m.event \in Event
    BY MovementFacts
  <2>2. w \in Wallets /\ balance[w] \in 0 .. MaxBalance /\ MaxBalance \in Nat
    BY <1>2, WalletsAssumption DEF Affected, RepositoryTypeOK
  <2>. HIDE DEF m
  <2>3. EntryOf(e) \in LedgerEntry
    BY <2>1, <2>2 DEF EntryOf, LedgerEntry, m
  <2>4. EntryOf(e).walletId = w /\ EntryOf(e).amount = m.amount
        /\ EntryOf(e).type = m.type
    BY DEF EntryOf, m
  <2>5. /\ newBalance(w, m.amount, m.type) = balance[w] + SignedAmount(EntryOf(e))
        /\ newBalance(w, m.amount, m.type) \in 0 .. MaxBalance
    BY <1>2, <2>1, <2>2, <2>4 DEF newBalance, SignedAmount, Affected
  <2>6. \E n \in Nat : walletOutbox' = walletOutbox \cup {RowFor(m.event, n)}
    BY <1>2, InsertAddsRow DEF RowFor, RepositoryTypeOK
  <2>. QED
    BY <1>2, <2>3, <2>4, <2>5, <2>6 DEF Moves, m
<1>. QED
  BY <1>1, <1>2 DEF moveMoney, updateBalanceWithLedger, EntryOf

-----------------------------------------------------------------------------
(* The repository invariant, transaction by transaction.                   *)

\* The sum over the entries of a wallet grows by the entry that is added.
LEMMA EntryAddsUp ==
    ASSUME RepositoryTypeOK, NEW l \in LedgerEntry, l \notin ledger,
           ledger' = ledger \cup {l}, NEW w \in Wallets
    PROVE  SumFunction([k \in Entries(w) |-> SignedAmount(k)])' =
             SumFunction([k \in Entries(w) |-> SignedAmount(k)])
               + IF l.walletId = w THEN SignedAmount(l) ELSE 0
<1>. DEFINE E == Entries(w)
            f == [k \in E |-> SignedAmount(k)]
            g == [k \in E \cup {l} |-> SignedAmount(k)]
<1>1. IsFiniteSet(E)
  BY FS_Subset DEF Entries, RepositoryTypeOK
<1>2. \A k \in E \cup {l} : SignedAmount(k) \in Int
  <2>1. \A k \in E \cup {l} : k.amount \in Nat
    BY DEF Entries, RepositoryTypeOK, LedgerEntry
  <2>. QED
    BY <2>1 DEF SignedAmount
<1>3. SumFunctionOnSet(f, E) \in Int
  BY <1>1, <1>2, SumType
<1>4. CASE l.walletId = w
  <2>1. Entries(w)' = E \cup {l} /\ l \notin E
    BY <1>4 DEF Entries
  <2>2. SumFunctionOnSet(g, E \cup {l}) = SumFunctionOnSet(g, E) + g[l]
    BY <1>1, <1>2, <2>1, SumWith
  <2>3. SumFunctionOnSet(g, E) = SumFunctionOnSet(f, E)
    BY <1>1, SumCongruence
  <2>. QED
    BY <1>4, <2>1, <2>2, <2>3 DEF SumFunction, SignedAmount
<1>5. CASE l.walletId # w
  <2>1. Entries(w)' = E
    BY <1>5 DEF Entries
  <2>. QED
    BY <1>3, <1>5, <2>1 DEF SumFunction, SignedAmount
<1>. QED
  BY <1>4, <1>5

\* A movement, repeated or not, keeps the tables in order: its entry is the
\* first of its key, and no row that was there announces it.
LEMMA MoveKeepsRepository ==
    ASSUME RepositoryInv, NEW e \in Event, e.topic \in MoneyTopics,
           moveMoney(e)
    PROVE  RepositoryInv'
<1>. DEFINE l == EntryOf(e)
<1>1. CASE Repeats(e)
  BY <1>1 DEF Repeats, repositoryVars, RepositoryInv, RepositoryTypeOK,
     RefundIdsAreApart, KeysUnique, EntriesHaveRows, RowsHaveEntries,
     BalanceAccounted, RowsOf, Entries
<1>2. CASE Moves(e)
  <2>1. /\ l \in LedgerEntry /\ ledger' = ledger \cup {l}
        /\ balance' = [balance EXCEPT ![l.walletId] = @ + SignedAmount(l)]
        /\ balance[l.walletId] + SignedAmount(l) \in 0 .. MaxBalance
        /\ \A k \in ledger :
             ~(k.walletId = l.walletId /\ k.transactionId = l.transactionId)
    BY <1>2 DEF Moves, EntryOf, isDuplicate
  <2>2. PICK n \in Nat :
          walletOutbox' = walletOutbox \cup {RowFor(Movement(e).event, n)}
    BY <1>2 DEF Moves
  <2>. DEFINE row == RowFor(Movement(e).event, n)
  <2>3. /\ row \in OutboxRow
        /\ row.event.topic = TopicOf(l)
        /\ row.event.transferId = l.transactionId.of
        /\ row.event.walletId = l.walletId
        /\ row.event.amount = l.amount
        /\ l.transactionId.refund = (l.type = "REFUND")
        /\ l.transactionId \in TransactionId
    BY MovementFacts, NewRowType DEF RowFor, EntryOf, TopicOf
  <2>. HIDE DEF l, row
  <2>4. l \notin ledger
    BY <2>1
  <2>5. RepositoryTypeOK'
    <3>1. IsFiniteSet(ledger') /\ IsFiniteSet(walletOutbox')
      BY <2>1, <2>2, FS_AddElement DEF RepositoryInv, RepositoryTypeOK
    <3>2. balance' \in [Wallets -> 0 .. MaxBalance]
      BY <2>1 DEF RepositoryInv, RepositoryTypeOK
    <3>3. \A r \in walletOutbox' : r \in OutboxRow
      BY <2>2, <2>3 DEF RepositoryInv, RepositoryTypeOK, row
    <3>. QED
      BY <2>1, <3>1, <3>2, <3>3 DEF RepositoryInv, RepositoryTypeOK
  <2>6. RefundIdsAreApart' /\ KeysUnique'
    BY <2>1, <2>3 DEF RepositoryInv, RefundIdsAreApart, KeysUnique
  <2>7. \A k \in ledger : ~(/\ TopicOf(l) = TopicOf(k)
                            /\ l.transactionId.of = k.transactionId.of
                            /\ l.walletId = k.walletId)
    <3>1. SUFFICES ASSUME NEW k \in ledger, TopicOf(l) = TopicOf(k),
                          l.transactionId.of = k.transactionId.of,
                          l.walletId = k.walletId
                   PROVE  FALSE
      OBVIOUS
    <3>2. k.type = l.type
      BY <2>1, <3>1 DEF TopicOf, LedgerEntry, LedgerEntryType, RepositoryInv,
         RepositoryTypeOK
    <3>3. k.transactionId \in TransactionId /\ l.transactionId \in TransactionId
      BY <2>1 DEF LedgerEntry, RepositoryInv, RepositoryTypeOK
    <3>4. k.transactionId.refund = l.transactionId.refund
      BY <2>3, <3>2 DEF RepositoryInv, RefundIdsAreApart
    <3>5. k.transactionId = l.transactionId
      BY <3>1, <3>3, <3>4 DEF TransactionId
    <3>. QED
      BY <2>1, <3>1, <3>5
  <2>8. \A k \in ledger : RowsOf(k)' = RowsOf(k)
    BY <2>2, <2>3, <2>7 DEF RowsOf, row
  <2>9. RowsOf(l)' = {row}
    <3>1. \A r \in walletOutbox :
            ~(/\ r.event.topic = TopicOf(l)
              /\ r.event.transferId = l.transactionId.of
              /\ r.event.walletId = l.walletId)
      <4>1. SUFFICES ASSUME NEW r \in walletOutbox,
                            r.event.topic = TopicOf(l),
                            r.event.transferId = l.transactionId.of,
                            r.event.walletId = l.walletId
                     PROVE  FALSE
        OBVIOUS
      <4>2. r.event.topic \notin FailureTopics
        BY <2>1, <4>1 DEF TopicOf, FailureTopics, LedgerEntry, LedgerEntryType
      <4>3. PICK k \in ledger : r \in RowsOf(k)
        BY <4>2 DEF RepositoryInv, RowsHaveEntries
      <4>. QED
        BY <2>7, <4>1, <4>3 DEF RowsOf
    <3>2. RowsOf(l)' = {r \in walletOutbox \cup {row} :
                          /\ r.event.topic = TopicOf(l)
                          /\ r.event.transferId = l.transactionId.of
                          /\ r.event.walletId = l.walletId}
      BY <2>2 DEF RowsOf, row, TopicOf
    <3>. QED
      BY <2>3, <3>1, <3>2
  <2>10. row \in walletOutbox'
    BY <2>2 DEF row
  <2>11. EntriesHaveRows'
    <3>1. ASSUME NEW k \in ledger'
          PROVE  \E r \in walletOutbox' :
                   RowsOf(k)' = {r} /\ r.event.amount = k.amount
      <4>1. CASE k = l
        BY <2>3, <2>9, <2>10, <4>1
      <4>2. CASE k # l
        <5>1. k \in ledger
          BY <2>1, <4>2
        <5>2. PICK r \in walletOutbox : RowsOf(k) = {r} /\ r.event.amount = k.amount
          BY <5>1 DEF RepositoryInv, EntriesHaveRows
        <5>. QED
          BY <2>2, <2>8, <5>1, <5>2
      <4>. QED
        BY <4>1, <4>2
    <3>. QED
      BY <3>1 DEF EntriesHaveRows
  <2>12. RowsHaveEntries'
    <3>1. ASSUME NEW r \in walletOutbox', r.event.topic \notin FailureTopics
          PROVE  \E k \in ledger' : r \in RowsOf(k)'
      <4>1. CASE r = row
        BY <2>1, <2>9, <4>1
      <4>2. CASE r # row
        BY <2>1, <2>2, <2>8, <3>1, <4>2
           DEF RepositoryInv, RowsHaveEntries, row
      <4>. QED
        BY <4>1, <4>2
    <3>. QED
      BY <3>1 DEF RowsHaveEntries
  <2>13. BalanceAccounted'
    <3>1. SUFFICES ASSUME NEW w \in Wallets
                   PROVE  balance'[w] = Seed[w] +
                            SumFunction([k \in Entries(w) |-> SignedAmount(k)])'
      BY DEF BalanceAccounted
    <3>. DEFINE sum == SumFunction([k \in Entries(w) |-> SignedAmount(k)])
    <3>2. sum' = sum + IF l.walletId = w THEN SignedAmount(l) ELSE 0
      BY <2>1, <2>4, EntryAddsUp DEF RepositoryInv
    <3>3. balance[w] = Seed[w] + sum /\ balance[w] \in Nat /\ Seed[w] \in Nat
      BY WalletsAssumption
         DEF RepositoryInv, RepositoryTypeOK, BalanceAccounted
    <3>4. balance'[w] = balance[w] + IF l.walletId = w THEN SignedAmount(l) ELSE 0
      BY <2>1, <3>3 DEF RepositoryInv, RepositoryTypeOK
    <3>5. sum \in Int /\ SignedAmount(l) \in Int
      <4>1. l.amount \in Nat
        BY <2>1 DEF LedgerEntry
      <4>2. \A k \in Entries(w) : SignedAmount(k) \in Int
        <5>1. \A k \in Entries(w) : k.amount \in Nat
          BY DEF Entries, RepositoryInv, RepositoryTypeOK, LedgerEntry
        <5>. QED
          BY <5>1 DEF SignedAmount
      <4>3. IsFiniteSet(Entries(w))
        BY FS_Subset DEF Entries, RepositoryInv, RepositoryTypeOK
      <4>4. sum \in Int
        BY <4>2, <4>3, SumType DEF SumFunction
      <4>. QED
        BY <4>1, <4>4 DEF SignedAmount
    <3>. HIDE DEF sum
    <3>6. balance'[w] = Seed[w] + sum'
      BY <3>2, <3>3, <3>4, <3>5
    <3>. QED
      BY <3>6 DEF sum
  <2>. QED
    BY <2>5, <2>6, <2>11, <2>12, <2>13 DEF RepositoryInv
<1>. QED
  BY <1>1, <1>2, MoveEffect DEF RepositoryInv

\* A row about a failure announces no entry.
LEMMA FailureRowKeepsRepository ==
    ASSUME RepositoryInv, NEW e \in Event, e.topic \in FailureTopics,
           writeOutboxEntry(e)
    PROVE  RepositoryInv'
<1>1. PICK n \in Nat : walletOutbox' = walletOutbox \cup {RowFor(e, n)}
  BY InsertAddsRow DEF writeOutboxEntry, RowFor, RepositoryInv, RepositoryTypeOK
<1>. DEFINE row == RowFor(e, n)
<1>2. row \in OutboxRow /\ row.event = e
  BY NewRowType DEF RowFor
<1>. HIDE DEF row
<1>3. balance' = balance /\ ledger' = ledger
  BY DEF writeOutboxEntry
<1>4. \A l \in ledger : RowsOf(l)' = RowsOf(l)
  <2>1. \A l \in ledger : TopicOf(l) \notin FailureTopics
    BY DEF TopicOf, FailureTopics, RepositoryInv, RepositoryTypeOK,
       LedgerEntry, LedgerEntryType
  <2>. QED
    BY <1>1, <1>2, <1>3, <2>1 DEF RowsOf, row
<1>5. RepositoryTypeOK'
  BY <1>1, <1>2, <1>3, FS_AddElement DEF RepositoryInv, RepositoryTypeOK, row
<1>6. EntriesHaveRows'
  BY <1>1, <1>3, <1>4 DEF RepositoryInv, EntriesHaveRows
<1>7. RowsHaveEntries'
  BY <1>1, <1>2, <1>3, <1>4 DEF RepositoryInv, RowsHaveEntries, row
<1>8. RefundIdsAreApart' /\ KeysUnique' /\ BalanceAccounted'
  BY <1>3 DEF RepositoryInv, RefundIdsAreApart, KeysUnique, BalanceAccounted,
     Entries
<1>. QED
  BY <1>5, <1>6, <1>7, <1>8 DEF RepositoryInv

\* Publishing a row changes neither what it says nor how many there are.
LEMMA W_MarkKeepsRepository ==
    ASSUME RepositoryInv, NEW r \in walletOutbox, W_markPublished(r)
    PROVE  RepositoryInv'
<1>. DEFINE marked == [r EXCEPT !.published = TRUE]
<1>1. walletOutbox' = (walletOutbox \ {r}) \cup {marked}
  BY DEF W_markPublished, MarkPublished
<1>2. marked.event = r.event
  BY DEF RepositoryInv, RepositoryTypeOK, OutboxRow
<1>. HIDE DEF marked
<1>3. balance' = balance /\ ledger' = ledger
  BY DEF W_markPublished
<1>4. \A l \in ledger :
        RowsOf(l)' = IF r \in RowsOf(l) THEN (RowsOf(l) \ {r}) \cup {marked}
                                        ELSE RowsOf(l)
  BY <1>1, <1>2, <1>3 DEF RowsOf, TopicOf
<1>5. RepositoryTypeOK'
  <2>1. IsFiniteSet(walletOutbox') /\ \A q \in walletOutbox' : q \in OutboxRow
    BY MarkKeepsTypes DEF W_markPublished, RepositoryInv, RepositoryTypeOK
  <2>. QED
    BY <1>3, <2>1 DEF RepositoryInv, RepositoryTypeOK
<1>6. EntriesHaveRows'
  <2>1. ASSUME NEW l \in ledger
        PROVE  \E q \in walletOutbox' :
                 RowsOf(l)' = {q} /\ q.event.amount = l.amount
    <3>1. PICK q \in walletOutbox : RowsOf(l) = {q} /\ q.event.amount = l.amount
      BY DEF RepositoryInv, EntriesHaveRows
    <3>2. CASE q = r
      BY <1>1, <1>2, <1>4, <3>1, <3>2
    <3>3. CASE q # r
      BY <1>1, <1>4, <3>1, <3>3
    <3>. QED
      BY <3>2, <3>3
  <2>. QED
    BY <1>3, <2>1 DEF EntriesHaveRows
<1>7. RowsHaveEntries'
  <2>1. ASSUME NEW q \in walletOutbox', q.event.topic \notin FailureTopics
        PROVE  \E l \in ledger : q \in RowsOf(l)'
    <3>1. CASE q = marked
      BY <1>2, <1>4, <2>1, <3>1 DEF RepositoryInv, RowsHaveEntries
    <3>2. CASE q # marked
      <4>1. q \in walletOutbox /\ q # r
        BY <1>1, <3>2
      <4>. QED
        BY <1>4, <2>1, <4>1 DEF RepositoryInv, RowsHaveEntries
    <3>. QED
      BY <3>1, <3>2
  <2>. QED
    BY <1>3, <2>1 DEF RowsHaveEntries
<1>8. RefundIdsAreApart' /\ KeysUnique' /\ BalanceAccounted'
  BY <1>3 DEF RepositoryInv, RefundIdsAreApart, KeysUnique, BalanceAccounted,
     Entries
<1>. QED
  BY <1>5, <1>6, <1>7, <1>8 DEF RepositoryInv

\* What leaves the tables alone keeps them in order.
LEMMA UnchangedKeepsRepository ==
    ASSUME RepositoryInv, UNCHANGED repositoryVars
    PROVE  RepositoryInv'
  BY DEF repositoryVars, RepositoryInv, RepositoryTypeOK, RefundIdsAreApart,
     KeysUnique, EntriesHaveRows, RowsHaveEntries, BalanceAccounted, RowsOf,
     Entries

\* An attempt that fails has moved the money, or has done nothing.
LEMMA FailureKeepsRepository ==
    ASSUME RepositoryInv, NEW e \in Event, e.topic \in MoneyTopics,
           NEW dbError \in BOOLEAN, NEW overtaken \in BOOLEAN,
           moveMoneyFails(e, dbError, overtaken)
    PROVE  RepositoryInv'
  BY MoveKeepsRepository, UnchangedKeepsRepository DEF moveMoneyFails

-----------------------------------------------------------------------------
(* The memory invariant, action by action.                                 *)

\* The ledger only grows, by whatever a handler or a replay attempts.
LEMMA LedgerGrows ==
    ASSUME RepositoryTypeOK, NEW e \in Event, e.topic \in MoneyTopics,
           NEW dbError \in BOOLEAN, NEW overtaken \in BOOLEAN,
           moveMoney(e) \/ moveMoneyFails(e, dbError, overtaken)
    PROVE  ledger \subseteq ledger'
<1>1. Repeats(e) \/ Moves(e) \/ UNCHANGED repositoryVars
  BY MoveEffect DEF moveMoneyFails
<1>. QED
  BY <1>1 DEF Repeats, Moves, repositoryVars

\* A refund that returns is in the ledger, made now or before.
LEMMA RefundIsRecorded ==
    ASSUME RepositoryInv, NEW e \in Event, e.topic = "wallet.credit-failed",
           moveMoney(e)
    PROVE  Refunded(e.transferId)'
<1>1. Movement(e).transactionId = generateRefundTransactionId(e.transferId)
      /\ Movement(e).type = "REFUND"
  BY DEF Movement, refund
<1>2. e.topic \in MoneyTopics
  BY DEF MoneyTopics
<1>3. CASE Repeats(e)
  <2>1. PICK l \in ledger : l.transactionId = Movement(e).transactionId
    BY <1>3 DEF Repeats, isDuplicate
  <2>2. l.transactionId.of = e.transferId /\ l.transactionId.refund
    BY <1>1, <2>1 DEF generateRefundTransactionId
  <2>3. l.type = "REFUND"
    BY <2>2 DEF RepositoryInv, RefundIdsAreApart
  <2>. QED
    BY <1>3, <2>2, <2>3 DEF Repeats, repositoryVars, Refunded, Moved
<1>4. CASE Moves(e)
  <2>1. /\ EntryOf(e) \in ledger'
        /\ EntryOf(e).transactionId.of = e.transferId
        /\ EntryOf(e).type = "REFUND"
    BY <1>1, <1>4 DEF Moves, EntryOf, generateRefundTransactionId
  <2>. QED
    BY <2>1 DEF Refunded, Moved
<1>. QED
  BY <1>2, <1>3, <1>4, MoveEffect DEF RepositoryInv

\* What is in memory stays true while the ledger grows.
LEMMA GrowthKeepsMemory ==
    ASSUME MemoryInv, ledger \subseteq ledger',
           \A e \in failing' : e \in Event /\ e.topic \in MoneyTopics,
           deadLetters' = deadLetters, replays' \subseteq replays
    PROVE  MemoryInv'
<1>1. \A t : Refunded(t) => Refunded(t)'
  BY DEF Refunded, Moved
<1>. QED
  BY <1>1 DEF MemoryInv, MemoryTypeOK, ReplaysAreRefunded,
     ProcessedMeansRefunded

\* A new letter is PENDING.
LEMMA LetterKeepsMemory ==
    ASSUME MemoryInv, NEW e \in failing, e.topic = "wallet.credit-failed",
           routeToDlq(e), failing' \subseteq failing,
           UNCHANGED <<ledger, replays>>
    PROVE  MemoryInv'
<1>. DEFINE n == Cardinality({d \in deadLetters : d.payload = e})
            letter == [payload |-> e, copy |-> n, status |-> "PENDING"]
<1>1. n \in Nat
  BY FS_Subset, FS_CardinalityType DEF MemoryInv, MemoryTypeOK
<1>2. deadLetters' = deadLetters \cup {letter}
  BY DEF routeToDlq
<1>. HIDE DEF n
<1>3. letter \in DeadLetter
  BY <1>1 DEF DeadLetter, DeadLetterStatus, MemoryInv, MemoryTypeOK
<1>4. letter.payload = e /\ letter.status = "PENDING"
  OBVIOUS
<1>. HIDE DEF letter
<1>5. MemoryTypeOK'
  BY <1>2, <1>3, <1>4, FS_AddElement DEF MemoryInv, MemoryTypeOK
<1>6. ReplaysAreRefunded' /\ ProcessedMeansRefunded'
  BY <1>2, <1>4 DEF MemoryInv, ReplaysAreRefunded, ProcessedMeansRefunded,
     Refunded, Moved
<1>. QED
  BY <1>5, <1>6 DEF MemoryInv

\* A replay that has read its letter has refunded nothing yet.
LEMMA ReplayStartKeepsInv ==
    ASSUME W_Inv, NEW d \in deadLetters, replay(d)
    PROVE  W_Inv'
<1>1. PICK step \in {"calls", "repeats"} :
        replays' = replays \cup {[payload |-> d.payload, copy |-> d.copy,
                                  step |-> step]}
  BY DEF replay
<1>. DEFINE p == [payload |-> d.payload, copy |-> d.copy, step |-> step]
<1>2. d \in DeadLetter
  BY DEF W_Inv, MemoryInv, MemoryTypeOK
<1>3. p \in Replay /\ p.payload = d.payload /\ p.step # "refunded"
  BY <1>2 DEF Replay, DeadLetter
<1>. HIDE DEF p
<1>4. replays' = replays \cup {p}
  BY <1>1 DEF p
<1>5. UNCHANGED <<repositoryVars, failing, deadLetters>>
  BY DEF replay
<1>6. RepositoryInv'
  BY <1>5, UnchangedKeepsRepository DEF W_Inv
<1>7. \A t : Refunded(t)' <=> Refunded(t)
  BY <1>5 DEF repositoryVars, Refunded, Moved
<1>8. MemoryTypeOK'
  BY <1>2, <1>3, <1>4, <1>5 DEF W_Inv, MemoryInv, MemoryTypeOK
<1>9. ReplaysAreRefunded' /\ ProcessedMeansRefunded'
  BY <1>3, <1>4, <1>5, <1>7
     DEF W_Inv, MemoryInv, ReplaysAreRefunded, ProcessedMeansRefunded
<1>. QED
  BY <1>6, <1>8, <1>9 DEF W_Inv, MemoryInv

\* A replay remembers a refund only when there is one.
LEMMA ReplayKeepsInv ==
    ASSUME W_Inv, NEW q \in replays, NEW dbError \in BOOLEAN,
           NEW others \in BOOLEAN, replayRefund(q, dbError, others)
    PROVE  W_Inv'
<1>. DEFINE e == q.payload
<1>1. /\ q \in Replay /\ e \in Event
      /\ e.topic = "wallet.credit-failed" /\ e.topic \in MoneyTopics
  BY DEF W_Inv, MemoryInv, MemoryTypeOK, Replay, MoneyTopics
<1>2. PICK step \in {"refunded", "failed"} :
        /\ IF step = "refunded"
           THEN ~dbError /\ moveMoney(e)
           ELSE moveMoneyFails(e, dbError, q.step = "calls")
        /\ replays' = Leave(replays, q, others) \cup {[q EXCEPT !.step = step]}
  BY DEF replayRefund
<1>. DEFINE p == [q EXCEPT !.step = step]
            refunded == step = "refunded"
<1>3. p \in Replay /\ p.payload = e /\ (p.step = "refunded" <=> refunded)
  BY <1>1 DEF Replay
<1>. HIDE DEF p
<1>4. replays' \subseteq replays \cup {p}
  BY <1>2 DEF p, Leave
<1>5. RepositoryInv'
  BY <1>1, <1>2, MoveKeepsRepository, FailureKeepsRepository DEF W_Inv
<1>6. ledger \subseteq ledger'
  BY <1>1, <1>2, LedgerGrows DEF W_Inv, RepositoryInv
<1>7. refunded => Refunded(e.transferId)'
  BY <1>1, <1>2, RefundIsRecorded DEF W_Inv
<1>8. \A t : Refunded(t) => Refunded(t)'
  BY <1>6 DEF Refunded, Moved
<1>9. failing' = failing /\ deadLetters' = deadLetters
  BY DEF replayRefund
<1>. HIDE DEF e
<1>10. MemoryTypeOK'
  BY <1>1, <1>3, <1>4, <1>9 DEF W_Inv, MemoryInv, MemoryTypeOK
<1>11. ReplaysAreRefunded' /\ ProcessedMeansRefunded'
  BY <1>3, <1>4, <1>7, <1>8, <1>9
     DEF W_Inv, MemoryInv, ReplaysAreRefunded, ProcessedMeansRefunded
<1>. QED
  BY <1>5, <1>10, <1>11 DEF W_Inv, MemoryInv

\* A letter is only marked PROCESSED by a replay that has refunded, and other
\* letters stay as they are.
LEMMA RecordKeepsInv ==
    ASSUME W_Inv, NEW p \in replays, NEW dbError \in BOOLEAN,
           NEW others \in BOOLEAN, markReplayed(p, dbError, others)
    PROVE  W_Inv'
<1>. DEFINE f(d) == IF d.payload = p.payload /\ d.copy = p.copy
                    THEN [d EXCEPT !.status = replayStatus(p, dbError)] ELSE d
<1>1. /\ deadLetters' = {f(d) : d \in deadLetters}
      /\ replays' \subseteq replays /\ failing' = failing
      /\ UNCHANGED repositoryVars
  BY DEF markReplayed, Leave
<1>2. RepositoryInv'
  BY <1>1, UnchangedKeepsRepository DEF W_Inv
<1>3. \A t : Refunded(t)' <=> Refunded(t)
  BY <1>1 DEF repositoryVars, Refunded, Moved
<1>4. replayStatus(p, dbError) \in DeadLetterStatus
  BY DEF replayStatus, DeadLetterStatus
<1>5. replayStatus(p, dbError) = "PROCESSED" => Refunded(p.payload.transferId)
  BY DEF replayStatus, W_Inv, MemoryInv, ReplaysAreRefunded
<1>6. \A d \in deadLetters : /\ f(d) \in DeadLetter
                             /\ f(d).payload = d.payload
                             /\ f(d).status = "PROCESSED" =>
                                  Refunded(d.payload.transferId)
  BY <1>4, <1>5
     DEF W_Inv, MemoryInv, MemoryTypeOK, DeadLetter, ProcessedMeansRefunded
<1>7. IsFiniteSet(deadLetters')
  <2>1. IsFiniteSet(deadLetters)
    BY DEF W_Inv, MemoryInv, MemoryTypeOK
  <2>. DEFINE g == [d \in deadLetters |-> f(d)]
  <2>2. deadLetters' = {g[d] : d \in deadLetters}
    BY <1>1
  <2>. HIDE DEF g
  <2>3. IsFiniteSet({g[d] : d \in deadLetters})
    BY <2>1, ImageIsFinite
  <2>. QED
    BY <2>2, <2>3
<1>. HIDE DEF f
<1>8. MemoryTypeOK'
  BY <1>1, <1>6, <1>7 DEF W_Inv, MemoryInv, MemoryTypeOK
<1>9. ReplaysAreRefunded' /\ ProcessedMeansRefunded'
  BY <1>1, <1>3, <1>6
     DEF W_Inv, MemoryInv, ReplaysAreRefunded, ProcessedMeansRefunded
<1>. QED
  BY <1>2, <1>8, <1>9 DEF W_Inv, MemoryInv

-----------------------------------------------------------------------------
(* W_Inv, action by action.                                                *)

\* No wallet has moved money, no handler runs.
LEMMA W_InitHolds ==
    ASSUME W_Init
    PROVE  W_Inv
<1>. USE DEF W_Init, Repository_Init
<1>1. RepositoryTypeOK
  BY WalletsAssumption, FS_EmptySet DEF RepositoryTypeOK
<1>2. RefundIdsAreApart /\ KeysUnique /\ EntriesHaveRows /\ RowsHaveEntries
  BY DEF RefundIdsAreApart, KeysUnique, EntriesHaveRows, RowsHaveEntries
<1>3. BalanceAccounted
  <2>1. SUFFICES ASSUME NEW w \in Wallets
                 PROVE  balance[w] = Seed[w] +
                          SumFunction([l \in Entries(w) |-> SignedAmount(l)])
    BY DEF BalanceAccounted
  <2>. DEFINE f == [l \in Entries(w) |-> SignedAmount(l)]
  <2>2. Entries(w) = {}
    BY DEF Entries
  <2>3. SumFunction(f) = 0
    BY <2>2, SumEquation, FS_EmptySet DEF SumFunction
  <2>. QED
    BY <2>3, WalletsAssumption
<1>4. MemoryInv
  BY FS_EmptySet DEF MemoryInv, MemoryTypeOK, ReplaysAreRefunded,
     ProcessedMeansRefunded
<1>. QED
  BY <1>1, <1>2, <1>3, <1>4 DEF W_Inv, RepositoryInv

\* A handler that returns.
LEMMA W_HandleKeepsInv ==
    ASSUME W_Inv, NEW e \in Event, e.topic \in MoneyTopics, W_handle(e)
    PROVE  W_Inv'
<1>1. moveMoney(e) /\ UNCHANGED <<failing, deadLetters, replays>>
  BY DEF W_handle
<1>2. RepositoryInv'
  BY <1>1, MoveKeepsRepository DEF W_Inv
<1>3. ledger \subseteq ledger'
  BY <1>1, LedgerGrows DEF W_Inv, RepositoryInv
<1>4. MemoryInv'
  BY <1>1, <1>3, GrowthKeepsMemory DEF W_Inv, MemoryInv, MemoryTypeOK
<1>. QED
  BY <1>2, <1>4 DEF W_Inv

\* A handler that comes to its catch, with or without the money moved.
LEMMA W_CatchKeepsInv ==
    ASSUME W_Inv, NEW e \in Event, e.topic \in MoneyTopics,
           NEW dbError \in BOOLEAN, W_catch(e, dbError)
    PROVE  W_Inv'
<1>1. /\ moveMoneyFails(e, dbError, FALSE) /\ failing' = failing \cup {e}
      /\ UNCHANGED <<deadLetters, replays>>
  BY DEF W_catch
<1>2. RepositoryInv'
  BY <1>1, FailureKeepsRepository DEF W_Inv
<1>3. ledger \subseteq ledger'
  BY <1>1, LedgerGrows DEF W_Inv, RepositoryInv
<1>4. MemoryInv'
  BY <1>1, <1>3, GrowthKeepsMemory DEF W_Inv, MemoryInv, MemoryTypeOK
<1>. QED
  BY <1>2, <1>4 DEF W_Inv

\* A handler that comes to its catch after another has moved the money.
LEMMA W_OvertakeKeepsInv ==
    ASSUME W_Inv, NEW e \in Event, e.topic \in MoneyTopics, W_overtake(e)
    PROVE  W_Inv'
<1>1. W_catch(e, TRUE)
  BY DEF W_overtake, W_catch, moveMoneyFails
<1>. QED
  BY <1>1, W_CatchKeepsInv

\* The rows a catch writes are events about a failure.
LEMMA FailureEvents ==
    ASSUME NEW e \in Event
    PROVE  /\ e.topic = "transfer.initiated" =>
                debitFailed(e) \in Event /\ debitFailed(e).topic \in FailureTopics
           /\ e.topic = "wallet.debited" =>
                creditFailed(e) \in Event /\ creditFailed(e).topic \in FailureTopics
<1>1. DebitError \in FailureReason /\ CreditError \in FailureReason
  BY DEF FailureReason
<1>2. ASSUME e.topic = "transfer.initiated"
      PROVE  debitFailed(e) \in Event /\ debitFailed(e).topic \in FailureTopics
  <2>1. e.transferId \in Transfers /\ e.senderWalletId \in WalletIds
    BY <1>2 DEF Event
  <2>. QED
    BY <1>1, <2>1 DEF debitFailed, WalletDebitFailed, FailureTopics, Event
<1>3. ASSUME e.topic = "wallet.debited"
      PROVE  creditFailed(e) \in Event /\ creditFailed(e).topic \in FailureTopics
  <2>1. /\ e.transferId \in Transfers /\ e.receiverWalletId \in WalletIds
        /\ e.walletId \in WalletIds /\ e.amount \in Nat \ {0}
    BY <1>3 DEF Event
  <2>. QED
    BY <1>1, <2>1 DEF creditFailed, WalletCreditFailed, FailureTopics, Event
<1>. QED
  BY <1>2, <1>3

\* The catch writes a row or a letter.
LEMMA W_AnswerKeepsInv ==
    ASSUME W_Inv, NEW e \in failing, NEW others \in BOOLEAN,
           W_answer(e, others)
    PROVE  W_Inv'
<1>1. e \in Event
  BY DEF W_Inv, MemoryInv, MemoryTypeOK
<1>2. failing' \subseteq failing /\ replays' = replays
  BY DEF W_answer, Leave
<1>3. ASSUME NEW a \in Event, a.topic \in FailureTopics, writeOutboxEntry(a),
             UNCHANGED deadLetters
      PROVE  W_Inv'
  <2>1. RepositoryInv'
    BY <1>3, FailureRowKeepsRepository DEF W_Inv
  <2>2. MemoryInv'
    BY <1>2, <1>3, GrowthKeepsMemory
       DEF writeOutboxEntry, W_Inv, MemoryInv, MemoryTypeOK
  <2>. QED
    BY <2>1, <2>2 DEF W_Inv
<1>4. CASE e.topic = "transfer.initiated"
  BY <1>1, <1>3, <1>4, FailureEvents DEF W_answer
<1>5. CASE e.topic = "wallet.debited"
  BY <1>1, <1>3, <1>5, FailureEvents DEF W_answer
<1>6. CASE e.topic = "wallet.credit-failed"
  <2>1. routeToDlq(e) /\ UNCHANGED repositoryVars
    BY <1>6 DEF W_answer
  <2>2. RepositoryInv'
    BY <2>1, UnchangedKeepsRepository DEF W_Inv
  <2>3. MemoryInv'
    BY <1>2, <1>6, <2>1, LetterKeepsMemory DEF W_Inv, repositoryVars
  <2>. QED
    BY <2>2, <2>3 DEF W_Inv
<1>. QED
  BY <1>4, <1>5, <1>6 DEF W_answer

\* What is forgotten, by a crash, an abandoned catch or an abandoned replay,
\* is only forgotten.
LEMMA ForgettingKeepsInv ==
    ASSUME W_Inv, UNCHANGED <<repositoryVars, deadLetters>>,
           failing' \subseteq failing, replays' \subseteq replays
    PROVE  W_Inv'
<1>1. RepositoryInv'
  BY UnchangedKeepsRepository DEF W_Inv
<1>2. MemoryInv'
  BY GrowthKeepsMemory DEF repositoryVars, W_Inv, MemoryInv, MemoryTypeOK
<1>. QED
  BY <1>1, <1>2 DEF W_Inv

\* Publishing a row.
LEMMA W_MarkKeepsInv ==
    ASSUME W_Inv, NEW r \in walletOutbox, W_markPublished(r),
           UNCHANGED <<failing, deadLetters, replays>>
    PROVE  W_Inv'
<1>1. RepositoryInv'
  BY W_MarkKeepsRepository DEF W_Inv
<1>2. MemoryInv'
  BY GrowthKeepsMemory DEF W_markPublished, W_Inv, MemoryInv, MemoryTypeOK
<1>. QED
  BY <1>1, <1>2 DEF W_Inv

-----------------------------------------------------------------------------
(* What W_Inv says of the properties the runs check.                       *)

\* One row per entry is EntryAnnouncedOnce.
LEMMA W_InvImplies ==
    ASSUME W_Inv
    PROVE  W_TypeOK /\ BalanceAccounted /\ EntryAnnouncedOnce
             /\ ProcessedMeansRefunded
<1>1. W_TypeOK
  BY DEF W_Inv, RepositoryInv, RepositoryTypeOK, MemoryInv, MemoryTypeOK,
     W_TypeOK
<1>2. EntryAnnouncedOnce
  <2>1. ASSUME NEW l \in ledger
        PROVE  /\ Cardinality(RowsOf(l)) = 1
               /\ \A r \in RowsOf(l) : r.event.amount = l.amount
    <3>1. PICK r \in walletOutbox : RowsOf(l) = {r} /\ r.event.amount = l.amount
      BY DEF W_Inv, RepositoryInv, EntriesHaveRows
    <3>. QED
      BY <3>1, FS_Singleton
  <2>2. walletOutbox = FailureRows \cup UNION {RowsOf(l) : l \in ledger}
    BY DEF FailureRows, FailureTopics, RowsOf, W_Inv, RepositoryInv,
       RowsHaveEntries
  <2>. QED
    BY <2>1, <2>2 DEF EntryAnnouncedOnce, W_Inv, RepositoryInv, KeysUnique
<1>. QED
  BY <1>1, <1>2 DEF W_Inv, RepositoryInv, MemoryInv
=============================================================================
