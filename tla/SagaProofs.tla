----------------------------- MODULE SagaProofs -----------------------------
(***************************************************************************)
(* Proofs about the whole program, for every set of transfers, wallets and *)
(* requests and every budget of faults.                                    *)
(*                                                                         *)
(* Each service keeps its own invariant whatever true event it is told.    *)
(* What ties the services together is that every event is true             *)
(* (MessagesAreTrue): the payload stands in for the other service's table. *)
(***************************************************************************)
EXTENDS Saga, TransactionServiceProofs, WalletServiceProofs

\* A message is only delivered to a group that subscribes to its topic.
BrokerInv ==
    /\ Kafka_TypeOK
    /\ \A g \in Groups : \A e \in inbox[g] : e.topic \in Subscriptions[g]

FaultsInv ==
    /\ faults \in [FaultKinds -> Nat]
    /\ \A k \in FaultKinds : faults[k] <= Budget[k]

\* The three properties that relate the tables of the two services.
TruthInv == MessagesAreTrue /\ LedgerMatchesTransfers /\ StatusBackedByLedger

SagaInv == TX_Inv /\ W_Inv /\ BrokerInv /\ FaultsInv /\ TruthInv

-----------------------------------------------------------------------------
(* What a step does to the two tables and to the messages, whichever       *)
(* action it is: nothing, accept a transfer, report on it, or pay.         *)

\* All the messages after the step were there before, or are in A.
NewMessages(A) == Messages' \subseteq Messages \cup A

\* What a handler of the wallet service says of its failure.
IsFailureReport(a) ==
    \E e \in failing :
      \/ e.topic = "transfer.initiated" /\ a = debitFailed(e)
      \/ e.topic = "wallet.debited" /\ a = creditFailed(e)

\* Messages move, timeout jobs read, failures are reported.
Idles ==
    /\ UNCHANGED <<transfers, ledger>>
    /\ \A s \in stuck' :
         \/ s \in stuck
         \/ s.transferId \in Created /\ s.status = transfers[s.transferId].status
    /\ \E A : NewMessages(A) /\ \A a \in A : IsFailureReport(a)

Accepts(t) ==
    /\ t \in Transfers \ Created
    /\ Created' = Created \cup {t}
    /\ \A u \in Transfers \ {t} : transfers'[u] = transfers[u]
    /\ transfers'[t].status = "PENDING"
    /\ \E r \in Requests : transfers'[t].amount = r.amount
    /\ UNCHANGED <<ledger, stuck>>
    /\ NewMessages({TransferInitiated(t, transfers'[t])})

\* What the transaction service says of the end of t.  Only the timeout job
\* asks for a refund, of a transfer it fails as DEBITED.
IsEndReport(t, from, to, a) ==
    /\ a.transferId = t
    /\ \/ a.topic \in {"transfer.completed", "transfer.failed"}
       \/ /\ from = "DEBITED" /\ to = "FAILED"
          /\ transfers'[t].failureReason = TimeoutDebited
          /\ a = compensation(t)

Reports(t, from, to) ==
    /\ StatusIn(t, {from})
    /\ \/ from = "PENDING" /\ to = "DEBITED" /\ Debited(t)
       \/ from = "DEBITED" /\ to = "COMPLETED" /\ Credited(t)
       \/ from \in InFlight /\ to = "FAILED"
    /\ \E reason \in FailureReason \cup {NoReason} : SetStatus(t, to, reason)
    /\ ledger' = ledger /\ stuck' \subseteq stuck
    /\ \E A : NewMessages(A) /\ \A a \in A : IsEndReport(t, from, to, a)

Pays(e) ==
    /\ e \in Messages \cap Event /\ e.topic \in MoneyTopics
    /\ Moves(e)
    /\ UNCHANGED <<transfers, stuck>>
    /\ NewMessages({Movement(e).event})

StepKind ==
    \/ Idles
    \/ \E t \in Transfers : Accepts(t)
    \/ \E t \in Created, from \in InFlight, to \in TransferStatus :
         Reports(t, from, to)
    \/ \E e \in Messages : Pays(e)

-----------------------------------------------------------------------------
(* Messages.                                                               *)

\* Where a message can be.
IsHeld(e) ==
    \/ \E r \in txOutbox : e = r.event
    \/ \E r \in walletOutbox : e = r.event
    \/ \E g \in Groups : e \in inbox[g]
    \/ e \in failing
    \/ \E d \in deadLetters : e = d.payload
    \/ \E p \in replays : e = p.payload

\* Messages, place by place.
LEMMA MessagesParts == \A e : e \in Messages <=> IsHeld(e)
<1>. SUFFICES ASSUME NEW e PROVE e \in Messages <=> IsHeld(e)
  OBVIOUS
<1>. DEFINE rows == {r.event : r \in txOutbox \cup walletOutbox}
            sent == UNION {inbox[g] : g \in Groups}
            letters == {d.payload : d \in deadLetters}
            replayed == {p.payload : p \in replays}
<1>1. e \in rows <=> \/ \E r \in txOutbox : e = r.event
                     \/ \E r \in walletOutbox : e = r.event
  OBVIOUS
<1>2. e \in sent <=> \E g \in Groups : e \in inbox[g]
  OBVIOUS
<1>3. e \in letters <=> \E d \in deadLetters : e = d.payload
  OBVIOUS
<1>4. e \in replayed <=> \E p \in replays : e = p.payload
  OBVIOUS
<1>5. Messages = rows \cup sent \cup failing \cup letters \cup replayed
  BY DEF Messages
<1>. HIDE DEF rows, sent, letters, replayed
<1>. QED
  BY <1>1, <1>2, <1>3, <1>4, <1>5 DEF IsHeld

\* Every message is an event.
LEMMA MessagesAreEvents ==
    ASSUME SagaInv, NEW e \in Messages
    PROVE  e \in Event
<1>1. \A r \in txOutbox : r.event \in Event
  BY DEF SagaInv, TX_Inv, TX_TypeOK, OutboxRow
<1>2. \A r \in walletOutbox : r.event \in Event
  BY DEF SagaInv, W_Inv, RepositoryInv, RepositoryTypeOK, OutboxRow
<1>3. \A g \in Groups : inbox[g] \subseteq Event
  BY DEF SagaInv, BrokerInv, Kafka_TypeOK
<1>4. \A f \in failing : f \in Event
  BY DEF SagaInv, W_Inv, MemoryInv, MemoryTypeOK
<1>5. \A d \in deadLetters : d.payload \in Event
  BY DEF SagaInv, W_Inv, MemoryInv, MemoryTypeOK, DeadLetter
<1>6. \A p \in replays : p.payload \in Event
  BY DEF SagaInv, W_Inv, MemoryInv, MemoryTypeOK, Replay
<1>. QED
  BY <1>1, <1>2, <1>3, <1>4, <1>5, <1>6, MessagesParts DEF IsHeld

\* Where the messages of the next state come from.
LEMMA MessagesFlow ==
    ASSUME NEW A,
           \A r \in txOutbox' : r.event \in Messages \cup A,
           \A r \in walletOutbox' : r.event \in Messages \cup A,
           \A g \in Groups : \A e \in inbox'[g] : e \in Messages \cup A,
           \A e \in failing' : e \in Messages \cup A,
           \A d \in deadLetters' : d.payload \in Messages \cup A,
           \A p \in replays' : p.payload \in Messages \cup A
    PROVE  NewMessages(A)
<1>1. (\A e : e \in Messages <=> IsHeld(e))'
  BY MessagesParts, PTL
<1>2. \A e : IsHeld(e)' => e \in Messages \cup A
  BY DEF IsHeld
<1>. QED
  BY <1>1, <1>2 DEF NewMessages

\* A publisher sends what a row says, a consumer takes messages away.
LEMMA BrokerMoves ==
    ASSUME BrokerInv
    PROVE  /\ \A e \in Event : \A gs \in SUBSET Subscribers(e) :
                emitTo(gs, e) =>
                  /\ BrokerInv'
                  /\ \A g \in Groups : inbox'[g] = IF g \in gs
                                         THEN inbox[g] \cup {e} ELSE inbox[g]
           /\ \A g \in Groups : \A e :
                commitOffset(g, e) =>
                  /\ BrokerInv'
                  /\ inbox' = [inbox EXCEPT ![g] = inbox[g] \ {e}]
           /\ UNCHANGED inbox => BrokerInv'
<1>1. ASSUME NEW e \in Event, NEW gs \in SUBSET Subscribers(e), emitTo(gs, e)
      PROVE  /\ BrokerInv'
             /\ \A g \in Groups : inbox'[g] = IF g \in gs
                                    THEN inbox[g] \cup {e} ELSE inbox[g]
  BY <1>1 DEF BrokerInv, Kafka_TypeOK, emitTo, Subscribers
<1>2. ASSUME NEW g \in Groups, NEW e, commitOffset(g, e)
      PROVE  /\ BrokerInv'
             /\ inbox' = [inbox EXCEPT ![g] = inbox[g] \ {e}]
  BY <1>2 DEF BrokerInv, Kafka_TypeOK, commitOffset
<1>3. UNCHANGED inbox => BrokerInv'
  BY DEF BrokerInv, Kafka_TypeOK
<1>. QED
  BY <1>1, <1>2, <1>3

\* The budget of faults is only spent.
LEMMA SpendKeepsInv ==
    ASSUME FaultsInv, NEW K, Spend(K)
    PROVE  /\ FaultsInv'
           /\ \A k \in FaultKinds : faults'[k] <= faults[k]
           /\ \A k \in FaultKinds \cap K : faults'[k] < Budget[k]
<1>1. \A k \in FaultKinds :
        /\ faults[k] \in Nat /\ Budget[k] \in Nat /\ faults[k] <= Budget[k]
        /\ k \in K => faults[k] > 0
        /\ faults'[k] = IF k \in K THEN faults[k] - 1 ELSE faults[k]
  BY BudgetAssumption DEF FaultsInv, Spend
<1>2. \A k \in FaultKinds :
        /\ faults'[k] \in Nat /\ faults'[k] <= faults[k]
        /\ faults'[k] <= Budget[k]
        /\ k \in K => faults'[k] < Budget[k]
  BY <1>1
<1>3. faults' \in [FaultKinds -> Nat]
  BY <1>2 DEF Spend, FaultsInv
<1>. QED
  BY <1>2, <1>3 DEF FaultsInv

-----------------------------------------------------------------------------
(* TruthInv, by the kind of the step.                                      *)

\* What nothing takes back: a transfer's wallets and amount, and the ledger.
Lasts ==
    /\ \A t \in Created :
         /\ t \in Created'
         /\ transfers'[t].senderWalletId = transfers[t].senderWalletId
         /\ transfers'[t].receiverWalletId = transfers[t].receiverWalletId
         /\ transfers'[t].amount = transfers[t].amount
    /\ ledger \subseteq ledger'

\* No step takes that back.
LEMMA KindsLast ==
    ASSUME SagaInv, StepKind
    PROVE  Lasts
<1>1. CASE Idles
  BY <1>1 DEF Idles, Lasts, Created
<1>2. ASSUME NEW t \in Transfers, Accepts(t) PROVE Lasts
  BY <1>2 DEF Accepts, Lasts, Created
<1>3. ASSUME NEW t \in Created, NEW from \in InFlight, NEW to \in TransferStatus,
             Reports(t, from, to)
      PROVE  Lasts
  <2>1. PICK reason \in FailureReason \cup {NoReason} : SetStatus(t, to, reason)
    BY <1>3 DEF Reports
  <2>2. /\ Created' = Created
        /\ \A u \in Transfers \ {t} : transfers'[u] = transfers[u]
        /\ transfers'[t].senderWalletId = transfers[t].senderWalletId
        /\ transfers'[t].receiverWalletId = transfers[t].receiverWalletId
        /\ transfers'[t].amount = transfers[t].amount
    BY <2>1, SetStatusEffect DEF SagaInv, TX_Inv
  <2>3. ledger' = ledger
    BY <1>3 DEF Reports
  <2>. QED
    BY <2>2, <2>3 DEF Lasts, Created
<1>4. ASSUME NEW e \in Messages, Pays(e) PROVE Lasts
  BY <1>4 DEF Pays, Moves, Lasts, Created
<1>. QED
  BY <1>1, <1>2, <1>3, <1>4 DEF StepKind

\* So what is true stays true.
LEMMA TruthStays ==
    ASSUME Lasts
    PROVE  /\ \A t, type : Moved(t, type) => Moved(t, type)'
           /\ \A e : IsTrue(e) => IsTrue(e)'
<1>1. \A t, type : Moved(t, type) => Moved(t, type)'
  BY DEF Lasts, Moved
<1>2. ASSUME NEW e, IsTrue(e) PROVE IsTrue(e)'
  <2>. DEFINE t == e.transferId
  <2>1. /\ t \in Created /\ t \in Created'
        /\ transfers'[t].senderWalletId = transfers[t].senderWalletId
        /\ transfers'[t].receiverWalletId = transfers[t].receiverWalletId
        /\ transfers'[t].amount = transfers[t].amount
    BY <1>2 DEF Lasts, IsTrue
  <2>2. TransferInitiated(t, transfers'[t]) = TransferInitiated(t, transfers[t])
    BY <2>1 DEF TransferInitiated
  <2>3. EventsAbout(t)' = EventsAbout(t)
    BY <2>1 DEF EventsAbout
  <2>. HIDE DEF t
  <2>4. /\ Debited(t) => Debited(t)'
        /\ Credited(t) => Credited(t)'
        /\ Refunded(t) => Refunded(t)'
    BY <1>1 DEF Debited, Credited, Refunded
  <2>. QED
    BY <1>2, <2>1, <2>2, <2>3, <2>4 DEF IsTrue, t
<1>. QED
  BY <1>1, <1>2

\* What a true event says of its transfer.
LEMMA TrueEventsMatch ==
    ASSUME NEW e, IsTrue(e)
    PROVE  LET x == transfers[e.transferId]
           IN  /\ e.transferId \in Created
               /\ e.topic = "transfer.initiated" =>
                    /\ e.senderWalletId = x.senderWalletId
                    /\ e.receiverWalletId = x.receiverWalletId
                    /\ e.amount = x.amount
               /\ e.topic = "wallet.debited" =>
                    /\ e.walletId = x.senderWalletId
                    /\ e.receiverWalletId = x.receiverWalletId
                    /\ e.amount = x.amount
                    /\ Debited(e.transferId)
               /\ e.topic = "wallet.credit-failed" =>
                    /\ e.senderWalletId = x.senderWalletId
                    /\ e.amount = x.amount
                    /\ Debited(e.transferId)
  BY DEF IsTrue, TransferInitiated, EventsAbout, WalletDebited,
     WalletDebitFailed, WalletCredited, WalletCreditFailed, WalletRefunded

\* What the wallet service does on a true event is what the transfer asks for,
\* and what it says of it is true.
LEMMA MovementsMatch ==
    ASSUME NEW e \in Event, IsTrue(e), e.topic \in MoneyTopics
    PROVE  LET t == e.transferId
               m == Movement(e)
           IN  /\ t \in Created
               /\ m.amount = transfers[t].amount
               /\ m.walletId = IF m.type = "CREDIT"
                               THEN transfers[t].receiverWalletId
                               ELSE transfers[t].senderWalletId
               /\ m.type # "DEBIT" => Debited(t)
               /\ m.event \in EventsAbout(t)
<1>. DEFINE t == e.transferId
            x == transfers[t]
            a == Movement(e).event
<1>1. CASE e.topic = "transfer.initiated"
  <2>1. /\ t \in Created /\ e.senderWalletId = x.senderWalletId
        /\ e.receiverWalletId = x.receiverWalletId /\ e.amount = x.amount
    BY <1>1, TrueEventsMatch
  <2>2. Movement(e) = debit(e)
    BY <1>1 DEF Movement
  <2>3. a = WalletDebited(t, x.senderWalletId, x.amount, x.receiverWalletId)
    BY <2>1, <2>2 DEF debit
  <2>4. /\ Movement(e).amount = x.amount /\ Movement(e).type = "DEBIT"
        /\ Movement(e).walletId = x.senderWalletId
    BY <2>1, <2>2 DEF debit
  <2>. HIDE DEF a
  <2>. QED
    BY <2>1, <2>3, <2>4 DEF EventsAbout, a
<1>2. CASE e.topic = "wallet.debited"
  <2>1. /\ t \in Created /\ e.receiverWalletId = x.receiverWalletId
        /\ e.amount = x.amount /\ Debited(t)
    BY <1>2, TrueEventsMatch
  <2>2. Movement(e) = credit(e)
    BY <1>2 DEF Movement
  <2>3. a = WalletCredited(t, x.receiverWalletId, x.amount)
    BY <2>1, <2>2 DEF credit
  <2>4. /\ Movement(e).amount = x.amount /\ Movement(e).type = "CREDIT"
        /\ Movement(e).walletId = x.receiverWalletId
    BY <2>1, <2>2 DEF credit
  <2>. HIDE DEF a
  <2>. QED
    BY <2>1, <2>3, <2>4 DEF EventsAbout, a
<1>3. CASE e.topic = "wallet.credit-failed"
  <2>1. /\ t \in Created /\ e.senderWalletId = x.senderWalletId
        /\ e.amount = x.amount /\ Debited(t)
    BY <1>3, TrueEventsMatch
  <2>2. Movement(e) = refund(e)
    BY <1>3 DEF Movement
  <2>3. a = WalletRefunded(t, x.senderWalletId, x.amount)
    BY <2>1, <2>2 DEF refund
  <2>4. /\ Movement(e).amount = x.amount /\ Movement(e).type = "REFUND"
        /\ Movement(e).walletId = x.senderWalletId
    BY <2>1, <2>2 DEF refund
  <2>. HIDE DEF a
  <2>. QED
    BY <2>1, <2>3, <2>4 DEF EventsAbout, a
<1>. QED
  BY <1>1, <1>2, <1>3 DEF MoneyTopics

\* What a handler says of its failure is true.
LEMMA FailureReportsAreTrue ==
    ASSUME MessagesAreTrue, NEW a, IsFailureReport(a)
    PROVE  IsTrue(a)
<1>1. PICK e \in failing : \/ e.topic = "transfer.initiated" /\ a = debitFailed(e)
                           \/ e.topic = "wallet.debited" /\ a = creditFailed(e)
  BY DEF IsFailureReport
<1>2. IsTrue(e)
  BY MessagesParts DEF MessagesAreTrue, IsHeld
<1>3. CASE e.topic = "transfer.initiated" /\ a = debitFailed(e)
  <2>1. /\ e.transferId \in Created
        /\ e.senderWalletId = transfers[e.transferId].senderWalletId
    BY <1>2, <1>3, TrueEventsMatch
  <2>2. a \in EventsAbout(e.transferId) /\ a.transferId = e.transferId
        /\ a.topic = "wallet.debit-failed"
    BY <1>3, <2>1 DEF debitFailed, EventsAbout, WalletDebitFailed
  <2>. QED
    BY <2>1, <2>2 DEF IsTrue
<1>4. CASE e.topic = "wallet.debited" /\ a = creditFailed(e)
  <2>1. /\ e.transferId \in Created /\ Debited(e.transferId)
        /\ e.walletId = transfers[e.transferId].senderWalletId
        /\ e.receiverWalletId = transfers[e.transferId].receiverWalletId
        /\ e.amount = transfers[e.transferId].amount
    BY <1>2, <1>4, TrueEventsMatch
  <2>2. a \in EventsAbout(e.transferId) /\ a.transferId = e.transferId
        /\ a.topic = "wallet.credit-failed"
    BY <1>4, <2>1 DEF creditFailed, EventsAbout, WalletCreditFailed
  <2>. QED
    BY <2>1, <2>2 DEF IsTrue
<1>. QED
  BY <1>1, <1>3, <1>4

\* A movement leaves what its event says: an entry of its type, and a debit.
LEMMA PaymentLeaves ==
    ASSUME SagaInv, NEW e \in Messages, Pays(e)
    PROVE  LET t == e.transferId
               m == Movement(e)
           IN  /\ t \in Created
               /\ ledger' = ledger \cup {EntryOf(e)}
               /\ EntryOf(e).transactionId.of = t
               /\ EntryOf(e).transactionId.refund = (m.type = "REFUND")
               /\ EntryOf(e).type = m.type /\ m.type \in LedgerEntryType
               /\ EntryOf(e).amount = transfers[t].amount
               /\ EntryOf(e).walletId = IF m.type = "CREDIT"
                                        THEN transfers[t].receiverWalletId
                                        ELSE transfers[t].senderWalletId
               /\ Moved(t, m.type)'
               /\ m.type # "DEBIT" => Debited(t)
               /\ Debited(t)'
               /\ IsTrue(m.event)'
<1>. DEFINE t == e.transferId
            m == Movement(e)
            l == EntryOf(e)
            a == m.event
<1>1. e \in Event /\ IsTrue(e) /\ e.topic \in MoneyTopics /\ Moves(e)
  BY DEF Pays, SagaInv, TruthInv, MessagesAreTrue
<1>2. /\ t \in Created
      /\ m.amount = transfers[t].amount
      /\ m.walletId = IF m.type = "CREDIT" THEN transfers[t].receiverWalletId
                                           ELSE transfers[t].senderWalletId
      /\ m.type # "DEBIT" => Debited(t)
      /\ a \in EventsAbout(t)
  BY <1>1, MovementsMatch
<1>3. /\ m.transactionId.of = t
      /\ m.transactionId.refund = (m.type = "REFUND")
      /\ m.type \in LedgerEntryType
      /\ a.topic = TopicOf(m) /\ a.transferId = t
  BY <1>1, MovementFacts
<1>4. /\ l.transactionId = m.transactionId /\ l.type = m.type
      /\ l.amount = m.amount /\ l.walletId = m.walletId
  BY DEF EntryOf
<1>5. ledger' = ledger \cup {l}
  BY <1>1 DEF Moves
<1>6. \A u, type : Moved(u, type) => Moved(u, type)'
  BY <1>5 DEF Moved
<1>. HIDE DEF l, m, a
<1>7. Moved(t, m.type)'
  BY <1>3, <1>4, <1>5 DEF Moved
<1>8. Debited(t)'
  BY <1>2, <1>6, <1>7 DEF Debited
<1>9. IsTrue(a)'
  <2>1. t \in Created' /\ a \in EventsAbout(t)'
    BY <1>2 DEF Pays, Created, EventsAbout
  <2>2. a.topic = "wallet.credited" => Credited(t)'
    BY <1>3, <1>7 DEF TopicOf, LedgerEntryType, Credited
  <2>3. a.topic = "wallet.refunded" => Refunded(t)'
    BY <1>3, <1>7 DEF TopicOf, LedgerEntryType, Refunded
  <2>. QED
    BY <1>3, <1>8, <2>1, <2>2, <2>3 DEF IsTrue
<1>. QED
  BY <1>2, <1>3, <1>4, <1>5, <1>7, <1>8, <1>9 DEF l, m, a

\* What is added to the messages is true.
LEMMA MessagesStayTrue ==
    ASSUME SagaInv, StepKind
    PROVE  MessagesAreTrue'
<1>1. /\ \A t, type : Moved(t, type) => Moved(t, type)'
      /\ \A e : IsTrue(e) => IsTrue(e)'
  BY KindsLast, TruthStays
<1>2. ASSUME NEW A, NewMessages(A), \A a \in A : IsTrue(a)'
      PROVE  MessagesAreTrue'
  BY <1>1, <1>2 DEF SagaInv, TruthInv, MessagesAreTrue, NewMessages
<1>3. CASE Idles
  <2>1. PICK A : NewMessages(A) /\ \A a \in A : IsFailureReport(a)
    BY <1>3 DEF Idles
  <2>2. \A a \in A : IsTrue(a)'
    BY <1>1, <2>1, FailureReportsAreTrue DEF SagaInv, TruthInv
  <2>. QED
    BY <1>2, <2>1, <2>2
<1>4. ASSUME NEW t \in Transfers, Accepts(t) PROVE MessagesAreTrue'
  <2>1. ASSUME NEW a, a = TransferInitiated(t, transfers'[t]) PROVE IsTrue(a)'
    <3>1. a.transferId = t /\ a.topic = "transfer.initiated" /\ t \in Created'
      BY <1>4, <2>1 DEF TransferInitiated, Accepts
    <3>. QED
      BY <2>1, <3>1 DEF IsTrue
  <2>2. NewMessages({TransferInitiated(t, transfers'[t])})
    BY <1>4 DEF Accepts
  <2>. QED
    BY <1>2, <2>1, <2>2
<1>5. ASSUME NEW t \in Created, NEW from \in InFlight, NEW to \in TransferStatus,
             Reports(t, from, to)
      PROVE  MessagesAreTrue'
  <2>1. PICK A : NewMessages(A) /\ \A a \in A : IsEndReport(t, from, to, a)
    BY <1>5 DEF Reports
  <2>2. ASSUME NEW a \in A PROVE IsTrue(a)
    <3>1. a.transferId = t
      BY <2>1 DEF IsEndReport
    <3>2. CASE a.topic \in {"transfer.completed", "transfer.failed"}
      BY <3>1, <3>2 DEF IsTrue
    <3>3. CASE from = "DEBITED" /\ a = compensation(t)
      <4>1. Debited(t)
        BY <1>5, <3>3 DEF Reports, StatusIn, SagaInv, TruthInv,
           StatusBackedByLedger
      <4>2. a \in EventsAbout(t) /\ a.topic = "wallet.credit-failed"
        BY <3>3 DEF compensation, EventsAbout, WalletCreditFailed
      <4>. QED
        BY <3>1, <4>1, <4>2 DEF IsTrue
    <3>. QED
      BY <2>1, <3>2, <3>3 DEF IsEndReport
  <2>. QED
    BY <1>1, <1>2, <2>1, <2>2
<1>6. ASSUME NEW e \in Messages, Pays(e) PROVE MessagesAreTrue'
  <2>1. NewMessages({Movement(e).event}) /\ IsTrue(Movement(e).event)'
    BY <1>6, PaymentLeaves DEF Pays
  <2>. QED
    BY <1>2, <2>1
<1>. QED
  BY <1>3, <1>4, <1>5, <1>6 DEF StepKind

\* An entry is made for the terms of its transfer, which never change.
LEMMA LedgerStaysMatched ==
    ASSUME SagaInv, StepKind
    PROVE  LedgerMatchesTransfers'
<1>1. Lasts /\ \A t, type : Moved(t, type) => Moved(t, type)'
  BY KindsLast, TruthStays
<1>2. ASSUME NEW l \in ledger
      PROVE  LET t == l.transactionId.of
             IN  /\ t \in Created'
                 /\ l.amount = transfers'[t].amount
                 /\ l.walletId = IF l.type = "CREDIT"
                                 THEN transfers'[t].receiverWalletId
                                 ELSE transfers'[t].senderWalletId
                 /\ l.transactionId.refund = (l.type = "REFUND")
                 /\ Debited(t)'
  BY <1>1 DEF Lasts, Debited, SagaInv, TruthInv, LedgerMatchesTransfers
<1>3. ASSUME ledger' = ledger PROVE LedgerMatchesTransfers'
  BY <1>2, <1>3 DEF LedgerMatchesTransfers
<1>4. ASSUME NEW e \in Messages, Pays(e) PROVE LedgerMatchesTransfers'
  <2>1. transfers' = transfers /\ Created' = Created
    BY <1>4 DEF Pays, Created
  <2>. DEFINE l == EntryOf(e)
  <2>2. /\ ledger' = ledger \cup {l}
        /\ l.transactionId.of \in Created
        /\ l.amount = transfers[l.transactionId.of].amount
        /\ l.walletId = IF l.type = "CREDIT"
                        THEN transfers[l.transactionId.of].receiverWalletId
                        ELSE transfers[l.transactionId.of].senderWalletId
        /\ l.transactionId.refund = (l.type = "REFUND")
        /\ Debited(l.transactionId.of)'
    BY <1>4, PaymentLeaves
  <2>. HIDE DEF l
  <2>. QED
    BY <1>2, <2>1, <2>2 DEF LedgerMatchesTransfers
<1>. QED
  BY <1>3, <1>4 DEF StepKind, Idles, Accepts, Reports

\* A status is only reported when the money is there, and it stays there.
LEMMA StatusStaysBacked ==
    ASSUME SagaInv, StepKind
    PROVE  StatusBackedByLedger'
<1>1. \A t : (Debited(t) => Debited(t)') /\ (Credited(t) => Credited(t)')
  BY KindsLast, TruthStays DEF Debited, Credited
<1>2. /\ \A t \in Created :
           /\ transfers[t].status \in {"DEBITED", "COMPLETED"} => Debited(t)
           /\ transfers[t].status = "COMPLETED" => Credited(t)
      /\ \A s \in stuck : s.status = "DEBITED" => Debited(s.transferId)
  BY DEF SagaInv, TruthInv, StatusBackedByLedger
<1>3. ASSUME UNCHANGED transfers,
             \A s \in stuck' : \/ s \in stuck
                               \/ /\ s.transferId \in Created
                                  /\ s.status = transfers[s.transferId].status
      PROVE  StatusBackedByLedger'
  BY <1>1, <1>2, <1>3 DEF StatusBackedByLedger, Created
<1>4. ASSUME NEW t \in Transfers, Accepts(t) PROVE StatusBackedByLedger'
  BY <1>1, <1>2, <1>4 DEF Accepts, StatusBackedByLedger, Created
<1>5. ASSUME NEW t \in Created, NEW from \in InFlight, NEW to \in TransferStatus,
             Reports(t, from, to)
      PROVE  StatusBackedByLedger'
  <2>1. PICK reason \in FailureReason \cup {NoReason} : SetStatus(t, to, reason)
    BY <1>5 DEF Reports
  <2>2. /\ Created' = Created
        /\ \A u \in Transfers \ {t} : transfers'[u] = transfers[u]
        /\ transfers'[t].status = to
    BY <2>1, SetStatusEffect DEF SagaInv, TX_Inv
  <2>3. /\ to \in {"DEBITED", "COMPLETED"} => Debited(t)
        /\ to = "COMPLETED" => Credited(t)
    BY <1>2, <1>5 DEF Reports, StatusIn
  <2>4. stuck' \subseteq stuck
    BY <1>5 DEF Reports
  <2>5. ASSUME NEW u \in Created'
        PROVE  /\ transfers'[u].status \in {"DEBITED", "COMPLETED"} => Debited(u)
               /\ transfers'[u].status = "COMPLETED" => Credited(u)
    <3>1. CASE u = t
      BY <2>2, <2>3, <3>1
    <3>2. CASE u # t
      BY <1>2, <2>2, <3>2 DEF Created
    <3>. QED
      BY <3>1, <3>2
  <2>. QED
    BY <1>1, <1>2, <2>4, <2>5 DEF StatusBackedByLedger
<1>6. ASSUME NEW e \in Messages, Pays(e) PROVE StatusBackedByLedger'
  BY <1>3, <1>6 DEF Pays
<1>. QED
  BY <1>3, <1>4, <1>5, <1>6 DEF StepKind, Idles

-----------------------------------------------------------------------------
(* The kind of each step.                                                  *)

\* Nothing is delivered, held or kept that was not a message before.
MemoryFlows ==
    /\ \A g \in Groups : \A e \in inbox'[g] : e \in Messages
    /\ \A e \in failing' : e \in Messages
    /\ \A d \in deadLetters' : d.payload \in Messages
    /\ \A p \in replays' : p.payload \in Messages

RowsFlow(outbox, A) == \A r \in outbox : r.event \in Messages \cup A

\* So the new messages are those of the new rows.
LEMMA FlowIsNew ==
    ASSUME MemoryFlows, NEW A, RowsFlow(txOutbox', A), RowsFlow(walletOutbox', A)
    PROVE  NewMessages(A)
  BY MessagesFlow DEF MemoryFlows, RowsFlow

\* Rows that stay, are written or are marked carry what they carried.
LEMMA RowsStay ==
    ASSUME NEW A
    PROVE  /\ RowsFlow(txOutbox, A)
           /\ RowsFlow(walletOutbox, A)
  BY MessagesParts DEF RowsFlow, IsHeld

LEMMA RowsGrow ==
    ASSUME NEW A, NEW o, RowsFlow(o, A), NEW e \in A
    PROVE  RowsFlow(Insert(o, e), A)
<1>. DEFINE row == [event |-> e, copy |-> Cardinality({r \in o : r.event = e}),
                    published |-> FALSE]
<1>1. row.event = e /\ Insert(o, e) = o \cup {row}
  BY DEF Insert
<1>. HIDE DEF row
<1>. QED
  BY <1>1 DEF RowsFlow

LEMMA RowsMarked ==
    ASSUME NEW A, NEW o, RowsFlow(o, A), NEW r \in o, r \in OutboxRow
    PROVE  RowsFlow(MarkPublished(o, r), A)
<1>1. [r EXCEPT !.published = TRUE].event = r.event
  BY DEF OutboxRow
<1>. QED
  BY <1>1 DEF RowsFlow, MarkPublished

\* An attempt to move money pays, or it changes nothing.
LEMMA AttemptKind ==
    ASSUME SagaInv, NEW e \in Messages, e.topic \in MoneyTopics,
           moveMoney(e) \/ UNCHANGED repositoryVars,
           UNCHANGED txVars, MemoryFlows
    PROVE  StepKind
<1>1. e \in Event /\ RepositoryTypeOK
  BY MessagesAreEvents DEF SagaInv, W_Inv, RepositoryInv
<1>2. CASE Moves(e)
  <2>. DEFINE a == Movement(e).event
  <2>1. PICK n \in Nat : walletOutbox' = walletOutbox \cup {RowFor(a, n)}
    BY <1>2 DEF Moves
  <2>2. RowFor(a, n).event = a
    BY DEF RowFor
  <2>. HIDE DEF a
  <2>3. RowsFlow(walletOutbox', {a})
    BY <2>1, <2>2, RowsStay DEF RowsFlow
  <2>4. RowsFlow(txOutbox', {a})
    BY RowsStay DEF txVars
  <2>5. NewMessages({a})
    BY <2>3, <2>4, FlowIsNew
  <2>6. Pays(e)
    BY <1>1, <1>2, <2>5 DEF Pays, txVars, a
  <2>. QED
    BY <2>6 DEF StepKind
<1>3. CASE UNCHANGED repositoryVars
  <2>1. NewMessages({})
    BY <1>3, RowsStay, FlowIsNew DEF txVars, repositoryVars
  <2>2. Idles
    BY <1>3, <2>1 DEF Idles, txVars, repositoryVars
  <2>. QED
    BY <2>2 DEF StepKind
<1>. QED
  BY <1>1, <1>2, <1>3, MoveEffect DEF Repeats

\* A step of the transaction service that leaves the transfers alone.
LEMMA TX_IdleKind ==
    ASSUME SagaInv, UNCHANGED transfers, UNCHANGED walletVars, MemoryFlows,
           RowsFlow(txOutbox', {}),
           \A s \in stuck' :
             \/ s \in stuck
             \/ s.transferId \in Created /\ s.status = transfers[s.transferId].status
    PROVE  StepKind
<1>1. NewMessages({})
  BY RowsStay, FlowIsNew DEF walletVars
<1>2. Idles
  BY <1>1 DEF Idles, walletVars
<1>. QED
  BY <1>2 DEF StepKind

\* A guarded UPDATE of a status, and the rows written with it.
LEMMA ReportKind ==
    ASSUME SagaInv, NEW t \in Transfers, NEW from \in InFlight,
           NEW to \in TransferStatus, StatusIn(t, {from}),
           \/ from = "PENDING" /\ to = "DEBITED" /\ Debited(t)
           \/ from = "DEBITED" /\ to = "COMPLETED" /\ Credited(t)
           \/ to = "FAILED",
           NEW reason \in FailureReason \cup {NoReason},
           SetStatus(t, to, reason), UNCHANGED walletVars, stuck' \subseteq stuck,
           MemoryFlows, NEW A, RowsFlow(txOutbox', A),
           \A a \in A : IsEndReport(t, from, to, a)
    PROVE  StepKind
<1>1. NewMessages(A)
  BY RowsStay, FlowIsNew DEF walletVars
<1>2. Reports(t, from, to) /\ t \in Created
  BY <1>1 DEF Reports, walletVars, StatusIn
<1>. QED
  BY <1>2 DEF StepKind

\* The same, for the transaction most handlers and recoveries run.
LEMMA UpdateKind ==
    ASSUME SagaInv, NEW t \in Transfers, NEW from \in InFlight,
           NEW to \in Terminal, NEW reason \in FailureReason \cup {NoReason},
           NEW e, e.transferId = t,
           e.topic \in {"transfer.completed", "transfer.failed"},
           updateStatusWithOutbox(t, from, to, reason, e),
           to = "COMPLETED" => from = "DEBITED" /\ Credited(t),
           UNCHANGED walletVars, stuck' \subseteq stuck, MemoryFlows
    PROVE  StepKind
<1>1. CASE StatusIn(t, {from})
  <2>1. SetStatus(t, to, reason) /\ txOutbox' = Insert(txOutbox, e)
    BY <1>1 DEF updateStatusWithOutbox
  <2>2. RowsFlow(txOutbox', {e})
    BY <2>1, RowsStay, RowsGrow
  <2>3. \A a \in {e} : IsEndReport(t, from, to, a)
    BY DEF IsEndReport
  <2>4. to \in TransferStatus /\ (to # "COMPLETED" => to = "FAILED")
    BY DEF TransferStatus, Terminal
  <2>. QED
    BY <1>1, <2>1, <2>2, <2>3, <2>4, ReportKind
<1>2. CASE ~StatusIn(t, {from})
  <2>1. UNCHANGED <<transfers, txOutbox>>
    BY <1>2 DEF updateStatusWithOutbox
  <2>. QED
    BY <2>1, RowsStay, TX_IdleKind
<1>. QED
  BY <1>1, <1>2

\* A client's request.
LEMMA CreateKind ==
    ASSUME SagaInv, NEW t \in Transfers, NEW r \in Requests, NEW at \in Deadlines,
           createTransfer(t, r, at), UNCHANGED walletVars, MemoryFlows
    PROVE  StepKind
<1>. DEFINE new == [senderWalletId |-> r.senderWalletId,
                    receiverWalletId |-> r.receiverWalletId,
                    amount |-> r.amount, status |-> "PENDING", timeoutAt |-> at,
                    failureReason |-> NoReason]
            a == TransferInitiated(t, r)
<1>1. new \in Transfer
  BY RequestsAssumption, TimeAssumption DEF CreateTransferDto, Transfer,
     TransferStatus
<1>2. /\ transfers' = [transfers EXCEPT ![t] = new]
      /\ txOutbox' = Insert(txOutbox, a)
      /\ t \notin Created /\ stuck' = stuck
  BY DEF createTransfer
<1>3. /\ new.senderWalletId = r.senderWalletId /\ new.amount = r.amount
      /\ new.receiverWalletId = r.receiverWalletId /\ new.status = "PENDING"
  OBVIOUS
<1>. HIDE DEF new, a
<1>4. transfers'[t] = new /\ \A u \in Transfers \ {t} : transfers'[u] = transfers[u]
  BY <1>2 DEF SagaInv, TX_Inv, TX_TypeOK
<1>5. Created' = Created \cup {t}
  BY <1>1, <1>4, NoTransferAssumption DEF Created
<1>6. TransferInitiated(t, transfers'[t]) = a
  BY <1>3, <1>4 DEF TransferInitiated, a
<1>7. NewMessages({a})
  BY <1>2, RowsStay, RowsGrow, FlowIsNew DEF walletVars
<1>8. Accepts(t)
  BY <1>2, <1>3, <1>4, <1>5, <1>6, <1>7 DEF Accepts, walletVars
<1>. QED
  BY <1>8 DEF StepKind

\* A handler of the transaction service, told something true.
LEMMA TX_HandleKind ==
    ASSUME SagaInv, NEW e \in Messages, TX_handle(e), UNCHANGED walletVars,
           MemoryFlows
    PROVE  StepKind /\ TX_Inv'
<1>. DEFINE t == e.transferId
<1>1. IsTrue(e) /\ t \in Created /\ t \in Transfers
  BY DEF SagaInv, TruthInv, MessagesAreTrue, IsTrue, Created
<1>2. e.topic \in {"wallet.debited", "wallet.debit-failed", "wallet.credited",
                   "wallet.credit-failed", "wallet.refunded"}
  BY DEF TX_handle
<1>3. e \in EventsAbout(t)
  BY <1>1, <1>2 DEF IsTrue, TransferInitiated
<1>4. UNCHANGED <<now, stuck>>
  BY DEF TX_handle
<1>5. /\ e.topic \in {"wallet.debit-failed", "wallet.credit-failed"} =>
           e.reason \in FailureReason
      /\ e.topic = "wallet.debited" => Debited(t)
      /\ e.topic = "wallet.credited" => Credited(t)
  BY <1>1, MessagesAreEvents DEF Event, IsTrue
<1>6. TX_Inv'
  BY <1>1, <1>3, HandleKeepsInv DEF SagaInv
<1>7. CASE e.topic = "wallet.debited" /\ TX_handleWalletDebited(e)
  <2>1. txOutbox' = txOutbox
    BY <1>7 DEF TX_handleWalletDebited, updateTransferStatus
  <2>2. RowsFlow(txOutbox', {})
    BY <2>1, RowsStay
  <2>3. CASE StatusIn(t, {"PENDING"})
    <3>1. SetStatus(t, "DEBITED", NoReason)
      BY <1>7, <2>3 DEF TX_handleWalletDebited, updateTransferStatus
    <3>2. /\ "PENDING" \in InFlight /\ "DEBITED" \in TransferStatus
          /\ NoReason \in FailureReason \cup {NoReason}
      BY DEF InFlight, TransferStatus
    <3>. QED
      BY <1>1, <1>4, <1>5, <1>6, <1>7, <2>2, <2>3, <3>1, <3>2, ReportKind
  <2>4. CASE ~StatusIn(t, {"PENDING"})
    <3>1. transfers' = transfers
      BY <1>7, <2>4 DEF TX_handleWalletDebited, updateTransferStatus
    <3>. QED
      BY <1>4, <1>6, <2>2, <3>1, TX_IdleKind
  <2>. QED
    BY <2>3, <2>4
<1>8. CASE e.topic = "wallet.debit-failed" /\ TX_handleWalletDebitFailed(e)
  <2>. DEFINE a == TransferFailed(t, e.reason)
  <2>1. /\ a.transferId = t /\ a.topic = "transfer.failed"
        /\ updateStatusWithOutbox(t, "PENDING", "FAILED", e.reason, a)
    BY <1>8 DEF TX_handleWalletDebitFailed, TransferFailed
  <2>2. e.reason \in FailureReason \cup {NoReason}
    BY <1>5, <1>8
  <2>. HIDE DEF a
  <2>. QED
    BY <1>1, <1>4, <1>6, <2>1, <2>2, UpdateKind DEF InFlight, Terminal
<1>9. CASE e.topic = "wallet.credited" /\ TX_handleWalletCredited(e)
  BY <1>1, <1>4, <1>5, <1>6, <1>9, UpdateKind
     DEF TX_handleWalletCredited, InFlight, Terminal, TransferCompleted
<1>10. CASE e.topic = "wallet.credit-failed" /\ TX_handleWalletCreditFailed(e)
  <2>. DEFINE a == TransferFailed(t, e.reason)
  <2>1. /\ a.transferId = t /\ a.topic = "transfer.failed"
        /\ updateStatusWithOutbox(t, "DEBITED", "FAILED", e.reason, a)
    BY <1>10 DEF TX_handleWalletCreditFailed, TransferFailed
  <2>2. e.reason \in FailureReason \cup {NoReason}
    BY <1>5, <1>10
  <2>. HIDE DEF a
  <2>. QED
    BY <1>1, <1>4, <1>6, <2>1, <2>2, UpdateKind DEF InFlight, Terminal
<1>11. CASE e.topic = "wallet.refunded" /\ TX_handleWalletRefunded(e)
  BY <1>4, <1>6, <1>11, RowsStay, TX_IdleKind DEF TX_handleWalletRefunded
<1>. QED
  BY <1>7, <1>8, <1>9, <1>10, <1>11 DEF TX_handle

\* A recovery of the timeout job.
LEMMA RecoverKind ==
    ASSUME SagaInv, NEW s \in stuck, recoverStuckTransfer(s),
           UNCHANGED walletVars, MemoryFlows
    PROVE  StepKind
<1>. DEFINE t == s.transferId
<1>1. t \in Created /\ t \in Transfers /\ stuck' \subseteq stuck
  BY DEF recoverStuckTransfer, SagaInv, TX_Inv, TX_TypeOK, Created
<1>2. /\ {TimeoutPending, TimeoutDebited} \subseteq FailureReason
      /\ "FAILED" \in TransferStatus \cap Terminal
  BY DEF FailureReason, TransferStatus, Terminal
<1>3. CASE handleStuckPending(t)
  BY <1>1, <1>2, <1>3, UpdateKind
     DEF handleStuckPending, InFlight, TransferFailed
<1>4. CASE handleStuckDebited(t) /\ StatusIn(t, {"DEBITED"})
  <2>. DEFINE f == TransferFailed(t, TimeoutDebited)
              c == compensation(t)
  <2>1. /\ SetStatus(t, "FAILED", TimeoutDebited)
        /\ txOutbox' = Insert(Insert(txOutbox, f), c)
    BY <1>4 DEF handleStuckDebited
  <2>2. RowsFlow(txOutbox', {f, c})
    BY <2>1, RowsStay, RowsGrow
  <2>3. transfers'[t].failureReason = TimeoutDebited
    BY <1>1, <1>2, <2>1, SetStatusEffect DEF SagaInv, TX_Inv
  <2>4. \A a \in {f, c} : IsEndReport(t, "DEBITED", "FAILED", a)
    BY <2>3 DEF IsEndReport, TransferFailed, compensation, WalletCreditFailed
  <2>5. "DEBITED" \in InFlight
    BY DEF InFlight
  <2>. QED
    BY <1>1, <1>2, <1>4, <2>1, <2>2, <2>4, <2>5, ReportKind
<1>5. CASE handleStuckDebited(t) /\ ~StatusIn(t, {"DEBITED"})
  <2>1. UNCHANGED <<transfers, txOutbox>>
    BY <1>5 DEF handleStuckDebited
  <2>. QED
    BY <1>1, <2>1, RowsStay, TX_IdleKind
<1>. QED
  BY <1>3, <1>4, <1>5 DEF recoverStuckTransfer

-----------------------------------------------------------------------------
(* Every step of the program is of one of the kinds, and keeps what each   *)
(* part of SagaInv says of one service, the broker or the faults.          *)

StepKeeps == StepKind /\ TX_Inv' /\ W_Inv' /\ BrokerInv' /\ FaultsInv'

\* A service that does nothing keeps its invariant.
LEMMA OthersKeep ==
    ASSUME SagaInv
    PROVE  /\ UNCHANGED txVars => TX_Inv'
           /\ UNCHANGED walletVars => W_Inv'
<1>1. UNCHANGED txVars => TX_Inv'
  BY TablesUnchangedKeepsInv DEF txVars, SagaInv, TX_Inv, TX_TypeOK
<1>2. UNCHANGED walletVars => W_Inv'
  BY ForgettingKeepsInv DEF walletVars, repositoryVars, SagaInv
<1>. QED
  BY <1>1, <1>2

\* Publishing takes from the rows to the inboxes.
LEMMA PublishFlows ==
    ASSUME SagaInv, NEW r \in txOutbox \cup walletOutbox, NEW mark, NEW unmarked,
           publish(r, mark, unmarked)
    PROVE  /\ BrokerInv' /\ FaultsInv'
           /\ \A g \in Groups : \A e \in inbox'[g] : e \in Messages
<1>1. r.event \in Event /\ r.event \in Messages
  BY MessagesParts, MessagesAreEvents DEF IsHeld
<1>2. PICK gs \in SUBSET Subscribers(r.event) : emitTo(gs, r.event)
  BY DEF publish, emit
<1>3. \E K : Spend(K)
  BY DEF publish
<1>4. \A g \in Groups : \A e \in inbox[g] : e \in Messages
  BY MessagesParts DEF IsHeld
<1>5. /\ BrokerInv'
      /\ \A g \in Groups : inbox'[g] = IF g \in gs THEN inbox[g] \cup {r.event}
                                                   ELSE inbox[g]
  BY <1>1, <1>2, BrokerMoves DEF SagaInv
<1>6. FaultsInv'
  BY <1>3, SpendKeepsInv DEF SagaInv
<1>. QED
  BY <1>1, <1>4, <1>5, <1>6

\* A publication by the transaction service.
LEMMA TX_PublishKeeps ==
    ASSUME SagaInv, NEW r \in txOutbox, TX_processOutbox(r)
    PROVE  StepKeeps
<1>1. /\ BrokerInv' /\ FaultsInv'
      /\ \A g \in Groups : \A e \in inbox'[g] : e \in Messages
  BY PublishFlows DEF TX_processOutbox
<1>2. UNCHANGED walletVars /\ W_Inv'
  BY OthersKeep DEF TX_processOutbox
<1>3. MemoryFlows
  BY <1>1, <1>2, MessagesParts DEF MemoryFlows, IsHeld, walletVars
<1>4. CASE TX_markPublished(r)
  <2>1. /\ txOutbox' = MarkPublished(txOutbox, r)
        /\ UNCHANGED <<transfers, now, stuck>>
    BY <1>4 DEF TX_markPublished
  <2>2. r \in OutboxRow
    BY DEF SagaInv, TX_Inv, TX_TypeOK
  <2>3. RowsFlow(txOutbox', {})
    BY <2>1, <2>2, RowsStay, RowsMarked
  <2>4. TX_Inv'
    BY <1>4, MarkKeepsInv DEF SagaInv
  <2>. QED
    BY <1>1, <1>2, <1>3, <2>1, <2>3, <2>4, TX_IdleKind DEF StepKeeps
<1>5. CASE UNCHANGED txVars
  BY <1>1, <1>2, <1>3, <1>5, RowsStay, OthersKeep, TX_IdleKind
     DEF StepKeeps, txVars
<1>. QED
  BY <1>4, <1>5 DEF TX_processOutbox, publish

\* A step of the wallet service that pays nothing.
LEMMA W_IdleKind ==
    ASSUME SagaInv, UNCHANGED txVars, ledger' = ledger, MemoryFlows,
           NEW A, RowsFlow(walletOutbox', A), \A a \in A : IsFailureReport(a)
    PROVE  StepKind
<1>1. RowsFlow(txOutbox', A)
  BY RowsStay DEF txVars
<1>2. NewMessages(A)
  BY <1>1, FlowIsNew
<1>3. Idles
  BY <1>2 DEF Idles, txVars
<1>. QED
  BY <1>3 DEF StepKind

\* A publication by the wallet service.
LEMMA W_PublishKeeps ==
    ASSUME SagaInv, NEW r \in walletOutbox, W_processOutbox(r)
    PROVE  StepKeeps
<1>1. /\ BrokerInv' /\ FaultsInv'
      /\ \A g \in Groups : \A e \in inbox'[g] : e \in Messages
  BY PublishFlows DEF W_processOutbox
<1>2. UNCHANGED txVars /\ TX_Inv'
  BY OthersKeep DEF W_processOutbox
<1>3. UNCHANGED <<failing, deadLetters, replays>>
  BY DEF W_processOutbox
<1>4. MemoryFlows
  BY <1>1, <1>3, MessagesParts DEF MemoryFlows, IsHeld
<1>5. CASE W_markPublished(r)
  <2>1. walletOutbox' = MarkPublished(walletOutbox, r) /\ ledger' = ledger
    BY <1>5 DEF W_markPublished
  <2>2. r \in OutboxRow
    BY DEF SagaInv, W_Inv, RepositoryInv, RepositoryTypeOK
  <2>3. RowsFlow(walletOutbox', {})
    BY <2>1, <2>2, RowsStay, RowsMarked
  <2>4. W_Inv'
    BY <1>3, <1>5, W_MarkKeepsInv DEF SagaInv
  <2>. QED
    BY <1>1, <1>2, <1>4, <2>1, <2>3, <2>4, W_IdleKind DEF StepKeeps
<1>6. CASE UNCHANGED repositoryVars
  <2>1. walletOutbox' = walletOutbox /\ ledger' = ledger
    BY <1>6 DEF repositoryVars
  <2>2. RowsFlow(walletOutbox', {})
    BY <2>1, RowsStay
  <2>3. W_Inv'
    BY <1>3, <1>6, ForgettingKeepsInv DEF SagaInv
  <2>. QED
    BY <1>1, <1>2, <1>4, <2>1, <2>2, <2>3, W_IdleKind DEF StepKeeps
<1>. QED
  BY <1>5, <1>6 DEF W_processOutbox, publish

\* Consuming takes from an inbox, at most.
LEMMA AcknowledgeFlows ==
    ASSUME SagaInv, NEW g \in Groups, NEW e, NEW redelivered \in BOOLEAN,
           acknowledge(g, e, redelivered)
    PROVE  /\ BrokerInv'
           /\ \A h \in Groups : \A m \in inbox'[h] : m \in inbox[h]
           /\ \A h \in Groups : \A m \in inbox'[h] : m \in Messages
<1>1. \A h \in Groups : \A m \in inbox[h] : m \in Messages
  BY MessagesParts DEF IsHeld
<1>2. BrokerInv' /\ \A h \in Groups : \A m \in inbox'[h] : m \in inbox[h]
  BY BrokerMoves DEF acknowledge, SagaInv, BrokerInv, Kafka_TypeOK
<1>. QED
  BY <1>1, <1>2

\* A message handled by the transaction service.
LEMMA TX_ConsumeKeeps ==
    ASSUME SagaInv, NEW e, TX_consume(e)
    PROVE  StepKeeps
<1>1. PICK redelivered \in BOOLEAN :
        /\ e \in inbox["transactionService"]
        /\ TX_handle(e)
        /\ acknowledge("transactionService", e, redelivered)
        /\ Spend(When(redelivered, "redelivery"))
  BY DEF TX_consume
<1>2. UNCHANGED walletVars /\ W_Inv'
  BY OthersKeep DEF TX_consume
<1>3. "transactionService" \in Groups
  BY DEF Groups
<1>4. e \in Messages
  BY <1>1, <1>3, MessagesParts DEF IsHeld
<1>5. BrokerInv' /\ \A g \in Groups : \A m \in inbox'[g] : m \in Messages
  BY <1>1, <1>3, AcknowledgeFlows
<1>6. FaultsInv'
  BY <1>1, SpendKeepsInv DEF SagaInv
<1>7. MemoryFlows
  BY <1>2, <1>5, MessagesParts DEF MemoryFlows, IsHeld, walletVars
<1>8. StepKind /\ TX_Inv'
  BY <1>1, <1>2, <1>4, <1>7, TX_HandleKind
<1>. QED
  BY <1>2, <1>5, <1>6, <1>8 DEF StepKeeps

\* A message handled by the wallet service, or brought to its catch.
LEMMA W_ConsumeKeeps ==
    ASSUME SagaInv, NEW e, W_consume(e)
    PROVE  StepKeeps
<1>1. e \in inbox["walletService"] /\ UNCHANGED txVars /\ TX_Inv'
  BY OthersKeep DEF W_consume
<1>2. "walletService" \in Groups
  BY DEF Groups
<1>3. e \in Messages
  BY <1>1, <1>2, MessagesParts DEF IsHeld
<1>4. e \in Event /\ e.topic \in MoneyTopics
  BY <1>1, <1>2, <1>3, MessagesAreEvents
     DEF SagaInv, BrokerInv, Subscriptions, W_Subscriptions, MoneyTopics
<1>5. \A g \in Groups : \A m \in inbox[g] : m \in Messages
  BY MessagesParts DEF IsHeld
<1>6. ASSUME NEW redelivered \in BOOLEAN, W_handle(e) \/ W_overtake(e),
             acknowledge("walletService", e, redelivered), NEW K, Spend(K)
      PROVE  StepKeeps
  <2>1. BrokerInv' /\ \A g \in Groups : \A m \in inbox'[g] : m \in Messages
    BY <1>2, <1>6, AcknowledgeFlows
  <2>2. FaultsInv'
    BY <1>6, SpendKeepsInv DEF SagaInv
  <2>3. /\ moveMoney(e) /\ UNCHANGED <<deadLetters, replays>>
        /\ failing' \subseteq failing \cup {e}
    BY <1>6 DEF W_handle, W_overtake
  <2>4. MemoryFlows
    BY <1>3, <2>1, <2>3, MessagesParts DEF MemoryFlows, IsHeld
  <2>5. StepKind
    BY <1>1, <1>3, <1>4, <2>3, <2>4, AttemptKind
  <2>6. W_Inv'
    BY <1>4, <1>6, W_HandleKeepsInv, W_OvertakeKeepsInv DEF SagaInv
  <2>. QED
    BY <1>1, <2>1, <2>2, <2>5, <2>6 DEF StepKeeps
<1>7. ASSUME NEW dbError \in BOOLEAN, W_catch(e, dbError), UNCHANGED inbox,
             Spend(When(dbError, "database"))
      PROVE  StepKeeps
  <2>1. BrokerInv'
    BY <1>7, BrokerMoves DEF SagaInv
  <2>2. FaultsInv'
    BY <1>7, SpendKeepsInv DEF SagaInv
  <2>3. /\ moveMoney(e) \/ UNCHANGED repositoryVars
        /\ failing' = failing \cup {e} /\ UNCHANGED <<deadLetters, replays>>
    BY <1>7 DEF W_catch, moveMoneyFails
  <2>4. MemoryFlows
    BY <1>3, <1>5, <1>7, <2>3, MessagesParts DEF MemoryFlows, IsHeld
  <2>5. StepKind
    BY <1>1, <1>3, <1>4, <2>3, <2>4, AttemptKind
  <2>6. W_Inv'
    BY <1>4, <1>7, W_CatchKeepsInv DEF SagaInv
  <2>. QED
    BY <1>1, <2>1, <2>2, <2>5, <2>6 DEF StepKeeps
<1>. QED
  BY <1>6, <1>7 DEF W_consume

\* The end of a catch.
LEMMA W_EndCatchKeeps ==
    ASSUME SagaInv, NEW e \in failing, W_endCatch(e)
    PROVE  StepKeeps
<1>1. UNCHANGED txVars /\ TX_Inv'
  BY OthersKeep DEF W_endCatch
<1>2. "walletService" \in Groups /\ e \in Messages
  BY MessagesParts DEF Groups, IsHeld
<1>3. ASSUME NEW others \in BOOLEAN, W_answer(e, others),
             NEW redelivered \in BOOLEAN,
             acknowledge("walletService", e, redelivered), NEW K, Spend(K)
      PROVE  StepKeeps
  <2>1. BrokerInv' /\ \A g \in Groups : \A m \in inbox'[g] : m \in Messages
    BY <1>2, <1>3, AcknowledgeFlows
  <2>2. FaultsInv'
    BY <1>3, SpendKeepsInv DEF SagaInv
  <2>3. W_Inv'
    BY <1>3, W_AnswerKeepsInv DEF SagaInv
  <2>4. failing' \subseteq failing /\ replays' = replays
    BY <1>3 DEF W_answer, Leave
  <2>5. \A d \in deadLetters' : d \in deadLetters \/ d.payload = e
    <3>. DEFINE letter ==
                  [payload |-> e,
                   copy |-> Cardinality({d \in deadLetters : d.payload = e}),
                   status |-> "PENDING"]
    <3>1. \/ deadLetters' = deadLetters
          \/ deadLetters' = deadLetters \cup {letter}
      BY <1>3 DEF W_answer, routeToDlq
    <3>2. letter.payload = e
      OBVIOUS
    <3>. HIDE DEF letter
    <3>. QED
      BY <3>1, <3>2
  <2>6. MemoryFlows
    BY <1>2, <2>1, <2>4, <2>5, MessagesParts DEF MemoryFlows, IsHeld
  <2>7. ASSUME NEW a, IsFailureReport(a), writeOutboxEntry(a) PROVE StepKind
    <3>1. walletOutbox' = Insert(walletOutbox, a) /\ ledger' = ledger
      BY <2>7 DEF writeOutboxEntry
    <3>2. RowsFlow(walletOutbox', {a})
      BY <3>1, RowsStay, RowsGrow
    <3>. QED
      BY <1>1, <2>6, <2>7, <3>1, <3>2, W_IdleKind
  <2>8. CASE e.topic = "transfer.initiated" /\ writeOutboxEntry(debitFailed(e))
    <3>1. IsFailureReport(debitFailed(e))
      BY <2>8 DEF IsFailureReport
    <3>2. StepKind
      BY <2>7, <2>8, <3>1
    <3>. QED
      BY <1>1, <2>1, <2>2, <2>3, <3>2 DEF StepKeeps
  <2>9. CASE e.topic = "wallet.debited" /\ writeOutboxEntry(creditFailed(e))
    <3>1. IsFailureReport(creditFailed(e))
      BY <2>9 DEF IsFailureReport
    <3>2. StepKind
      BY <2>7, <2>9, <3>1
    <3>. QED
      BY <1>1, <2>1, <2>2, <2>3, <3>2 DEF StepKeeps
  <2>10. CASE UNCHANGED repositoryVars
    <3>1. walletOutbox' = walletOutbox /\ ledger' = ledger
      BY <2>10 DEF repositoryVars
    <3>2. RowsFlow(walletOutbox', {})
      BY <3>1, RowsStay
    <3>3. StepKind
      BY <1>1, <2>6, <3>1, <3>2, W_IdleKind
    <3>. QED
      BY <1>1, <2>1, <2>2, <2>3, <3>3 DEF StepKeeps
  <2>. QED
    BY <1>3, <2>8, <2>9, <2>10 DEF W_answer
<1>4. ASSUME NEW others \in BOOLEAN, W_abandon(e, others), UNCHANGED inbox,
             NEW K, Spend(K)
      PROVE  StepKeeps
  <2>1. BrokerInv'
    BY <1>4, BrokerMoves DEF SagaInv
  <2>2. FaultsInv'
    BY <1>4, SpendKeepsInv DEF SagaInv
  <2>3. /\ failing' \subseteq failing
        /\ UNCHANGED <<repositoryVars, deadLetters, replays>>
    BY <1>4 DEF W_abandon, Leave
  <2>4. W_Inv'
    BY <2>3, ForgettingKeepsInv DEF SagaInv
  <2>5. MemoryFlows
    BY <1>4, <2>3, MessagesParts DEF MemoryFlows, IsHeld
  <2>6. walletOutbox' = walletOutbox /\ ledger' = ledger
    BY <2>3 DEF repositoryVars
  <2>7. RowsFlow(walletOutbox', {})
    BY <2>6, RowsStay
  <2>8. StepKind
    BY <1>1, <2>5, <2>6, <2>7, W_IdleKind
  <2>. QED
    BY <1>1, <2>1, <2>2, <2>4, <2>8 DEF StepKeeps
<1>. QED
  BY <1>3, <1>4 DEF W_endCatch

\* Requests, the clock, the timeout job, and what is lost with the process.
LEMMA TX_OwnKeeps ==
    ASSUME SagaInv, TX_local \/ TX_fault
    PROVE  StepKeeps
<1>1. UNCHANGED walletVars /\ UNCHANGED inbox /\ W_Inv'
  BY OthersKeep DEF TX_local, TX_fault
<1>2. \E K : Spend(K)
  BY DEF TX_local, TX_fault
<1>3. BrokerInv' /\ FaultsInv'
  BY <1>1, <1>2, SpendKeepsInv, BrokerMoves DEF SagaInv
<1>4. MemoryFlows
  BY <1>1, MessagesParts DEF MemoryFlows, IsHeld, walletVars
<1>5. ASSUME NEW t \in Transfers, NEW r \in Requests, NEW at \in Deadlines,
             createTransfer(t, r, at)
      PROVE  StepKeeps
  <2>1. TX_Inv'
    BY <1>5, CreateKeepsInv DEF SagaInv
  <2>2. StepKind
    BY <1>1, <1>4, <1>5, CreateKind
  <2>. QED
    BY <1>1, <1>3, <2>1, <2>2 DEF StepKeeps
<1>6. ASSUME NEW s \in stuck, recoverStuckTransfer(s) PROVE StepKeeps
  <2>1. TX_Inv'
    BY <1>6, RecoverKeepsInv DEF SagaInv
  <2>2. StepKind
    BY <1>1, <1>4, <1>6, RecoverKind
  <2>. QED
    BY <1>1, <1>3, <2>1, <2>2 DEF StepKeeps
<1>7. ASSUME UNCHANGED <<transfers, txOutbox>>, now' \in Nat,
             \A s \in stuck' : s \in stuck \/
               \E t \in stuckTransfers :
                 s = [transferId |-> t, status |-> transfers[t].status]
      PROVE  StepKeeps
  <2>1. TX_Inv'
    BY <1>7, TablesUnchangedKeepsInv DEF SagaInv
  <2>2. RowsFlow(txOutbox', {})
    BY <1>7, RowsStay
  <2>3. \A s \in stuck' :
          \/ s \in stuck
          \/ s.transferId \in Created /\ s.status = transfers[s.transferId].status
    BY <1>7 DEF stuckTransfers
  <2>4. StepKind
    BY <1>1, <1>4, <1>7, <2>2, <2>3, TX_IdleKind
  <2>. QED
    BY <1>1, <1>3, <2>1, <2>4 DEF StepKeeps
<1>8. now \in Nat
  BY DEF SagaInv, TX_Inv, TX_TypeOK
<1>9. CASE tick
  BY <1>7, <1>8, <1>9 DEF tick
<1>10. CASE findStuckTransfers
  BY <1>7, <1>8, <1>10 DEF findStuckTransfers, Oldest
<1>11. CASE \E s \in stuck : skipStuckTransfer(s)
  BY <1>7, <1>8, <1>11 DEF skipStuckTransfer
<1>12. CASE TX_restart
  BY <1>7, <1>8, <1>12 DEF TX_restart
<1>. QED
  BY <1>5, <1>6, <1>9, <1>10, <1>11, <1>12 DEF TX_local, TX_fault

\* Replays, and what is lost with the process.
LEMMA W_OwnKeeps ==
    ASSUME SagaInv, W_local
    PROVE  StepKeeps
<1>1. UNCHANGED txVars /\ UNCHANGED inbox /\ TX_Inv'
  BY OthersKeep DEF W_local
<1>2. \E K : Spend(K)
  BY DEF W_local
<1>3. BrokerInv' /\ FaultsInv'
  BY <1>1, <1>2, SpendKeepsInv, BrokerMoves DEF SagaInv
<1>4. ASSUME UNCHANGED repositoryVars, MemoryFlows PROVE StepKind
  <2>1. walletOutbox' = walletOutbox /\ ledger' = ledger
    BY <1>4 DEF repositoryVars
  <2>2. RowsFlow(walletOutbox', {})
    BY <2>1, RowsStay
  <2>. QED
    BY <1>1, <1>4, <2>1, <2>2, W_IdleKind
<1>5. ASSUME UNCHANGED <<repositoryVars, deadLetters>>,
             failing' \subseteq failing, replays' \subseteq replays
      PROVE  StepKeeps
  <2>1. W_Inv'
    BY <1>5, ForgettingKeepsInv DEF SagaInv
  <2>2. MemoryFlows
    BY <1>1, <1>5, MessagesParts DEF MemoryFlows, IsHeld
  <2>. QED
    BY <1>1, <1>3, <1>4, <1>5, <2>1, <2>2 DEF StepKeeps
<1>6. ASSUME NEW q \in replays, NEW dbError \in BOOLEAN,
             NEW others \in BOOLEAN, replayRefund(q, dbError, others)
      PROVE  StepKeeps
  <2>. DEFINE e == q.payload
  <2>1. W_Inv'
    BY <1>6, ReplayKeepsInv DEF SagaInv
  <2>2. /\ moveMoney(e) \/ UNCHANGED repositoryVars
        /\ UNCHANGED <<failing, deadLetters>>
        /\ \A p \in replays' : p \in replays \/ p.payload = e
    <3>1. /\ q \in Replay
          /\ \E step \in {"refunded", "failed"} :
               replays' = Leave(replays, q, others) \cup {[q EXCEPT !.step = step]}
      BY <1>6 DEF replayRefund, SagaInv, W_Inv, MemoryInv, MemoryTypeOK
    <3>2. \A step : [q EXCEPT !.step = step].payload = e
      BY <3>1 DEF Replay
    <3>3. \A p \in replays' : p \in replays \/ p.payload = e
      BY <3>1, <3>2 DEF Leave
    <3>. QED
      BY <1>6, <3>3 DEF replayRefund, moveMoneyFails
  <2>3. e \in Messages
    BY MessagesParts DEF IsHeld
  <2>4. e.topic \in MoneyTopics
    BY DEF SagaInv, W_Inv, MemoryInv, MemoryTypeOK, MoneyTopics
  <2>. HIDE DEF e
  <2>5. MemoryFlows
    BY <1>1, <2>2, <2>3, MessagesParts DEF MemoryFlows, IsHeld
  <2>6. StepKind
    BY <1>1, <2>2, <2>3, <2>4, <2>5, AttemptKind
  <2>. QED
    BY <1>1, <1>3, <2>1, <2>6 DEF StepKeeps
<1>7. ASSUME NEW p \in replays, NEW dbError \in BOOLEAN,
             NEW others \in BOOLEAN, markReplayed(p, dbError, others)
      PROVE  StepKeeps
  <2>1. W_Inv'
    BY <1>7, RecordKeepsInv DEF SagaInv
  <2>2. UNCHANGED <<repositoryVars, failing>> /\ replays' \subseteq replays
    BY <1>7 DEF markReplayed, Leave
  <2>3. \A c \in deadLetters' : \E d \in deadLetters : c.payload = d.payload
    <3>. DEFINE f(d) == IF d.payload = p.payload /\ d.copy = p.copy
                        THEN [d EXCEPT !.status = replayStatus(p, dbError)]
                        ELSE d
    <3>1. deadLetters' = {f(d) : d \in deadLetters}
      BY <1>7 DEF markReplayed
    <3>2. \A d \in deadLetters : f(d).payload = d.payload
      BY DEF SagaInv, W_Inv, MemoryInv, MemoryTypeOK, DeadLetter
    <3>. HIDE DEF f
    <3>. QED
      BY <3>1, <3>2
  <2>4. MemoryFlows
    BY <1>1, <2>2, <2>3, MessagesParts DEF MemoryFlows, IsHeld
  <2>. QED
    BY <1>1, <1>3, <1>4, <2>1, <2>2, <2>4 DEF StepKeeps
<1>8. CASE W_restart
  BY <1>5, <1>8 DEF W_restart
<1>9. CASE \E p \in replays, others \in BOOLEAN : abandonReplay(p, others)
  BY <1>5, <1>9 DEF abandonReplay, Leave
<1>10. ASSUME NEW d \in deadLetters, replay(d) PROVE StepKeeps
  <2>1. W_Inv'
    BY <1>10, ReplayStartKeepsInv DEF SagaInv
  <2>2. /\ UNCHANGED <<repositoryVars, failing, deadLetters>>
        /\ \A p \in replays' : p \in replays \/ p.payload = d.payload
    BY <1>10 DEF replay
  <2>3. MemoryFlows
    BY <1>1, <2>2, MessagesParts DEF MemoryFlows, IsHeld
  <2>. QED
    BY <1>1, <1>3, <1>4, <2>1, <2>2, <2>3 DEF StepKeeps
<1>. QED
  BY <1>6, <1>7, <1>8, <1>9, <1>10 DEF W_local

-----------------------------------------------------------------------------
(* The theorems.                                                           *)

\* At the start there is no transfer, no entry and no message.
LEMMA SagaInvInit == Init => SagaInv
<1>. SUFFICES ASSUME Init PROVE SagaInv
  OBVIOUS
<1>1. TX_Inv /\ W_Inv
  BY TX_InvInit, W_InitHolds DEF Init
<1>2. BrokerInv
  BY DEF Init, Kafka_Init, BrokerInv, Kafka_TypeOK
<1>3. FaultsInv
  BY BudgetAssumption DEF Init, FaultsInv
<1>4. \A e : e \notin Messages
  <2>1. \A e : ~IsHeld(e)
    BY DEF Init, TX_Init, W_Init, Repository_Init, Kafka_Init, IsHeld
  <2>. QED
    BY <2>1, MessagesParts
<1>5. TruthInv
  BY <1>4 DEF Init, TX_Init, W_Init, Repository_Init, TruthInv, MessagesAreTrue,
     LedgerMatchesTransfers, StatusBackedByLedger, Created
<1>. QED
  BY <1>1, <1>2, <1>3, <1>5 DEF SagaInv

\* Every step is of one of the kinds and keeps the invariant.
LEMMA SagaStep ==
    ASSUME SagaInv, Next
    PROVE  StepKind /\ SagaInv'
<1>1. StepKeeps
  BY TX_PublishKeeps, W_PublishKeeps, TX_ConsumeKeeps, W_ConsumeKeeps,
     W_EndCatchKeeps, TX_OwnKeeps, W_OwnKeeps DEF Next
<1>2. TruthInv'
  BY <1>1, MessagesStayTrue, LedgerStaysMatched, StatusStaysBacked
     DEF StepKeeps, TruthInv
<1>. QED
  BY <1>1, <1>2 DEF StepKeeps, SagaInv

\* The inductive invariant holds in every reachable state.
LEMMA SagaInvariance == Spec => []SagaInv
<1>1. SagaInv /\ UNCHANGED vars => SagaInv'
  <2>. SUFFICES ASSUME SagaInv, UNCHANGED vars PROVE SagaInv'
    OBVIOUS
  <2>1. TX_Inv' /\ W_Inv'
    BY OthersKeep DEF vars, txVars, walletVars
  <2>2. BrokerInv' /\ FaultsInv'
    BY DEF vars, SagaInv, BrokerInv, Kafka_TypeOK, FaultsInv
  <2>3. TruthInv'
    BY DEF vars, SagaInv, TruthInv, MessagesAreTrue, Messages, IsTrue, Created,
       EventsAbout, Debited, Credited, Refunded, Moved, LedgerMatchesTransfers,
       StatusBackedByLedger
  <2>. QED
    BY <2>1, <2>2, <2>3 DEF SagaInv
<1>2. SagaInv /\ [Next]_vars => SagaInv'
  BY <1>1, SagaStep
<1>. QED
  BY <1>2, SagaInvInit, PTL DEF Spec

\* The whole state always type-checks, the inboxes and the faults included.
THEOREM SagaTypeCorrect == Spec => []TypeOK
<1>1. SagaInv => TypeOK
  BY W_InvImplies DEF SagaInv, TX_Inv, BrokerInv, FaultsInv, TypeOK
<1>. QED
  BY <1>1, SagaInvariance, PTL

\* Whatever is delivered, however late and however often, is still true when
\* it arrives.
THEOREM MessagesAreAlwaysTrue == Spec => []MessagesAreTrue
  BY SagaInvariance, PTL DEF SagaInv, TruthInv

\* Money only moves for a transfer somebody asked for, on its terms, and is
\* only paid out after it was taken.
THEOREM LedgerAlwaysMatches == Spec => []LedgerMatchesTransfers
  BY SagaInvariance, PTL DEF SagaInv, TruthInv

\* A status is only ever as far as the money is.
THEOREM StatusIsAlwaysBacked == Spec => []StatusBackedByLedger
  BY SagaInvariance, PTL DEF SagaInv, TruthInv

\* What the wallet service keeps alone, it keeps in the program.
THEOREM WalletsStaySafe ==
    Spec => [](BalanceAccounted /\ EntryAnnouncedOnce /\ ProcessedMeansRefunded)
<1>1. SagaInv => BalanceAccounted /\ EntryAnnouncedOnce /\ ProcessedMeansRefunded
  BY W_InvImplies DEF SagaInv
<1>. QED
  BY <1>1, SagaInvariance, PTL

-----------------------------------------------------------------------------
(* The environment of TX_Spec is no narrower than the one the program      *)
(* gives the transaction service: its proofs and runs speak of the program.*)

\* What the transaction service is told is an event TX_Next may deliver.
LEMMA ConsumedIsAboutATransfer ==
    ASSUME SagaInv, NEW e \in inbox["transactionService"]
    PROVE  e.transferId \in Created /\ e \in EventsAbout(e.transferId)
<1>1. "transactionService" \in Groups
  BY DEF Groups
<1>2. IsTrue(e)
  BY <1>1, MessagesParts DEF IsHeld, SagaInv, TruthInv, MessagesAreTrue
<1>3. e.topic \in {"wallet.debited", "wallet.debit-failed", "wallet.credited",
                   "wallet.credit-failed", "wallet.refunded"}
  BY <1>1 DEF SagaInv, BrokerInv, Subscriptions, TX_Subscriptions
<1>. QED
  BY <1>2, <1>3 DEF IsTrue, TransferInitiated

\* Every step of the program is a step of the transaction service on its own,
\* or none.
LEMMA TX_Simulation ==
    ASSUME SagaInv, [Next]_vars
    PROVE  [TX_Next]_txVars
<1>1. CASE TX_local
  BY <1>1 DEF TX_local, TX_Next
<1>2. CASE TX_fault
  BY <1>2 DEF TX_fault, TX_Next
<1>3. ASSUME NEW r \in txOutbox, TX_processOutbox(r)
      PROVE  [TX_Next]_txVars
  BY <1>3 DEF TX_processOutbox, publish, TX_Next
<1>4. ASSUME NEW e \in inbox["transactionService"], TX_consume(e)
      PROVE  [TX_Next]_txVars
  BY <1>4, ConsumedIsAboutATransfer DEF TX_consume, TX_Next
<1>5. CASE \/ W_local
           \/ \E r \in walletOutbox : W_processOutbox(r)
           \/ \E e \in inbox["walletService"] : W_consume(e)
           \/ \E e \in failing : W_endCatch(e)
  BY <1>5 DEF W_local, W_processOutbox, W_consume, W_endCatch
<1>6. CASE UNCHANGED vars
  BY <1>6 DEF vars, txVars
<1>. QED
  BY <1>1, <1>2, <1>3, <1>4, <1>5, <1>6 DEF Next

\* The program implements the transaction service of TX_Spec, so all that is
\* proved of the service alone holds in the program.
THEOREM ProgramRunsTransactionService == Spec => TX_Spec
<1>1. Init => TX_Init
  BY DEF Init
<1>2. SagaInv /\ [Next]_vars => [TX_Next]_txVars
  BY TX_Simulation
<1>. QED
  BY <1>1, <1>2, SagaInvariance, PTL DEF Spec, TX_Spec

\* In the program too, a transfer ends once and for all and says so once, and
\* a refund is asked for only by the timeout that failed it.
THEOREM TransfersStaySafe ==
    Spec => TerminalIsFinal /\ []AnnouncedOnce /\ []CompensatedOnce
  BY ProgramRunsTransactionService, TX_TerminalIsFinal, TX_AnnouncesOnce,
     TX_CompensatesOnce

-----------------------------------------------------------------------------
(* The program implements SagaContract.                                    *)

\* The contract's view of a transfer only depends on two tables.
LEMMA ContractStutters ==
    ASSUME UNCHANGED <<transfers, ledger>>
    PROVE  UNCHANGED Contract!contractVars
  BY DEF Contract!contractVars, StatusOf, LegsOf, Created

\* A status moves as the contract has it, and no money moves with it.
LEMMA ContractReports ==
    ASSUME SagaInv, NEW t \in Transfers, ledger' = ledger,
           \A u \in Transfers \ {t} : StatusOf(u)' = StatusOf(u),
           \/ StatusOf(t) = "NONE" /\ StatusOf(t)' = "PENDING"
           \/ StatusOf(t) = "PENDING" /\ StatusOf(t)' = "DEBITED" /\ Debited(t)
           \/ StatusOf(t) = "DEBITED" /\ StatusOf(t)' = "COMPLETED" /\ Credited(t)
           \/ StatusOf(t) \in InFlight /\ StatusOf(t)' = "FAILED"
    PROVE  Contract!Next
<1>. DEFINE S == [u \in Transfers |-> StatusOf(u)]
            L == [u \in Transfers |-> LegsOf(u)]
<1>1. L' = L
  BY DEF LegsOf
<1>2. S' = [S EXCEPT ![t] = StatusOf(t)']
  OBVIOUS
<1>3. S[t] = StatusOf(t)
  OBVIOUS
<1>4. /\ Debited(t) => "DEBIT" \in L[t]
      /\ Credited(t) => "CREDIT" \in L[t]
  BY DEF Debited, Credited, Moved, LegsOf
<1>. HIDE DEF S, L
<1>5. \/ S[t] \in {"NONE"} /\ S' = [S EXCEPT ![t] = "PENDING"]
      \/ /\ "DEBIT" \in L[t] /\ S[t] \in {"PENDING"}
         /\ S' = [S EXCEPT ![t] = "DEBITED"]
      \/ /\ "CREDIT" \in L[t] /\ S[t] \in {"DEBITED"}
         /\ S' = [S EXCEPT ![t] = "COMPLETED"]
      \/ /\ S[t] \in {"PENDING", "DEBITED"}
         /\ S' = [S EXCEPT ![t] = "FAILED"]
  BY <1>2, <1>3, <1>4 DEF InFlight
<1>. QED
  BY <1>1, <1>5
     DEF S, L, Contract!Next, Contract!Accept, Contract!Confirm,
         Contract!Complete, Contract!Fail, Contract!Report

\* The unique index lets each leg of a transfer happen once: the wallet and
\* the transaction id of an entry follow from its transfer and its type.
LEMMA LegsHappenOnce ==
    ASSUME SagaInv, NEW e \in Messages, Pays(e)
    PROVE  Movement(e).type \notin LegsOf(e.transferId)
<1>. DEFINE t == e.transferId
            l == EntryOf(e)
<1>1. SUFFICES ASSUME NEW k \in ledger, k.transactionId.of = t, k.type = l.type
               PROVE  FALSE
  BY DEF LegsOf, EntryOf
<1>2. /\ l.transactionId.of = t
      /\ l.transactionId.refund = (l.type = "REFUND")
      /\ l.walletId = IF l.type = "CREDIT" THEN transfers[t].receiverWalletId
                                           ELSE transfers[t].senderWalletId
  BY PaymentLeaves DEF EntryOf
<1>3. /\ k.transactionId.refund = (k.type = "REFUND")
      /\ k.walletId = IF k.type = "CREDIT" THEN transfers[t].receiverWalletId
                                           ELSE transfers[t].senderWalletId
  BY <1>1 DEF SagaInv, TruthInv, LedgerMatchesTransfers
<1>4. k.transactionId \in TransactionId /\ l.transactionId \in TransactionId
  BY DEF Pays, Moves, LedgerEntry, SagaInv, W_Inv, RepositoryInv,
     RepositoryTypeOK
<1>5. ~(k.walletId = l.walletId /\ k.transactionId = l.transactionId)
  BY DEF Pays, Moves, isDuplicate, EntryOf
<1>. HIDE DEF l
<1>. QED
  BY <1>1, <1>2, <1>3, <1>4, <1>5 DEF TransactionId

\* A payment is a leg of the contract, after the legs it needs.
LEMMA ContractPays ==
    ASSUME SagaInv, NEW e \in Messages, Pays(e)
    PROVE  Contract!Next
<1>. DEFINE t == e.transferId
            leg == Movement(e).type
            S == [u \in Transfers |-> StatusOf(u)]
            L == [u \in Transfers |-> LegsOf(u)]
<1>1. /\ t \in Created /\ leg \in LedgerEntryType
      /\ leg # "DEBIT" => Debited(t)
      /\ ledger' = ledger \cup {EntryOf(e)}
      /\ EntryOf(e).transactionId.of = t /\ EntryOf(e).type = leg
  BY PaymentLeaves
<1>2. leg \notin LegsOf(t)
  BY LegsHappenOnce
<1>3. t \in Transfers /\ StatusOf(t) # "NONE"
  BY <1>1 DEF StatusOf, Created, SagaInv, TX_Inv, TX_TypeOK, Transfer,
     TransferStatus
<1>4. S' = S
  BY DEF Pays, StatusOf, Created
<1>5. LegsOf(t)' = LegsOf(t) \cup {leg}
      /\ \A u \in Transfers \ {t} : LegsOf(u)' = LegsOf(u)
  BY <1>1 DEF LegsOf
<1>6. L' = [L EXCEPT ![t] = L[t] \cup {leg}]
  BY <1>5
<1>7. /\ leg \notin L[t] /\ S[t] # "NONE"
      /\ leg # "DEBIT" => "DEBIT" \in L[t]
  BY <1>1, <1>2, <1>3 DEF Debited, Moved, LegsOf
<1>8. leg \in {"DEBIT", "CREDIT", "REFUND"}
  BY <1>1 DEF LedgerEntryType
<1>. HIDE DEF S, L, leg, t
<1>9. \/ S[t] # "NONE" /\ "DEBIT" \notin L[t]
         /\ L' = [L EXCEPT ![t] = L[t] \cup {"DEBIT"}]
      \/ "DEBIT" \in L[t] /\ "CREDIT" \notin L[t]
         /\ L' = [L EXCEPT ![t] = L[t] \cup {"CREDIT"}]
      \/ "DEBIT" \in L[t] /\ "REFUND" \notin L[t]
         /\ L' = [L EXCEPT ![t] = L[t] \cup {"REFUND"}]
  BY <1>6, <1>7, <1>8
<1>. QED
  BY <1>3, <1>4, <1>9
     DEF S, L, Contract!Next, Contract!Debit, Contract!Credit,
         Contract!Refund, Contract!Move

\* Each kind of step is a step of the contract or none.
LEMMA ContractSimulation ==
    ASSUME SagaInv, [Next]_vars
    PROVE  [Contract!Next]_(Contract!contractVars)
<1>1. CASE UNCHANGED <<transfers, ledger>>
  BY <1>1, ContractStutters
<1>2. ASSUME NEW t \in Transfers, Accepts(t) PROVE Contract!Next
  <2>1. /\ ledger' = ledger
        /\ StatusOf(t) = "NONE" /\ StatusOf(t)' = "PENDING"
        /\ \A u \in Transfers \ {t} : StatusOf(u)' = StatusOf(u)
    BY <1>2 DEF Accepts, StatusOf, Created
  <2>. QED
    BY <2>1, ContractReports
<1>3. ASSUME NEW t \in Created, NEW from \in InFlight, NEW to \in TransferStatus,
             Reports(t, from, to)
      PROVE  Contract!Next
  <2>1. PICK reason \in FailureReason \cup {NoReason} : SetStatus(t, to, reason)
    BY <1>3 DEF Reports
  <2>2. /\ Created' = Created
        /\ \A u \in Transfers \ {t} : transfers'[u] = transfers[u]
        /\ transfers'[t].status = to
    BY <2>1, SetStatusEffect DEF SagaInv, TX_Inv
  <2>3. /\ t \in Transfers /\ ledger' = ledger
        /\ StatusOf(t) = from /\ StatusOf(t)' = to
        /\ \A u \in Transfers \ {t} : StatusOf(u)' = StatusOf(u)
    BY <1>3, <2>2 DEF Reports, StatusIn, StatusOf, Created
  <2>. QED
    BY <1>3, <2>3, ContractReports DEF Reports
<1>4. ASSUME NEW e \in Messages, Pays(e) PROVE Contract!Next
  BY <1>4, ContractPays
<1>5. UNCHANGED <<transfers, ledger>> \/ StepKind
  BY SagaStep DEF vars
<1>. QED
  BY <1>1, <1>2, <1>3, <1>4, <1>5 DEF StepKind, Idles

\* The program keeps the contract: a status only moves forward and reports
\* what has happened, each leg of a transfer happens at most once, and
\* nothing is paid out that was not taken.
THEOREM ProgramKeepsContract == Spec => KeepsContract
<1>1. Init => Contract!Init
  BY DEF Init, TX_Init, W_Init, Repository_Init, Contract!Init, StatusOf,
     LegsOf, Created
<1>2. SagaInv /\ [Next]_vars => [Contract!Next]_(Contract!contractVars)
  BY ContractSimulation
<1>. QED
  BY <1>1, <1>2, SagaInvariance, PTL DEF Spec, KeepsContract, Contract!Spec

-----------------------------------------------------------------------------
(* A debit is never stranded.                                              *)

\* The faults that have not happened yet had not happened before the step.
LEMMA WithoutBefore ==
    ASSUME SagaInv, NEW k \in FaultKinds, Without(k)'
    PROVE  /\ (\E K : Spend(K)) => Without(k)
           /\ \A K : Spend(K) => k \notin K
<1>1. ASSUME NEW K, Spend(K) PROVE Without(k) /\ k \notin K
  <2>1. /\ faults'[k] <= faults[k]
        /\ k \in K => faults'[k] < Budget[k]
    BY <1>1, SpendKeepsInv DEF SagaInv
  <2>2. faults'[k] = Budget[k]
    BY DEF Without
  <2>3. faults[k] \in Nat /\ Budget[k] \in Nat /\ faults[k] <= Budget[k]
    BY BudgetAssumption DEF SagaInv, FaultsInv
  <2>. QED
    BY <2>1, <2>2, <2>3 DEF Without
<1>. QED
  BY <1>1

\* Steps that publish nothing only add rows.
LEMMA TX_RowsGrow ==
    ASSUME TX_local \/ TX_fault \/ (\E e : TX_handle(e)) \/ UNCHANGED txVars
    PROVE  txOutbox \subseteq txOutbox'
<1>1. \A o, e : o \subseteq Insert(o, e)
  BY DEF Insert
<1>2. \A t, from, to, x, e :
        updateStatusWithOutbox(t, from, to, x, e) => txOutbox \subseteq txOutbox'
  BY <1>1 DEF updateStatusWithOutbox
<1>3. \A t : handleStuckDebited(t) => txOutbox \subseteq txOutbox'
  <2>1. \A t : handleStuckDebited(t) =>
          \/ txOutbox' = txOutbox
          \/ \E f, c : txOutbox' = Insert(Insert(txOutbox, f), c)
    BY DEF handleStuckDebited
  <2>2. \A f, c : txOutbox \subseteq Insert(Insert(txOutbox, f), c)
    BY <1>1
  <2>. QED
    BY <2>1, <2>2
<1>4. CASE \E e : TX_handle(e)
  BY <1>2, <1>4 DEF TX_handle, TX_handleWalletDebited, updateTransferStatus,
     TX_handleWalletDebitFailed, TX_handleWalletCredited,
     TX_handleWalletCreditFailed, TX_handleWalletRefunded
<1>5. CASE \E s \in stuck : recoverStuckTransfer(s)
  BY <1>2, <1>3, <1>5 DEF recoverStuckTransfer, handleStuckPending
<1>6. CASE \E t \in Transfers, r \in Requests, at \in Deadlines :
             createTransfer(t, r, at)
  BY <1>1, <1>6 DEF createTransfer
<1>. QED
  BY <1>4, <1>5, <1>6 DEF TX_local, TX_fault, tick, findStuckTransfers,
     skipStuckTransfer, TX_restart, txVars

\* The same of the wallet service.
LEMMA W_RowsGrow ==
    ASSUME \/ \E e : moveMoney(e) \/ writeOutboxEntry(e)
           \/ UNCHANGED repositoryVars
    PROVE  walletOutbox \subseteq walletOutbox'
<1>1. \A o, e : o \subseteq Insert(o, e)
  BY DEF Insert
<1>2. CASE \E e : writeOutboxEntry(e)
  BY <1>1, <1>2 DEF writeOutboxEntry
<1>3. CASE \E e : moveMoney(e)
  <2>1. walletOutbox' = walletOutbox
          \/ \E e : walletOutbox' = Insert(walletOutbox, e)
    BY <1>3 DEF moveMoney, updateBalanceWithLedger, returnDuplicate,
       repositoryVars
  <2>. QED
    BY <1>1, <2>1
<1>. QED
  BY <1>2, <1>3 DEF repositoryVars

\* The messages the wallet service has yet to handle.
IsPending(e) ==
    \/ e \in inbox["walletService"]
    \/ /\ \E r \in Unpublished(txOutbox) \cup Unpublished(walletOutbox) :
            e = r.event
       /\ e.topic \in MoneyTopics

\* That is what Pending says.
LEMMA PendingParts ==
    \A e : e \in Pending("walletService") <=> IsPending(e)
  BY DEF Pending, IsPending, Subscriptions, W_Subscriptions, MoneyTopics

\* A message whose row and place in the inbox are kept stays pending.
LEMMA PendingKept ==
    ASSUME NEW e, IsPending(e), txOutbox \subseteq txOutbox',
           walletOutbox \subseteq walletOutbox',
           e \in inbox["walletService"] => e \in inbox'["walletService"]
    PROVE  IsPending(e)'
  BY DEF IsPending, Unpublished

\* A publisher that loses nothing only moves what is pending.
LEMMA PublishedStaysPending ==
    ASSUME SagaInv, NEW e, IsPending(e), Without("lost")',
           NEW r \in txOutbox \cup walletOutbox, NEW mark, NEW unmarked,
           publish(r, mark, unmarked),
           Unpublished(txOutbox) \ {r} \subseteq Unpublished(txOutbox'),
           Unpublished(walletOutbox) \ {r} \subseteq Unpublished(walletOutbox')
    PROVE  IsPending(e)'
<1>1. emit(r.event)
  <2>1. "lost" \in FaultKinds
    BY DEF FaultKinds
  <2>2. ~Spend({"lost"})
    BY <2>1, WithoutBefore
  <2>. QED
    BY <2>2 DEF publish
<1>2. \A g \in Groups : inbox'[g] = IF g \in Subscribers(r.event)
                                    THEN inbox[g] \cup {r.event} ELSE inbox[g]
  BY <1>1 DEF emit, emitTo
<1>3. "walletService" \in Groups /\ Subscriptions["walletService"] = MoneyTopics
  BY DEF Groups, Subscriptions, W_Subscriptions, MoneyTopics
<1>4. CASE e \in inbox["walletService"]
  BY <1>2, <1>3, <1>4 DEF IsPending
<1>5. CASE e.topic \in MoneyTopics /\ e = r.event
  BY <1>2, <1>3, <1>5 DEF IsPending, Subscribers
<1>6. CASE /\ e.topic \in MoneyTopics
           /\ \E q \in Unpublished(txOutbox) \cup Unpublished(walletOutbox) :
                q # r /\ e = q.event
  BY <1>6 DEF IsPending
<1>. QED
  BY <1>4, <1>5, <1>6 DEF IsPending

\* Marking a row takes no other out of the unpublished ones.
LEMMA MarkedUnpublished ==
    ASSUME NEW o, NEW r \in o
    PROVE  Unpublished(o) \ {r} \subseteq Unpublished(MarkPublished(o, r))
  BY DEF Unpublished, MarkPublished

\* A message stops being pending only when the wallet service has handled it.
LEMMA PendingUntilHandled ==
    ASSUME SagaInv, Next, Without("lost")', NEW e, IsPending(e)
    PROVE  \/ IsPending(e)'
           \/ e \in inbox["walletService"] /\ moveMoney(e) /\ UNCHANGED txVars
           \/ \E others \in BOOLEAN :
                e \in failing /\ W_answer(e, others) /\ UNCHANGED txVars
<1>1. "walletService" \in Groups /\ "transactionService" \in Groups
      /\ inbox \in [Groups -> SUBSET Event]
  BY DEF Groups, SagaInv, BrokerInv, Kafka_TypeOK
<1>2. CASE TX_local \/ TX_fault
  <2>1. UNCHANGED walletVars /\ UNCHANGED inbox
    BY <1>2 DEF TX_local, TX_fault
  <2>2. txOutbox \subseteq txOutbox'
    BY <1>2, TX_RowsGrow
  <2>. QED
    BY <2>1, <2>2, PendingKept DEF walletVars
<1>3. CASE W_local
  <2>1. UNCHANGED txVars /\ UNCHANGED inbox
    BY <1>3 DEF W_local
  <2>2. (\E f : moveMoney(f)) \/ UNCHANGED repositoryVars
    BY <1>3 DEF W_local, W_restart, abandonReplay, replay, replayRefund,
       markReplayed, moveMoneyFails
  <2>3. walletOutbox \subseteq walletOutbox'
    BY <2>2, W_RowsGrow
  <2>. QED
    BY <2>1, <2>3, PendingKept DEF txVars
<1>4. ASSUME NEW r \in txOutbox, TX_processOutbox(r) PROVE IsPending(e)'
  <2>1. UNCHANGED walletVars /\ publish(r, TX_markPublished(r), UNCHANGED txVars)
    BY <1>4 DEF TX_processOutbox
  <2>2. TX_markPublished(r) \/ UNCHANGED txVars
    BY <2>1 DEF publish
  <2>3. Unpublished(txOutbox) \ {r} \subseteq Unpublished(txOutbox')
    BY <2>2, MarkedUnpublished DEF TX_markPublished, txVars
  <2>4. Unpublished(walletOutbox) \ {r} \subseteq Unpublished(walletOutbox')
    BY <2>1 DEF walletVars
  <2>. QED
    BY <2>1, <2>3, <2>4, PublishedStaysPending
<1>5. ASSUME NEW r \in walletOutbox, W_processOutbox(r) PROVE IsPending(e)'
  <2>1. UNCHANGED txVars
        /\ publish(r, W_markPublished(r), UNCHANGED repositoryVars)
    BY <1>5 DEF W_processOutbox
  <2>2. W_markPublished(r) \/ UNCHANGED repositoryVars
    BY <2>1 DEF publish
  <2>3. Unpublished(walletOutbox) \ {r} \subseteq Unpublished(walletOutbox')
    BY <2>2, MarkedUnpublished DEF W_markPublished, repositoryVars
  <2>4. Unpublished(txOutbox) \ {r} \subseteq Unpublished(txOutbox')
    BY <2>1 DEF txVars
  <2>. QED
    BY <2>1, <2>3, <2>4, PublishedStaysPending
<1>6. ASSUME NEW f \in inbox["transactionService"], TX_consume(f)
      PROVE  IsPending(e)'
  <2>1. UNCHANGED walletVars /\ txOutbox \subseteq txOutbox'
    BY <1>6, TX_RowsGrow DEF TX_consume
  <2>2. inbox'["walletService"] = inbox["walletService"]
    BY <1>1, <1>6 DEF TX_consume, acknowledge, commitOffset
  <2>. QED
    BY <2>1, <2>2, PendingKept DEF walletVars
<1>7. ASSUME NEW f \in inbox["walletService"], W_consume(f)
      PROVE  IsPending(e)' \/ (f = e /\ moveMoney(e))
  <2>1. UNCHANGED txVars
    BY <1>7 DEF W_consume
  <2>2. moveMoney(f) \/ UNCHANGED repositoryVars
    BY <1>7 DEF W_consume, W_handle, W_catch, W_overtake, moveMoneyFails
  <2>3. walletOutbox \subseteq walletOutbox'
    BY <2>2, W_RowsGrow
  <2>4. moveMoney(f) \/ UNCHANGED inbox
    BY <1>7 DEF W_consume, W_handle, W_overtake
  <2>5. \A m \in inbox["walletService"] :
          m # f \/ UNCHANGED inbox => m \in inbox'["walletService"]
    BY <1>1, <1>7 DEF W_consume, acknowledge, commitOffset
  <2>. QED
    BY <2>1, <2>3, <2>4, <2>5, PendingKept DEF txVars
<1>8. ASSUME NEW f \in failing, W_endCatch(f)
      PROVE  IsPending(e)' \/ \E others \in BOOLEAN : f = e /\ W_answer(e, others)
  <2>1. UNCHANGED txVars
    BY <1>8 DEF W_endCatch
  <2>2. (\E a : writeOutboxEntry(a)) \/ UNCHANGED repositoryVars
    BY <1>8 DEF W_endCatch, W_answer, W_abandon
  <2>3. walletOutbox \subseteq walletOutbox'
    BY <2>2, W_RowsGrow
  <2>4. (\E others \in BOOLEAN : W_answer(f, others)) \/ UNCHANGED inbox
    BY <1>8 DEF W_endCatch
  <2>5. \A m \in inbox["walletService"] :
          m # f \/ UNCHANGED inbox => m \in inbox'["walletService"]
    BY <1>1, <1>8 DEF W_endCatch, acknowledge, commitOffset
  <2>. QED
    BY <2>1, <2>3, <2>4, <2>5, PendingKept DEF txVars
<1>9. \A f : W_consume(f) \/ W_endCatch(f) => UNCHANGED txVars
  BY DEF W_consume, W_endCatch
<1>. QED
  BY <1>2, <1>3, <1>4, <1>5, <1>6, <1>7, <1>8, <1>9 DEF Next

\* Something will still give the sender or the receiver the money of t.
InHand(t) ==
    \/ ToItself(t) \/ Credited(t) \/ Refunded(t)
    \/ \E e : /\ IsPending(e) /\ e.transferId = t
              /\ e.topic \in {"wallet.debited", "wallet.credit-failed"}
    \/ \E d \in deadLetters : d.payload.transferId = t

\* DebitNeverStranded in those words.
LEMMA NeverStrandedParts ==
    DebitNeverStranded <=>
      (Without("lost") => \A t \in Transfers : Debited(t) => InHand(t))
<1>1. ASSUME NEW t
      PROVE  (\/ PendingAbout("walletService", "wallet.debited", t)
              \/ PendingAbout("walletService", "wallet.credit-failed", t))
             <=> \E e : /\ IsPending(e) /\ e.transferId = t
                        /\ e.topic \in {"wallet.debited", "wallet.credit-failed"}
  BY PendingParts DEF PendingAbout
<1>. QED
  BY <1>1 DEF DebitNeverStranded, InHand

\* What has been handled without a failure has moved the money of t.  Only
\* the credit of a transfer of a wallet to itself finds the debit in its
\* place.
LEMMA HandledMeansMoved ==
    ASSUME SagaInv, NEW e \in Messages, moveMoney(e), UNCHANGED txVars,
           e.topic \in {"wallet.debited", "wallet.credit-failed"}
    PROVE  InHand(e.transferId)'
<1>. DEFINE t == e.transferId
            m == Movement(e)
<1>1. /\ e \in Event /\ IsTrue(e) /\ RepositoryInv /\ RepositoryTypeOK
      /\ e.topic \in MoneyTopics
  BY MessagesAreEvents DEF SagaInv, W_Inv, RepositoryInv, TruthInv,
     MessagesAreTrue, MoneyTopics
<1>2. CASE e.topic = "wallet.credit-failed"
  <2>1. Refunded(t)'
    BY <1>1, <1>2, RefundIsRecorded
  <2>. QED
    BY <2>1 DEF InHand
<1>3. CASE e.topic = "wallet.debited"
  <2>1. /\ m.type = "CREDIT" /\ m.transactionId = transferTransactionId(t)
        /\ m.walletId = transfers[t].receiverWalletId
        /\ t \in Created
    BY <1>1, <1>3, TrueEventsMatch DEF Movement, credit
  <2>2. CASE Moves(e)
    <3>1. EntryOf(e) \in ledger' /\ EntryOf(e).type = "CREDIT"
          /\ EntryOf(e).transactionId.of = t
      BY <2>1, <2>2 DEF Moves, EntryOf, transferTransactionId
    <3>2. Credited(t)'
      BY <3>1 DEF Credited, Moved
    <3>. QED
      BY <3>2 DEF InHand
  <2>3. CASE Repeats(e)
    <3>1. PICK l \in ledger : /\ l.walletId = m.walletId
                              /\ l.transactionId = m.transactionId
      BY <2>3 DEF Repeats, isDuplicate
    <3>2. l.transactionId.of = t /\ ~l.transactionId.refund
      BY <2>1, <3>1 DEF transferTransactionId
    <3>3. l \in ledger' /\ l.type \in LedgerEntryType
      BY <1>1, <2>3 DEF Repeats, repositoryVars, RepositoryTypeOK, LedgerEntry
    <3>4. CASE l.type = "CREDIT"
      <4>1. Credited(t)'
        BY <3>2, <3>3, <3>4 DEF Credited, Moved
      <4>. QED
        BY <4>1 DEF InHand
    <3>5. CASE l.type # "CREDIT"
      <4>1. l.walletId = transfers[t].senderWalletId
        BY <3>2, <3>5 DEF SagaInv, TruthInv, LedgerMatchesTransfers
      <4>2. ToItself(t)
        BY <2>1, <3>1, <4>1 DEF ToItself
      <4>3. ToItself(t)'
        BY <4>2 DEF ToItself, Created, txVars
      <4>. QED
        BY <4>3 DEF InHand
    <3>. QED
      BY <3>4, <3>5
  <2>. QED
    BY <1>1, <2>2, <2>3, MoveEffect
<1>. QED
  BY <1>2, <1>3

\* The row of a movement or of a failure is pending from the start.
LEMMA WrittenIsPending ==
    ASSUME NEW e, e.topic \in MoneyTopics, NEW r \in walletOutbox',
           r.event = e, ~r.published
    PROVE  IsPending(e)'
  BY DEF IsPending, Unpublished

\* The catch of a failed credit or refund passes the task on: to the message
\* that asks for a refund, or to a letter.
LEMMA AnsweredIsInHand ==
    ASSUME SagaInv, NEW e \in failing, NEW others \in BOOLEAN,
           W_answer(e, others),
           e.topic \in {"wallet.debited", "wallet.credit-failed"}
    PROVE  InHand(e.transferId)'
<1>. DEFINE t == e.transferId
<1>1. CASE e.topic = "wallet.debited" /\ writeOutboxEntry(creditFailed(e))
  <2>. DEFINE a == creditFailed(e)
  <2>1. a.topic = "wallet.credit-failed" /\ a.transferId = t
    BY DEF creditFailed, WalletCreditFailed
  <2>. HIDE DEF a
  <2>. DEFINE row == [event |-> a,
                      copy |-> Cardinality({r \in walletOutbox : r.event = a}),
                      published |-> FALSE]
  <2>2. row \in walletOutbox'
    BY <1>1 DEF writeOutboxEntry, Insert, a
  <2>3. row.event = a /\ ~row.published
    OBVIOUS
  <2>. HIDE DEF row
  <2>4. IsPending(a)'
    BY <2>1, <2>2, <2>3, WrittenIsPending DEF MoneyTopics
  <2>. QED
    BY <2>1, <2>4 DEF InHand
<1>2. CASE e.topic = "wallet.credit-failed" /\ routeToDlq(e)
  <2>. DEFINE letter ==
                [payload |-> e,
                 copy |-> Cardinality({d \in deadLetters : d.payload = e}),
                 status |-> "PENDING"]
  <2>1. letter \in deadLetters' /\ letter.payload = e
    BY <1>2 DEF routeToDlq
  <2>. HIDE DEF letter
  <2>. QED
    BY <2>1 DEF InHand
<1>. QED
  BY <1>1, <1>2 DEF W_answer

\* A letter stays for ever.
LEMMA LettersStay ==
    ASSUME SagaInv, Next, NEW d \in deadLetters
    PROVE  \E c \in deadLetters' : c.payload = d.payload
<1>1. CASE \E p \in replays, dbError, others \in BOOLEAN :
             markReplayed(p, dbError, others)
  <2>1. PICK p \in replays, dbError \in BOOLEAN, others \in BOOLEAN :
          markReplayed(p, dbError, others)
    BY <1>1
  <2>. DEFINE f(c) == IF c.payload = p.payload /\ c.copy = p.copy
                      THEN [c EXCEPT !.status = replayStatus(p, dbError)]
                      ELSE c
  <2>2. deadLetters' = {f(c) : c \in deadLetters}
    BY <2>1 DEF markReplayed
  <2>3. f(d).payload = d.payload
    BY DEF SagaInv, W_Inv, MemoryInv, MemoryTypeOK, DeadLetter
  <2>. HIDE DEF f
  <2>. QED
    BY <2>2, <2>3
<1>2. CASE deadLetters \subseteq deadLetters'
  BY <1>2
<1>3. \/ deadLetters \subseteq deadLetters'
      \/ \E p \in replays, dbError, others \in BOOLEAN :
           markReplayed(p, dbError, others)
  <2>1. CASE \/ TX_local \/ TX_fault
             \/ \E r \in txOutbox : TX_processOutbox(r)
             \/ \E e \in inbox["transactionService"] : TX_consume(e)
    BY <2>1 DEF TX_local, TX_fault, TX_processOutbox, TX_consume, walletVars
  <2>2. CASE W_local
    BY <2>2 DEF W_local, W_restart, abandonReplay, replay, replayRefund
  <2>3. CASE \/ \E r \in walletOutbox : W_processOutbox(r)
             \/ \E e \in inbox["walletService"] : W_consume(e)
             \/ \E e \in failing : W_endCatch(e)
    BY <2>3 DEF W_processOutbox, W_consume, W_handle, W_catch, W_overtake,
       W_endCatch, W_answer, W_abandon, routeToDlq
  <2>. QED
    BY <2>1, <2>2, <2>3 DEF Next
<1>. QED
  BY <1>1, <1>2, <1>3

\* Every step draws from the budget, if only nothing.
LEMMA EveryStepSpends == ASSUME Next PROVE \E K : Spend(K)
  BY DEF Next, TX_local, TX_fault, W_local, TX_processOutbox, W_processOutbox,
     publish, TX_consume, W_consume, W_endCatch

\* Once in hand, in hand for ever, unless a row is lost.
LEMMA StaysInHand ==
    ASSUME SagaInv, Next, Without("lost")', NEW t, InHand(t)
    PROVE  InHand(t)'
<1>1. Lasts /\ \A u, type : Moved(u, type) => Moved(u, type)'
  BY SagaStep, KindsLast, TruthStays
<1>2. CASE ToItself(t) \/ Credited(t) \/ Refunded(t)
  BY <1>1, <1>2 DEF InHand, ToItself, Lasts, Credited, Refunded
<1>3. ASSUME NEW e, IsPending(e), e.transferId = t,
             e.topic \in {"wallet.debited", "wallet.credit-failed"}
      PROVE  InHand(t)'
  <2>1. CASE IsPending(e)'
    BY <1>3, <2>1 DEF InHand
  <2>2. CASE e \in inbox["walletService"] /\ moveMoney(e) /\ UNCHANGED txVars
    <3>1. e \in Messages
      BY <2>2, MessagesParts DEF IsHeld, Groups
    <3>. QED
      BY <1>3, <2>2, <3>1, HandledMeansMoved
  <2>3. CASE \E others \in BOOLEAN : e \in failing /\ W_answer(e, others)
    BY <1>3, <2>3, AnsweredIsInHand
  <2>. QED
    BY <1>3, <2>1, <2>2, <2>3, PendingUntilHandled
<1>4. ASSUME NEW d \in deadLetters, d.payload.transferId = t
      PROVE  InHand(t)'
  BY <1>4, LettersStay DEF InHand
<1>. QED
  BY <1>2, <1>3, <1>4 DEF InHand

\* A debit writes the message that will credit the receiver.
LEMMA DebitIsInHand ==
    ASSUME SagaInv, Next, NEW t, ~Debited(t), Debited(t)'
    PROVE  InHand(t)'
<1>1. ledger' # ledger
  BY DEF Debited, Moved
<1>2. PICK e \in Messages : Pays(e)
  BY <1>1, SagaStep DEF StepKind, Idles, Accepts, Reports
<1>. DEFINE m == Movement(e)
            a == m.event
<1>3. m.type = "DEBIT" /\ t = e.transferId
  BY <1>2, PaymentLeaves DEF Debited, Moved
<1>4. a.topic = "wallet.debited" /\ a.transferId = t
  BY <1>2, <1>3, MovementFacts DEF Pays, TopicOf
<1>5. PICK n \in Nat : walletOutbox' = walletOutbox \cup {RowFor(a, n)}
  BY <1>2 DEF Pays, Moves
<1>6. RowFor(a, n).event = a /\ ~RowFor(a, n).published
  BY DEF RowFor
<1>. HIDE DEF a
<1>7. IsPending(a)'
  BY <1>4, <1>5, <1>6, WrittenIsPending DEF MoneyTopics
<1>. QED
  BY <1>4, <1>7 DEF InHand

\* A debit made before stays in hand, a new one is in hand.
LEMMA NeverStrandedStays ==
    ASSUME SagaInv, DebitNeverStranded, Next
    PROVE  DebitNeverStranded'
<1>1. (DebitNeverStranded <=>
        (Without("lost") => \A t \in Transfers : Debited(t) => InHand(t)))'
  BY NeverStrandedParts, PTL
<1>2. ASSUME Without("lost")', NEW t \in Transfers, Debited(t)'
      PROVE  InHand(t)'
  <2>1. Without("lost")
    BY <1>2, WithoutBefore, EveryStepSpends DEF FaultKinds
  <2>2. CASE Debited(t)
    BY <1>2, <2>1, <2>2, NeverStrandedParts, StaysInHand
  <2>3. CASE ~Debited(t)
    BY <1>2, <2>3, DebitIsInHand
  <2>. QED
    BY <2>2, <2>3
<1>. QED
  BY <1>1, <1>2

\* Until the receiver has the money or the sender has it back, a message that
\* moves it is on its way to the wallet service or a letter waits for the
\* operator, whatever is redelivered, repeated, failed or restarted, as long
\* as no row is lost (the outbox rows, KafkaEventHandler's catches, the DLQ).
THEOREM DebitsAreNeverStranded == Spec => []DebitNeverStranded
<1>1. Init => DebitNeverStranded
  BY DEF Init, W_Init, Repository_Init, DebitNeverStranded, Debited, Moved
<1>2. DebitNeverStranded /\ UNCHANGED vars => DebitNeverStranded'
  BY DEF vars, DebitNeverStranded, Without, Debited, Credited, Refunded, Moved,
     ToItself, Created, PendingAbout, Pending
<1>3. SagaInv /\ DebitNeverStranded /\ [Next]_vars => DebitNeverStranded'
  BY <1>2, NeverStrandedStays
<1>. QED
  BY <1>1, <1>3, SagaInvariance, PTL DEF Spec

-----------------------------------------------------------------------------
(* A completed transfer is never refunded.                                 *)

\* A credit that is due fits in a bigint: what fails it is not its amount.
RoomForCredits ==
    \A t \in Created :
      LET w == transfers[t].receiverWalletId
      IN  w \in Wallets => balance[w] + transfers[t].amount <= MaxBalance

\* No step from here on completes t: the receiver does not exist, or the
\* timeout job was faster.
NeverCompletes(t) ==
    /\ t \in Created
    /\ transfers[t].receiverWalletId \notin Wallets \/ TimedOutDebited(t)

\* A refund is only under way, or made, for a transfer that will not complete.
RefundsJustified ==
    FailedIsNotMoved =>
      /\ \A e \in failing :
           e.topic = "wallet.debited" => e.receiverWalletId \notin Wallets
      /\ \A e \in Messages :
           e.topic = "wallet.credit-failed" => NeverCompletes(e.transferId)
      /\ \A t : Refunded(t) => NeverCompletes(t)

\* FAILED is final, and so is its reason.
LEMMA TimedOutStays ==
    ASSUME SagaInv, StepKind, NEW t, TimedOutDebited(t)
    PROVE  TimedOutDebited(t)'
<1>1. t \in Created /\ t \in Created'
  BY KindsLast DEF TimedOutDebited, StatusIn, Lasts
<1>2. transfers'[t] = transfers[t]
  <2>1. ASSUME NEW u \in Transfers, Accepts(u) PROVE transfers'[t] = transfers[t]
    BY <1>1, <2>1 DEF Accepts, Created
  <2>2. ASSUME NEW u \in Created, NEW from \in InFlight,
               NEW to \in TransferStatus, Reports(u, from, to)
        PROVE  transfers'[t] = transfers[t]
    <3>1. PICK reason \in FailureReason \cup {NoReason} : SetStatus(u, to, reason)
      BY <2>2 DEF Reports
    <3>2. u # t
      BY <2>2 DEF Reports, StatusIn, InFlight, TimedOutDebited
    <3>3. \A v \in Transfers \ {u} : transfers'[v] = transfers[v]
      BY <3>1, SetStatusEffect DEF SagaInv, TX_Inv
    <3>. QED
      BY <1>1, <3>2, <3>3 DEF Created
  <2>. QED
    BY <2>1, <2>2 DEF StepKind, Idles, Pays
<1>. QED
  BY <1>1, <1>2 DEF TimedOutDebited, StatusIn

\* Nor are wallets created here.
LEMMA NeverCompletesStays ==
    ASSUME SagaInv, StepKind, NEW t, NeverCompletes(t)
    PROVE  NeverCompletes(t)'
  BY KindsLast, TimedOutStays DEF NeverCompletes, Lasts

\* A handler fails for good reason: with no error of the database and room
\* for its amount, a credit fails only for want of its wallet.
LEMMA CreditFailsForWantOfWallet ==
    ASSUME SagaInv, RoomForCredits, NEW e \in Messages,
           e.topic = "wallet.debited", MovementThrows(e, FALSE)
    PROVE  e.receiverWalletId \notin Wallets
<1>. DEFINE x == transfers[e.transferId]
<1>1. /\ e.transferId \in Created
      /\ e.receiverWalletId = x.receiverWalletId /\ e.amount = x.amount
  BY TrueEventsMatch DEF SagaInv, TruthInv, MessagesAreTrue
<1>2. Movement(e) = credit(e)
  BY DEF Movement
<1>3. ~Affected(e.receiverWalletId, e.amount, "CREDIT")
  BY <1>2 DEF MovementThrows, Throws, credit
<1>. QED
  BY <1>1, <1>3 DEF Affected, RoomForCredits

\* Handlers that come to their catch.
LEMMA FailuresComeFromCatches ==
    ASSUME Next, NEW e \in failing', e \notin failing
    PROVE  \/ \E dbError \in BOOLEAN :
                /\ e \in inbox["walletService"]
                /\ W_catch(e, dbError)
                /\ Spend(When(dbError, "database"))
           \/ Spend({"overlap"})
<1>1. CASE \/ TX_local \/ TX_fault
           \/ \E r \in txOutbox : TX_processOutbox(r)
           \/ \E f \in inbox["transactionService"] : TX_consume(f)
  BY <1>1 DEF TX_local, TX_fault, TX_processOutbox, TX_consume, walletVars
<1>2. CASE W_local
  BY <1>2 DEF W_local, W_restart, abandonReplay, replay, replayRefund,
     markReplayed
<1>3. CASE \/ \E r \in walletOutbox : W_processOutbox(r)
           \/ \E f \in failing : W_endCatch(f)
  BY <1>3 DEF W_processOutbox, W_endCatch, W_answer, W_abandon, Leave
<1>4. ASSUME NEW f \in inbox["walletService"], W_consume(f)
      PROVE  \/ \E dbError \in BOOLEAN :
                  /\ e = f /\ W_catch(e, dbError)
                  /\ Spend(When(dbError, "database"))
             \/ Spend({"overlap"})
  BY <1>4 DEF W_consume, W_handle, W_catch
<1>. QED
  BY <1>1, <1>2, <1>3, <1>4 DEF Next

\* With no fault that fails them for nothing, they have good reason.
LEMMA FailuresHaveReason ==
    ASSUME SagaInv, Next, FailedIsNotMoved',
           NEW e \in failing', e \notin failing
    PROVE  e \in Messages /\ MovementThrows(e, FALSE)
<1>1. ~Spend({"overlap"})
  BY WithoutBefore DEF FailedIsNotMoved, FaultKinds
<1>2. PICK dbError \in BOOLEAN :
        /\ e \in inbox["walletService"]
        /\ W_catch(e, dbError)
        /\ Spend(When(dbError, "database"))
  BY <1>1, FailuresComeFromCatches
<1>3. "database" \notin When(dbError, "database")
  BY <1>2, WithoutBefore DEF FailedIsNotMoved, FaultKinds
<1>4. ~dbError
  BY <1>3 DEF When
<1>5. MovementThrows(e, FALSE)
  BY <1>2, <1>4 DEF W_catch, moveMoneyFails
<1>6. e \in Messages
  BY <1>2, MessagesParts DEF IsHeld, Groups
<1>. QED
  BY <1>5, <1>6

\* So a new failure of a credit means that the receiver does not exist.
LEMMA FailuresStayJustified ==
    ASSUME SagaInv, RoomForCredits, RefundsJustified, Next,
           FailedIsNotMoved, FailedIsNotMoved',
           NEW e \in failing', e.topic = "wallet.debited"
    PROVE  e.receiverWalletId \notin Wallets
<1>1. CASE e \in failing
  BY <1>1 DEF RefundsJustified
<1>2. CASE e \notin failing
  BY <1>2, FailuresHaveReason, CreditFailsForWantOfWallet
<1>. QED
  BY <1>1, <1>2

\* A failed credit names the receiver of its transfer.
LEMMA FailedCreditFacts ==
    ASSUME SagaInv, NEW f \in failing, f.topic = "wallet.debited"
    PROVE  /\ creditFailed(f).transferId = f.transferId
           /\ f.transferId \in Created
           /\ f.receiverWalletId = transfers[f.transferId].receiverWalletId
<1>1. IsTrue(f)
  BY MessagesParts DEF IsHeld, SagaInv, TruthInv, MessagesAreTrue
<1>. QED
  BY <1>1, TrueEventsMatch DEF creditFailed, WalletCreditFailed

\* A refund is first asked for by the catch of a credit, or by the timeout
\* job in the step that fails the transfer.
LEMMA RefundRequestsArise ==
    ASSUME SagaInv, StepKind, NEW e \in Messages', e \notin Messages,
           e.topic = "wallet.credit-failed"
    PROVE  \/ \E f \in failing : f.topic = "wallet.debited" /\ e = creditFailed(f)
           \/ TimedOutDebited(e.transferId)'
<1>1. ASSUME NEW A, NewMessages(A) PROVE e \in A
  BY <1>1 DEF NewMessages
<1>2. CASE Idles
  <2>1. IsFailureReport(e)
    BY <1>1, <1>2 DEF Idles
  <2>. QED
    BY <2>1 DEF IsFailureReport, debitFailed, WalletDebitFailed
<1>3. ASSUME NEW t \in Transfers, Accepts(t) PROVE FALSE
  <2>1. e = TransferInitiated(t, transfers'[t])
    BY <1>1, <1>3 DEF Accepts
  <2>. QED
    BY <2>1 DEF TransferInitiated
<1>4. ASSUME NEW t \in Created, NEW from \in InFlight, NEW to \in TransferStatus,
             Reports(t, from, to)
      PROVE  TimedOutDebited(e.transferId)'
  <2>1. IsEndReport(t, from, to, e)
    BY <1>1, <1>4 DEF Reports
  <2>2. PICK reason \in FailureReason \cup {NoReason} : SetStatus(t, to, reason)
    BY <1>4 DEF Reports
  <2>3. Created' = Created /\ transfers'[t].status = to
    BY <2>2, SetStatusEffect DEF SagaInv, TX_Inv
  <2>. QED
    BY <2>1, <2>3 DEF IsEndReport, TimedOutDebited, StatusIn
<1>5. ASSUME NEW m \in Messages, Pays(m) PROVE FALSE
  <2>1. e = Movement(m).event
    BY <1>1, <1>5 DEF Pays
  <2>. QED
    BY <1>5, <2>1, MovementFacts DEF Pays, TopicOf, LedgerEntryType
<1>. QED
  BY <1>2, <1>3, <1>4, <1>5 DEF StepKind

\* A refund is made because a message asks for it.
LEMMA RefundsArise ==
    ASSUME SagaInv, StepKind, NEW t, ~Refunded(t), Refunded(t)'
    PROVE  \E e \in Messages : e.topic = "wallet.credit-failed" /\ e.transferId = t
<1>1. ledger' # ledger
  BY DEF Refunded, Moved
<1>2. PICK e \in Messages : Pays(e)
  BY <1>1 DEF StepKind, Idles, Accepts, Reports
<1>3. t = e.transferId /\ Movement(e).type = "REFUND"
  BY <1>2, PaymentLeaves DEF Refunded, Moved
<1>4. e.topic = "wallet.credit-failed"
  BY <1>2, <1>3 DEF Pays, MoneyTopics, Movement, debit, credit
<1>. QED
  BY <1>3, <1>4

\* And with the failures the requests for refunds, and the refunds.
LEMMA RefundsStayJustified ==
    ASSUME SagaInv, RoomForCredits, RefundsJustified, Next
    PROVE  RefundsJustified'
<1>. SUFFICES ASSUME FailedIsNotMoved'
              PROVE  /\ \A e \in failing' : e.topic = "wallet.debited" =>
                          e.receiverWalletId \notin Wallets
                     /\ \A e \in Messages' : e.topic = "wallet.credit-failed" =>
                          NeverCompletes(e.transferId)'
                     /\ \A t : Refunded(t)' => NeverCompletes(t)'
  BY DEF RefundsJustified
<1>1. FailedIsNotMoved
  BY WithoutBefore, EveryStepSpends DEF FailedIsNotMoved, FaultKinds
<1>2. StepKind /\ \A t : NeverCompletes(t) => NeverCompletes(t)'
  BY SagaStep, NeverCompletesStays
<1>3. \A e \in failing' :
        e.topic = "wallet.debited" => e.receiverWalletId \notin Wallets
  BY <1>1, FailuresStayJustified
<1>4. ASSUME NEW e \in Messages', e.topic = "wallet.credit-failed"
      PROVE  NeverCompletes(e.transferId)'
  <2>1. CASE e \in Messages
    BY <1>1, <1>2, <1>4, <2>1 DEF RefundsJustified
  <2>2. ASSUME NEW f \in failing, f.topic = "wallet.debited", e = creditFailed(f)
        PROVE  NeverCompletes(e.transferId)'
    <3>1. NeverCompletes(e.transferId)
      BY <1>1, <2>2, FailedCreditFacts DEF RefundsJustified, NeverCompletes
    <3>. QED
      BY <1>2, <3>1
  <2>3. CASE TimedOutDebited(e.transferId)'
    BY <2>3 DEF NeverCompletes, TimedOutDebited, StatusIn
  <2>. QED
    BY <1>2, <1>4, <2>1, <2>2, <2>3, RefundRequestsArise
<1>5. ASSUME NEW t, Refunded(t)' PROVE NeverCompletes(t)'
  BY <1>1, <1>2, <1>5, RefundsArise DEF RefundsJustified
<1>. QED
  BY <1>3, <1>4, <1>5

\* Only an existing wallet is credited.
LEMMA CreditedHasReceiver ==
    ASSUME SagaInv, NEW t, Credited(t)
    PROVE  t \in Created /\ transfers[t].receiverWalletId \in Wallets
<1>1. PICK l \in ledger : l.transactionId.of = t /\ l.type = "CREDIT"
  BY DEF Credited, Moved
<1>2. t \in Created /\ l.walletId = transfers[t].receiverWalletId
  BY <1>1 DEF SagaInv, TruthInv, LedgerMatchesTransfers
<1>3. l.walletId \in Wallets
  BY DEF SagaInv, W_Inv, RepositoryInv, RepositoryTypeOK, LedgerEntry
<1>. QED
  BY <1>2, <1>3

\* What is refunded never completes; if it is credited, the timeout failed it.
LEMMA RefundedIsTimedOut ==
    ASSUME SagaInv, RefundsJustified
    PROVE  PaidOnce
  BY CreditedHasReceiver DEF PaidOnce, RefundsJustified, NeverCompletes

\* A transfer that never completes has not completed: what is completed is
\* credited, so the receiver exists.
LEMMA CompletedIsNotRefunded ==
    ASSUME SagaInv, RefundsJustified
    PROVE  CompletedNeverRefunded
<1>. SUFFICES ASSUME FailedIsNotMoved, NEW t \in Transfers,
                     StatusIn(t, {"COMPLETED"})
              PROVE  /\ ~Refunded(t)
                     /\ ~PendingAbout("walletService", "wallet.credit-failed", t)
                     /\ \A d \in deadLetters : d.payload.transferId # t
  BY DEF CompletedNeverRefunded
<1>1. ~NeverCompletes(t)
  <2>1. Credited(t) /\ transfers[t].status = "COMPLETED"
    BY DEF StatusIn, SagaInv, TruthInv, StatusBackedByLedger
  <2>. QED
    BY <2>1, CreditedHasReceiver DEF NeverCompletes, TimedOutDebited, StatusIn
<1>2. ASSUME NEW e \in Messages, e.topic = "wallet.credit-failed"
      PROVE  e.transferId # t
  BY <1>1, <1>2 DEF RefundsJustified
<1>3. ~Refunded(t)
  BY <1>1 DEF RefundsJustified
<1>4. ~PendingAbout("walletService", "wallet.credit-failed", t)
  <2>1. \A e : IsPending(e) => e \in Messages
    BY MessagesParts DEF IsPending, IsHeld, Groups, Unpublished
  <2>. QED
    BY <1>2, <2>1, PendingParts DEF PendingAbout
<1>5. \A d \in deadLetters :
        d.payload \in Messages /\ d.payload.topic = "wallet.credit-failed"
  BY MessagesParts DEF IsHeld, SagaInv, W_Inv, MemoryInv, MemoryTypeOK
<1>. QED
  BY <1>2, <1>3, <1>4, <1>5

\* With room for every credit, that is so in every behaviour.
LEMMA RefundsWithRoom ==
    Spec /\ []RoomForCredits => [](CompletedNeverRefunded /\ PaidOnce)
<1>1. Init => RefundsJustified
  <2>1. Init => \A e : ~IsHeld(e)
    BY DEF Init, TX_Init, W_Init, Repository_Init, Kafka_Init, IsHeld
  <2>2. Init => Messages = {}
    BY <2>1, MessagesParts
  <2>. QED
    BY <2>2 DEF Init, W_Init, Repository_Init, RefundsJustified, Refunded, Moved
<1>2. RefundsJustified /\ UNCHANGED vars => RefundsJustified'
  BY DEF vars, RefundsJustified, FailedIsNotMoved, Without, Messages,
     NeverCompletes, TimedOutDebited, StatusIn, Created, Refunded, Moved
<1>3. SagaInv /\ RoomForCredits /\ RefundsJustified /\ [Next]_vars
        => RefundsJustified'
  BY <1>2, RefundsStayJustified
<1>4. SagaInv /\ RefundsJustified => CompletedNeverRefunded /\ PaidOnce
  BY CompletedIsNotRefunded, RefundedIsTimedOut
<1>. QED
  BY <1>1, <1>3, <1>4, SagaInvariance, PTL DEF Spec

-----------------------------------------------------------------------------
(* Money is conserved.                                                     *)

\* A refund that is due fits as well.
RoomForRefunds ==
    \A t \in Created :
      LET w == transfers[t].senderWalletId
      IN  w \in Wallets => balance[w] + transfers[t].amount <= MaxBalance

\* There is nobody to credit.
HasNoReceiver(t) ==
    t \in Created /\ transfers[t].receiverWalletId \notin Wallets

\* If undisturbed a credit only fails, and a debit is only refunded, for want
\* of a receiver, and a refund never fails.
OnlyReturns ==
    Undisturbed =>
      /\ \A e \in failing :
           /\ e.topic = "wallet.debited" => e.receiverWalletId \notin Wallets
           /\ e.topic # "wallet.credit-failed"
      /\ \A e \in Messages :
           e.topic = "wallet.credit-failed" => HasNoReceiver(e.transferId)
      /\ \A t : Refunded(t) => HasNoReceiver(t)
      /\ deadLetters = {}

\* A refund goes to a wallet that was debited: it exists.
LEMMA RefundsDoNotFail ==
    ASSUME SagaInv, RoomForRefunds, NEW e \in Messages,
           e.topic = "wallet.credit-failed"
    PROVE  ~MovementThrows(e, FALSE)
<1>. DEFINE x == transfers[e.transferId]
<1>1. /\ e.transferId \in Created /\ Debited(e.transferId)
      /\ e.senderWalletId = x.senderWalletId /\ e.amount = x.amount
  BY TrueEventsMatch DEF SagaInv, TruthInv, MessagesAreTrue
<1>2. PICK l \in ledger : l.transactionId.of = e.transferId /\ l.type = "DEBIT"
  BY <1>1 DEF Debited, Moved
<1>3. l.walletId = x.senderWalletId
  BY <1>2 DEF SagaInv, TruthInv, LedgerMatchesTransfers
<1>4. l.walletId \in Wallets
  BY DEF SagaInv, W_Inv, RepositoryInv, RepositoryTypeOK, LedgerEntry
<1>5. Affected(e.senderWalletId, e.amount, "REFUND")
  BY <1>1, <1>3, <1>4 DEF Affected, RoomForRefunds
<1>6. Movement(e) = refund(e)
  BY DEF Movement
<1>. QED
  BY <1>5, <1>6 DEF MovementThrows, Throws, refund

\* What is undisturbed was so before.
LEMMA UndisturbedBefore ==
    ASSUME SagaInv, Next, Undisturbed'
    PROVE  Undisturbed
<1>1. FailedIsNotMoved /\ Without("lost")
  BY WithoutBefore, EveryStepSpends DEF Undisturbed, FailedIsNotMoved, FaultKinds
<1>2. \A t \in Transfers : ~TimedOutDebited(t)
  BY SagaStep, TimedOutStays DEF Undisturbed
<1>. QED
  BY <1>1, <1>2 DEF Undisturbed

\* Undisturbed steps keep it so.
LEMMA OnlyReturnsStays ==
    ASSUME SagaInv, RoomForCredits, RoomForRefunds, OnlyReturns, Next
    PROVE  OnlyReturns'
<1>. SUFFICES ASSUME Undisturbed'
              PROVE  /\ \A e \in failing' :
                          /\ e.topic = "wallet.debited" =>
                               e.receiverWalletId \notin Wallets
                          /\ e.topic # "wallet.credit-failed"
                     /\ \A e \in Messages' : e.topic = "wallet.credit-failed" =>
                          HasNoReceiver(e.transferId)'
                     /\ \A t : Refunded(t)' => HasNoReceiver(t)'
                     /\ deadLetters' = {}
  BY DEF OnlyReturns
<1>1. /\ Undisturbed /\ StepKind
      /\ \A t : HasNoReceiver(t) => HasNoReceiver(t)'
  BY UndisturbedBefore, SagaStep, KindsLast DEF Lasts, HasNoReceiver
<1>2. ASSUME NEW e \in failing'
      PROVE  /\ e.topic = "wallet.debited" => e.receiverWalletId \notin Wallets
             /\ e.topic # "wallet.credit-failed"
  <2>1. CASE e \in failing
    BY <1>1, <2>1 DEF OnlyReturns
  <2>2. CASE e \notin failing
    BY <2>2, FailuresHaveReason, CreditFailsForWantOfWallet, RefundsDoNotFail
       DEF Undisturbed
  <2>. QED
    BY <2>1, <2>2
<1>3. ASSUME NEW e \in Messages', e.topic = "wallet.credit-failed"
      PROVE  HasNoReceiver(e.transferId)'
  <2>1. CASE e \in Messages
    BY <1>1, <1>3, <2>1 DEF OnlyReturns
  <2>2. CASE e \notin Messages
    <3>1. ~TimedOutDebited(e.transferId)'
      BY DEF Undisturbed, TimedOutDebited, StatusIn, Created
    <3>2. PICK f \in failing : f.topic = "wallet.debited" /\ e = creditFailed(f)
      BY <1>1, <1>3, <2>2, <3>1, RefundRequestsArise
    <3>3. HasNoReceiver(e.transferId)
      BY <1>1, <3>2, FailedCreditFacts DEF OnlyReturns, HasNoReceiver
    <3>. QED
      BY <1>1, <3>3
  <2>. QED
    BY <2>1, <2>2
<1>4. ASSUME NEW t, Refunded(t)' PROVE HasNoReceiver(t)'
  BY <1>1, <1>4, RefundsArise DEF OnlyReturns
<1>5. deadLetters' = {}
  <2>1. /\ deadLetters = {}
        /\ \A e \in failing : e.topic # "wallet.credit-failed"
    BY <1>1 DEF OnlyReturns
  <2>2. CASE \/ TX_local \/ TX_fault
             \/ \E r \in txOutbox : TX_processOutbox(r)
             \/ \E e \in inbox["transactionService"] : TX_consume(e)
    BY <2>1, <2>2 DEF TX_local, TX_fault, TX_processOutbox, TX_consume,
       walletVars
  <2>3. CASE W_local
    BY <2>1, <2>3 DEF W_local, W_restart, abandonReplay, replay, replayRefund,
       markReplayed
  <2>4. CASE \/ \E r \in walletOutbox : W_processOutbox(r)
             \/ \E e \in inbox["walletService"] : W_consume(e)
             \/ \E e \in failing : W_endCatch(e)
    BY <2>1, <2>4 DEF W_processOutbox, W_consume, W_handle, W_catch, W_overtake,
       W_endCatch, W_answer, W_abandon
  <2>. QED
    BY <2>2, <2>3, <2>4 DEF Next
<1>. QED
  BY <1>2, <1>3, <1>4, <1>5 DEF OnlyReturns

-----------------------------------------------------------------------------
(* Sums over the ledger.                                                   *)

Signed == [l \in ledger |-> SignedAmount(l)]

\* The entries are finitely many and have integer amounts.
LEMMA SignedFacts ==
    ASSUME SagaInv
    PROVE  /\ IsFiniteSet(ledger)
           /\ \A s \in SUBSET ledger : IsFiniteSet(s)
           /\ \A l \in ledger :
                /\ l \in LedgerEntry /\ l.amount \in Nat
                /\ Signed[l] = SignedAmount(l) /\ Signed[l] \in Int
<1>1. IsFiniteSet(ledger) /\ \A l \in ledger : l \in LedgerEntry
  BY DEF SagaInv, W_Inv, RepositoryInv, RepositoryTypeOK
<1>2. \A l \in ledger : l.amount \in Nat
  BY <1>1 DEF LedgerEntry
<1>. QED
  BY <1>1, <1>2, FS_Subset DEF Signed, SignedAmount

\* All the balances together are the seed and what the ledger adds up to.
LEMMA BalancesAddUp ==
    ASSUME SagaInv, IsFiniteSet(Wallets)
    PROVE  SumOfBalances(balance) =
             SumOfBalances(Seed) + SumFunctionOnSet(Signed, ledger)
<1>. DEFINE E(s) == {l \in ledger : l.walletId \in s}
            H == {s \in SUBSET Wallets :
                    SumFunctionOnSet(balance, s) =
                      SumFunctionOnSet(Seed, s) + SumFunctionOnSet(Signed, E(s))}
<1>1. \A w \in Wallets : balance[w] \in Int /\ Seed[w] \in Int
  BY WalletsAssumption DEF SagaInv, W_Inv, RepositoryInv, RepositoryTypeOK
<1>2. {} \in H
  <2>1. E({}) = {}
    OBVIOUS
  <2>2. /\ SumFunctionOnSet(balance, {}) = 0
        /\ SumFunctionOnSet(Seed, {}) = 0
        /\ SumFunctionOnSet(Signed, {}) = 0
    BY FS_EmptySet, SumEquation
  <2>. QED
    BY <2>1, <2>2
<1>3. ASSUME NEW s \in SUBSET Wallets, s # {}, \A w \in s : s \ {w} \in H
      PROVE  s \in H
  <2>1. PICK w \in s : TRUE
    BY <1>3
  <2>. DEFINE rest == s \ {w}
              before == E(rest)
              all == E(s)
              own == Entries(w)
              f == [l \in own |-> SignedAmount(l)]
  <2>2. /\ rest \in SUBSET Wallets /\ w \in Wallets
        /\ rest \cup {w} = s /\ w \notin rest
        /\ SumFunctionOnSet(balance, rest) =
             SumFunctionOnSet(Seed, rest) + SumFunctionOnSet(Signed, before)
    BY <1>3, <2>1
  <2>3. IsFiniteSet(rest)
    BY <2>2, FS_Subset
  <2>4. /\ before \cup own = all /\ before \cap own = {}
        /\ before \in SUBSET ledger /\ own \in SUBSET ledger
    BY <2>1 DEF Entries
  <2>5. balance[w] = Seed[w] + SumFunctionOnSet(f, own)
    BY <2>2 DEF SagaInv, W_Inv, RepositoryInv, BalanceAccounted, SumFunction
  <2>6. SumFunctionOnSet(f, own) = SumFunctionOnSet(Signed, own)
    <3>1. IsFiniteSet(own) /\ \A l \in own : f[l] = Signed[l]
      BY <2>4, SignedFacts
    <3>. HIDE DEF f, own
    <3>. QED
      BY <3>1, SumCongruence
  <2>. HIDE DEF rest, before, own, all, f
  <2>7. IsFiniteSet(before) /\ IsFiniteSet(own)
        /\ \A l \in before \cup own : Signed[l] \in Int
    BY <2>4, SignedFacts
  <2>8. SumFunctionOnSet(Signed, all) =
          SumFunctionOnSet(Signed, before) + SumFunctionOnSet(Signed, own)
    BY <2>4, <2>7, SumUnion
  <2>9. SumFunctionOnSet(Signed, before) \in Int
        /\ SumFunctionOnSet(Signed, own) \in Int
    BY <2>7, SumType
  <2>10. \A x \in rest \cup {w} : balance[x] \in Int /\ Seed[x] \in Int
    BY <1>1, <2>2
  <2>11. SumFunctionOnSet(balance, s) = SumFunctionOnSet(balance, rest) + balance[w]
    BY <2>2, <2>3, <2>10, SumWith
  <2>12. SumFunctionOnSet(Seed, s) = SumFunctionOnSet(Seed, rest) + Seed[w]
    BY <2>2, <2>3, <2>10, SumWith
  <2>13. SumFunctionOnSet(Seed, rest) \in Int /\ Seed[w] \in Int
    BY <1>1, <2>2, <2>3, SumType
  <2>14. SumFunctionOnSet(balance, s) =
           SumFunctionOnSet(Seed, s) + SumFunctionOnSet(Signed, all)
    BY <2>2, <2>5, <2>6, <2>8, <2>9, <2>11, <2>12, <2>13
  <2>. QED
    BY <2>14 DEF all
<1>4. E(Wallets) = ledger
  BY SignedFacts DEF LedgerEntry
<1>. HIDE DEF H
<1>5. \A s \in SUBSET Wallets : s \in H
  BY <1>2, <1>3, SubsetInduction
<1>6. Wallets \in SUBSET Wallets
  OBVIOUS
<1>. QED
  BY <1>4, <1>5, <1>6 DEF H, SumOfBalances

\* A transfer has one entry of each type at most.
LEMMA EntriesByType ==
    ASSUME SagaInv, NEW l \in ledger, NEW m \in ledger, l.type = m.type,
           l.transactionId.of = m.transactionId.of
    PROVE  l = m
<1>1. l.walletId = m.walletId /\ l.transactionId.refund = m.transactionId.refund
  BY DEF SagaInv, TruthInv, LedgerMatchesTransfers
<1>2. l.transactionId \in TransactionId /\ m.transactionId \in TransactionId
  BY DEF SagaInv, W_Inv, RepositoryInv, RepositoryTypeOK, LedgerEntry
<1>3. l.transactionId = m.transactionId
  BY <1>1, <1>2 DEF TransactionId
<1>. QED
  BY <1>1, <1>3 DEF SagaInv, W_Inv, RepositoryInv, KeysUnique

\* When every debit is settled, one way, the entries cancel.
LEMMA LegsCancel ==
    ASSUME SagaInv,
           \A t : Debited(t) => Credited(t) \/ Refunded(t),
           \A t : ~(Credited(t) /\ Refunded(t))
    PROVE  SumFunctionOnSet(Signed, ledger) = 0
<1>. DEFINE of == [l \in ledger |-> l.transactionId.of]
            TS == {of[l] : l \in ledger}
            E(s) == {l \in ledger : l.transactionId.of \in s}
            H == {s \in SUBSET TS : SumFunctionOnSet(Signed, E(s)) = 0}
<1>1. IsFiniteSet(TS)
  <2>1. IsFiniteSet(ledger)
    BY SignedFacts
  <2>. HIDE DEF of
  <2>. QED
    BY <2>1, ImageIsFinite
<1>2. {} \in H
  <2>1. E({}) = {}
    OBVIOUS
  <2>2. SumFunctionOnSet(Signed, {}) = 0
    BY FS_EmptySet, SumEquation
  <2>. QED
    BY <2>1, <2>2
<1>3. ASSUME NEW k \in ledger
      PROVE  \E d \in ledger, c \in ledger :
               /\ d # c /\ E({k.transactionId.of}) = {d, c}
               /\ Signed[d] + Signed[c] = 0
  <2>. DEFINE t == k.transactionId.of
  <2>1. Debited(t)
    BY DEF SagaInv, TruthInv, LedgerMatchesTransfers
  <2>2. PICK d \in ledger : d.transactionId.of = t /\ d.type = "DEBIT"
    BY <2>1 DEF Debited, Moved
  <2>3. PICK c \in ledger : /\ c.transactionId.of = t
                            /\ c.type \in {"CREDIT", "REFUND"}
    BY <2>1 DEF Credited, Refunded, Moved
  <2>4. ASSUME NEW l \in ledger, l.transactionId.of = t PROVE l = d \/ l = c
    <3>1. l.type \in {"DEBIT", "CREDIT", "REFUND"}
      BY SignedFacts DEF LedgerEntry, LedgerEntryType
    <3>2. l.type = d.type \/ l.type = c.type
      BY <2>2, <2>3, <2>4, <3>1 DEF Credited, Refunded, Moved
    <3>. QED
      BY <2>2, <2>3, <2>4, <3>2, EntriesByType
  <2>5. E({t}) = {d, c}
    BY <2>2, <2>3, <2>4
  <2>6. d.amount = c.amount
    BY <2>2, <2>3 DEF SagaInv, TruthInv, LedgerMatchesTransfers
  <2>7. /\ Signed[d] = 0 - d.amount /\ Signed[c] = c.amount
        /\ d.amount \in Nat
    BY <2>2, <2>3, SignedFacts DEF SignedAmount
  <2>. QED
    BY <2>2, <2>3, <2>5, <2>6, <2>7
<1>4. ASSUME NEW s \in SUBSET TS, s # {}, \A t \in s : s \ {t} \in H
      PROVE  s \in H
  <2>1. PICK t \in s : TRUE
    BY <1>4
  <2>2. PICK k \in ledger : t = k.transactionId.of
    BY <2>1
  <2>3. PICK d \in ledger, c \in ledger : /\ d # c /\ E({t}) = {d, c}
                                          /\ Signed[d] + Signed[c] = 0
    BY <1>3, <2>2
  <2>. DEFINE before == E(s \ {t})
              all == E(s)
  <2>4. SumFunctionOnSet(Signed, before) = 0
    BY <1>4, <2>1
  <2>5. /\ all = before \cup E({t}) /\ before \cap E({t}) = {}
        /\ before \in SUBSET ledger
    BY <2>1
  <2>6. all = (before \cup {d}) \cup {c}
        /\ d \notin before /\ c \notin before \cup {d}
    BY <2>3, <2>5
  <2>. HIDE DEF before, all
  <2>7. /\ IsFiniteSet(before) /\ IsFiniteSet(before \cup {d})
        /\ \A l \in before \cup {d, c} : Signed[l] \in Int
    BY <2>5, SignedFacts, FS_AddElement
  <2>8. SumFunctionOnSet(Signed, before \cup {d}) = 0 + Signed[d]
    BY <2>4, <2>6, <2>7, SumWith
  <2>9. SumFunctionOnSet(Signed, all) = Signed[d] + Signed[c]
    <3>1. SumFunctionOnSet(Signed, all) =
            SumFunctionOnSet(Signed, before \cup {d}) + Signed[c]
      BY <2>6, <2>7, SumWith
    <3>. QED
      BY <2>7, <2>8, <3>1
  <2>. QED
    BY <2>3, <2>9 DEF all
<1>5. E(TS) = ledger
  OBVIOUS
<1>. HIDE DEF H
<1>6. \A s \in SUBSET TS : s \in H
  BY <1>1, <1>2, <1>4, SubsetInduction
<1>7. TS \in SUBSET TS
  OBVIOUS
<1>. QED
  BY <1>5, <1>6, <1>7 DEF H

\* With nothing on its way every debit is settled: by a credit if there is a
\* receiver, by a refund if there is none.
LEMMA QuietConserves ==
    ASSUME SagaInv, IsFiniteSet(Wallets), OnlyReturns, DebitNeverStranded
    PROVE  MoneyConserved
<1>. SUFFICES ASSUME Quiet, Undisturbed, \A t \in Transfers : ~ToItself(t)
              PROVE  SumOfBalances(balance) = SumOfBalances(Seed)
  BY DEF MoneyConserved
<1>1. \A e : e \notin Pending("walletService")
  BY DEF Quiet, Pending, Groups
<1>2. ASSUME NEW t, Debited(t) PROVE Credited(t) \/ Refunded(t)
  <2>1. t \in Transfers
    BY <1>2, SignedFacts DEF Debited, Moved, LedgerEntry, TransactionId
  <2>. QED
    BY <1>1, <1>2, <2>1
       DEF DebitNeverStranded, PendingAbout, OnlyReturns, Undisturbed
<1>3. ASSUME NEW t, Credited(t), Refunded(t) PROVE FALSE
  BY <1>3, CreditedHasReceiver DEF OnlyReturns, HasNoReceiver
<1>4. SumFunctionOnSet(Signed, ledger) = 0
  BY <1>2, <1>3, LegsCancel
<1>5. SumOfBalances(Seed) \in Int
  BY WalletsAssumption, SumType DEF SumOfBalances
<1>. QED
  BY <1>4, <1>5, BalancesAddUp

-----------------------------------------------------------------------------
(* There is room for the money when the bigints are large enough for every *)
(* entry all the transfers can make.                                       *)

BigintsSuffice ==
    /\ IsFiniteSet(Transfers)
    /\ \E M \in Nat :
         /\ \A r \in Requests : r.amount <= M
         /\ \A w \in Wallets :
              Seed[w] + M * (2 * Cardinality(Transfers) + 1) <= MaxBalance

AmountsUpTo(M) == \A t \in Created : transfers[t].amount <= M

\* The amount of a transfer is that of a request.
LEMMA AmountsStayBounded ==
    ASSUME SagaInv, NEW M, \A r \in Requests : r.amount <= M, AmountsUpTo(M),
           StepKind
    PROVE  AmountsUpTo(M)'
<1>1. \A t \in Created : transfers'[t].amount <= M
  BY KindsLast DEF Lasts, AmountsUpTo
<1>2. \A t \in Created' : t \in Created \/ Accepts(t)
  <2>1. ASSUME NEW t \in Created, NEW from \in InFlight,
               NEW to \in TransferStatus, Reports(t, from, to)
        PROVE  Created' = Created
    BY <2>1, SetStatusEffect DEF Reports, SagaInv, TX_Inv
  <2>. QED
    BY <2>1 DEF StepKind, Idles, Accepts, Pays, Created
<1>. QED
  BY <1>1, <1>2 DEF Accepts, AmountsUpTo

\* A wallet has an entry per transaction id, and a transfer has two of them.
LEMMA FewEntries ==
    ASSUME SagaInv, IsFiniteSet(Transfers), NEW w \in Wallets
    PROVE  /\ IsFiniteSet(Entries(w))
           /\ Cardinality(Entries(w)) <= 2 * Cardinality(Transfers)
<1>. DEFINE ids == Transfers \X {0, 1}
            idOf == [l \in Entries(w) |->
                       <<l.transactionId.of,
                         IF l.transactionId.refund THEN 1 ELSE 0>>]
<1>1. Cardinality({0, 1}) = 2 /\ IsFiniteSet({0, 1})
  <2>1. IsFiniteSet({0}) /\ Cardinality({0}) = 1
    BY FS_Singleton
  <2>2. {0, 1} = {0} \cup {1} /\ 1 \notin {0}
    OBVIOUS
  <2>3. /\ IsFiniteSet({0} \cup {1})
        /\ Cardinality({0} \cup {1}) = Cardinality({0}) + 1
    BY <2>1, <2>2, FS_AddElement
  <2>. QED
    BY <2>1, <2>2, <2>3
<1>2. IsFiniteSet(ids) /\ Cardinality(ids) = Cardinality(Transfers) * 2
  BY <1>1, FS_Product
<1>3. \A l \in Entries(w) : l.transactionId \in TransactionId
  BY SignedFacts DEF Entries, LedgerEntry
<1>4. ASSUME NEW l \in Entries(w), NEW m \in Entries(w), idOf[l] = idOf[m]
      PROVE  l = m
  <2>1. /\ l.transactionId.of = m.transactionId.of
        /\ l.transactionId.refund = m.transactionId.refund
    BY <1>3, <1>4 DEF TransactionId
  <2>2. l.transactionId = m.transactionId
    BY <1>3, <2>1 DEF TransactionId
  <2>3. l.walletId = m.walletId /\ l \in ledger /\ m \in ledger
    BY DEF Entries
  <2>. QED
    BY <2>2, <2>3 DEF SagaInv, W_Inv, RepositoryInv, KeysUnique
<1>5. idOf \in [Entries(w) -> ids]
  BY <1>3 DEF TransactionId
<1>6. idOf \in Injection(Entries(w), ids)
  <2>. HIDE DEF idOf, ids
  <2>. QED
    BY <1>4, <1>5 DEF Injection, IsInjective
<1>. HIDE DEF ids, idOf
<1>7. IsFiniteSet(Entries(w)) /\ Cardinality(Entries(w)) <= Cardinality(ids)
  BY <1>2, <1>6, FS_Injection
<1>8. Cardinality(Transfers) \in Nat
  BY FS_CardinalityType
<1>. QED
  BY <1>2, <1>7, <1>8

\* A balance is the seed and at most so many entries of at most so much.
LEMMA BoundedAmountsFit ==
    ASSUME SagaInv, IsFiniteSet(Transfers), NEW M \in Nat, AmountsUpTo(M),
           \A w \in Wallets :
             Seed[w] + M * (2 * Cardinality(Transfers) + 1) <= MaxBalance
    PROVE  RoomForCredits /\ RoomForRefunds
<1>. DEFINE n == Cardinality(Transfers)
<1>1. n \in Nat
  BY FS_CardinalityType
<1>2. ASSUME NEW w \in Wallets PROVE balance[w] + M <= MaxBalance
  <2>. DEFINE E == Entries(w)
              f == [l \in E |-> SignedAmount(l)]
              k == Cardinality(E)
              total == SumFunctionOnSet(f, E)
  <2>1. balance[w] = Seed[w] + total
    BY DEF SagaInv, W_Inv, RepositoryInv, BalanceAccounted, SumFunction
  <2>2. IsFiniteSet(E) /\ k \in Nat /\ k <= 2 * n
    BY FewEntries, FS_CardinalityType
  <2>3. \A l \in E : f[l] \in Int /\ f[l] <= M
    <3>1. ASSUME NEW l \in E PROVE f[l] \in Int /\ f[l] <= M
      <4>1. l \in ledger /\ f[l] = SignedAmount(l) /\ l.amount \in Nat
        BY SignedFacts DEF Entries
      <4>2. l.amount <= M
        BY <4>1 DEF SagaInv, TruthInv, LedgerMatchesTransfers, AmountsUpTo
      <4>. QED
        BY <4>1, <4>2 DEF SignedAmount
    <3>. QED
      BY <3>1
  <2>. HIDE DEF E, f
  <2>4. total <= M * k /\ total \in Int
    BY <2>2, <2>3, SumBound, SumType
  <2>5. M * k <= M * (2 * n) /\ M * k \in Int
    BY <1>1, <2>2
  <2>6. M * (2 * n + 1) = M * (2 * n) + M /\ M * (2 * n) \in Int
    BY <1>1
  <2>7. Seed[w] \in Int /\ MaxBalance \in Int
    BY WalletsAssumption
  <2>8. Seed[w] + M * (2 * n + 1) <= MaxBalance
    OBVIOUS
  <2>. HIDE DEF n, k, total
  <2>. QED
    BY <2>1, <2>4, <2>5, <2>6, <2>7, <2>8
<1>3. ASSUME NEW t \in Created, NEW w \in Wallets
      PROVE  balance[w] + transfers[t].amount <= MaxBalance
  <2>1. transfers[t].amount <= M /\ transfers[t].amount \in Int
    BY DEF AmountsUpTo, SagaInv, TX_Inv, TX_TypeOK, Created, Transfer
  <2>2. balance[w] \in Int /\ MaxBalance \in Int
    BY WalletsAssumption DEF SagaInv, W_Inv, RepositoryInv, RepositoryTypeOK
  <2>. QED
    BY <1>2, <2>1, <2>2
<1>. QED
  BY <1>3 DEF RoomForCredits, RoomForRefunds

\* So the bigints suffice in every behaviour.
LEMMA ThereIsRoom ==
    ASSUME BigintsSuffice
    PROVE  Spec => [](RoomForCredits /\ RoomForRefunds)
<1>. PICK M \in Nat : /\ \A r \in Requests : r.amount <= M
                      /\ \A w \in Wallets :
                           Seed[w] + M * (2 * Cardinality(Transfers) + 1)
                             <= MaxBalance
  BY DEF BigintsSuffice
<1>1. Init => AmountsUpTo(M)
  BY DEF Init, TX_Init, Created, AmountsUpTo
<1>2. AmountsUpTo(M) /\ UNCHANGED vars => AmountsUpTo(M)'
  BY DEF vars, AmountsUpTo, Created
<1>3. SagaInv /\ AmountsUpTo(M) /\ [Next]_vars => AmountsUpTo(M)'
  BY <1>2, SagaStep, AmountsStayBounded
<1>4. SagaInv /\ AmountsUpTo(M) => RoomForCredits /\ RoomForRefunds
  BY BoundedAmountsFit DEF BigintsSuffice
<1>. QED
  BY <1>1, <1>3, <1>4, SagaInvariance, PTL DEF Spec

\* A completed transfer is never refunded, nor is a refund of it under way,
\* whatever times out, is redelivered once its handler has ended, lost or
\* restarted, as long as a handler that fails has not moved its money and the
\* bigints suffice (the guarded UPDATEs of the transfers and the catch of
\* handleWalletDebited).
THEOREM CompletedIsNeverRefunded ==
    ASSUME BigintsSuffice
    PROVE  Spec => []CompletedNeverRefunded
  BY ThereIsRoom, RefundsWithRoom, PTL

\* On the same terms a transfer is credited and refunded only if the timeout
\* job failed it as DEBITED, whoever replays its letters (the fixed ids of the
\* entries, the guarded UPDATE of handleStuckDebited).
THEOREM TransfersArePaidOnce ==
    ASSUME BigintsSuffice
    PROVE  Spec => []PaidOnce
  BY ThereIsRoom, RefundsWithRoom, PTL

\* With nothing on its way the wallets hold what they held at the start,
\* whatever came again once its handler had ended, was sent twice, reordered,
\* failed for want of a receiver or of money, timed out before it was DEBITED,
\* or was interrupted by a restart (updateBalanceWithLedger and its
\* idempotency check, the catches, the compensation).
THEOREM MoneyIsConserved ==
    ASSUME BigintsSuffice, IsFiniteSet(Wallets)
    PROVE  Spec => []MoneyConserved
<1>1. Init => OnlyReturns
  <2>1. Init => \A e : ~IsHeld(e)
    BY DEF Init, TX_Init, W_Init, Repository_Init, Kafka_Init, IsHeld
  <2>2. Init => Messages = {}
    BY <2>1, MessagesParts
  <2>. QED
    BY <2>2 DEF Init, W_Init, Repository_Init, OnlyReturns, Refunded, Moved
<1>2. OnlyReturns /\ UNCHANGED vars => OnlyReturns'
  BY DEF vars, OnlyReturns, Undisturbed, FailedIsNotMoved, Without,
     TimedOutDebited, StatusIn, Messages, HasNoReceiver, Created, Refunded, Moved
<1>3. SagaInv /\ RoomForCredits /\ RoomForRefunds /\ OnlyReturns /\ [Next]_vars
        => OnlyReturns'
  BY <1>2, OnlyReturnsStays
<1>4. SagaInv /\ OnlyReturns /\ DebitNeverStranded => MoneyConserved
  BY QuietConserves
<1>. QED
  BY <1>1, <1>3, <1>4, SagaInvariance, ThereIsRoom,
     DebitsAreNeverStranded, PTL DEF Spec
=============================================================================
