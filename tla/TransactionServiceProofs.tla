---------------------- MODULE TransactionServiceProofs ----------------------
(***************************************************************************)
(* Proofs about the transaction service, for every set of transfers,       *)
(* wallets and requests, in the open environment of TX_Spec.               *)
(***************************************************************************)
EXTENDS TransactionService, TableProofs

\* The tables type-check, and what the outbox announces and asks for is what
\* the transfers table says: an invariant by itself.
TX_Inv == TX_TypeOK /\ AnnouncedOnce /\ CompensatedOnce

\* The events the service writes, and the environment sends, are events.
LEMMA EventTypes ==
    ASSUME NEW t \in Transfers
    PROVE  /\ \A r \in CreateTransferDto : TransferInitiated(t, r) \in Event
           /\ TransferCompleted(t) \in Event
           /\ \A x \in FailureReason : TransferFailed(t, x) \in Event
           /\ \A v, w \in WalletIds, x \in FailureReason, a \in Nat \ {0} :
                WalletCreditFailed(t, v, x, w, a) \in Event
<1>1. \A r \in CreateTransferDto : TransferInitiated(t, r) \in Event
  BY DEF CreateTransferDto, TransferInitiated, Event
<1>2. TransferCompleted(t) \in Event
  BY DEF TransferCompleted, Event
<1>3. \A x \in FailureReason : TransferFailed(t, x) \in Event
  BY DEF TransferFailed, Event
<1>4. \A v, w \in WalletIds, x \in FailureReason, a \in Nat \ {0} :
         WalletCreditFailed(t, v, x, w, a) \in Event
  BY DEF WalletCreditFailed, Event
<1>. QED
  BY <1>1, <1>2, <1>3, <1>4

-----------------------------------------------------------------------------
(* Each kind of step keeps TX_Inv.                                         *)

\* A transfer that is not there yet has no rows that end it or refund it.
LEMMA CreateKeepsInv ==
    ASSUME TX_Inv, NEW t \in Transfers, NEW r \in Requests,
           NEW at \in Deadlines, createTransfer(t, r, at)
    PROVE  TX_Inv'
<1>. DEFINE e   == TransferInitiated(t, r)
            new == [senderWalletId |-> r.senderWalletId,
                    receiverWalletId |-> r.receiverWalletId,
                    amount |-> r.amount, status |-> "PENDING", timeoutAt |-> at,
                    failureReason |-> NoReason]
<1>1. r \in CreateTransferDto /\ e \in Event
  BY RequestsAssumption, EventTypes DEF e
<1>2. new \in Transfer
  BY <1>1, TimeAssumption DEF CreateTransferDto, Transfer, TransferStatus
<1>3. PICK n \in Nat :
        txOutbox' = txOutbox \cup {[event |-> e, copy |-> n, published |-> FALSE]}
  BY InsertAddsRow DEF createTransfer, TX_Inv, TX_TypeOK, e
<1>4. transfers' = [transfers EXCEPT ![t] = new]
  BY DEF createTransfer
<1>. HIDE DEF new, e
<1>5. Created' = Created \cup {t} /\ t \notin Created
  BY <1>2, <1>4, NoTransferAssumption
     DEF createTransfer, Created, TX_Inv, TX_TypeOK
<1>6. TX_TypeOK'
  <2>1. transfers' \in [Transfers -> Transfer \cup {NoTransfer}]
    BY <1>2, <1>4 DEF TX_Inv, TX_TypeOK
  <2>2. \A q \in txOutbox' : q \in OutboxRow
    BY <1>1, <1>3, NewRowType DEF TX_Inv, TX_TypeOK
  <2>3. IsFiniteSet(txOutbox')
    BY <1>3, FS_AddElement DEF TX_Inv, TX_TypeOK
  <2>. QED
    BY <1>5, <2>1, <2>2, <2>3 DEF createTransfer, TX_Inv, TX_TypeOK
<1>7. \A u \in Transfers : \A S : StatusIn(u, S)' <=>
        IF u = t THEN "PENDING" \in S ELSE StatusIn(u, S)
  BY <1>4, <1>5 DEF StatusIn, new, TX_Inv, TX_TypeOK
<1>8. \A u \in Transfers : /\ TerminalRows(u)' = TerminalRows(u)
                           /\ CompensationRows(u)' = CompensationRows(u)
  BY <1>3 DEF TerminalRows, CompensationRows, e, TransferInitiated
<1>9. \A u \in Transfers \ {t} : transfers'[u] = transfers[u]
  BY <1>4 DEF TX_Inv, TX_TypeOK
<1>10. ~StatusIn(t, Terminal) /\ ~StatusIn(t, {"FAILED"})
  BY <1>5 DEF StatusIn
<1>11. AnnouncedOnce'
  BY <1>7, <1>8, <1>9, <1>10 DEF AnnouncedOnce, Announcement, Terminal, TX_Inv
<1>12. CompensatedOnce'
  BY <1>7, <1>8, <1>9, <1>10 DEF CompensatedOnce, compensation, TX_Inv
<1>. QED
  BY <1>6, <1>11, <1>12 DEF TX_Inv

\* What the guarded UPDATE of a status changes, and all it leaves alone.
LEMMA SetStatusEffect ==
    ASSUME TX_TypeOK, NEW t \in Created, NEW new \in TransferStatus,
           NEW reason \in FailureReason \cup {NoReason},
           SetStatus(t, new, reason)
    PROVE  /\ transfers' \in [Transfers -> Transfer \cup {NoTransfer}]
           /\ Created' = Created
           /\ \A u \in Transfers : \A S : StatusIn(u, S)' <=>
                IF u = t THEN new \in S ELSE StatusIn(u, S)
           /\ \A u \in Transfers \ {t} : transfers'[u] = transfers[u]
           /\ transfers'[t].status = new
           /\ transfers'[t].failureReason = reason
           /\ transfers'[t].senderWalletId = transfers[t].senderWalletId
           /\ transfers'[t].receiverWalletId = transfers[t].receiverWalletId
           /\ transfers'[t].amount = transfers[t].amount
<1>. DEFINE row == [transfers[t] EXCEPT !.status = new,
                                        !.failureReason = reason]
<1>1. t \in Transfers /\ transfers[t] \in Transfer
  BY DEF TX_TypeOK, Created
<1>2. row \in Transfer
  BY <1>1 DEF Transfer
<1>3. transfers' = [transfers EXCEPT ![t] = row]
  BY <1>1 DEF SetStatus, TX_TypeOK
<1>4. /\ row.status = new /\ row.failureReason = reason
      /\ row.senderWalletId = transfers[t].senderWalletId
      /\ row.receiverWalletId = transfers[t].receiverWalletId
      /\ row.amount = transfers[t].amount
  BY <1>1 DEF Transfer
<1>. HIDE DEF row
<1>5. transfers' \in [Transfers -> Transfer \cup {NoTransfer}]
  BY <1>2, <1>3 DEF TX_TypeOK
<1>6. transfers'[t] = row /\ \A u \in Transfers \ {t} : transfers'[u] = transfers[u]
  BY <1>1, <1>3 DEF TX_TypeOK
<1>7. Created' = Created
  BY <1>1, <1>2, <1>6, NoTransferAssumption DEF Created
<1>8. \A u \in Transfers : \A S : StatusIn(u, S)' <=>
        IF u = t THEN new \in S ELSE StatusIn(u, S)
  BY <1>4, <1>6, <1>7 DEF StatusIn
<1>. QED
  BY <1>4, <1>5, <1>6, <1>7, <1>8

\* PENDING to DEBITED writes no row, and neither status asks for one.
LEMMA ConfirmKeepsInv ==
    ASSUME TX_Inv, NEW t \in Transfers, UNCHANGED <<now, stuck>>,
           updateTransferStatus(t, "PENDING", "DEBITED")
    PROVE  TX_Inv'
<1>1. CASE ~StatusIn(t, {"PENDING"})
  BY <1>1 DEF updateTransferStatus, TX_Inv, TX_TypeOK, AnnouncedOnce, Created,
     CompensatedOnce, TerminalRows, CompensationRows, StatusIn, Announcement,
     compensation
<1>2. CASE StatusIn(t, {"PENDING"})
  <2>1. t \in Created /\ SetStatus(t, "DEBITED", NoReason) /\ txOutbox' = txOutbox
    BY <1>2 DEF updateTransferStatus, StatusIn
  <2>2. /\ transfers' \in [Transfers -> Transfer \cup {NoTransfer}]
        /\ Created' = Created
        /\ \A u \in Transfers : \A S : StatusIn(u, S)' <=>
             IF u = t THEN "DEBITED" \in S ELSE StatusIn(u, S)
        /\ \A u \in Transfers \ {t} : transfers'[u] = transfers[u]
    BY <2>1, SetStatusEffect DEF TX_Inv, TransferStatus
  <2>3. TX_TypeOK'
    BY <2>1, <2>2 DEF TX_Inv, TX_TypeOK
  <2>4. \A u \in Transfers : /\ TerminalRows(u)' = TerminalRows(u)
                             /\ CompensationRows(u)' = CompensationRows(u)
    BY <2>1 DEF TerminalRows, CompensationRows
  <2>5. ~StatusIn(t, Terminal) /\ ~StatusIn(t, {"FAILED"})
    BY <1>2 DEF StatusIn, Terminal
  <2>6. AnnouncedOnce'
    BY <2>2, <2>4, <2>5 DEF AnnouncedOnce, Announcement, Terminal, TX_Inv
  <2>7. CompensatedOnce'
    BY <2>2, <2>4, <2>5 DEF CompensatedOnce, compensation, TX_Inv
  <2>. QED
    BY <2>3, <2>6, <2>7 DEF TX_Inv
<1>. QED
  BY <1>1, <1>2

\* A transfer ends with one row that says so, by a handler or by a timeout
\* that asks for no refund.
LEMMA EndKeepsInv ==
    ASSUME TX_Inv, NEW t \in Transfers, NEW from \in InFlight,
           NEW to \in Terminal, NEW reason \in FailureReason \cup {NoReason},
           NEW e, e = IF to = "COMPLETED" THEN TransferCompleted(t)
                                          ELSE TransferFailed(t, reason),
           to = "FAILED" => reason \in FailureReason \ {TimeoutDebited},
           updateStatusWithOutbox(t, from, to, reason, e),
           now' = now, stuck' \subseteq stuck
    PROVE  TX_Inv'
<1>1. CASE ~StatusIn(t, {from})
  BY <1>1 DEF updateStatusWithOutbox, TX_Inv, TX_TypeOK, AnnouncedOnce, Created,
     CompensatedOnce, TerminalRows, CompensationRows, StatusIn, Announcement,
     compensation
<1>2. CASE StatusIn(t, {from})
  <2>1. t \in Created /\ SetStatus(t, to, reason)
    BY <1>2 DEF updateStatusWithOutbox, StatusIn
  <2>2. /\ transfers' \in [Transfers -> Transfer \cup {NoTransfer}]
        /\ Created' = Created
        /\ \A u \in Transfers : \A S : StatusIn(u, S)' <=>
             IF u = t THEN to \in S ELSE StatusIn(u, S)
        /\ \A u \in Transfers \ {t} : transfers'[u] = transfers[u]
        /\ transfers'[t].status = to
        /\ transfers'[t].failureReason = reason
    BY <2>1, SetStatusEffect DEF TX_Inv, TransferStatus, Terminal
  <2>3. e \in Event /\ e.transferId = t
        /\ e.topic \in {"transfer.completed", "transfer.failed"}
    BY EventTypes DEF Terminal, TransferCompleted, TransferFailed
  <2>4. PICK n \in Nat :
          txOutbox' = txOutbox \cup {[event |-> e, copy |-> n, published |-> FALSE]}
    BY <1>2, InsertAddsRow DEF updateStatusWithOutbox, TX_Inv, TX_TypeOK
  <2>5. TX_TypeOK'
    <3>1. \A q \in txOutbox' : q \in OutboxRow
      BY <2>3, <2>4, NewRowType DEF TX_Inv, TX_TypeOK
    <3>2. IsFiniteSet(txOutbox')
      BY <2>4, FS_AddElement DEF TX_Inv, TX_TypeOK
    <3>. QED
      BY <2>2, <3>1, <3>2 DEF TX_Inv, TX_TypeOK
  <2>6. ~StatusIn(t, Terminal) /\ ~StatusIn(t, {"FAILED"})
    BY <1>2 DEF StatusIn, Terminal, InFlight
  <2>7. /\ \A u \in Transfers \ {t} : TerminalRows(u)' = TerminalRows(u)
        /\ TerminalRows(t)' =
             TerminalRows(t) \cup {[event |-> e, copy |-> n, published |-> FALSE]}
    BY <2>3, <2>4 DEF TerminalRows
  <2>8. \A u \in Transfers : CompensationRows(u)' = CompensationRows(u)
    BY <2>3, <2>4 DEF CompensationRows
  <2>9. Announcement(t)' = e
    BY <2>2 DEF Announcement, Terminal
  <2>10. AnnouncedOnce'
    <3>1. SUFFICES ASSUME NEW u \in Transfers
          PROVE (\/ ~StatusIn(u, Terminal) /\ TerminalRows(u) = {}
                 \/ /\ StatusIn(u, Terminal)
                    /\ \E r \in TerminalRows(u) :
                         TerminalRows(u) = {r} /\ r.event = Announcement(u))'
      BY DEF AnnouncedOnce
    <3>2. CASE u = t
      <4>. DEFINE row == [event |-> e, copy |-> n, published |-> FALSE]
      <4>1. TerminalRows(t)' = {row}
        BY <2>6, <2>7 DEF AnnouncedOnce, TX_Inv
      <4>2. row.event = Announcement(t)'
        BY <2>9
      <4>3. StatusIn(t, Terminal)'
        BY <2>2
      <4>. QED
        BY <3>2, <4>1, <4>2, <4>3
    <3>3. CASE u # t
      BY <2>2, <2>7, <3>3 DEF AnnouncedOnce, Announcement, TX_Inv
    <3>. QED
      BY <3>2, <3>3
  <2>11. CompensatedOnce'
    BY <2>2, <2>6, <2>8 DEF CompensatedOnce, compensation, Terminal, TX_Inv
  <2>. QED
    BY <2>5, <2>10, <2>11 DEF TX_Inv
<1>. QED
  BY <1>1, <1>2

\* A DEBITED transfer that times out ends with two rows: one says so, the
\* other asks for the refund.
LEMMA TimeoutKeepsInv ==
    ASSUME TX_Inv, NEW t \in Transfers, handleStuckDebited(t),
           now' = now, stuck' \subseteq stuck
    PROVE  TX_Inv'
<1>1. CASE ~StatusIn(t, {"DEBITED"})
  BY <1>1 DEF handleStuckDebited, TX_Inv, TX_TypeOK, AnnouncedOnce, Created,
     CompensatedOnce, TerminalRows, CompensationRows, StatusIn, Announcement,
     compensation
<1>2. CASE StatusIn(t, {"DEBITED"})
  <2>. DEFINE f == TransferFailed(t, TimeoutDebited)
              c == compensation(t)
  <2>1. t \in Created /\ SetStatus(t, "FAILED", TimeoutDebited)
    BY <1>2 DEF handleStuckDebited, StatusIn
  <2>2. TimeoutDebited \in FailureReason /\ TimeoutCompensation \in FailureReason
    BY DEF FailureReason
  <2>3. /\ transfers' \in [Transfers -> Transfer \cup {NoTransfer}]
        /\ Created' = Created
        /\ \A u \in Transfers : \A S : StatusIn(u, S)' <=>
             IF u = t THEN "FAILED" \in S ELSE StatusIn(u, S)
        /\ \A u \in Transfers \ {t} : transfers'[u] = transfers[u]
        /\ transfers'[t].status = "FAILED"
        /\ transfers'[t].failureReason = TimeoutDebited
        /\ transfers'[t].senderWalletId = transfers[t].senderWalletId
        /\ transfers'[t].receiverWalletId = transfers[t].receiverWalletId
        /\ transfers'[t].amount = transfers[t].amount
    BY <2>1, <2>2, SetStatusEffect DEF TX_Inv, TransferStatus
  <2>4. /\ f \in Event /\ f.transferId = t /\ f.topic = "transfer.failed"
        /\ c.transferId = t /\ c.topic = "wallet.credit-failed"
    BY <2>2, EventTypes DEF TransferFailed, compensation, WalletCreditFailed
  <2>5. c \in Event
    BY <2>1, <2>2, EventTypes DEF compensation, Created, Transfer, TX_Inv, TX_TypeOK
  <2>6. txOutbox' = Insert(Insert(txOutbox, f), c) /\ IsFiniteSet(txOutbox)
    BY <1>2 DEF handleStuckDebited, TX_Inv, TX_TypeOK
  <2>7. c' = c /\ f = Announcement(t)'
    BY <2>3 DEF compensation, Announcement
  <2>. HIDE DEF f, c
  <2>8. PICK n \in Nat : /\ IsFiniteSet(Insert(txOutbox, f))
                         /\ Insert(txOutbox, f) = txOutbox \cup
                              {[event |-> f, copy |-> n, published |-> FALSE]}
    BY <2>6, InsertAddsRow
  <2>9. PICK m \in Nat : /\ IsFiniteSet(txOutbox')
                         /\ txOutbox' = Insert(txOutbox, f) \cup
                              {[event |-> c, copy |-> m, published |-> FALSE]}
    BY <2>6, <2>8, InsertAddsRow
  <2>. DEFINE fRow == [event |-> f, copy |-> n, published |-> FALSE]
              cRow == [event |-> c, copy |-> m, published |-> FALSE]
  <2>10. txOutbox' = txOutbox \cup {fRow, cRow}
    BY <2>8, <2>9
  <2>11. TX_TypeOK'
    <3>1. fRow \in OutboxRow /\ cRow \in OutboxRow
      BY <2>4, <2>5, NewRowType
    <3>. HIDE DEF fRow, cRow
    <3>2. \A q \in txOutbox' : q \in OutboxRow
      BY <2>10, <3>1 DEF TX_Inv, TX_TypeOK
    <3>. QED
      BY <2>3, <2>9, <3>2 DEF TX_Inv, TX_TypeOK
  <2>12. fRow.event = f /\ cRow.event = c
    OBVIOUS
  <2>. HIDE DEF fRow, cRow
  <2>13. \A u \in Transfers \ {t} :
           /\ TerminalRows(u)' = TerminalRows(u)
           /\ CompensationRows(u)' = CompensationRows(u)
    BY <2>4, <2>10, <2>12 DEF TerminalRows, CompensationRows
  <2>14. ~StatusIn(t, Terminal) /\ ~StatusIn(t, {"FAILED"})
    BY <1>2 DEF StatusIn, Terminal
  <2>15. TerminalRows(t)' = {fRow}
    <3>1. TerminalRows(t) = {}
      BY <2>14 DEF AnnouncedOnce, TX_Inv
    <3>. QED
      BY <2>4, <2>10, <2>12, <3>1 DEF TerminalRows
  <2>16. CompensationRows(t)' = {cRow}
    <3>1. CompensationRows(t) = {}
      BY <2>14 DEF CompensatedOnce, TX_Inv
    <3>. QED
      BY <2>4, <2>10, <2>12, <3>1 DEF CompensationRows
  <2>17. StatusIn(t, Terminal)' /\ StatusIn(t, {"FAILED"})'
    BY <2>3 DEF Terminal
  <2>18. AnnouncedOnce'
    <3>1. SUFFICES ASSUME NEW u \in Transfers
          PROVE (\/ ~StatusIn(u, Terminal) /\ TerminalRows(u) = {}
                 \/ /\ StatusIn(u, Terminal)
                    /\ \E r \in TerminalRows(u) :
                         TerminalRows(u) = {r} /\ r.event = Announcement(u))'
      BY DEF AnnouncedOnce
    <3>2. CASE u = t
      BY <2>7, <2>12, <2>15, <2>17, <3>2
    <3>3. CASE u # t
      BY <2>3, <2>13, <3>3 DEF AnnouncedOnce, Announcement, TX_Inv
    <3>. QED
      BY <3>2, <3>3
  <2>19. CompensatedOnce'
    <3>1. SUFFICES ASSUME NEW u \in Transfers
          PROVE (IF StatusIn(u, {"FAILED"})
                    /\ transfers[u].failureReason = TimeoutDebited
                 THEN \E r \in CompensationRows(u) :
                        /\ CompensationRows(u) = {r}
                        /\ r.event = compensation(u)
                 ELSE CompensationRows(u) = {})'
      BY DEF CompensatedOnce
    <3>2. CASE u = t
      <4>1. c = compensation(t)'
        BY <2>7 DEF c
      <4>. QED
        BY <2>3, <2>12, <2>16, <2>17, <3>2, <4>1
    <3>3. CASE u # t
      BY <2>3, <2>13, <3>3 DEF CompensatedOnce, compensation, TX_Inv
    <3>. QED
      BY <3>2, <3>3
  <2>. QED
    BY <2>11, <2>18, <2>19 DEF TX_Inv
<1>. QED
  BY <1>1, <1>2

\* Publishing a row changes neither what it says nor how many there are.
LEMMA MarkKeepsInv ==
    ASSUME TX_Inv, NEW r \in txOutbox, TX_markPublished(r)
    PROVE  TX_Inv'
<1>. DEFINE marked == [r EXCEPT !.published = TRUE]
<1>1. txOutbox' = (txOutbox \ {r}) \cup {marked}
  BY DEF TX_markPublished, MarkPublished
<1>2. r \in OutboxRow
  BY DEF TX_Inv, TX_TypeOK
<1>3. marked.event = r.event
  BY <1>2 DEF OutboxRow
<1>. HIDE DEF marked
<1>4. IsFiniteSet(txOutbox') /\ \A q \in txOutbox' : q \in OutboxRow
  BY MarkKeepsTypes DEF TX_markPublished, TX_Inv, TX_TypeOK
<1>5. transfers' = transfers /\ now' = now /\ stuck' = stuck
  BY DEF TX_markPublished
<1>6. TX_TypeOK'
  BY <1>4, <1>5 DEF TX_Inv, TX_TypeOK, Created
<1>7. \A u \in Transfers :
        /\ TerminalRows(u)' = IF r \in TerminalRows(u)
                              THEN (TerminalRows(u) \ {r}) \cup {marked}
                              ELSE TerminalRows(u)
        /\ CompensationRows(u)' = IF r \in CompensationRows(u)
                                  THEN (CompensationRows(u) \ {r}) \cup {marked}
                                  ELSE CompensationRows(u)
  BY <1>1, <1>3 DEF TerminalRows, CompensationRows
<1>8. \A u \in Transfers : /\ Announcement(u)' = Announcement(u)
                           /\ compensation(u)' = compensation(u)
                           /\ \A S : StatusIn(u, S)' <=> StatusIn(u, S)
  BY <1>5 DEF Announcement, compensation, StatusIn, Created
<1>9. AnnouncedOnce'
  <2>1. SUFFICES ASSUME NEW u \in Transfers
        PROVE (\/ ~StatusIn(u, Terminal) /\ TerminalRows(u) = {}
               \/ /\ StatusIn(u, Terminal)
                  /\ \E q \in TerminalRows(u) :
                       TerminalRows(u) = {q} /\ q.event = Announcement(u))'
    BY DEF AnnouncedOnce
  <2>2. CASE StatusIn(u, Terminal)
    <3>1. PICK q \in TerminalRows(u) :
            TerminalRows(u) = {q} /\ q.event = Announcement(u)
      BY <2>2 DEF AnnouncedOnce, TX_Inv
    <3>2. CASE q = r
      <4>1. TerminalRows(u)' = {marked} /\ marked.event = Announcement(u)'
        BY <1>3, <1>7, <1>8, <3>1, <3>2
      <4>. QED
        BY <1>8, <2>2, <4>1
    <3>3. CASE q # r
      BY <1>7, <1>8, <2>2, <3>1, <3>3
    <3>. QED
      BY <3>2, <3>3
  <2>3. CASE ~StatusIn(u, Terminal)
    BY <1>7, <1>8, <2>3 DEF AnnouncedOnce, TX_Inv
  <2>. QED
    BY <2>2, <2>3
<1>10. CompensatedOnce'
  <2>1. SUFFICES ASSUME NEW u \in Transfers
        PROVE (IF StatusIn(u, {"FAILED"})
                  /\ transfers[u].failureReason = TimeoutDebited
               THEN \E q \in CompensationRows(u) :
                      /\ CompensationRows(u) = {q}
                      /\ q.event = compensation(u)
               ELSE CompensationRows(u) = {})'
    BY DEF CompensatedOnce
  <2>2. CASE StatusIn(u, {"FAILED"}) /\ transfers[u].failureReason = TimeoutDebited
    <3>1. PICK q \in CompensationRows(u) :
            CompensationRows(u) = {q} /\ q.event = compensation(u)
      BY <2>2 DEF CompensatedOnce, TX_Inv
    <3>2. CASE q = r
      <4>1. CompensationRows(u)' = {marked} /\ marked.event = compensation(u)'
        BY <1>3, <1>7, <1>8, <3>1, <3>2
      <4>. QED
        BY <1>5, <1>8, <2>2, <4>1
    <3>3. CASE q # r
      BY <1>5, <1>7, <1>8, <2>2, <3>1, <3>3
    <3>. QED
      BY <3>2, <3>3
  <2>3. CASE ~(StatusIn(u, {"FAILED"}) /\ transfers[u].failureReason = TimeoutDebited)
    BY <1>5, <1>7, <1>8, <2>3 DEF CompensatedOnce, TX_Inv
  <2>. QED
    BY <2>2, <2>3
<1>. QED
  BY <1>6, <1>9, <1>10 DEF TX_Inv

\* Steps of the clock and of the job's memory leave both tables alone.
LEMMA TablesUnchangedKeepsInv ==
    ASSUME TX_Inv, UNCHANGED <<transfers, txOutbox>>,
           now' \in Nat,
           \A s \in stuck' : s \in stuck \/
              \E t \in stuckTransfers :
                s = [transferId |-> t, status |-> transfers[t].status]
    PROVE  TX_Inv'
<1>1. \A s \in stuck' : /\ s \in [transferId : Transfers, status : InFlight]
                        /\ s.transferId \in Created /\ s.status \in InFlight
  BY DEF stuckTransfers, StatusIn, Created, TX_Inv, TX_TypeOK
<1>2. TX_TypeOK'
  BY <1>1 DEF TX_Inv, TX_TypeOK, Created
<1>3. AnnouncedOnce' /\ CompensatedOnce'
  BY DEF TX_Inv, AnnouncedOnce, CompensatedOnce, TerminalRows, CompensationRows,
     Announcement, compensation, StatusIn, Created
<1>. QED
  BY <1>2, <1>3 DEF TX_Inv

-----------------------------------------------------------------------------
(* The environment's events are handled by one of the two guarded updates. *)

\* Each of the five handlers keeps the invariant, for every event about a
\* created transfer.
LEMMA HandleKeepsInv ==
    ASSUME TX_Inv, NEW t \in Created, NEW e \in EventsAbout(t), TX_handle(e)
    PROVE  TX_Inv'
<1>1. t \in Transfers /\ e.transferId = t
  BY DEF Created, EventsAbout, WalletDebited, WalletDebitFailed, WalletCredited,
     WalletCreditFailed, WalletRefunded
<1>2. UNCHANGED <<now, stuck>>
  BY DEF TX_handle
<1>3. CASE TX_handleWalletDebited(e)
  BY <1>1, <1>2, <1>3, ConfirmKeepsInv DEF TX_handleWalletDebited
<1>4. CASE e.topic = "wallet.debit-failed" /\ TX_handleWalletDebitFailed(e)
  <2>1. e.reason = DebitError
    BY <1>4 DEF EventsAbout, WalletDebited, WalletDebitFailed, WalletCredited,
       WalletCreditFailed, WalletRefunded
  <2>2. DebitError \in FailureReason \ {TimeoutDebited}
    BY DEF FailureReason, DebitError, TimeoutDebited
  <2>. QED
    BY <1>1, <1>2, <1>4, <2>1, <2>2, EndKeepsInv
       DEF TX_handleWalletDebitFailed, InFlight, Terminal
<1>5. CASE TX_handleWalletCredited(e)
  BY <1>1, <1>2, <1>5, EndKeepsInv
     DEF TX_handleWalletCredited, InFlight, Terminal
<1>6. CASE e.topic = "wallet.credit-failed" /\ TX_handleWalletCreditFailed(e)
  <2>1. e.reason \in {CreditError, TimeoutCompensation}
    BY <1>6 DEF EventsAbout, WalletDebited, WalletDebitFailed, WalletCredited,
       WalletCreditFailed, WalletRefunded
  <2>2. {CreditError, TimeoutCompensation} \subseteq
          FailureReason \ {TimeoutDebited}
    BY DEF FailureReason, CreditError, TimeoutCompensation, TimeoutDebited
  <2>. QED
    BY <1>1, <1>2, <1>6, <2>1, <2>2, EndKeepsInv
       DEF TX_handleWalletCreditFailed, InFlight, Terminal
<1>7. CASE TX_handleWalletRefunded(e)
  BY <1>2, <1>7, TablesUnchangedKeepsInv
     DEF TX_handleWalletRefunded, TX_Inv, TX_TypeOK
<1>. QED
  BY <1>3, <1>4, <1>5, <1>6, <1>7 DEF TX_handle

\* A recovery keeps the invariant, whatever the row it had read is by now.
LEMMA RecoverKeepsInv ==
    ASSUME TX_Inv, NEW s \in stuck, recoverStuckTransfer(s)
    PROVE  TX_Inv'
<1>1. s.transferId \in Transfers /\ now' = now /\ stuck' \subseteq stuck
  BY DEF recoverStuckTransfer, TX_Inv, TX_TypeOK, Created
<1>2. CASE handleStuckPending(s.transferId)
  <2>1. TimeoutPending \in FailureReason \ {TimeoutDebited}
    BY DEF FailureReason, TimeoutPending, TimeoutDebited
  <2>. QED
    BY <1>1, <1>2, <2>1, EndKeepsInv
       DEF handleStuckPending, InFlight, Terminal
<1>3. CASE handleStuckDebited(s.transferId)
  BY <1>1, <1>3, TimeoutKeepsInv
<1>. QED
  BY <1>2, <1>3 DEF recoverStuckTransfer

-----------------------------------------------------------------------------
(* The theorems.                                                           *)

\* The invariant holds at the start: no transfer, no row.
LEMMA TX_InvInit == TX_Init => TX_Inv
<1>. SUFFICES ASSUME TX_Init PROVE TX_Inv
  OBVIOUS
<1>1. Created = {} /\ \A u \in Transfers : \A S : ~StatusIn(u, S)
  BY DEF TX_Init, Created, StatusIn
<1>2. TX_TypeOK
  BY <1>1, FS_EmptySet DEF TX_Init, TX_TypeOK
<1>3. AnnouncedOnce /\ CompensatedOnce
  BY <1>1 DEF TX_Init, AnnouncedOnce, CompensatedOnce, TerminalRows,
     CompensationRows
<1>. QED
  BY <1>2, <1>3 DEF TX_Inv

\* Every step of the service keeps the invariant.
LEMMA TX_InvStep == TX_Inv /\ [TX_Next]_txVars => TX_Inv'
<1>. SUFFICES ASSUME TX_Inv, [TX_Next]_txVars PROVE TX_Inv'
  OBVIOUS
<1>. USE DEF TX_Inv, TX_TypeOK
<1>1. ASSUME NEW t \in Transfers, NEW r \in Requests, NEW at \in Deadlines,
             createTransfer(t, r, at)
      PROVE  TX_Inv'
  BY <1>1, CreateKeepsInv
<1>2. ASSUME NEW t \in Created, NEW e \in EventsAbout(t), TX_handle(e)
      PROVE  TX_Inv'
  BY <1>2, HandleKeepsInv
<1>3. CASE tick
  BY <1>3, TablesUnchangedKeepsInv DEF tick
<1>4. CASE findStuckTransfers
  BY <1>4, TablesUnchangedKeepsInv DEF findStuckTransfers, Oldest
<1>5. ASSUME NEW s \in stuck, recoverStuckTransfer(s) PROVE TX_Inv'
  BY <1>5, RecoverKeepsInv
<1>6. ASSUME NEW s \in stuck, skipStuckTransfer(s) PROVE TX_Inv'
  BY <1>6, TablesUnchangedKeepsInv DEF skipStuckTransfer
<1>7. CASE TX_restart
  BY <1>7, TablesUnchangedKeepsInv DEF TX_restart
<1>8. ASSUME NEW r \in txOutbox, TX_markPublished(r) PROVE TX_Inv'
  BY <1>8, MarkKeepsInv
<1>9. CASE UNCHANGED txVars
  BY <1>9, TablesUnchangedKeepsInv DEF txVars
<1>. QED
  BY <1>1, <1>2, <1>3, <1>4, <1>5, <1>6, <1>7, <1>8, <1>9 DEF TX_Next

\* The inductive invariant holds in every reachable state.
LEMMA TX_Invariance == TX_Spec => []TX_Inv
  BY TX_InvInit, TX_InvStep, PTL DEF TX_Spec

\* The tables of the transaction service always type-check.
THEOREM TX_TypeCorrect == TX_Spec => []TX_TypeOK
  BY TX_Invariance, PTL DEF TX_Inv

\* The end of a transfer is announced once, when it happens, with the reason
\* its row records, for any number of transfers and any events.
THEOREM TX_AnnouncesOnce == TX_Spec => []AnnouncedOnce
  BY TX_Invariance, PTL DEF TX_Inv

\* A refund is asked for once, exactly for the transfers the timeout job
\* failed as DEBITED.
THEOREM TX_CompensatesOnce == TX_Spec => []CompensatedOnce
  BY TX_Invariance, PTL DEF TX_Inv

\* No guarded UPDATE matches a terminal transfer.
LEMMA TerminalStays ==
    ASSUME TX_Inv, [TX_Next]_txVars, NEW t \in Transfers, StatusIn(t, Terminal)
    PROVE  transfers'[t] = transfers[t]
<1>1. t \in Created /\ transfers[t].status \in Terminal
  BY DEF StatusIn
<1>2. \A u \in Transfers, from \in InFlight : \A to, x, e :
         updateStatusWithOutbox(u, from, to, x, e)
           => transfers'[t] = transfers[t]
  BY <1>1 DEF updateStatusWithOutbox, SetStatus, StatusIn, InFlight, Terminal,
     TX_Inv, TX_TypeOK
<1>3. ASSUME NEW u \in Transfers, NEW r \in Requests, NEW at \in Deadlines,
             createTransfer(u, r, at)
      PROVE  transfers'[t] = transfers[t]
  BY <1>1, <1>3 DEF createTransfer, TX_Inv, TX_TypeOK
<1>4. ASSUME NEW u \in Created, NEW e \in EventsAbout(u), TX_handle(e)
      PROVE  transfers'[t] = transfers[t]
  <2>1. e.transferId = u /\ u \in Transfers
    BY DEF Created, EventsAbout, WalletDebited, WalletDebitFailed,
       WalletCredited, WalletCreditFailed, WalletRefunded
  <2>2. CASE TX_handleWalletDebited(e)
    BY <1>1, <2>1, <2>2 DEF TX_handleWalletDebited, updateTransferStatus,
       SetStatus, StatusIn, Terminal, TX_Inv, TX_TypeOK
  <2>3. CASE \/ TX_handleWalletDebitFailed(e) \/ TX_handleWalletCredited(e)
             \/ TX_handleWalletCreditFailed(e)
    BY <1>2, <2>1, <2>3 DEF TX_handleWalletDebitFailed, InFlight,
       TX_handleWalletCredited, TX_handleWalletCreditFailed
  <2>. QED
    BY <1>4, <2>2, <2>3 DEF TX_handle, TX_handleWalletRefunded
<1>5. ASSUME NEW s \in stuck, recoverStuckTransfer(s)
      PROVE  transfers'[t] = transfers[t]
  <2>1. s.transferId \in Transfers
    BY DEF TX_Inv, TX_TypeOK
  <2>2. CASE handleStuckPending(s.transferId)
    BY <1>2, <2>1, <2>2 DEF handleStuckPending, InFlight
  <2>3. CASE handleStuckDebited(s.transferId)
    BY <1>1, <2>1, <2>3 DEF handleStuckDebited, SetStatus, StatusIn, Terminal,
       TX_Inv, TX_TypeOK
  <2>. QED
    BY <1>5, <2>2, <2>3 DEF recoverStuckTransfer
<1>6. ASSUME UNCHANGED transfers PROVE transfers'[t] = transfers[t]
  BY <1>6
<1>. QED
  BY <1>3, <1>4, <1>5, <1>6 DEF TX_Next, txVars, tick, findStuckTransfers,
     skipStuckTransfer, TX_restart, TX_markPublished

\* A terminal transfer never changes, whatever arrives late and whatever a
\* recovery had read before.
THEOREM TX_TerminalIsFinal == TX_Spec => TerminalIsFinal
<1>1. TX_Inv /\ [TX_Next]_txVars =>
        [\A t \in Transfers :
           StatusIn(t, Terminal) => transfers'[t] = transfers[t]]_txVars
  BY TerminalStays
<1>. QED
  BY <1>1, TX_Invariance, PTL DEF TX_Spec, TerminalIsFinal
=============================================================================
