------------------------- MODULE WalletLedgerProofs -------------------------
(***************************************************************************)
(* Proofs about concurrent calls of updateBalanceWithLedger, for any       *)
(* number of calls with any arguments.                                     *)
(***************************************************************************)
EXTENDS WalletLedger, TableProofs

\* A call past its UPDATE holds the row of its wallet, what it has written is
\* right for the committed balance, and once it has passed the unique index no
\* committed entry has its key.
RowHeld(c) ==
    pc[c] \in {"updated", "inserted"} =>
      /\ walletOf(c) \in Wallets
      /\ holder[walletOf(c)] = c
      /\ Affected(walletOf(c), amountOf(c), typeOf(c))
      /\ written[c] = newBalance(walletOf(c), amountOf(c), typeOf(c))
      /\ pc[c] = "inserted" => ~isDuplicate(walletOf(c), txnOf(c))

\* The inductive invariant.
LedgerInv == TypeOK /\ ReturnedIsRecorded /\ \A c \in Calls : RowHeld(c)

\* The arguments of a call have their types.
LEMMA ArgumentTypes ==
    ASSUME NEW c \in Calls
    PROVE  /\ walletOf(c) \in WalletIds /\ txnOf(c) \in TransactionId
           /\ amountOf(c) \in Nat \ {0} /\ typeOf(c) \in LedgerEntryType
           /\ Arguments[c].event \in Event
  BY CallsAssumption
     DEF Argument, walletOf, txnOf, amountOf, typeOf

\* A balance the UPDATE may write is a bigint and not negative.
LEMMA NewBalanceType ==
    ASSUME TypeOK, NEW c \in Calls,
           Affected(walletOf(c), amountOf(c), typeOf(c))
    PROVE  newBalance(walletOf(c), amountOf(c), typeOf(c)) \in 0 .. MaxBalance
<1>1. walletOf(c) \in Wallets /\ balance[walletOf(c)] \in 0 .. MaxBalance
  BY DEF TypeOK, Affected
<1>2. amountOf(c) \in Nat \ {0} /\ MaxBalance \in Nat
  BY ArgumentTypes, WalletsAssumption
<1>. QED
  BY <1>1, <1>2 DEF Affected, newBalance

\* A rollback keeps the invariant: it touches no table and no row of others.
LEMMA RollbackKeepsInv ==
    ASSUME LedgerInv, NEW c \in Calls, rollback(c),
           NEW how \in {"threw", "failed"}, pc' = [pc EXCEPT ![c] = how]
    PROVE  LedgerInv'
<1>1. TypeOK'
  BY DEF LedgerInv, TypeOK, rollback, release, repositoryVars
<1>2. ReturnedIsRecorded'
  BY DEF LedgerInv, TypeOK, ReturnedIsRecorded, rollback, repositoryVars,
     isDuplicate
<1>3. ASSUME NEW d \in Calls, (pc[d] \in {"updated", "inserted"})'
      PROVE  RowHeld(d)'
  <2>1. d # c /\ pc'[d] = pc[d] /\ RowHeld(d)
    BY <1>3 DEF LedgerInv, TypeOK
  <2>2. holder'[walletOf(d)] = holder[walletOf(d)]
    BY <1>3, <2>1 DEF rollback, release, RowHeld
  <2>. QED
    BY <1>3, <2>1, <2>2 DEF RowHeld, rollback, repositoryVars, Affected,
       newBalance, isDuplicate
<1>. QED
  BY <1>1, <1>2, <1>3 DEF LedgerInv, RowHeld

\* The check changes nothing but where the call is.
LEMMA CheckKeepsInv ==
    ASSUME LedgerInv, NEW c \in Calls, check(c)
    PROVE  LedgerInv'
<1>1. TypeOK'
  BY DEF LedgerInv, TypeOK, check, repositoryVars
<1>2. ReturnedIsRecorded'
  BY DEF LedgerInv, TypeOK, ReturnedIsRecorded, check, duplicateSeen,
     repositoryVars, isDuplicate
<1>3. \A d \in Calls : RowHeld(d)'
  BY DEF LedgerInv, TypeOK, check, RowHeld, repositoryVars, Affected,
     newBalance, isDuplicate
<1>. QED
  BY <1>1, <1>2, <1>3 DEF LedgerInv

\* An UPDATE takes a row that was free.
LEMMA UpdateKeepsInv ==
    ASSUME LedgerInv, NEW c \in Calls, update(c)
    PROVE  LedgerInv'
<1>. DEFINE w == walletOf(c)
<1>1. CASE ~Affected(w, amountOf(c), typeOf(c))
  BY <1>1, RollbackKeepsInv DEF update, throw
<1>2. CASE Affected(w, amountOf(c), typeOf(c))
  <2>1. /\ pc' = [pc EXCEPT ![c] = "updated"]
        /\ holder' = [holder EXCEPT ![w] = c]
        /\ written' = [written EXCEPT ![c] = newBalance(w, amountOf(c), typeOf(c))]
        /\ balance' = balance /\ ledger' = ledger
        /\ walletOutbox' = walletOutbox
    BY <1>2 DEF update, repositoryVars
  <2>2. w \in Wallets /\ holder[w] = NoCall
    BY <1>2 DEF update, rowFree, Affected
  <2>3. TypeOK'
    BY <1>2, <2>1, <2>2, NewBalanceType DEF LedgerInv, TypeOK
  <2>4. ReturnedIsRecorded'
    BY <2>1 DEF LedgerInv, TypeOK, ReturnedIsRecorded, isDuplicate
  <2>5. RowHeld(c)'
    BY <1>2, <2>1, <2>2 DEF LedgerInv, TypeOK, RowHeld, Affected, newBalance
  <2>6. ASSUME NEW d \in Calls \ {c}  PROVE RowHeld(d)'
    BY <2>1, <2>2, CallsAssumption
       DEF LedgerInv, TypeOK, RowHeld, Affected, newBalance, isDuplicate
  <2>. QED
    BY <2>3, <2>4, <2>5, <2>6 DEF LedgerInv
<1>. QED
  BY <1>1, <1>2

\* An INSERT either finds no committed entry or rolls back.
LEMMA InsertKeepsInv ==
    ASSUME LedgerInv, NEW c \in Calls, insert(c)
    PROVE  LedgerInv'
<1>1. CASE indexRejects(c)
  BY <1>1, RollbackKeepsInv DEF insert, throw
<1>2. CASE ~indexRejects(c)
  <2>1. /\ pc' = [pc EXCEPT ![c] = "inserted"]
        /\ UNCHANGED <<balance, ledger, walletOutbox, holder, written>>
    BY <1>2 DEF insert, repositoryVars
  <2>2. TypeOK'
    BY <2>1 DEF LedgerInv, TypeOK
  <2>3. ReturnedIsRecorded'
    BY <2>1 DEF LedgerInv, TypeOK, ReturnedIsRecorded, isDuplicate
  <2>4. \A d \in Calls : RowHeld(d)'
    BY <1>2, <2>1 DEF LedgerInv, TypeOK, RowHeld, Affected, newBalance,
       isDuplicate, indexRejects, insert
  <2>. QED
    BY <2>2, <2>3, <2>4 DEF LedgerInv
<1>. QED
  BY <1>1, <1>2

\* A commit writes the row it holds and an entry of its wallet: calls past
\* their UPDATE are on other wallets and see none of it.
LEMMA CommitKeepsInv ==
    ASSUME LedgerInv, NEW c \in Calls, commit(c)
    PROVE  LedgerInv'
<1>. DEFINE w == walletOf(c)
            entry == [walletId |-> w, transactionId |-> txnOf(c),
                      type |-> typeOf(c), amount |-> amountOf(c)]
<1>1. /\ pc[c] = "inserted"
      /\ balance' = [balance EXCEPT ![w] = written[c]]
      /\ ledger' = ledger \cup {entry}
      /\ walletOutbox' = Insert(walletOutbox, Arguments[c].event)
      /\ written' = written
      /\ holder' = [v \in Wallets |-> IF holder[v] = c THEN NoCall ELSE holder[v]]
  BY DEF commit, release
<1>2. PICK answer \in {"returned", "failed"} : pc' = [pc EXCEPT ![c] = answer]
  BY DEF commit
<1>3. w \in Wallets /\ holder[w] = c
  BY <1>1 DEF LedgerInv, RowHeld
<1>4. TypeOK'
  <2>1. entry \in LedgerEntry
    BY <1>3, ArgumentTypes DEF LedgerEntry
  <2>2. PICK n \in Nat :
          walletOutbox' = walletOutbox \cup
            {[event |-> Arguments[c].event, copy |-> n, published |-> FALSE]}
    BY <1>1, InsertAddsRow DEF LedgerInv, TypeOK
  <2>3. [event |-> Arguments[c].event, copy |-> n, published |-> FALSE]
          \in OutboxRow
    BY ArgumentTypes, NewRowType
  <2>4. IsFiniteSet(walletOutbox')
    BY <2>2, FS_AddElement DEF LedgerInv, TypeOK
  <2>. HIDE DEF entry
  <2>5. /\ balance' \in [Wallets -> 0 .. MaxBalance]
        /\ \A l \in ledger' : l \in LedgerEntry
        /\ \A r \in walletOutbox' : r \in OutboxRow
    BY <1>1, <2>1, <2>2, <2>3 DEF LedgerInv, TypeOK
  <2>6. /\ pc' \in [Calls -> {"called", "checked", "updated", "inserted",
                              "returned", "threw", "failed"}]
        /\ holder' \in [Wallets -> Calls \cup {NoCall}]
        /\ written' \in [Calls -> 0 .. MaxBalance]
    BY <1>1, <1>2 DEF LedgerInv, TypeOK
  <2>. QED
    BY <2>4, <2>5, <2>6 DEF TypeOK
<1>5. isDuplicate(w, txnOf(c))'
  <2>1. entry \in ledger' /\ entry.walletId = w /\ entry.transactionId = txnOf(c)
    BY <1>1
  <2>. QED
    BY <2>1 DEF isDuplicate
<1>6. \A v, x : isDuplicate(v, x) => isDuplicate(v, x)'
  BY <1>1 DEF isDuplicate
<1>7. ReturnedIsRecorded'
  BY <1>2, <1>5, <1>6 DEF LedgerInv, TypeOK, ReturnedIsRecorded
<1>8. ASSUME NEW d \in Calls, (pc[d] \in {"updated", "inserted"})'
      PROVE  RowHeld(d)'
  <2>1. d # c /\ pc'[d] = pc[d] /\ RowHeld(d)
    BY <1>2, <1>8 DEF LedgerInv, TypeOK
  <2>2. walletOf(d) \in Wallets /\ holder[walletOf(d)] = d
    BY <1>8, <2>1 DEF RowHeld
  <2>3. walletOf(d) # w
    BY <1>3, <2>1, <2>2
  <2>4. /\ balance'[walletOf(d)] = balance[walletOf(d)]
        /\ holder'[walletOf(d)] = d
        /\ isDuplicate(walletOf(d), txnOf(d))'
             <=> isDuplicate(walletOf(d), txnOf(d))
    BY <1>1, <2>1, <2>2, <2>3 DEF LedgerInv, TypeOK, isDuplicate
  <2>. QED
    BY <1>1, <1>8, <2>1, <2>2, <2>4 DEF RowHeld, Affected, newBalance
<1>. QED
  BY <1>4, <1>7, <1>8 DEF LedgerInv, RowHeld

-----------------------------------------------------------------------------
(* The theorems.                                                           *)

\* At the start no call has done anything.
LEMMA LedgerInvInit == Init => LedgerInv
<1>. SUFFICES ASSUME Init PROVE LedgerInv
  OBVIOUS
<1>1. TypeOK
  BY WalletsAssumption, FS_EmptySet DEF Init, Repository_Init, TypeOK
<1>. QED
  BY <1>1 DEF Init, LedgerInv, ReturnedIsRecorded, RowHeld

\* Every statement of every call keeps the invariant.
LEMMA LedgerInvStep == LedgerInv /\ [Next]_ledgerVars => LedgerInv'
<1>. SUFFICES ASSUME LedgerInv, [Next]_ledgerVars PROVE LedgerInv'
  OBVIOUS
<1>1. CASE UNCHANGED ledgerVars
  BY <1>1 DEF ledgerVars, repositoryVars, callVars, LedgerInv, TypeOK,
     ReturnedIsRecorded, RowHeld, Affected, newBalance, isDuplicate
<1>2. CASE Next
  BY <1>2, CheckKeepsInv, UpdateKeepsInv, InsertKeepsInv, CommitKeepsInv,
     RollbackKeepsInv DEF Next, fail
<1>. QED
  BY <1>1, <1>2

\* The inductive invariant holds in every reachable state.
LEMMA LedgerInvariance == Spec => []LedgerInv
  BY LedgerInvInit, LedgerInvStep, PTL DEF Spec

\* Tables and calls keep their types; no balance is ever negative.
THEOREM LedgerTypeCorrect == Spec => []TypeOK
  BY LedgerInvariance, PTL DEF LedgerInv

\* A call that returns has its entry in the ledger, or the one it repeats.
THEOREM ReturnedIsAlwaysRecorded == Spec => []ReturnedIsRecorded
  BY LedgerInvariance, PTL DEF LedgerInv

-----------------------------------------------------------------------------
(* Every statement is a step of AtomicCalls, or none.                      *)

\* What the abstract variables are.
outcomeOf(p) == IF p \in Ended THEN p ELSE "running"

Overtaken ==
    {c \in Calls : pc[c] \in {"checked", "updated"}
                     /\ isDuplicate(walletOf(c), txnOf(c))}

\* They are the ones the instance has.
LEMMA Mapping ==
    /\ Atomic!callVars = <<balance, ledger, walletOutbox,
                           [c \in Calls |-> outcomeOf(pc[c])], Overtaken>>
    /\ Atomic!Running = {c \in Calls : pc[c] \notin Ended}
  BY DEF Atomic!callVars, Atomic!Running, outcomeOf, Overtaken, Ended

\* A statement that ends no call and writes no table is a stutter, unless it
\* takes a call past where it can be overtaken.
LEMMA StatementStutters ==
    ASSUME LedgerInv, NEW c \in Calls, NEW p, pc[c] \notin Ended, p \notin Ended,
           pc' = [pc EXCEPT ![c] = p], UNCHANGED repositoryVars,
           Overtaken' = Overtaken
    PROVE  UNCHANGED Atomic!callVars
<1>1. \A d \in Calls : outcomeOf(pc'[d]) = outcomeOf(pc[d])
  BY DEF LedgerInv, TypeOK, outcomeOf
<1>2. /\ balance' = balance /\ ledger' = ledger /\ walletOutbox' = walletOutbox
      /\ [d \in Calls |-> outcomeOf(pc'[d])] = [d \in Calls |-> outcomeOf(pc[d])]
  BY <1>1 DEF repositoryVars
<1>3. (Atomic!callVars)' = <<balance', ledger', walletOutbox',
                            [d \in Calls |-> outcomeOf(pc'[d])], Overtaken'>>
  BY DEF Atomic!callVars, outcomeOf, Overtaken
<1>. QED
  BY <1>2, <1>3, Mapping

\* How a call ends is what its last statement says.
LEMMA StatementEnds ==
    ASSUME LedgerInv, NEW c \in Calls, NEW how \in Ended, pc[c] \notin Ended,
           pc' = [pc EXCEPT ![c] = how]
    PROVE  Atomic!Ends(c, how)
<1>1. [d \in Calls |-> outcomeOf(pc'[d])]
        = [[d \in Calls |-> outcomeOf(pc[d])] EXCEPT ![c] = how]
  BY DEF LedgerInv, TypeOK, outcomeOf
<1>. QED
  BY <1>1, Mapping DEF Atomic!Ends, outcomeOf

\* A call that ends without a write leaves the others as overtaken as before.
LEMMA OvertakenWithout ==
    ASSUME LedgerInv, NEW c \in Calls, NEW how \in Ended,
           pc' = [pc EXCEPT ![c] = how], UNCHANGED repositoryVars
    PROVE  Overtaken' = Overtaken \ {c}
  BY DEF LedgerInv, TypeOK, Overtaken, Ended, repositoryVars, isDuplicate

\* A rollback for a reason that Throws has is a Throw.
LEMMA ThrowIsAtomic ==
    ASSUME LedgerInv, NEW c \in Calls, throw(c), pc[c] \notin Ended,
           Throws(walletOf(c), txnOf(c), amountOf(c), typeOf(c), c \in Overtaken)
    PROVE  Atomic!Throw(c)
<1>1. Atomic!Ends(c, "threw")
  BY StatementEnds DEF throw, Ended
<1>2. Overtaken' = Overtaken \ {c} /\ UNCHANGED repositoryVars
  BY OvertakenWithout DEF throw, rollback, Ended
<1>. QED
  BY <1>1, <1>2 DEF Atomic!Throw, Atomic!Throws, Throws, Atomic!isDuplicate,
     isDuplicate, Atomic!Affected, Affected, Atomic!repositoryVars,
     repositoryVars, Overtaken, walletOf, txnOf, amountOf, typeOf

\* The check ends the call of a duplicate, and is a stutter for another.
LEMMA CheckIsAtomic ==
    ASSUME LedgerInv, NEW c \in Calls, check(c)
    PROVE  Atomic!Return(c) \/ UNCHANGED Atomic!callVars
<1>1. /\ pc[c] = "called" /\ UNCHANGED repositoryVars
      /\ pc' = [pc EXCEPT ![c] = IF duplicateSeen(c) THEN "returned"
                                                     ELSE "checked"]
  BY DEF check
<1>2. CASE duplicateSeen(c)
  <2>1. Atomic!Ends(c, "returned")
    BY <1>1, <1>2, StatementEnds DEF Ended
  <2>2. Overtaken' = Overtaken \ {c} /\ c \notin Overtaken
    BY <1>1, <1>2, OvertakenWithout DEF Ended, Overtaken
  <2>3. Overtaken' = Overtaken \cup {}
    BY <2>2
  <2>4. Atomic!Recorded(c)
    BY <1>2 DEF duplicateSeen, isDuplicate, Atomic!Recorded,
       Atomic!isDuplicate, walletOf, txnOf
  <2>5. Atomic!Perform(c)
    BY <1>1, <2>2, <2>3, <2>4
       DEF Atomic!Perform, Overtaken, Atomic!updateBalanceWithLedger,
           Atomic!Recorded, Atomic!returnDuplicate, Atomic!repositoryVars,
           repositoryVars
  <2>. QED
    BY <2>1, <2>5 DEF Atomic!Return
<1>3. CASE ~duplicateSeen(c)
  <2>1. Overtaken' = Overtaken
    BY <1>1, <1>3 DEF LedgerInv, TypeOK, Overtaken, duplicateSeen,
       isDuplicate, repositoryVars
  <2>. QED
    BY <1>1, <1>3, <2>1, StatementStutters DEF Ended
<1>. QED
  BY <1>2, <1>3

\* The UPDATE of a row that matches is a stutter; of a row that does not, the
\* end of a call that throws.
LEMMA UpdateIsAtomic ==
    ASSUME LedgerInv, NEW c \in Calls, update(c)
    PROVE  Atomic!Throw(c) \/ UNCHANGED Atomic!callVars
<1>1. CASE Affected(walletOf(c), amountOf(c), typeOf(c))
  <2>1. /\ pc[c] = "checked" /\ UNCHANGED repositoryVars
        /\ pc' = [pc EXCEPT ![c] = "updated"]
    BY <1>1 DEF update
  <2>2. Overtaken' = Overtaken
    BY <2>1 DEF LedgerInv, TypeOK, Overtaken, isDuplicate, repositoryVars
  <2>. QED
    BY <2>1, <2>2, StatementStutters DEF Ended
<1>2. CASE ~Affected(walletOf(c), amountOf(c), typeOf(c))
  <2>1. pc[c] = "checked" /\ throw(c)
    BY <1>2 DEF update
  <2>2. Throws(walletOf(c), txnOf(c), amountOf(c), typeOf(c), c \in Overtaken)
    BY <1>2, <2>1 DEF Throws, Overtaken
  <2>. QED
    BY <2>1, <2>2, ThrowIsAtomic DEF Ended
<1>. QED
  BY <1>1, <1>2

\* The INSERT that the unique index rejects is that of a call overtaken since
\* its check.
LEMMA InsertIsAtomic ==
    ASSUME LedgerInv, NEW c \in Calls, insert(c)
    PROVE  Atomic!Throw(c) \/ UNCHANGED Atomic!callVars
<1>1. CASE indexRejects(c)
  <2>1. pc[c] = "updated" /\ throw(c)
    BY <1>1 DEF insert
  <2>2. Throws(walletOf(c), txnOf(c), amountOf(c), typeOf(c), c \in Overtaken)
    BY <1>1, <2>1 DEF Throws, Overtaken, indexRejects
  <2>. QED
    BY <2>1, <2>2, ThrowIsAtomic DEF Ended
<1>2. CASE ~indexRejects(c)
  <2>1. /\ pc[c] = "updated" /\ UNCHANGED repositoryVars
        /\ pc' = [pc EXCEPT ![c] = "inserted"]
    BY <1>2 DEF insert
  <2>2. Overtaken' = Overtaken
    BY <1>2, <2>1 DEF LedgerInv, TypeOK, Overtaken, indexRejects, isDuplicate,
       repositoryVars
  <2>. QED
    BY <2>1, <2>2, StatementStutters DEF Ended
<1>. QED
  BY <1>1, <1>2

\* A commit is the whole call, and overtakes those of its key that have passed
\* the check.
LEMMA CommitIsAtomic ==
    ASSUME LedgerInv, NEW c \in Calls, commit(c)
    PROVE  Atomic!Return(c) \/ Atomic!Fail(c)
<1>1. /\ pc[c] = "inserted" /\ ~isDuplicate(walletOf(c), txnOf(c))
      /\ Affected(walletOf(c), amountOf(c), typeOf(c))
      /\ written[c] = newBalance(walletOf(c), amountOf(c), typeOf(c))
  BY DEF commit, LedgerInv, RowHeld
<1>2. PICK how \in {"returned", "failed"} : pc' = [pc EXCEPT ![c] = how]
  BY DEF commit
<1>. DEFINE S == {d \in Calls \ {c} : pc[d] \in {"checked", "updated"}
                                        /\ SameKey(c, d)}
<1>3. \A w, x : isDuplicate(w, x)' <=>
        isDuplicate(w, x) \/ (w = walletOf(c) /\ x = txnOf(c))
  <2>. DEFINE entry == [walletId |-> walletOf(c), transactionId |-> txnOf(c),
                        type |-> typeOf(c), amount |-> amountOf(c)]
  <2>1. entry.walletId = walletOf(c) /\ entry.transactionId = txnOf(c)
    OBVIOUS
  <2>2. ledger' = ledger \cup {entry}
    BY DEF commit
  <2>. QED
    BY <2>1, <2>2 DEF isDuplicate
<1>4. Overtaken' = Overtaken \cup S
  <2>1. ASSUME NEW d \in Calls PROVE d \in Overtaken' <=> d \in Overtaken \cup S
    <3>1. CASE d = c
      BY <1>1, <1>2, <3>1 DEF LedgerInv, TypeOK, Overtaken
    <3>2. CASE d # c
      <4>1. pc'[d] = pc[d]
        BY <1>2, <3>2 DEF LedgerInv, TypeOK
      <4>. QED
        BY <1>3, <3>2, <4>1 DEF Overtaken, SameKey
    <3>. QED
      BY <3>1, <3>2
  <2>. QED
    BY <2>1 DEF Overtaken
<1>5. S \in SUBSET Atomic!OthersOfKey(c)
  BY Mapping DEF Atomic!OthersOfKey, Ended, SameKey, walletOf, txnOf
<1>6. ~Atomic!Recorded(c) /\ c \notin Overtaken
  BY <1>1 DEF Atomic!Recorded, Atomic!isDuplicate, isDuplicate, walletOf,
     txnOf, Overtaken
<1>7. Atomic!updateBalanceWithLedger(walletOf(c), txnOf(c), amountOf(c),
                                     typeOf(c), Arguments[c].event)
  <2>1. Atomic!newBalance(walletOf(c), amountOf(c), typeOf(c)) = written[c]
    BY <1>1 DEF Atomic!newBalance, newBalance
  <2>2. /\ ~Atomic!isDuplicate(walletOf(c), txnOf(c))
        /\ Atomic!Affected(walletOf(c), amountOf(c), typeOf(c))
    BY <1>1 DEF Atomic!isDuplicate, isDuplicate, Atomic!Affected, Affected
  <2>3. \A o, e : Atomic!Insert(o, e) = Insert(o, e)
    BY DEF Atomic!Insert, Insert, Atomic!Cardinality, Cardinality
  <2>. QED
    BY <2>1, <2>2, <2>3 DEF commit, Atomic!updateBalanceWithLedger
<1>8. Atomic!Perform(c)
  BY <1>4, <1>5, <1>6, <1>7
     DEF Atomic!Perform, Overtaken, walletOf, txnOf, amountOf, typeOf
<1>9. Atomic!Ends(c, how)
  BY <1>1, <1>2, StatementEnds DEF Ended
<1>. QED
  BY <1>8, <1>9 DEF Atomic!Return, Atomic!Fail

\* A failed statement ends the call and leaves the tables as they are.
LEMMA FailIsAtomic ==
    ASSUME LedgerInv, NEW c \in Calls, fail(c)
    PROVE  Atomic!Fail(c)
<1>1. pc[c] \notin Ended /\ pc' = [pc EXCEPT ![c] = "failed"]
      /\ UNCHANGED repositoryVars
  BY DEF fail, rollback, Ended
<1>2. Atomic!Ends(c, "failed") /\ Overtaken' = Overtaken \ {c}
  BY <1>1, StatementEnds, OvertakenWithout DEF Ended
<1>. QED
  BY <1>1, <1>2 DEF Atomic!Fail, Overtaken, Atomic!repositoryVars, repositoryVars

\* Every step of the statements is one of the atomic calls, or a stutter.
LEMMA StatementIsAtomic ==
    LedgerInv /\ [Next]_ledgerVars => [Atomic!Next]_(Atomic!callVars)
<1>. SUFFICES ASSUME LedgerInv, [Next]_ledgerVars
              PROVE  Atomic!Next \/ UNCHANGED Atomic!callVars
  OBVIOUS
<1>1. CASE UNCHANGED ledgerVars
  BY <1>1 DEF ledgerVars, repositoryVars, callVars, Atomic!callVars, isDuplicate
<1>2. ASSUME NEW c \in Calls,
             check(c) \/ update(c) \/ insert(c) \/ commit(c) \/ fail(c)
      PROVE  \/ Atomic!Return(c) \/ Atomic!Throw(c) \/ Atomic!Fail(c)
             \/ UNCHANGED Atomic!callVars
  BY <1>2, CheckIsAtomic, UpdateIsAtomic, InsertIsAtomic, CommitIsAtomic,
     FailIsAtomic
<1>. QED
  BY <1>1, <1>2 DEF Next, Atomic!Next

\* Concurrent calls implement the atomic calls of WalletRepository, which is
\* what the other modules take the repository to be: row lock and unique index
\* together make READ COMMITTED enough for the tables, and a call that throws
\* for no fault of the database either cannot be made or has been overtaken.
THEOREM CallsAreSerializable == Spec => CallsAreAtomic
<1>1. Init => Atomic!Init
  BY DEF Init, Repository_Init, Atomic!Init, Atomic!Repository_Init, Ended
<1>. QED
  BY <1>1, LedgerInvariance, StatementIsAtomic, PTL
     DEF Spec, CallsAreAtomic, Atomic!Spec
=============================================================================
