---------------------- MODULE OpenWalletServiceProofs ----------------------
(***************************************************************************)
(* The wallet service in an environment that delivers events at will, for  *)
(* every set of wallets, transfers and inputs, any balances and any number *)
(* of failures: the four safety properties that the runs check.            *)
(***************************************************************************)
EXTENDS OpenWalletService, WalletServiceProofs

\* Whatever arrives moves money.
LEMMA ArrivingMovesMoney ==
    ASSUME W_Inv, NEW e \in Arriving
    PROVE  e \in Event /\ e.topic \in MoneyTopics
<1>1. CASE e \in Inputs
  BY <1>1, InputsAssumption DEF MoneyTopics
<1>2. CASE e \notin Inputs
  <2>1. PICK r \in walletOutbox : e = r.event
    BY <1>2 DEF Arriving
  <2>2. e \in Event
    BY <2>1 DEF OutboxRow, W_Inv, RepositoryInv, RepositoryTypeOK
  <2>. QED
    BY <1>2, <2>2 DEF Arriving, MoneyTopics
<1>. QED
  BY <1>1, <1>2

\* Every step of the service keeps the invariant.
LEMMA W_InvStep == W_Inv /\ [W_Next]_walletVars => W_Inv'
<1>. SUFFICES ASSUME W_Inv, [W_Next]_walletVars PROVE W_Inv'
  OBVIOUS
<1>1. ASSUME NEW e \in Arriving, W_handle(e) PROVE W_Inv'
  BY <1>1, ArrivingMovesMoney, W_HandleKeepsInv
<1>2. ASSUME NEW e \in Arriving, NEW dbError \in BOOLEAN, W_catch(e, dbError)
      PROVE  W_Inv'
  BY <1>2, ArrivingMovesMoney, W_CatchKeepsInv
<1>3. ASSUME NEW e \in Arriving, W_overtake(e) PROVE W_Inv'
  BY <1>3, ArrivingMovesMoney, W_OvertakeKeepsInv
<1>4. ASSUME NEW e \in failing, NEW others \in BOOLEAN, W_answer(e, others)
      PROVE  W_Inv'
  BY <1>4, W_AnswerKeepsInv
<1>5. ASSUME NEW e \in failing, NEW others \in BOOLEAN, W_abandon(e, others)
      PROVE  W_Inv'
  BY <1>5, ForgettingKeepsInv DEF W_abandon, Leave
<1>6. ASSUME NEW p \in replays, NEW dbError \in BOOLEAN, NEW others \in BOOLEAN,
             replayRefund(p, dbError, others)
      PROVE  W_Inv'
  BY <1>6, ReplayKeepsInv
<1>7. ASSUME NEW p \in replays, NEW dbError \in BOOLEAN, NEW others \in BOOLEAN,
             markReplayed(p, dbError, others)
      PROVE  W_Inv'
  BY <1>7, RecordKeepsInv
<1>8. ASSUME NEW p \in replays, NEW others \in BOOLEAN, abandonReplay(p, others)
      PROVE  W_Inv'
  BY <1>8, ForgettingKeepsInv DEF abandonReplay, Leave
<1>9. ASSUME NEW d \in deadLetters, replay(d) PROVE W_Inv'
  BY <1>9, ReplayStartKeepsInv
<1>10. CASE W_restart
  BY <1>10, ForgettingKeepsInv DEF W_restart
<1>11. ASSUME NEW r \in walletOutbox, W_markPublished(r),
             UNCHANGED <<failing, deadLetters, replays>>
      PROVE  W_Inv'
  BY <1>11, W_MarkKeepsInv
<1>12. CASE UNCHANGED walletVars
  BY <1>12, ForgettingKeepsInv DEF walletVars, repositoryVars
<1>. QED
  BY <1>1, <1>2, <1>3, <1>4, <1>5, <1>6, <1>7, <1>8, <1>9, <1>10, <1>11, <1>12
     DEF W_Next

\* The inductive invariant holds in every reachable state.
LEMMA W_Invariance == W_Spec => []W_Inv
<1>1. W_Init => W_Inv
  BY W_InitHolds
<1>. QED
  BY <1>1, W_InvStep, PTL DEF W_Spec

\* The tables, and what handlers and replays hold, always type-check; no
\* balance ever leaves 0 .. MaxBalance.
THEOREM W_TypeCorrect == W_Spec => []W_TypeOK
<1>1. W_Inv => W_TypeOK
  BY W_InvImplies
<1>. QED
  BY <1>1, W_Invariance, PTL

\* A balance is always the seed plus the entries of its wallet, for any
\* number of entries and any order of deliveries, failures and replays.
THEOREM W_BalanceIsAccounted == W_Spec => []BalanceAccounted
<1>1. W_Inv => BalanceAccounted
  BY W_InvImplies
<1>. QED
  BY <1>1, W_Invariance, PTL

\* Every entry is the only one of its wallet and transaction id, one row
\* announces it, and no row announces what the ledger does not hold.
THEOREM W_AnnouncesEntriesOnce == W_Spec => []EntryAnnouncedOnce
<1>1. W_Inv => EntryAnnouncedOnce
  BY W_InvImplies
<1>. QED
  BY <1>1, W_Invariance, PTL

\* A PROCESSED letter is refunded, whatever ran between the refund and its
\* recording.
THEOREM W_ProcessedIsRefunded == W_Spec => []ProcessedMeansRefunded
<1>1. W_Inv => ProcessedMeansRefunded
  BY W_InvImplies
<1>. QED
  BY <1>1, W_Invariance, PTL
=============================================================================
