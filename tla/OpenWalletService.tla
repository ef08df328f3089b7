------------------------- MODULE OpenWalletService -------------------------
(***************************************************************************)
(* The wallet service alone, in an environment that delivers events at     *)
(* will: in any order and any number of times, with any failure.  Saga     *)
(* has the environment the program really gives it.                        *)
(***************************************************************************)
EXTENDS WalletService

CONSTANTS
    Inputs,      \* the transfers and refunds the transaction service may ask for
    MaxFailures  \* bound on the failures answered with a row or a letter

ASSUME InputsAssumption ==
    /\ Inputs \subseteq {e \in Event : e.topic \in {"transfer.initiated",
                                                   "wallet.credit-failed"}}
    /\ MaxFailures \in Nat

\* The transaction service asks for a refund only of a DEBITED transfer; the
\* rest is what the service itself has written.
Arriving ==
    {e \in Inputs : e.topic = "transfer.initiated" \/ Debited(e.transferId)}
      \cup {e \in {r.event : r \in walletOutbox} :
              e.topic \in {"wallet.debited", "wallet.credit-failed"}}

\* Every failed delivery leaves a row or a letter in the end; MaxFailures of
\* them are enough for a failure to repeat.
FailuresBounded ==
    Cardinality(FailureRows) + Cardinality(deadLetters) + Cardinality(failing)
      <= MaxFailures

W_Next ==
    \/ \E e \in Arriving :
         \/ W_handle(e)
         \/ \E dbError \in BOOLEAN : W_catch(e, dbError) /\ FailuresBounded'
         \/ W_overtake(e) /\ FailuresBounded'
    \/ \E e \in failing, others \in BOOLEAN :
         (W_answer(e, others) \/ W_abandon(e, others)) /\ FailuresBounded'
    \/ \E d \in deadLetters : replay(d) /\ ReplaysBounded'
    \/ \E p \in replays, others \in BOOLEAN :
         \/ \E dbError \in BOOLEAN :
              \/ replayRefund(p, dbError, others) /\ ReplaysBounded'
              \/ markReplayed(p, dbError, others)
         \/ abandonReplay(p, others)
    \/ W_restart
    \/ \E r \in walletOutbox :
         W_markPublished(r) /\ UNCHANGED <<failing, deadLetters, replays>>

W_Spec == W_Init /\ [][W_Next]_walletVars
=============================================================================
