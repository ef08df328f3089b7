--------------------------- MODULE MCWalletLedger ---------------------------
(* Instances of the concurrent wallet repository for TLC.                  *)
EXTENDS WalletLedger, TLC

CONSTANTS t1, t2, w1, w2, c1, c2, c3, c4, c5

MCTransfers == {t1, t2}
MCWallets   == {w1, w2}
MCSeed      == w1 :> 3 @@ w2 :> 0

Debit(t, a) == [walletId |-> w1, transactionId |-> transferTransactionId(t),
                amount |-> a, type |-> "DEBIT",
                event |-> WalletDebited(t, w1, a, w2)]

Refund(t, a) == [walletId |-> w1, transactionId |-> generateRefundTransactionId(t),
                 amount |-> a, type |-> "REFUND",
                 event |-> WalletRefunded(t, w1, a)]

Credit(t, w, a) == [walletId |-> w, transactionId |-> transferTransactionId(t),
                    amount |-> a, type |-> "CREDIT",
                    event |-> WalletCredited(t, w, a)]

\* A debit of w1 delivered twice, another that w1 can then only pay after the
\* refund, that refund, which overflows unless a debit has come first, and the
\* credit of w2.
MCArguments == c1 :> Debit(t1, 2) @@ c2 :> Debit(t1, 2) @@ c3 :> Debit(t2, 2)
                 @@ c4 :> Refund(t1, 2) @@ c5 :> Credit(t1, w2, 2)
MCCalls     == {c1, c2, c3, c4, c5}
MCRequests  == {}
=============================================================================
