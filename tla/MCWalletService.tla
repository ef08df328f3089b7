-------------------------- MODULE MCWalletService --------------------------
(* Instances of the wallet service for TLC.                                *)
EXTENDS OpenWalletService, TLC

CONSTANTS t1, t2, w1, w2

MCTransfers == {t1, t2}
MCWallets   == {w1, w2}
MCSeed      == w1 :> 2 @@ w2 :> 2

\* t1 moves 2 from w1 to w2 and t2 moves 3 back, which w2 can pay only with
\* the credit of t1.  A balance above 4 overflows: so does the refund of t1
\* once t2 is credited, and the credit of t2 once t1 is refunded.
MCMaxBalance == 4

Request(s, r, a) == [senderWalletId |-> s, receiverWalletId |-> r, amount |-> a]

MCRequests == {Request(w1, w2, 2), Request(w2, w1, 3)}

MCInputs ==
    {TransferInitiated(t1, Request(w1, w2, 2)),
     TransferInitiated(t2, Request(w2, w1, 3)),
     WalletCreditFailed(t1, w2, TimeoutCompensation, w1, 2),
     WalletCreditFailed(t2, w1, TimeoutCompensation, w2, 3)}
=============================================================================
