------------------------ MODULE MCTransactionService ------------------------
(* Instances of the transaction service for TLC.                           *)
EXTENDS TransactionService, TLC

CONSTANTS w1, w2

\* Two requests in opposite directions, of different amounts.
MCRequests ==
    {[senderWalletId |-> w1, receiverWalletId |-> w2, amount |-> 1],
     [senderWalletId |-> w2, receiverWalletId |-> w1, amount |-> 2]}

=============================================================================
