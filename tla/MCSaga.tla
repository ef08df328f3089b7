------------------------------- MODULE MCSaga -------------------------------
(* Instances of the saga for TLC.                                          *)
EXTENDS Saga, TLC

CONSTANTS w1, w2, nobody

MCWallets   == {w1, w2}
MCWalletIds == {w1, w2, nobody}

Request(s, r, a) == [senderWalletId |-> s, receiverWalletId |-> r, amount |-> a]

\* A transfer that can be paid, one of a wallet to itself, one to a wallet that
\* does not exist, and one that is not covered.
MCRequests == {Request(w1, w2, 2), Request(w1, w1, 1), Request(w1, nobody, 1),
               Request(w2, w1, 1)}

MCSeed == w1 :> 2 @@ w2 :> 0

\* Two transfers: w1 can pay one of them, or both with what w2 pays back.
MCTwoRequests == {Request(w1, w2, 2), Request(w2, w1, 1), Request(w1, nobody, 1)}

\* One fault of each kind of K.
Faults(K) == [k \in FaultKinds |-> IF k \in K THEN 1 ELSE 0]

NoFaults == Faults({})

\* Republication does to the consumers what redelivery does.
HardFaults  == Faults(FaultKinds \ {"republish"})
Repetitions == Faults({"redelivery", "republish"})
Overlaps    == Faults({"overlap"})
=============================================================================
