-------------------------- MODULE MCWalletCreation --------------------------
(* Instances of wallet creation for TLC.                                   *)
EXTENDS WalletCreation, TLC

CONSTANTS u1, u2, p1, p2, p3, p4, p5

\* Three requests of one user and two of another.
MCPosts  == {p1, p2, p3, p4, p5}
MCUserOf == p1 :> u1 @@ p2 :> u1 @@ p3 :> u1 @@ p4 :> u2 @@ p5 :> u2
=============================================================================
