------------------------- MODULE MCOutboxPublisher -------------------------
(* Instances of the outbox publisher for TLC.                              *)
EXTENDS OutboxPublisher

\* Two rows fit in a batch, so that the third row waits for its turn.
MCRows == 1 .. 3
=============================================================================
