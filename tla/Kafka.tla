------------------------------- MODULE Kafka -------------------------------
(***************************************************************************)
(* The broker, as the services use it (external): every event type has a   *)
(* topic of its own, so nothing orders two events of one transfer; each    *)
(* service is one consumer group; a message is redelivered until its       *)
(* offset is committed after the handler has returned.                     *)
(***************************************************************************)
EXTENDS Events

VARIABLE inbox  \* by consumer group: messages whose offset is not committed

\* The topics the @EventPattern handlers of each service subscribe to.
TX_Subscriptions == {"wallet.debited", "wallet.debit-failed", "wallet.credited",
                     "wallet.credit-failed", "wallet.refunded"}
W_Subscriptions  == {"transfer.initiated", "wallet.debited",
                     "wallet.credit-failed"}

Subscriptions == [transactionService |-> TX_Subscriptions,
                  walletService      |-> W_Subscriptions]

Groups == {"transactionService", "walletService"}

Kafka_Init == inbox = [g \in Groups |-> {}]

Subscribers(e) == {g \in Groups : e.topic \in Subscriptions[g]}

\* e reaches its topic, and the groups of gs consume from where it is.  A copy
\* of a message still to be consumed adds nothing: consuming both is consuming
\* one and having it redelivered.
emitTo(gs, e) == inbox' = [g \in Groups |-> IF g \in gs THEN inbox[g] \cup {e}
                                                      ELSE inbox[g]]

emit(e) == emitTo(Subscribers(e), e)

commitOffset(g, e) == inbox' = [inbox EXCEPT ![g] = @ \ {e}]

Kafka_TypeOK == inbox \in [Groups -> SUBSET Event]
=============================================================================
