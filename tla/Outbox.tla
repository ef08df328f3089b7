------------------------------- MODULE Outbox -------------------------------
(***************************************************************************)
(* The outbox table, one per service: a row is written in the transaction  *)
(* that changes the state, and the publisher sets published_at later.      *)
(* Both services have the same table and the same publisher.               *)
(***************************************************************************)
EXTENDS Events

\* The uuid of a row is its event and how many rows already carried that
\* event: redelivered failures write the same event again.
OutboxRow == [event : Event, copy : Nat, published : BOOLEAN]

Insert(outbox, e) ==
    outbox \cup {[event |-> e,
                  copy |-> Cardinality({r \in outbox : r.event = e}),
                  published |-> FALSE]}

Unpublished(outbox) == {r \in outbox : ~r.published}

MarkPublished(outbox, r) ==
    (outbox \ {r}) \cup {[r EXCEPT !.published = TRUE]}
=============================================================================
