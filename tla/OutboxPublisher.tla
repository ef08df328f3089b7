--------------------------- MODULE OutboxPublisher ---------------------------
(***************************************************************************)
(* OutboxPublisherService in detail.  Both services run the same code over *)
(* their own outbox; this is one of the two.                               *)
(*                                                                         *)
(* processOutbox is started every 50 ms and never waits for the call       *)
(* before it, and there may be several instances: the calls in progress    *)
(* are the Polls.  One poll is a transaction: it selects the oldest        *)
(* unpublished rows, hands all of them to the Kafka client without         *)
(* awaiting the sends, marks them, commits.  The query asks to skip locked *)
(* rows but takes no lock (no setLock), so a poll neither locks rows nor   *)
(* sees those of others.                                                   *)
(***************************************************************************)
EXTENDS Naturals, FiniteSets, Functions

CONSTANTS
    Polls,           \* calls of processOutbox that may be in progress at once
    Rows,            \* outbox rows, as numbers in created_at order
    OUTBOX_BATCH_SIZE,
    MaxFailedSends,  \* bound: sends that exhaust the client's retries
    MaxAborts        \* bound: polls that end without a commit

ASSUME PublisherAssumption ==
    /\ Rows \subseteq Nat /\ IsFiniteSet(Rows) /\ IsFiniteSet(Polls)
    /\ OUTBOX_BATCH_SIZE \in Nat \ {0}
    /\ MaxFailedSends \in Nat /\ MaxAborts \in Nat

VARIABLES
    written,    \* rows committed by the service
    published,  \* rows with published_at set
    pc,         \* where each poll is
    entries,    \* the rows each poll has selected
    sending,    \* sends in progress in the Kafka client, by row
    delivered,  \* copies that reached the topic, by row
    failed,     \* sends given up on, by row
    aborts      \* polls that ended without a commit

publisherVars ==
    <<written, published, pc, entries, sending, delivered, failed, aborts>>

Init ==
    /\ written = {} /\ published = {}
    /\ pc = [p \in Polls |-> "idle"]
    /\ entries = [p \in Polls |-> {}]
    /\ sending = [r \in Rows |-> 0]
    /\ delivered = [r \in Rows |-> 0]
    /\ failed = [r \in Rows |-> 0]
    /\ aborts = 0

\* The service commits a row.  created_at was taken before the commit, so
\* rows may appear out of order.
writeRow(r) ==
    /\ r \in Rows \ written
    /\ written' = written \cup {r}
    /\ UNCHANGED <<published, pc, entries, sending, delivered, failed, aborts>>

Oldest(S, n) == {r \in S : Cardinality({q \in S : q < r}) < n}

\* A slip: the limit is off by one.
selectEntries_oneMore == Oldest(written \ published, OUTBOX_BATCH_SIZE + 1)

\* A slip: published rows are selected again.
selectEntries_all == Oldest(written, OUTBOX_BATCH_SIZE)

selectEntries == Oldest(written \ published, OUTBOX_BATCH_SIZE)

\* The SELECT of a poll; with nothing to do the call returns.
select(p) ==
    /\ pc[p] = "idle"
    /\ selectEntries # {}
    /\ entries' = [entries EXCEPT ![p] = selectEntries]
    /\ pc' = [pc EXCEPT ![p] = "selected"]
    /\ UNCHANGED <<written, published, sending, delivered, failed, aborts>>

\* The loop over the entries: no await in it, and every emit returns at once.
publishEntries(p) ==
    /\ pc[p] = "selected"
    /\ sending' = [r \in Rows |-> sending[r] + IF r \in entries[p] THEN 1 ELSE 0]
    /\ pc' = [pc EXCEPT ![p] = "emitted"]
    /\ UNCHANGED <<written, published, entries, delivered, failed, aborts>>

finish(p) == /\ pc' = [pc EXCEPT ![p] = "idle"]
             /\ entries' = [entries EXCEPT ![p] = {}]

\* A slip: rows committed since the SELECT are marked as well.
markedRows_since(p) == written

\* UPDATE ... WHERE id IN (publishedIds).
markedRows(p) == entries[p]

\* The UPDATE and the commit.
commit(p) ==
    /\ pc[p] = "emitted"
    /\ published' = published \cup markedRows(p)
    /\ finish(p)
    /\ UNCHANGED <<written, sending, delivered, failed, aborts>>

\* The transaction is rolled back or the process stops: what was handed to
\* the client may still be sent.
abort(p) ==
    /\ pc[p] # "idle"
    /\ aborts < MaxAborts
    /\ aborts' = aborts + 1
    /\ finish(p)
    /\ UNCHANGED <<written, published, sending, delivered, failed>>

\* The Kafka client (external): a send ends on the topic, or is given up on
\* after its retries; nobody looks at which.
sendSucceeds(r) ==
    /\ sending[r] > 0
    /\ sending' = [sending EXCEPT ![r] = @ - 1]
    /\ delivered' = [delivered EXCEPT ![r] = @ + 1]
    /\ UNCHANGED <<written, published, pc, entries, failed, aborts>>

sendFails(r) ==
    /\ sending[r] > 0
    /\ SumFunctionOnSet(failed, Rows) < MaxFailedSends
    /\ sending' = [sending EXCEPT ![r] = @ - 1]
    /\ failed' = [failed EXCEPT ![r] = @ + 1]
    /\ UNCHANGED <<written, published, pc, entries, delivered, aborts>>

Next ==
    \/ \E p \in Polls : select(p) \/ publishEntries(p) \/ commit(p) \/ abort(p)
    \/ \E r \in Rows : writeRow(r) \/ sendSucceeds(r) \/ sendFails(r)

\* The interval goes on starting polls, a poll goes on to its commit unless
\* it aborts, and the client ends every send.
Fairness ==
    /\ \A p \in Polls : WF_publisherVars(select(p) \/ publishEntries(p) \/ commit(p))
    /\ \A r \in Rows : WF_publisherVars(sendSucceeds(r) \/ sendFails(r))

Spec == Init /\ [][Next]_publisherVars /\ Fairness

-----------------------------------------------------------------------------
(* Properties.                                                             *)

TypeOK ==
    /\ published \subseteq written /\ written \subseteq Rows
    /\ pc \in [Polls -> {"idle", "selected", "emitted"}]
    /\ entries \in [Polls -> SUBSET Rows]
    /\ \A p \in Polls : /\ entries[p] \subseteq written
                        /\ Cardinality(entries[p]) <= OUTBOX_BATCH_SIZE
                        /\ entries[p] = {} <=> pc[p] = "idle"
    /\ {sending, delivered, failed} \subseteq [Rows -> Nat]
    /\ aborts \in 0 .. MaxAborts

Copies(r) == sending[r] + delivered[r] + failed[r]

\* published_at is only set on a row that was handed to the Kafka client:
\* with no send given up on, it is or will be on the topic.
MarkedWasSent == \A r \in published : Copies(r) > 0

\* A row is sent more than once only by polls that overlap or abort: every
\* copy beyond the first has a poll of its own, and once no poll in progress
\* holds a published row it is never sent again.
CopiesExplained ==
    \A r \in Rows :
      Copies(r) + Cardinality({p \in Polls : pc[p] = "selected" /\ r \in entries[p]})
        <= aborts + Cardinality(Polls)

\* No row is left behind, whatever overlaps, aborts and fills the batches: it
\* is marked in the end, and is on the topic unless a send of it failed.
EveryRowPublished ==
    \A r \in Rows :
      r \in written ~> r \in published /\ (delivered[r] > 0 \/ failed[r] > 0)

-----------------------------------------------------------------------------
(* What comments say of the code, and the code does not do.                *)

\* "Select and lock unpublished entries, skipping any already locked by other
\* instances": two polls never hold the same row.
RowsLocked ==
    \A p, q \in Polls : p # q => entries[p] \cap entries[q] = {}

\* "Failed publishes are retried on the next polling cycle": a row whose sends
\* have all failed is still to be published.
FailedPublishRetried ==
    \A r \in Rows :
      (failed[r] > 0 /\ sending[r] = 0 /\ delivered[r] = 0)
        => r \notin published
=============================================================================
