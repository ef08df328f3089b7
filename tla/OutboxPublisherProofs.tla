------------------------ MODULE OutboxPublisherProofs ------------------------
(***************************************************************************)
(* Proofs about the outbox publisher, for any number of overlapping polls, *)
(* rows, failed sends and aborts.                                          *)
(***************************************************************************)
EXTENDS OutboxPublisher, FiniteSetTheorems, TLAPS

Selected(r) == {p \in Polls : pc[p] = "selected" /\ r \in entries[p]}
Holding(r)  == {p \in Polls : r \in entries[p]}

\* What a poll has emitted has a copy.
EmittedWasSent ==
    \A p \in Polls : pc[p] = "emitted" => \A r \in entries[p] : Copies(r) > 0

\* How many more copies of r are still accounted for: until it is published
\* each has a poll that holds it, or had one that aborted.
Allowance(r) == IF r \in published THEN Cardinality(Polls)
                                   ELSE Cardinality(Holding(r))

CopiesBounded ==
    \A r \in Rows : Copies(r) + Cardinality(Selected(r)) <= aborts + Allowance(r)

\* The inductive invariant.
PublisherInv == TypeOK /\ MarkedWasSent /\ EmittedWasSent /\ CopiesBounded

-----------------------------------------------------------------------------
(* Counting.                                                               *)

\* A finite set has at most n members with fewer than n members below them.
LEMMA OldestBounded ==
    ASSUME NEW S, S \subseteq Nat, IsFiniteSet(S), NEW n \in Nat
    PROVE  /\ IsFiniteSet(Oldest(S, n))
           /\ Cardinality(Oldest(S, n)) <= n
<1>. DEFINE below(r) == {q \in S : q < r}
            rank == [r \in Oldest(S, n) |-> Cardinality(below(r))]
<1>1. \A r \in S : IsFiniteSet(below(r)) /\ Cardinality(below(r)) \in Nat
  BY FS_Subset, FS_CardinalityType
<1>2. rank \in [Oldest(S, n) -> 0 .. n - 1]
  <2>1. ASSUME NEW r \in Oldest(S, n)  PROVE Cardinality(below(r)) \in 0 .. n - 1
    <3>1. r \in S /\ Cardinality(below(r)) < n
      BY DEF Oldest
    <3>. QED
      BY <1>1, <3>1
  <2>. QED
    BY <2>1
<1>3. ASSUME NEW r \in S, NEW s \in S, r < s
      PROVE  Cardinality(below(r)) < Cardinality(below(s))
  <2>1. below(r) \subseteq below(s) /\ r \in below(s) /\ r \notin below(r)
    <3>1. \A q \in S : q \in Nat
      OBVIOUS
    <3>2. \A q \in S : q < r => q < s
      BY <1>3, <3>1
    <3>3. ~(r < r)
      BY <3>1
    <3>. QED
      BY <1>3, <3>2, <3>3, Zenon
  <2>2. Cardinality(below(r)) <= Cardinality(below(s) \ {r})
    BY <1>1, <2>1, FS_Subset
  <2>3. Cardinality(below(s) \ {r}) = Cardinality(below(s)) - 1
    BY <1>1, <2>1, FS_RemoveElement
  <2>. QED
    BY <1>1, <2>2, <2>3
<1>4. \A r, s \in Oldest(S, n) : r # s => rank[r] # rank[s]
  <2>1. ASSUME NEW r \in Oldest(S, n), NEW s \in Oldest(S, n), r # s
        PROVE  rank[r] # rank[s]
    <3>1. r \in S /\ s \in S /\ (r < s \/ s < r)
      BY <2>1 DEF Oldest
    <3>. QED
      BY <1>1, <1>3, <3>1
  <2>. QED
    BY <2>1
<1>5. IsFiniteSet(0 .. n - 1) /\ Cardinality(0 .. n - 1) = n
  BY FS_Interval
<1>6. rank \in Injection(Oldest(S, n), 0 .. n - 1)
  BY <1>2, <1>4 DEF Injection, IsInjective
<1>. QED
  BY <1>5, <1>6, FS_Injection

\* The polls that have selected or hold a row can be counted.
LEMMA PollsFinite ==
    ASSUME NEW r
    PROVE  /\ IsFiniteSet(Polls) /\ Cardinality(Polls) \in Nat
           /\ IsFiniteSet(Selected(r)) /\ Cardinality(Selected(r)) \in Nat
           /\ IsFiniteSet(Holding(r)) /\ Cardinality(Holding(r)) \in Nat
           /\ Cardinality(Holding(r)) <= Cardinality(Polls)
<1>1. Selected(r) \subseteq Polls /\ Holding(r) \subseteq Polls
  BY DEF Selected, Holding
<1>. QED
  BY <1>1, PublisherAssumption, FS_Subset, FS_CardinalityType

\* Copies are counted by naturals.
LEMMA CopiesType ==
    ASSUME TypeOK, NEW r \in Rows
    PROVE  Copies(r) \in Nat /\ aborts \in Nat /\ Allowance(r) \in Nat
  BY PollsFinite, PublisherAssumption DEF TypeOK, Copies, Allowance

-----------------------------------------------------------------------------
(* Each step keeps the invariant.                                          *)

\* A new row is held by nobody.
LEMMA WriteRowKeepsInv ==
    ASSUME PublisherInv, NEW r \in Rows, writeRow(r)
    PROVE  PublisherInv'
  BY DEF PublisherInv, TypeOK, MarkedWasSent, EmittedWasSent, CopiesBounded,
     writeRow, Copies, Allowance, Selected, Holding

\* A poll that selects a row is one more that holds it.
LEMMA SelectKeepsInv ==
    ASSUME PublisherInv, NEW p \in Polls, select(p)
    PROVE  PublisherInv'
<1>1. /\ selectEntries \subseteq written \ published
      /\ Cardinality(selectEntries) <= OUTBOX_BATCH_SIZE
  <2>1. written \ published \subseteq Nat /\ IsFiniteSet(written \ published)
    BY PublisherAssumption, FS_Subset DEF PublisherInv, TypeOK
  <2>. QED
    BY <2>1, PublisherAssumption, OldestBounded DEF selectEntries, Oldest
<1>2. /\ pc[p] = "idle" /\ entries[p] = {} /\ selectEntries # {}
      /\ entries' = [entries EXCEPT ![p] = selectEntries]
      /\ pc' = [pc EXCEPT ![p] = "selected"]
      /\ UNCHANGED <<written, published, sending, delivered, failed, aborts>>
  BY DEF PublisherInv, TypeOK, select
<1>3. TypeOK'
  BY <1>1, <1>2 DEF PublisherInv, TypeOK
<1>4. MarkedWasSent' /\ EmittedWasSent'
  BY <1>2 DEF PublisherInv, TypeOK, MarkedWasSent, EmittedWasSent, Copies
<1>5. ASSUME NEW r \in Rows
      PROVE  Copies(r)' + Cardinality(Selected(r)') <= aborts' + Allowance(r)'
  <2>1. Copies(r)' = Copies(r) /\ aborts' = aborts
    BY <1>2 DEF Copies
  <2>2. CASE r \notin selectEntries
    <3>1. Selected(r)' = Selected(r) /\ Holding(r)' = Holding(r)
      BY <1>2, <2>2 DEF Selected, Holding, PublisherInv, TypeOK
    <3>. QED
      BY <1>2, <2>1, <3>1 DEF PublisherInv, CopiesBounded, Allowance
  <2>3. CASE r \in selectEntries
    <3>1. /\ Selected(r)' = Selected(r) \cup {p} /\ p \notin Selected(r)
          /\ Holding(r)' = Holding(r) \cup {p} /\ p \notin Holding(r)
      BY <1>2, <2>3 DEF Selected, Holding, PublisherInv, TypeOK
    <3>2. /\ Cardinality(Selected(r)') = Cardinality(Selected(r)) + 1
          /\ Cardinality(Holding(r)') = Cardinality(Holding(r)) + 1
      BY <3>1, PollsFinite, FS_AddElement
    <3>3. Allowance(r) = Cardinality(Holding(r)) /\ Allowance(r)' = Allowance(r) + 1
      BY <1>1, <1>2, <2>3, <3>2 DEF Allowance
    <3>4. Copies(r) + Cardinality(Selected(r)) <= aborts + Allowance(r)
      BY DEF PublisherInv, CopiesBounded
    <3>. QED
      BY <2>1, <3>2, <3>3, <3>4, PollsFinite, CopiesType DEF PublisherInv
  <2>. QED
    BY <2>2, <2>3
<1>. QED
  BY <1>3, <1>4, <1>5 DEF PublisherInv, CopiesBounded

\* An emit turns a selected row into a copy.
LEMMA PublishEntriesKeepsInv ==
    ASSUME PublisherInv, NEW p \in Polls, publishEntries(p)
    PROVE  PublisherInv'
<1>1. /\ pc[p] = "selected" /\ pc' = [pc EXCEPT ![p] = "emitted"]
      /\ sending' = [r \in Rows |-> sending[r] + IF r \in entries[p] THEN 1 ELSE 0]
      /\ UNCHANGED <<written, published, entries, delivered, failed, aborts>>
  BY DEF publishEntries
<1>2. TypeOK'
  BY <1>1 DEF PublisherInv, TypeOK
<1>3. \A r \in Rows : Copies(r)' = Copies(r) + IF r \in entries[p] THEN 1 ELSE 0
  BY <1>1 DEF PublisherInv, TypeOK, Copies
<1>4. MarkedWasSent'
  BY <1>1, <1>3, CopiesType DEF PublisherInv, TypeOK, MarkedWasSent
<1>5. EmittedWasSent'
  <2>1. \A q \in Polls : entries[q] \subseteq Rows
    BY DEF PublisherInv, TypeOK
  <2>2. ASSUME NEW q \in Polls, pc'[q] = "emitted", NEW r \in entries'[q]
        PROVE  Copies(r)' > 0
    <3>1. r \in Rows /\ Copies(r) \in Nat
      BY <1>1, <2>1, <2>2, CopiesType DEF PublisherInv
    <3>2. CASE q = p
      BY <1>1, <1>3, <2>2, <3>1, <3>2
    <3>3. CASE q # p
      BY <1>1, <1>3, <2>2, <3>1, <3>3 DEF PublisherInv, TypeOK, EmittedWasSent
    <3>. QED
      BY <3>2, <3>3
  <2>. QED
    BY <2>2 DEF EmittedWasSent
<1>6. ASSUME NEW r \in Rows
      PROVE  Copies(r)' + Cardinality(Selected(r)') <= aborts' + Allowance(r)'
  <2>1. Holding(r)' = Holding(r) /\ Allowance(r)' = Allowance(r) /\ aborts' = aborts
    BY <1>1 DEF Holding, Allowance
  <2>2. Copies(r) + Cardinality(Selected(r)) <= aborts + Allowance(r)
    BY DEF PublisherInv, CopiesBounded
  <2>3. CASE r \in entries[p]
    <3>1. Selected(r)' = Selected(r) \ {p} /\ p \in Selected(r)
      BY <1>1, <2>3 DEF Selected, PublisherInv, TypeOK
    <3>2. Cardinality(Selected(r)') = Cardinality(Selected(r)) - 1
      BY <3>1, PollsFinite, FS_RemoveElement
    <3>. QED
      BY <1>3, <2>1, <2>2, <2>3, <3>2, PollsFinite, CopiesType DEF PublisherInv
  <2>4. CASE r \notin entries[p]
    <3>1. Selected(r)' = Selected(r)
      BY <1>1, <2>4 DEF Selected, PublisherInv, TypeOK
    <3>. QED
      BY <1>3, <2>1, <2>2, <2>4, <3>1, CopiesType DEF PublisherInv
  <2>. QED
    BY <2>3, <2>4
<1>. QED
  BY <1>2, <1>4, <1>5, <1>6 DEF PublisherInv, CopiesBounded

\* A commit marks what the poll has emitted, and sends nothing.
LEMMA CommitKeepsInv ==
    ASSUME PublisherInv, NEW p \in Polls, commit(p)
    PROVE  PublisherInv'
<1>1. /\ pc[p] = "emitted" /\ pc' = [pc EXCEPT ![p] = "idle"]
      /\ entries' = [entries EXCEPT ![p] = {}]
      /\ published' = published \cup entries[p]
      /\ UNCHANGED <<written, sending, delivered, failed, aborts>>
  BY DEF commit, finish, markedRows
<1>2. TypeOK'
  <2>1. published' \subseteq written'
    BY <1>1 DEF PublisherInv, TypeOK
  <2>2. ASSUME NEW q \in Polls
        PROVE  /\ entries'[q] \subseteq written'
               /\ Cardinality(entries'[q]) <= OUTBOX_BATCH_SIZE
               /\ entries'[q] = {} <=> pc'[q] = "idle"
    BY <1>1, PublisherAssumption, FS_EmptySet DEF PublisherInv, TypeOK
  <2>. QED
    BY <1>1, <2>1, <2>2 DEF PublisherInv, TypeOK
<1>3. \A r : Copies(r)' = Copies(r)
  BY <1>1 DEF Copies
<1>4. MarkedWasSent' /\ EmittedWasSent'
  BY <1>1, <1>3 DEF PublisherInv, TypeOK, MarkedWasSent, EmittedWasSent
<1>5. ASSUME NEW r \in Rows
      PROVE  Copies(r)' + Cardinality(Selected(r)') <= aborts' + Allowance(r)'
  <2>1. Selected(r)' = Selected(r)
    BY <1>1 DEF Selected, PublisherInv, TypeOK
  <2>2. Copies(r) + Cardinality(Selected(r)) <= aborts + Allowance(r)
    BY DEF PublisherInv, CopiesBounded
  <2>3. CASE r \in published'
    <3>1. Allowance(r)' = Cardinality(Polls) /\ Allowance(r) <= Cardinality(Polls)
      BY <2>3, PollsFinite DEF Allowance
    <3>. QED
      BY <1>1, <1>3, <2>1, <2>2, <3>1, PollsFinite, CopiesType DEF PublisherInv
  <2>4. CASE r \notin published'
    <3>1. Holding(r)' = Holding(r) /\ Allowance(r)' = Allowance(r)
      BY <1>1, <2>4 DEF Holding, Allowance, PublisherInv, TypeOK
    <3>. QED
      BY <1>1, <1>3, <2>1, <2>2, <3>1
  <2>. QED
    BY <2>3, <2>4
<1>. QED
  BY <1>2, <1>4, <1>5 DEF PublisherInv, CopiesBounded

\* An abort takes at most one holder from a row, and counts for one.
LEMMA AbortKeepsInv ==
    ASSUME PublisherInv, NEW p \in Polls, abort(p)
    PROVE  PublisherInv'
<1>1. /\ aborts' = aborts + 1 /\ aborts < MaxAborts
      /\ pc' = [pc EXCEPT ![p] = "idle"]
      /\ entries' = [entries EXCEPT ![p] = {}]
      /\ UNCHANGED <<written, published, sending, delivered, failed>>
  BY DEF abort, finish
<1>2. TypeOK'
  BY <1>1, PublisherAssumption, FS_EmptySet DEF PublisherInv, TypeOK
<1>3. \A r : Copies(r)' = Copies(r)
  BY <1>1 DEF Copies
<1>4. MarkedWasSent' /\ EmittedWasSent'
  BY <1>1, <1>3 DEF PublisherInv, TypeOK, MarkedWasSent, EmittedWasSent
<1>5. ASSUME NEW r \in Rows
      PROVE  Copies(r)' + Cardinality(Selected(r)') <= aborts' + Allowance(r)'
  <2>1. /\ Selected(r)' = Selected(r) \ {p}
        /\ Holding(r)' = Holding(r) \ {p}
    BY <1>1 DEF Selected, Holding, PublisherInv, TypeOK
  <2>2. /\ Cardinality(Selected(r)') \in Nat
        /\ Cardinality(Selected(r)') <= Cardinality(Selected(r))
        /\ Cardinality(Holding(r)') >= Cardinality(Holding(r)) - 1
        /\ Cardinality(Holding(r)') \in Nat
    <3>1. ASSUME NEW S, IsFiniteSet(S)
          PROVE  /\ Cardinality(S \ {p}) \in Nat
                 /\ Cardinality(S \ {p}) <= Cardinality(S)
                 /\ Cardinality(S \ {p}) >= Cardinality(S) - 1
      <4>1. Cardinality(S) \in Nat /\ Cardinality(S \ {p}) \in Nat
        BY <3>1, FS_RemoveElement, FS_CardinalityType
      <4>2. Cardinality(S \ {p}) = IF p \in S THEN Cardinality(S) - 1 ELSE Cardinality(S)
        BY <3>1, FS_RemoveElement
      <4>. QED
        BY <4>1, <4>2
    <3>. QED
      BY <2>1, <3>1, PollsFinite
  <2>3. Allowance(r)' \in Nat /\ Allowance(r)' >= Allowance(r) - 1
    BY <1>1, <2>2, PollsFinite DEF Allowance
  <2>4. Copies(r) + Cardinality(Selected(r)) <= aborts + Allowance(r)
    BY DEF PublisherInv, CopiesBounded
  <2>. QED
    BY <1>1, <1>3, <2>2, <2>3, <2>4, PollsFinite, CopiesType DEF PublisherInv
<1>. QED
  BY <1>2, <1>4, <1>5 DEF PublisherInv, CopiesBounded

\* The end of a send changes what became of a copy, not how many there are.
LEMMA SendEndKeepsInv ==
    ASSUME PublisherInv, NEW r \in Rows, sendSucceeds(r) \/ sendFails(r)
    PROVE  PublisherInv'
<1>1. /\ sending[r] > 0 /\ sending' = [sending EXCEPT ![r] = @ - 1]
      /\ UNCHANGED <<written, published, pc, entries, aborts>>
      /\ \/ delivered' = [delivered EXCEPT ![r] = @ + 1] /\ failed' = failed
         \/ failed' = [failed EXCEPT ![r] = @ + 1] /\ delivered' = delivered
  BY DEF sendSucceeds, sendFails
<1>2. TypeOK'
  BY <1>1 DEF PublisherInv, TypeOK
<1>3. \A q \in Rows : Copies(q)' = Copies(q)
  BY <1>1 DEF PublisherInv, TypeOK, Copies
<1>4. MarkedWasSent'
  BY <1>1, <1>3 DEF PublisherInv, TypeOK, MarkedWasSent
<1>5. EmittedWasSent'
  BY <1>1, <1>3 DEF PublisherInv, TypeOK, EmittedWasSent
<1>6. CopiesBounded'
  BY <1>1, <1>3 DEF PublisherInv, CopiesBounded, Allowance, Selected, Holding
<1>. QED
  BY <1>2, <1>4, <1>5, <1>6 DEF PublisherInv

-----------------------------------------------------------------------------
(* The theorems.                                                           *)

\* At the start there are no rows, no polls and no copies.
LEMMA PublisherInvInit == Init => PublisherInv
<1>. SUFFICES ASSUME Init PROVE PublisherInv
  OBVIOUS
<1>1. TypeOK
  BY PublisherAssumption, FS_EmptySet DEF Init, TypeOK
<1>2. MarkedWasSent /\ EmittedWasSent
  BY DEF Init, MarkedWasSent, EmittedWasSent
<1>3. CopiesBounded
  <2>1. \A r \in Rows : Copies(r) = 0 /\ Selected(r) = {} /\ Allowance(r) \in Nat
    BY <1>1, CopiesType DEF Init, Copies, Selected
  <2>. QED
    BY <2>1, FS_EmptySet DEF Init, CopiesBounded
<1>. QED
  BY <1>1, <1>2, <1>3 DEF PublisherInv

\* Every step of the publisher and its client keeps the invariant.
LEMMA PublisherInvStep == PublisherInv /\ [Next]_publisherVars => PublisherInv'
<1>. SUFFICES ASSUME PublisherInv, [Next]_publisherVars PROVE PublisherInv'
  OBVIOUS
<1>1. CASE UNCHANGED publisherVars
  BY <1>1 DEF publisherVars, PublisherInv, TypeOK, MarkedWasSent, EmittedWasSent,
     CopiesBounded, Copies, Allowance, Selected, Holding
<1>2. CASE Next
  BY <1>2, WriteRowKeepsInv, SelectKeepsInv, PublishEntriesKeepsInv,
     CommitKeepsInv, AbortKeepsInv, SendEndKeepsInv DEF Next
<1>. QED
  BY <1>1, <1>2

\* The inductive invariant holds in every reachable state.
LEMMA PublisherInvariance == Spec => []PublisherInv
  BY PublisherInvInit, PublisherInvStep, PTL DEF Spec

\* A poll never has more rows than a batch, nor rows that are not committed.
THEOREM PublisherTypeCorrect == Spec => []TypeOK
  BY PublisherInvariance, PTL DEF PublisherInv

\* No row is marked published that was not handed to the Kafka client.
THEOREM MarkedIsAlwaysSent == Spec => []MarkedWasSent
  BY PublisherInvariance, PTL DEF PublisherInv

\* Without locks a row has at most one copy per overlapping poll and one per
\* aborted poll.
THEOREM CopiesAreExplained == Spec => []CopiesExplained
<1>1. PublisherInv => CopiesExplained
  <2>1. ASSUME PublisherInv, NEW r \in Rows
        PROVE  Copies(r) + Cardinality(Selected(r)) <= aborts + Cardinality(Polls)
    <3>1. Copies(r) + Cardinality(Selected(r)) <= aborts + Allowance(r)
      BY <2>1 DEF PublisherInv, CopiesBounded
    <3>2. Allowance(r) <= Cardinality(Polls)
      BY PollsFinite DEF Allowance
    <3>. QED
      BY <2>1, <3>1, <3>2, PollsFinite, CopiesType DEF PublisherInv
  <2>. QED
    BY <2>1 DEF CopiesExplained, Selected
<1>. QED
  BY <1>1, PublisherInvariance, PTL
=============================================================================
