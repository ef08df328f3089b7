--------------------------- MODULE WalletCreation ---------------------------
(***************************************************************************)
(* POST /wallets: createWallet of the wallet service.  It asks whether the *)
(* user has a wallet and then inserts one, in two transactions, so several *)
(* requests of one user may all have asked before any has inserted.  The   *)
(* unique index on user_id is the last word.                               *)
(*                                                                         *)
(* Requests are independent of transfers: a wallet id is drawn here, and   *)
(* no transfer can name it before the client has it.                       *)
(***************************************************************************)
EXTENDS Naturals, FiniteSets

CONSTANTS
    Users,   \* user ids
    Posts,   \* the requests; a client that tries again sends another
    userOf   \* the userId of each

ASSUME PostsAssumption == userOf \in [Posts -> Users]

VARIABLES
    wallets,  \* the committed rows of the wallets table
    pc        \* what each request has done, or its answer

creationVars == <<wallets, pc>>

\* The wallet id is a fresh uuidv7(): that of the request which draws it.
Wallet == [walletId : Posts, userId : Users]

\* A slip: the two ids change places.
newWallet_swapped(p) == [walletId |-> userOf[p], userId |-> p]

newWallet(p) == [walletId |-> p, userId |-> userOf[p]]

\* 201, 409, 500 for a violated index, 500 for any other database error.
Answer == {"created", "conflict", "rejected", "failed"}

Init ==
    /\ wallets = {}
    /\ pc = [p \in Posts |-> "received"]

Goto(p, label) == pc' = [pc EXCEPT ![p] = label]

SameUser(p, q) == userOf[p] = userOf[q]

\* A slip: the count includes rows that are not committed.
existsByUserId_dirty(p) ==
    \/ \E w \in wallets : w.userId = userOf[p]
    \/ \E q \in Posts \ {p} : SameUser(p, q) /\ pc[q] = "inserted"

existsByUserId(p) == \E w \in wallets : w.userId = userOf[p]

check(p) ==
    /\ pc[p] = "received"
    /\ Goto(p, IF existsByUserId(p) THEN "conflict" ELSE "checked")
    /\ UNCHANGED wallets

\* A slip: the index on user_id is not unique.
indexRejects_never(p) == FALSE

indexRejects(p) == \E w \in wallets : w.userId = userOf[p]

\* A slip: the INSERT is rejected by a row that may still be rolled back.
insert_impatient(p) ==
    /\ pc[p] = "checked"
    /\ Goto(p, IF existsByUserId_dirty(p) THEN "rejected" ELSE "inserted")
    /\ UNCHANGED wallets

\* A slip: the check takes a shared lock that the INSERT needs for itself.
insert_sharedLock(p) ==
    /\ pc[p] = "checked"
    /\ \A q \in Posts \ {p} : ~(SameUser(p, q) /\ pc[q] \in {"checked", "inserted"})
    /\ Goto(p, IF indexRejects(p) THEN "rejected" ELSE "inserted")
    /\ UNCHANGED wallets

\* save begins a transaction and inserts.  An equal user_id another request
\* has inserted and not committed makes the INSERT wait.
insert(p) ==
    /\ pc[p] = "checked"
    /\ \A q \in Posts \ {p} : ~(SameUser(p, q) /\ pc[q] = "inserted")
    /\ Goto(p, IF indexRejects(p) THEN "rejected" ELSE "inserted")
    /\ UNCHANGED wallets

\* The answer to the commit may be lost: 500, with the wallet created.
commit(p) ==
    /\ pc[p] = "inserted"
    /\ wallets' = wallets \cup {newWallet(p)}
    /\ \E answer \in {"created", "failed"} : Goto(p, answer)

\* The database fails a statement, or the process stops; what was inserted is
\* rolled back.
fail(p) ==
    /\ pc[p] \in {"received", "checked", "inserted"}
    /\ Goto(p, "failed")
    /\ UNCHANGED wallets

Next == \E p \in Posts : check(p) \/ insert(p) \/ commit(p) \/ fail(p)

\* A statement that need not wait is executed.
Spec == /\ Init /\ [][Next]_creationVars
        /\ \A p \in Posts : WF_creationVars(check(p) \/ insert(p) \/ commit(p))

-----------------------------------------------------------------------------
(* Properties.                                                             *)

\* Types of the table and of the requests.
TypeOK ==
    /\ wallets \subseteq Wallet
    /\ pc \in [Posts -> {"received", "checked", "inserted"} \cup Answer]

\* However the requests of one user interleave, fail and are sent again, the
\* user has at most one wallet, and at most one request is told it made it.
OneWalletPerUser ==
    /\ \A v, w \in wallets : v.userId = w.userId => v = w
    /\ \A p, q \in Posts :
         pc[p] = "created" /\ pc[q] = "created" /\ SameUser(p, q) => p = q

\* An answer tells the truth although it was decided on what others had
\* committed by then: 201 comes with the wallet, and a request is only turned
\* away, by the check or by the index, for a wallet that another one made.
AnswersAreTrue ==
    \A p \in Posts :
      /\ pc[p] = "created" => newWallet(p) \in wallets
      /\ pc[p] \in {"conflict", "rejected"} =>
           \E w \in wallets : w.userId = userOf[p] /\ w.walletId # p

\* Nobody turns everybody away: a user some of whose requests the database
\* does not fail gets a wallet in the end.
UserServed ==
    \A u \in Users :
      <>(\/ \E w \in wallets : w.userId = u
         \/ \A p \in Posts : userOf[p] = u => pc[p] = "failed")

\* Requests that wait for each other's row are answered all the same.
EveryPostAnswered == \A p \in Posts : <>(pc[p] \in Answer)
=============================================================================
