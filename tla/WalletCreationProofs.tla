------------------------ MODULE WalletCreationProofs ------------------------
(***************************************************************************)
(* Proofs about wallet creation, for any users and any number of requests. *)
(***************************************************************************)
EXTENDS WalletCreation, TLAPS

\* A row was made by the request that drew its id, and that is over.
RowsHaveMakers ==
    \A w \in wallets : /\ w = newWallet(w.walletId)
                       /\ pc[w.walletId] \in {"created", "failed"}

\* A request past its INSERT holds the key of its user: no row has it, and no
\* other request.
KeyHeld ==
    \A p \in Posts : pc[p] = "inserted" =>
      /\ ~indexRejects(p)
      /\ \A q \in Posts : SameUser(p, q) /\ pc[q] = "inserted" => q = p

\* Inductive: the two facts above say why the properties survive a commit.
Inv == /\ TypeOK /\ RowsHaveMakers /\ KeyHeld
       /\ OneWalletPerUser /\ AnswersAreTrue

\* It holds at the start: no row, and every request still to be looked at.
LEMMA InvInit == Init => Inv
  BY PostsAssumption DEF Init, Inv, TypeOK, RowsHaveMakers, KeyHeld,
     OneWalletPerUser, AnswersAreTrue

\* A step that leaves the table alone and moves one request, which was under
\* way, keeps the invariant if the label it goes to may be had.
LEMMA GotoKeepsInv ==
    ASSUME Inv, NEW p \in Posts,
           NEW label \in {"checked", "inserted", "conflict", "rejected", "failed"},
           pc[p] \in {"received", "checked", "inserted"},
           Goto(p, label), UNCHANGED wallets,
           label = "inserted" =>
             /\ ~indexRejects(p)
             /\ \A q \in Posts \ {p} : ~(SameUser(p, q) /\ pc[q] = "inserted"),
           label \in {"conflict", "rejected"} => existsByUserId(p)
    PROVE  Inv'
<1>. USE DEF Inv
<1>1. /\ pc \in [Posts -> {"received", "checked", "inserted"} \cup Answer]
      /\ pc' = [pc EXCEPT ![p] = label] /\ wallets' = wallets
      /\ wallets \subseteq Wallet
  BY DEF Goto, TypeOK
<1>2. TypeOK'
  BY <1>1 DEF TypeOK, Answer
<1>3. RowsHaveMakers'
  BY <1>1 DEF RowsHaveMakers, Wallet, newWallet
<1>4. KeyHeld'
  BY <1>1 DEF KeyHeld, SameUser, indexRejects
<1>5. OneWalletPerUser'
  BY <1>1 DEF OneWalletPerUser, SameUser
<1>6. AnswersAreTrue'
  <2>1. \A w \in wallets : w.walletId # p
    BY DEF RowsHaveMakers
  <2>. QED
    BY <1>1, <2>1 DEF AnswersAreTrue, existsByUserId, newWallet
<1>. QED
  BY <1>2, <1>3, <1>4, <1>5, <1>6

\* The commit adds the only row of the user.
LEMMA CommitKeepsInv ==
    ASSUME Inv, NEW p \in Posts, commit(p)
    PROVE  Inv'
<1>. USE DEF Inv
<1>1. PICK answer \in {"created", "failed"} : pc' = [pc EXCEPT ![p] = answer]
  BY DEF commit, Goto
<1>2. /\ pc \in [Posts -> {"received", "checked", "inserted"} \cup Answer]
      /\ wallets' = wallets \cup {newWallet(p)} /\ wallets \subseteq Wallet
      /\ pc[p] = "inserted"
  BY DEF commit, TypeOK
<1>3. /\ newWallet(p) \in Wallet
      /\ newWallet(p).walletId = p /\ newWallet(p).userId = userOf[p]
  BY PostsAssumption DEF newWallet, Wallet
<1>4. /\ \A w \in wallets : w.userId # userOf[p]
      /\ \A q \in Posts : SameUser(p, q) /\ pc[q] = "inserted" => q = p
  BY <1>2 DEF KeyHeld, indexRejects
<1>5. TypeOK'
  BY <1>1, <1>2, <1>3 DEF TypeOK, Answer
<1>6. RowsHaveMakers'
  BY <1>1, <1>2, <1>3 DEF RowsHaveMakers, newWallet, Wallet
<1>7. KeyHeld'
  BY <1>1, <1>2, <1>3, <1>4 DEF KeyHeld, SameUser, indexRejects
<1>8. OneWalletPerUser'
  <2>1. \A q \in Posts : SameUser(p, q) => pc[q] # "created"
    BY <1>4 DEF AnswersAreTrue, newWallet, SameUser
  <2>. QED
    BY <1>1, <1>2, <1>3, <1>4, <2>1 DEF OneWalletPerUser, SameUser
<1>9. AnswersAreTrue'
  BY <1>1, <1>2 DEF AnswersAreTrue, newWallet
<1>. QED
  BY <1>5, <1>6, <1>7, <1>8, <1>9

\* Every step of a request keeps it.
LEMMA InvStep == Inv /\ [Next]_creationVars => Inv'
<1>. SUFFICES ASSUME Inv, [Next]_creationVars PROVE Inv'
  OBVIOUS
<1>1. ASSUME NEW p \in Posts, check(p) PROVE Inv'
  BY <1>1, GotoKeepsInv DEF check
<1>2. ASSUME NEW p \in Posts, insert(p) PROVE Inv'
  BY <1>2, GotoKeepsInv DEF insert, indexRejects, existsByUserId
<1>3. ASSUME NEW p \in Posts, commit(p) PROVE Inv'
  BY <1>3, CommitKeepsInv
<1>4. ASSUME NEW p \in Posts, fail(p) PROVE Inv'
  BY <1>4, GotoKeepsInv DEF fail
<1>5. CASE UNCHANGED creationVars
  BY <1>5 DEF creationVars, Inv, TypeOK, RowsHaveMakers, KeyHeld, indexRejects,
     OneWalletPerUser, AnswersAreTrue, SameUser, newWallet
<1>. QED
  BY <1>1, <1>2, <1>3, <1>4, <1>5 DEF Next

\* The inductive invariant holds in every reachable state.
LEMMA Invariance == Spec => []Inv
  BY InvInit, InvStep, PTL DEF Spec

\* The wallets table and the requests always type-check.
THEOREM CreationTypeCorrect == Spec => []TypeOK
  BY Invariance, PTL DEF Inv

\* A user never has two wallets, and no two requests of a user are told that
\* they created one, for any number of requests at once.
THEOREM UserHasOneWallet == Spec => []OneWalletPerUser
  BY Invariance, PTL DEF Inv

\* A request is told the truth: the wallet it created is there, or another
\* one's is.
THEOREM AnswersAreAlwaysTrue == Spec => []AnswersAreTrue
  BY Invariance, PTL DEF Inv
=============================================================================
