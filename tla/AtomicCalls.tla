---------------------------- MODULE AtomicCalls ----------------------------
(***************************************************************************)
(* What updateBalanceWithLedger promises its callers: a call that returns, *)
(* or that throws, does so in one step, with the tables as WalletRepository*)
(* says.  Of the time a call takes one thing can be seen: that another     *)
(* call of the same key has overtaken it.                                  *)
(***************************************************************************)
EXTENDS WalletRepository

CONSTANTS
    Calls,     \* the calls that may run, each once; a repetition is another
    Arguments  \* the arguments of each call

VARIABLES
    outcome,   \* what has become of each call
    overtaken  \* running calls that passed the check before an equal key came

callVars == <<balance, ledger, walletOutbox, outcome, overtaken>>

Running == {c \in Calls : outcome[c] = "running"}

Recorded(c) == isDuplicate(Arguments[c].walletId, Arguments[c].transactionId)

OthersOfKey(c) ==
    {d \in Running \ {c} :
       /\ Arguments[d].walletId = Arguments[c].walletId
       /\ Arguments[d].transactionId = Arguments[c].transactionId}

Ends(c, how) == /\ c \in Running
                /\ outcome' = [outcome EXCEPT ![c] = how]

\* The whole call, which may overtake others of its key if it writes an entry.
Perform(c) ==
    /\ c \notin overtaken
    /\ updateBalanceWithLedger(Arguments[c].walletId,
                               Arguments[c].transactionId,
                               Arguments[c].amount, Arguments[c].type,
                               Arguments[c].event)
    /\ \E S \in SUBSET (IF Recorded(c) THEN {} ELSE OthersOfKey(c)) :
         overtaken' = overtaken \cup S

Return(c) == Ends(c, "returned") /\ Perform(c)

Throw(c) ==
    /\ Ends(c, "threw")
    /\ Throws(Arguments[c].walletId, Arguments[c].transactionId,
              Arguments[c].amount, Arguments[c].type, c \in overtaken)
    /\ overtaken' = overtaken \ {c}
    /\ UNCHANGED repositoryVars

\* The database fails a statement, or the answer to the commit is lost.
Fail(c) ==
    /\ Ends(c, "failed")
    /\ \/ Perform(c)
       \/ overtaken' = overtaken \ {c} /\ UNCHANGED repositoryVars

Init == /\ Repository_Init
        /\ outcome = [c \in Calls |-> "running"]
        /\ overtaken = {}

Next == \E c \in Calls : Return(c) \/ Throw(c) \/ Fail(c)

Spec == Init /\ [][Next]_callVars
=============================================================================
