---------------------------- MODULE SagaContract ----------------------------
(***************************************************************************)
(* What a transfer promises its client, whatever messages, outboxes, jobs  *)
(* and dead letters carry it out: a status that only moves forward, and    *)
(* money that moves in legs, each at most once and in an order that never  *)
(* pays out what was not taken.                                            *)
(***************************************************************************)
CONSTANT Transfers

VARIABLES
    status,  \* what GET /transfers/:id reports, or "NONE" before the POST
    legs     \* which of the transfer's movements of money have happened

contractVars == <<status, legs>>

Init ==
    /\ status = [t \in Transfers |-> "NONE"]
    /\ legs = [t \in Transfers |-> {}]

Report(t, from, to) == status[t] \in from /\ status' = [status EXCEPT ![t] = to]

Move(t, leg) == leg \notin legs[t] /\ legs' = [legs EXCEPT ![t] = @ \cup {leg}]

\* The status reports a movement only once it has happened.
Accept(t)   == Report(t, {"NONE"}, "PENDING") /\ UNCHANGED legs
Confirm(t)  == /\ "DEBIT" \in legs[t]
               /\ Report(t, {"PENDING"}, "DEBITED")
               /\ UNCHANGED legs
Complete(t) == /\ "CREDIT" \in legs[t]
               /\ Report(t, {"DEBITED"}, "COMPLETED")
               /\ UNCHANGED legs
Fail(t)     == Report(t, {"PENDING", "DEBITED"}, "FAILED") /\ UNCHANGED legs

\* Only an accepted transfer takes money, and only what was taken is paid out
\* or given back.
Debit(t)  == status[t] # "NONE" /\ Move(t, "DEBIT") /\ UNCHANGED status
Credit(t) == "DEBIT" \in legs[t] /\ Move(t, "CREDIT") /\ UNCHANGED status
Refund(t) == "DEBIT" \in legs[t] /\ Move(t, "REFUND") /\ UNCHANGED status

Next ==
    \E t \in Transfers :
      \/ Accept(t) \/ Confirm(t) \/ Complete(t) \/ Fail(t)
      \/ Debit(t) \/ Credit(t) \/ Refund(t)

Spec == Init /\ [][Next]_contractVars
=============================================================================
