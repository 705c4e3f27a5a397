-------------------------- MODULE TransactionLedger --------------------------
(***************************************************************************)
(* What a transaction state machine promises, without a table, timers or a *)
(* search: the status of every invoke ID and how often its request was     *)
(* transmitted.                                                            *)
(***************************************************************************)
EXTENDS Integers, FiniteSets

CONSTANTS InvokeIDs, MaxTransactions, Retries

VARIABLE ledger

Busy == {id \in InvokeIDs : ledger[id].status # "free"}

Init == ledger = [id \in InvokeIDs |-> [status |-> "free", sent |-> 0]]

\* A request is accepted while there is room, and transmitted once.
Begin(id) ==
  /\ id \notin Busy
  /\ Cardinality(Busy) < MaxTransactions
  /\ ledger' = [ledger EXCEPT ![id] = [status |-> "pending", sent |-> 1]]

Resend(entry) == [entry EXCEPT !.sent = @ + 1]
GiveUp(entry) == [entry EXCEPT !.status = "failed"]

\* Time passes: some pending requests are sent again, and those that were sent
\* often enough may be given up.
Elapse ==
  \E due \in SUBSET {id \in Busy : ledger[id].status = "pending"} :
    ledger' = [id \in InvokeIDs |->
      IF id \notin due THEN ledger[id]
      ELSE IF ledger[id].sent <= Retries THEN Resend(ledger[id])
      ELSE GiveUp(ledger[id])]

\* The request is answered, or the user lets go of it.
Release(id) ==
  /\ id \in Busy
  /\ ledger' = [ledger EXCEPT ![id] = [status |-> "free", sent |-> 0]]

Next == Elapse \/ \E id \in InvokeIDs : Begin(id) \/ Release(id)

Spec == Init /\ [][Next]_ledger
=============================================================================
