------------------------------ MODULE TsmTable ------------------------------
(***************************************************************************)
(* The table of outstanding confirmed requests kept by                     *)
(* components/bacnet/tsm.c, as operators on the value of the table.  The   *)
(* state machines that own a table (TSM, CovServer) hold it in a variable  *)
(* and compose these operators, as the C handlers compose the calls.       *)
(*                                                                         *)
(* What a request says is of no interest here: entry.apdu is the identity  *)
(* of the stored request, whatever its user takes for one.                 *)
(***************************************************************************)
EXTENDS Integers

CONSTANTS
  MaxTransactions,  \* MAX_TSM_TRANSACTIONS
  MaxInvokeID,      \* 255, the largest value of an 8-bit invoke ID
  Timeout,          \* apdu_timeout(), in calls of the TSM timer
  Retries,          \* apdu_retries()
  NoPDU             \* the content of an entry never written

ASSUME TableAssumption ==
  /\ MaxTransactions \in Nat \ {0}
  /\ MaxInvokeID \in Nat
  /\ MaxTransactions <= MaxInvokeID
  /\ Timeout \in Nat \ {0}
  /\ Retries \in Nat

Index == 0 .. MaxTransactions - 1
InvokeIDs == 1 .. MaxInvokeID

\* The entries an entry of TSM_List can be; RequestTimer counts timer calls.
Entry(PDUs) ==
  [InvokeID     : InvokeIDs \cup {0},
   state        : {"IDLE", "AWAIT_CONFIRMATION"},
   RetryCount   : 0 .. Retries,
   RequestTimer : 0 .. Timeout,
   apdu         : PDUs \cup {NoPDU}]

\* static storage: every entry is zero.
EmptyTable ==
  [i \in Index |-> [InvokeID |-> 0, state |-> "IDLE", RetryCount |-> 0,
                    RequestTimer |-> 0, apdu |-> NoPDU]]

First(S) == CHOOSE i \in S : \A j \in S : i <= j

Holding(table, id) == {i \in Index : table[i].InvokeID = id}

\* MaxTransactions stands for "not found", as in the code.
FindIndex(table, id) ==
  IF Holding(table, id) = {} THEN MaxTransactions ELSE First(Holding(table, id))

TransactionAvailable(table) == Holding(table, 0) # {}

(***************************************************************************)
(* tsm_next_free_invokeID: the search goes up from Current_Invoke_ID,      *)
(* wraps from the last ID to 1, and stops at the first ID no entry holds.  *)
(***************************************************************************)
Unused(table) == {id \in InvokeIDs : Holding(table, id) = {}}

NextUnusedKeepsCurrent(table, current) == current

NextUnused(table, current) ==
  LET ahead == {id \in Unused(table) : id >= current}
  IN  First(IF ahead # {} THEN ahead ELSE Unused(table))

SuccessorKeepsZero(id) == (id + 1) % (MaxInvokeID + 1)

Successor(id) == IF id = MaxInvokeID THEN 1 ELSE id + 1

\* The table once id is reserved in the first free entry.
Reserved(entry, id) ==
  [entry EXCEPT !.InvokeID = id, !.state = "IDLE", !.RequestTimer = Timeout]

Reserve(table, id) == [table EXCEPT ![First(Holding(table, 0))] = Reserved(@, id)]

\* tsm_set_confirmed_unsegmented_transaction
StartedKeepsCount(entry, pdu) ==
  [entry EXCEPT !.state = "AWAIT_CONFIRMATION", !.RequestTimer = Timeout,
                !.apdu = pdu]

Started(entry, pdu) ==
  [entry EXCEPT !.state = "AWAIT_CONFIRMATION", !.RetryCount = 0,
                !.RequestTimer = Timeout, !.apdu = pdu]

SetTransaction(table, id, pdu) ==
  [i \in Index |-> IF i = FindIndex(table, id) THEN Started(table[i], pdu)
                                               ELSE table[i]]

(***************************************************************************)
(* tsm_timer_milliseconds: one call counts every pending request down by   *)
(* one and, at zero, sends it again or gives it up.                        *)
(***************************************************************************)
Expires(entry) == entry.state = "AWAIT_CONFIRMATION" /\ entry.RequestTimer <= 1

RetriesLeftOneFewer(entry) == entry.RetryCount + 1 < Retries
RetriesLeft(entry) == entry.RetryCount < Retries

Resend(entry) == [entry EXCEPT !.RequestTimer = Timeout, !.RetryCount = @ + 1]
GiveUpKeepsWaiting(entry) == [entry EXCEPT !.RequestTimer = 0]

GiveUp(entry) == [entry EXCEPT !.RequestTimer = 0, !.state = "IDLE"]
Elapse(entry) == [entry EXCEPT !.RequestTimer = @ - 1]

TimedClearsID(entry) ==
  IF entry.state # "AWAIT_CONFIRMATION" THEN entry
  ELSE IF ~Expires(entry) THEN Elapse(entry)
  ELSE IF RetriesLeft(entry) THEN Resend(entry)
  ELSE [GiveUp(entry) EXCEPT !.InvokeID = 0]

Timed(entry) ==
  IF entry.state # "AWAIT_CONFIRMATION" THEN entry
  ELSE IF ~Expires(entry) THEN Elapse(entry)
  ELSE IF RetriesLeft(entry) THEN Resend(entry)
  ELSE GiveUp(entry)

TimerCall(table) == [i \in Index |-> Timed(table[i])]

\* The entries that call sends again.
Resent(table) == {i \in Index : Expires(table[i]) /\ RetriesLeft(table[i])}

\* tsm_free_invoke_id; an ID no entry holds changes nothing, and ID 0 finds
\* an entry that is free already.
FreeKeepsState(table, id) ==
  [i \in Index |->
     IF i = FindIndex(table, id) THEN [table[i] EXCEPT !.InvokeID = 0]
                                 ELSE table[i]]

Free(table, id) ==
  [i \in Index |->
     IF i = FindIndex(table, id)
     THEN [table[i] EXCEPT !.state = "IDLE", !.InvokeID = 0]
     ELSE table[i]]

\* tsm_invoke_id_free and tsm_invoke_id_failed
IsFree(table, id) == FindIndex(table, id) = MaxTransactions

IsFailed(table, id) ==
  /\ ~IsFree(table, id)
  /\ table[FindIndex(table, id)].state = "IDLE"

-----------------------------------------------------------------------------
\* What every well-formed table satisfies: an ID in use belongs to one entry,
\* and what the timer may send again still has an ID and time to wait.
UniqueIDs(table) ==
  \A i, j \in Index :
    i # j /\ table[i].InvokeID # 0 => table[i].InvokeID # table[j].InvokeID

PendingHeld(table) ==
  \A i \in Index : table[i].state = "AWAIT_CONFIRMATION" =>
    table[i].InvokeID # 0 /\ table[i].RequestTimer > 0
=============================================================================
