-------------------------------- MODULE TSM ---------------------------------
(***************************************************************************)
(* The BACnet transaction state machine (components/bacnet/tsm.c) with the *)
(* three parties that drive it:                                            *)
(*   - a user, who sends confirmed requests the way every s_*.c sender      *)
(*     does and polls for the outcome the way h_cov.c does;                *)
(*   - the server loop, which calls the timer;                             *)
(*   - the network, on which a request is lost, delayed or duplicated, and *)
(*     so is its answer: apdu_handler may be given an answer to any request *)
(*     sent so far, any number of times, at any later time.                *)
(*                                                                         *)
(* requests is the history of the run: requests[r] is the r-th request, the *)
(* ID it was given, how often it was handed to the datalink and what the    *)
(* user has concluded about it.  answered holds the requests an answer to   *)
(* which has arrived.                                                      *)
(***************************************************************************)
EXTENDS TsmTable, Sequences

CONSTANT MaxRequests   \* bound: requests sent in a run

ASSUME RequestsAssumption == MaxRequests \in Nat

VARIABLES TSM_List, Current_Invoke_ID, requests, answered

vars == <<TSM_List, Current_Invoke_ID, requests, answered>>

Request ==
  [id : InvokeIDs, attempts : Nat, outcome : {"waiting", "done", "failed", "refused"}]

TypeOK ==
  /\ TSM_List \in [Index -> Entry(Nat)]
  /\ Current_Invoke_ID \in InvokeIDs
  /\ requests \in Seq(Request)
  /\ answered \subseteq DOMAIN requests

Init ==
  /\ TSM_List = EmptyTable
  /\ Current_Invoke_ID = 1
  /\ requests = << >>
  /\ answered = {}

-----------------------------------------------------------------------------
(***************************************************************************)
(* A sender reserves an ID, stores the request and transmits it.           *)
(***************************************************************************)
SendRequest ==
  LET id == NextUnused(TSM_List, Current_Invoke_ID)
      r  == Len(requests) + 1
  IN  /\ Len(requests) < MaxRequests
      /\ TransactionAvailable(TSM_List)
      /\ TSM_List' = SetTransaction(Reserve(TSM_List, id), id, r)
      /\ Current_Invoke_ID' = Successor(id)
      /\ requests' = Append(requests,
                       [id |-> id, attempts |-> 1, outcome |-> "waiting"])
      /\ UNCHANGED answered

\* The encoded request exceeds the destination's max APDU: the ID is given up.
SendTooLong ==
  LET id == NextUnused(TSM_List, Current_Invoke_ID)
  IN  /\ Len(requests) < MaxRequests
      /\ TransactionAvailable(TSM_List)
      /\ TSM_List' = Free(Reserve(TSM_List, id), id)
      /\ Current_Invoke_ID' = Successor(id)
      /\ requests' = Append(requests,
                       [id |-> id, attempts |-> 0, outcome |-> "refused"])
      /\ UNCHANGED answered

\* The user looks at the ID of a request it waits for.
Poll(r) ==
  LET id == requests[r].id
  IN  /\ requests[r].outcome = "waiting"
      /\ \/ /\ IsFree(TSM_List, id)
            /\ requests' = [requests EXCEPT ![r].outcome = "done"]
            /\ UNCHANGED TSM_List
         \/ /\ IsFailed(TSM_List, id)
            /\ requests' = [requests EXCEPT ![r].outcome = "failed"]
            /\ TSM_List' = Free(TSM_List, id)
      /\ UNCHANGED <<Current_Invoke_ID, answered>>

\* One call of the timer by the server loop.
Timer ==
  /\ TSM_List' = TimerCall(TSM_List)
  /\ requests' = [r \in DOMAIN requests |->
       IF \E i \in Resent(TSM_List) : TSM_List[i].apdu = r
       THEN [requests[r] EXCEPT !.attempts = @ + 1]
       ELSE requests[r]]
  /\ UNCHANGED <<Current_Invoke_ID, answered>>

(***************************************************************************)
(* A SimpleACK, ComplexACK, Error, Reject or Abort to request r arrives:   *)
(* the invoke ID it carries is freed, whatever entry holds it.  A          *)
(* SegmentACK is taken to carry ID 0 and frees nothing.                    *)
(***************************************************************************)
Answer(r) ==
  /\ requests[r].attempts > 0
  /\ TSM_List' = Free(TSM_List, requests[r].id)
  /\ answered' = answered \cup {r}
  /\ UNCHANGED <<Current_Invoke_ID, requests>>

SegmentAck ==
  /\ TSM_List' = Free(TSM_List, 0)
  /\ UNCHANGED <<Current_Invoke_ID, requests, answered>>

Next ==
  \/ SendRequest
  \/ SendTooLong
  \/ \E r \in DOMAIN requests : Poll(r)
  \/ Timer
  \/ \E r \in DOMAIN requests : Answer(r)
  \/ SegmentAck

Spec == Init /\ [][Next]_vars

(***************************************************************************)
(* server_task.c calls the timer in every turn of an endless loop, and the *)
(* COV task polls in every cycle.  Nobody has to send or to answer.        *)
(***************************************************************************)
FairSpec ==
  /\ Spec
  /\ WF_vars(Timer)
  /\ \A r \in 1 .. MaxRequests :
       WF_vars(r \in DOMAIN requests /\ Poll(r))

-----------------------------------------------------------------------------
(***************************************************************************)
(* What the users of the table are promised, see TransactionLedger.        *)
(***************************************************************************)
LedgerEntry(id) ==
  IF IsFree(TSM_List, id) THEN [status |-> "free", sent |-> 0]
  ELSE LET entry == TSM_List[FindIndex(TSM_List, id)]
       IN  [status |-> IF entry.state = "IDLE" THEN "failed" ELSE "pending",
            sent   |-> entry.RetryCount + 1]

Ledger == INSTANCE TransactionLedger
            WITH ledger <- [id \in InvokeIDs |-> LedgerEntry(id)]

\* tsm.c implements the ledger: an ID in use is never handed out again before
\* it is released, what is pending is sent at most 1 + Retries times and fails
\* only after that, and what has failed is never sent again.
ImplementsLedger == Ledger!Spec

\* Two entries never hold the same invoke ID, in whatever order requests are
\* sent, answered, given up and polled: an ID picks out one transaction.
UniqueInvokeIDs == UniqueIDs(TSM_List)

\* The timer never resends a request whose ID was freed by an answer, by the
\* user or by a cancelled sending: whatever is pending still holds its ID.
PendingHasID == PendingHeld(TSM_List)

\* Within one lap of the invoke ID counter, the user takes a request for
\* confirmed only if an answer to that very request has arrived, however late
\* or often other answers arrive.
DoneMeansAnswered ==
  Len(requests) <= MaxInvokeID =>
    \A r \in DOMAIN requests : requests[r].outcome = "done" => r \in answered

\* Within one lap, a request is given up only after it was transmitted
\* 1 + Number_Of_Retries times, and is never transmitted more often.
FailedMeansAllRetries ==
  Len(requests) <= MaxInvokeID =>
    \A r \in DOMAIN requests :
      /\ requests[r].attempts <= 1 + Retries
      /\ requests[r].outcome = "failed" => requests[r].attempts = 1 + Retries

\* Every request the user waits for is settled in the end, even if nothing is
\* ever answered, also when IDs are reused.
EveryRequestSettles ==
  \A r \in 1 .. MaxRequests :
    (r \in DOMAIN requests /\ requests[r].outcome = "waiting")
      ~> (r \in DOMAIN requests /\ requests[r].outcome # "waiting")
=============================================================================
