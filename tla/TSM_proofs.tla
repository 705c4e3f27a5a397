----------------------------- MODULE TSM_proofs ------------------------------
(***************************************************************************)
(* The transaction state machine keeps its table well-formed, for any      *)
(* number of transactions and IDs, any timeout and retry count, and any    *)
(* loss, delay or duplication of requests and answers.                     *)
(***************************************************************************)
EXTENDS TSM, TsmTable_proofs, SequenceTheorems

\* The inductive invariant: the history has its type and the table is
\* well-formed (its type, unique IDs, whatever is pending holds an ID).
IInv ==
  /\ WellFormed(TSM_List, Nat)
  /\ Current_Invoke_ID \in InvokeIDs
  /\ requests \in Seq(Request)
  /\ answered \subseteq DOMAIN requests

LEMMA IInvInit == Init => IInv
<1> SUFFICES ASSUME Init PROVE IInv
  OBVIOUS
<1>1. WellFormed(TSM_List, Nat)
  BY EmptyWellFormed DEF Init
<1>2. Current_Invoke_ID \in InvokeIDs
  BY TableAssumption DEF Init, InvokeIDs
<1>3. requests \in Seq(Request) /\ answered \subseteq DOMAIN requests
  BY DEF Init
<1>4. QED
  BY <1>1, <1>2, <1>3 DEF IInv

\* Appending a request keeps the history well-formed.
LEMMA AppendRequest ==
  ASSUME IInv, NEW record \in Request
  PROVE  /\ Append(requests, record) \in Seq(Request)
         /\ DOMAIN requests \subseteq DOMAIN Append(requests, record)
BY DEF IInv

LEMMA SendRequestStep == IInv /\ SendRequest => IInv'
<1> SUFFICES ASSUME IInv, SendRequest PROVE IInv'
  OBVIOUS
<1> DEFINE id == NextUnused(TSM_List, Current_Invoke_ID)
           r  == Len(requests) + 1
           reserved == Reserve(TSM_List, id)
<1>1. id \in InvokeIDs /\ Holding(TSM_List, id) = {}
  BY NextUnusedProperty DEF SendRequest
<1>2. r \in Nat
  BY LenProperties DEF IInv
<1>3. TSM_List' = SetTransaction(reserved, id, r) /\ Current_Invoke_ID' = Successor(id)
  BY DEF SendRequest
<1>4. requests' = Append(requests,
                    [id |-> id, attempts |-> 1, outcome |-> "waiting"])
      /\ answered' = answered
  BY DEF SendRequest
<1> HIDE DEF id, r
<1>5. WellFormed(reserved, Nat)
  BY <1>1, ReserveWellFormed DEF IInv, SendRequest
<1> HIDE DEF reserved
<1>6. WellFormed(TSM_List', Nat)
  BY <1>1, <1>2, <1>3, <1>5, SetTransactionWellFormed
<1>7. Current_Invoke_ID' \in InvokeIDs
  BY <1>1, <1>3, SuccessorType
<1>8. [id |-> id, attempts |-> 1, outcome |-> "waiting"] \in Request
  BY <1>1 DEF Request
<1>9. requests' \in Seq(Request) /\ answered' \subseteq DOMAIN requests'
  BY <1>4, <1>8, AppendRequest DEF IInv
<1>10. QED
  BY <1>6, <1>7, <1>9 DEF IInv, WellFormed

LEMMA SendTooLongStep == IInv /\ SendTooLong => IInv'
<1> SUFFICES ASSUME IInv, SendTooLong PROVE IInv'
  OBVIOUS
<1> DEFINE id == NextUnused(TSM_List, Current_Invoke_ID)
           reserved == Reserve(TSM_List, id)
<1>1. id \in InvokeIDs /\ Holding(TSM_List, id) = {}
  BY NextUnusedProperty DEF SendTooLong
<1>2. TSM_List' = Free(reserved, id) /\ Current_Invoke_ID' = Successor(id)
  BY DEF SendTooLong
<1>3. requests' = Append(requests,
                    [id |-> id, attempts |-> 0, outcome |-> "refused"])
      /\ answered' = answered
  BY DEF SendTooLong
<1> HIDE DEF id
<1>4. WellFormed(reserved, Nat)
  BY <1>1, ReserveWellFormed DEF IInv, SendTooLong
<1> HIDE DEF reserved
<1>5. WellFormed(TSM_List', Nat)
  BY <1>2, <1>4, FreeWellFormed
<1>6. Current_Invoke_ID' \in InvokeIDs
  BY <1>1, <1>2, SuccessorType
<1>7. [id |-> id, attempts |-> 0, outcome |-> "refused"] \in Request
  BY <1>1 DEF Request
<1>8. requests' \in Seq(Request) /\ answered' \subseteq DOMAIN requests'
  BY <1>3, <1>7, AppendRequest DEF IInv
<1>9. QED
  BY <1>5, <1>6, <1>8 DEF IInv, WellFormed

\* Changing one request in place keeps the history well-formed.
LEMMA UpdateRequest ==
  ASSUME IInv, NEW r \in DOMAIN requests, NEW record \in Request
  PROVE  /\ [requests EXCEPT ![r] = record] \in Seq(Request)
         /\ DOMAIN [requests EXCEPT ![r] = record] = DOMAIN requests
BY ExceptSeq, LenProperties DEF IInv

LEMMA PollStep ==
  ASSUME IInv, NEW r \in DOMAIN requests, Poll(r)
  PROVE  IInv'
<1>1. requests[r] \in Request
  BY ElementOfSeq, LenProperties DEF IInv
<1>2. PICK outcome \in {"done", "failed"} :
        requests' = [requests EXCEPT ![r] = [requests[r] EXCEPT !.outcome = outcome]]
  BY DEF Poll
<1>3. [requests[r] EXCEPT !.outcome = outcome] \in Request
  BY <1>1 DEF Request
<1>4. requests' \in Seq(Request) /\ DOMAIN requests' = DOMAIN requests
  BY <1>2, <1>3, UpdateRequest
<1>5. TSM_List' = TSM_List \/ TSM_List' = Free(TSM_List, requests[r].id)
  BY DEF Poll
<1>6. WellFormed(TSM_List', Nat)
  BY <1>5, FreeWellFormed DEF IInv
<1>7. Current_Invoke_ID' = Current_Invoke_ID /\ answered' = answered
  BY DEF Poll
<1>8. QED
  BY <1>4, <1>6, <1>7 DEF IInv, WellFormed

LEMMA TimerStep == IInv /\ Timer => IInv'
<1> SUFFICES ASSUME IInv, Timer PROVE IInv'
  OBVIOUS
<1>1. WellFormed(TSM_List', Nat)
  BY TimerCallWellFormed DEF IInv, Timer
<1>2. DOMAIN requests = 1 .. Len(requests) /\ Len(requests) \in Nat
  BY LenProperties DEF IInv
<1>3. \A r \in DOMAIN requests : requests'[r] \in Request
  <2> SUFFICES ASSUME NEW r \in DOMAIN requests PROVE requests'[r] \in Request
    OBVIOUS
  <2>1. requests[r] \in Request
    BY ElementOfSeq, LenProperties DEF IInv
  <2>2. [requests[r] EXCEPT !.attempts = requests[r].attempts + 1] \in Request
    BY <2>1 DEF Request
  <2>3. requests'[r] \in {requests[r],
          [requests[r] EXCEPT !.attempts = requests[r].attempts + 1]}
    BY DEF Timer
  <2>4. QED
    BY <2>1, <2>2, <2>3
<1>4. requests' \in [1 .. Len(requests) -> Request]
  BY <1>2, <1>3 DEF Timer
<1>5. requests' \in Seq(Request) /\ DOMAIN requests' = DOMAIN requests
  BY <1>2, <1>4
<1>6. Current_Invoke_ID' = Current_Invoke_ID /\ answered' = answered
  BY DEF Timer
<1>7. QED
  BY <1>1, <1>5, <1>6 DEF IInv, WellFormed

LEMMA AnswerStep ==
  ASSUME IInv, NEW r \in DOMAIN requests, Answer(r)
  PROVE  IInv'
<1>1. WellFormed(TSM_List', Nat)
  BY FreeWellFormed DEF IInv, Answer
<1>2. QED
  BY <1>1 DEF IInv, Answer, WellFormed

LEMMA SegmentAckStep == IInv /\ SegmentAck => IInv'
<1> SUFFICES ASSUME IInv, SegmentAck PROVE IInv'
  OBVIOUS
<1>1. WellFormed(TSM_List', Nat)
  BY FreeWellFormed DEF IInv, SegmentAck
<1>2. QED
  BY <1>1 DEF IInv, SegmentAck, WellFormed

LEMMA IInvStep == IInv /\ [Next]_vars => IInv'
<1> SUFFICES ASSUME IInv, [Next]_vars PROVE IInv'
  OBVIOUS
<1>1. CASE SendRequest
  BY <1>1, SendRequestStep
<1>2. CASE SendTooLong
  BY <1>2, SendTooLongStep
<1>3. CASE \E r \in DOMAIN requests : Poll(r)
  BY <1>3, PollStep
<1>4. CASE Timer
  BY <1>4, TimerStep
<1>5. CASE \E r \in DOMAIN requests : Answer(r)
  BY <1>5, AnswerStep
<1>6. CASE SegmentAck
  BY <1>6, SegmentAckStep
<1>7. CASE UNCHANGED vars
  BY <1>7 DEF vars, IInv, WellFormed, UniqueIDs, PendingHeld
<1>8. QED
  BY <1>1, <1>2, <1>3, <1>4, <1>5, <1>6, <1>7 DEF Next

THEOREM InductiveInvariant == Spec => []IInv
BY IInvInit, IInvStep, PTL DEF Spec

\* Type correctness of the table, the ID counter and the history.
THEOREM TypeCorrect == Spec => []TypeOK
<1>1. IInv => TypeOK
  BY DEF IInv, TypeOK, WellFormed
<1>2. QED
  BY <1>1, InductiveInvariant, PTL

\* An invoke ID picks out one transaction (tsm_find_invokeID_index is a
\* function of the ID), whatever the users, the timer and the network do.
THEOREM InvokeIDsAreUnique == Spec => []UniqueInvokeIDs
<1>1. IInv => UniqueInvokeIDs
  BY DEF IInv, UniqueInvokeIDs, WellFormed
<1>2. QED
  BY <1>1, InductiveInvariant, PTL

\* The timer never resends a request that was answered, freed or cancelled.
THEOREM PendingAlwaysHasID == Spec => []PendingHasID
<1>1. IInv => PendingHasID
  BY DEF IInv, PendingHasID, WellFormed
<1>2. QED
  BY <1>1, InductiveInvariant, PTL

-----------------------------------------------------------------------------
(***************************************************************************)
(* What the outcome of a request says, within one lap of the invoke ID      *)
(* counter: a request taken for confirmed was answered, one given up was    *)
(* sent as often as there are retries.                                     *)
(*                                                                         *)
(* Until the counter wraps, the r-th request has the ID r: every ID in use  *)
(* was handed out before, so the next is never skipped.  From that each     *)
(* entry in use is the one of a request still waited for, and its count of  *)
(* retries is the number of times that request was sent again.             *)
(***************************************************************************)

\* An entry in use is that of a request its user waits for.
Kept(entry, history) ==
  /\ entry.InvokeID \in DOMAIN history
  /\ history[entry.InvokeID].outcome = "waiting"
  /\ history[entry.InvokeID].attempts = entry.RetryCount + 1
  /\ entry.apdu = entry.InvokeID
  /\ entry.state = "IDLE" => entry.RetryCount = Retries

InTurn == Current_Invoke_ID = Successor(Len(requests))
OwnNumber == \A r \in DOMAIN requests : requests[r].id = r
EntriesKept == \A i \in Index : TSM_List[i].InvokeID # 0 => Kept(TSM_List[i], requests)
FreedByAnswer ==
  \A r \in DOMAIN requests :
    requests[r].outcome = "waiting" /\ Holding(TSM_List, r) = {} => r \in answered
DoneAnswered == \A r \in DOMAIN requests : requests[r].outcome = "done" => r \in answered
AttemptsBounded ==
  \A r \in DOMAIN requests :
    /\ requests[r].attempts <= 1 + Retries
    /\ requests[r].outcome = "failed" => requests[r].attempts = 1 + Retries

Lap ==
  /\ InTurn
  /\ OwnNumber
  /\ EntriesKept
  /\ FreedByAnswer
  /\ DoneAnswered
  /\ AttemptsBounded

LapInv == Len(requests) <= MaxInvokeID => Lap

-----------------------------------------------------------------------------
\* In a well-formed table the search finds an ID where it is, and nowhere else.
LEMMA FoundWhereHeld ==
  ASSUME NEW table, UniqueIDs(table), NEW id, id # 0, NEW i \in Index
  PROVE  i = FindIndex(table, id) <=> table[i].InvokeID = id
<1>1. CASE Holding(table, id) = {}
  <2>1. FindIndex(table, id) = MaxTransactions
    BY <1>1, FindIndexProperty
  <2>2. table[i].InvokeID # id
    BY <1>1 DEF Holding
  <2>3. QED
    BY <2>1, <2>2, IndexFacts
<1>2. CASE Holding(table, id) # {}
  <2>1. FindIndex(table, id) \in Index /\ table[FindIndex(table, id)].InvokeID = id
    BY <1>2, FindIndexProperty
  <2>2. QED
    BY <2>1 DEF UniqueIDs
<1>3. QED
  BY <1>1, <1>2

\* tsm_free_invoke_id clears the entry of that ID and leaves every other one in use alone.
LEMMA FreeClears ==
  ASSUME NEW PDUs, NEW table, WellFormed(table, PDUs), NEW id, NEW i \in Index
  PROVE  /\ Free(table, id)[i].InvokeID # 0 =>
              Free(table, id)[i] = table[i] /\ table[i].InvokeID # id
         /\ table[i].InvokeID \notin {0, id} => Free(table, id)[i] = table[i]
<1>1. table[i] \in Entry(PDUs)
  BY DEF WellFormed
<1>2. CASE i = FindIndex(table, id)
  <2>1. Free(table, id)[i] = [table[i] EXCEPT !.state = "IDLE", !.InvokeID = 0]
    BY <1>2 DEF Free
  <2>2. Free(table, id)[i].InvokeID = 0
    BY <2>1, <1>1 DEF Entry
  <2>3. table[i].InvokeID = id
    BY <1>2, FindIndexProperty, IndexFacts
  <2>4. QED
    BY <2>2, <2>3
<1>3. CASE i # FindIndex(table, id)
  <2>1. Free(table, id)[i] = table[i]
    BY <1>3 DEF Free
  <2>2. table[i].InvokeID # 0 => table[i].InvokeID # id
    BY <1>3, FoundWhereHeld DEF WellFormed
  <2>3. QED
    BY <2>1, <2>2
<1>4. QED
  BY <1>2, <1>3

\* So another ID is in use after it exactly if it was before.
LEMMA FreeKeepsOthers ==
  ASSUME NEW PDUs, NEW table, WellFormed(table, PDUs), NEW id, NEW other \in InvokeIDs, other # id
  PROVE  Holding(Free(table, id), other) = Holding(table, other)
<1>1. other # 0
  BY IndexFacts
<1>2. \A i \in Index : Free(table, id)[i].InvokeID = other <=> table[i].InvokeID = other
  BY <1>1, FreeClears
<1>3. QED
  BY <1>2 DEF Holding

-----------------------------------------------------------------------------
\* What the operations do to the fields the history is compared with.
LEMMA StartedFields ==
  ASSUME NEW entry \in Entry(Nat), NEW pdu \in Nat
  PROVE  /\ Started(entry, pdu).state = "AWAIT_CONFIRMATION"
         /\ Started(entry, pdu).RetryCount = 0
         /\ Started(entry, pdu).apdu = pdu
<1> DEFINE waiting == [entry EXCEPT !.state = "AWAIT_CONFIRMATION"]
           fresh   == [waiting EXCEPT !.RetryCount = 0]
           armed   == [fresh EXCEPT !.RequestTimer = Timeout]
<1>1. waiting \in Entry(Nat) /\ waiting.state = "AWAIT_CONFIRMATION"
  BY DEF Entry
<1>2. Started(entry, pdu) = [armed EXCEPT !.apdu = pdu]
  BY DEF Started
<1> HIDE DEF waiting
<1>3. fresh \in Entry(Nat) /\ fresh.state = "AWAIT_CONFIRMATION" /\ fresh.RetryCount = 0
  BY <1>1, TableAssumption DEF Entry
<1> HIDE DEF fresh
<1>4. /\ armed \in Entry(Nat)
      /\ armed.state = "AWAIT_CONFIRMATION"
      /\ armed.RetryCount = 0
  BY <1>3, TableAssumption DEF Entry
<1> HIDE DEF armed
<1>5. QED
  BY <1>2, <1>4 DEF Entry

LEMMA ResendFields ==
  ASSUME NEW entry \in Entry(Nat)
  PROVE  /\ Resend(entry).state = entry.state
         /\ Resend(entry).RetryCount = entry.RetryCount + 1
         /\ Resend(entry).apdu = entry.apdu
<1> DEFINE armed == [entry EXCEPT !.RequestTimer = Timeout]
<1>1. /\ armed \in Entry(Nat)
      /\ armed.RetryCount = entry.RetryCount
      /\ armed.state = entry.state
      /\ armed.apdu = entry.apdu
  BY TableAssumption DEF Entry
<1>2. Resend(entry) = [armed EXCEPT !.RetryCount = entry.RetryCount + 1]
  BY DEF Resend
<1> HIDE DEF armed
<1>3. QED
  BY <1>1, <1>2 DEF Entry

LEMMA GiveUpFields ==
  ASSUME NEW entry \in Entry(Nat)
  PROVE  GiveUp(entry).RetryCount = entry.RetryCount /\ GiveUp(entry).apdu = entry.apdu
<1> DEFINE stopped == [entry EXCEPT !.RequestTimer = 0]
<1>1. /\ stopped \in Entry(Nat)
      /\ stopped.RetryCount = entry.RetryCount
      /\ stopped.apdu = entry.apdu
  BY TableAssumption DEF Entry
<1>2. GiveUp(entry) = [stopped EXCEPT !.state = "IDLE"]
  BY DEF GiveUp
<1> HIDE DEF stopped
<1>3. QED
  BY <1>1, <1>2 DEF Entry

\* The timer counts a retry exactly when it sends again, and gives up only after the last.
LEMMA TimedFields ==
  ASSUME NEW entry \in Entry(Nat)
  PROVE  /\ Timed(entry).apdu = entry.apdu
         /\ Expires(entry) /\ RetriesLeft(entry) =>
              Timed(entry).RetryCount = entry.RetryCount + 1
         /\ ~(Expires(entry) /\ RetriesLeft(entry)) =>
              Timed(entry).RetryCount = entry.RetryCount
         /\ Timed(entry).state = "IDLE" =>
              entry.state = "IDLE" \/ Timed(entry).RetryCount = Retries
<1>1. CASE entry.state # "AWAIT_CONFIRMATION"
  BY <1>1 DEF Timed, Expires, Entry
<1>2. CASE entry.state = "AWAIT_CONFIRMATION" /\ Expires(entry) /\ RetriesLeft(entry)
  <2>1. Timed(entry) = Resend(entry)
    BY <1>2 DEF Timed
  <2>2. QED
    BY <1>2, <2>1, ResendFields
<1>3. CASE entry.state = "AWAIT_CONFIRMATION" /\ Expires(entry) /\ ~RetriesLeft(entry)
  <2>1. Timed(entry) = GiveUp(entry)
    BY <1>3 DEF Timed
  <2>2. entry.RetryCount = Retries
    BY <1>3, TableAssumption DEF RetriesLeft, Entry
  <2>3. QED
    BY <1>3, <2>1, <2>2, GiveUpFields
<1>4. CASE entry.state = "AWAIT_CONFIRMATION" /\ ~Expires(entry)
  <2>1. Timed(entry) = [entry EXCEPT !.RequestTimer = entry.RequestTimer - 1]
    BY <1>4 DEF Timed, Elapse
  <2>2. QED
    BY <1>4, <2>1 DEF Entry
<1>5. QED
  BY <1>1, <1>2, <1>3, <1>4

\* tsm_next_free_invokeID puts the ID into an entry that was free.
LEMMA ReserveAdds ==
  ASSUME NEW table, WellFormed(table, Nat), TransactionAvailable(table),
         NEW id \in InvokeIDs, NEW i \in Index
  PROVE  /\ Reserve(table, id)[i].InvokeID = id \/ Reserve(table, id)[i] = table[i]
         /\ table[i].InvokeID # 0 => Reserve(table, id)[i] = table[i]
<1> DEFINE slot == First(Holding(table, 0))
<1>1. slot \in Index /\ table[slot].InvokeID = 0
  BY FirstProperty, IndexFacts DEF TransactionAvailable, Holding
<1>2. Reserve(table, id) = [table EXCEPT ![slot] = Reserved(table[slot], id)]
  BY DEF Reserve
<1> HIDE DEF slot
<1>3. Reserved(table[slot], id).InvokeID = id
  BY <1>1, ReservedType DEF WellFormed
<1>4. QED
  BY <1>1, <1>2, <1>3 DEF WellFormed
-----------------------------------------------------------------------------
LEMMA LapInvInit == Init => LapInv
<1> SUFFICES ASSUME Init PROVE Lap
  BY DEF LapInv
<1>1. Len(requests) = 0 /\ DOMAIN requests = {}
  BY DEF Init
<1>2. InTurn
  BY <1>1, TableAssumption DEF Init, InTurn, Successor
<1>3. EntriesKept
  BY DEF Init, EntriesKept, EmptyTable
<1>4. QED
  BY <1>1, <1>2, <1>3 DEF Lap, OwnNumber, FreedByAnswer, DoneAnswered, AttemptsBounded

\* Within the lap the search hands out the IDs one by one.
LEMMA HandedOutInTurn ==
  ASSUME IInv, Lap, Len(requests) < MaxInvokeID
  PROVE  NextUnused(TSM_List, Current_Invoke_ID) = Len(requests) + 1
<1> DEFINE next == Len(requests) + 1
           ahead == {id \in Unused(TSM_List) : id >= Current_Invoke_ID}
<1>1. Len(requests) \in Nat /\ DOMAIN requests = 1 .. Len(requests)
  BY LenProperties DEF IInv
<1>2. Current_Invoke_ID = next /\ next \in InvokeIDs
  <2>1. Current_Invoke_ID = Successor(Len(requests))
    BY DEF Lap, InTurn
  <2> DEFINE n == Len(requests)
  <2>2. n \in Nat /\ n < MaxInvokeID /\ MaxInvokeID \in Nat
    BY <1>1, TableAssumption
  <2> HIDE DEF n
  <2>5. n # MaxInvokeID
    BY <2>2
  <2>3. Successor(Len(requests)) = next
    BY <2>5 DEF Successor, n
  <2>4. QED
    BY <1>1, <2>1, <2>3, TableAssumption DEF InvokeIDs
<1>3. Holding(TSM_List, next) = {}
  <2> SUFFICES ASSUME NEW i \in Index, TSM_List[i].InvokeID = next PROVE FALSE
    BY DEF Holding
  <2>1. next \in DOMAIN requests
    BY <1>1 DEF Lap, EntriesKept, Kept
  <2>2. QED
    BY <1>1, <2>1
<1>4. next \in ahead
  BY <1>1, <1>2, <1>3 DEF Unused
<1>5. ahead \in SUBSET Nat
  BY IndexFacts DEF Unused
<1>6. First(ahead) \in ahead /\ First(ahead) <= next
  BY <1>4, <1>5, FirstProperty
<1>7. First(ahead) = next
  BY <1>1, <1>2, <1>5, <1>6
<1>8. QED
  BY <1>4, <1>7 DEF NextUnused

\* What a history is once a request has been added to it.
LEMMA Appended ==
  ASSUME IInv, NEW record, NEW history, history = Append(requests, record)
  PROVE  /\ Len(requests) \in Nat
         /\ Len(history) = Len(requests) + 1
         /\ DOMAIN requests = 1 .. Len(requests)
         /\ DOMAIN history = 1 .. Len(requests) + 1
         /\ history[Len(requests) + 1] = record
         /\ \A r \in DOMAIN requests : history[r] = requests[r]
<1> DEFINE S == Request \cup {record}
<1>1. requests \in Seq(S)
  BY DEF IInv
<1>2. record \in S
  OBVIOUS
<1> HIDE DEF S
<1>3. /\ history \in Seq(S)
      /\ Len(history) = Len(requests) + 1
      /\ \A r \in 1 .. Len(requests) : history[r] = requests[r]
      /\ history[Len(requests) + 1] = record
  BY <1>1, <1>2, AppendProperties
<1>4. QED
  BY <1>1, <1>3, LenProperties

LEMMA SendRequestLap == IInv /\ LapInv /\ SendRequest => LapInv'
<1> SUFFICES ASSUME IInv, LapInv, SendRequest, Len(requests') <= MaxInvokeID PROVE Lap'
  BY DEF LapInv
<1> DEFINE n == Len(requests)
           id == n + 1
           record == [id |-> id, attempts |-> 1, outcome |-> "waiting"]
           reserved == Reserve(TSM_List, id)
<1>1. requests' = Append(requests,
        [id |-> NextUnused(TSM_List, Current_Invoke_ID), attempts |-> 1, outcome |-> "waiting"])
  BY DEF SendRequest
<1>2. Len(requests') = n + 1 /\ n \in Nat
  BY <1>1, Appended
<1>3. Lap /\ n < MaxInvokeID
  BY <1>2, TableAssumption DEF LapInv
<1>4. NextUnused(TSM_List, Current_Invoke_ID) = id
  BY <1>3, HandedOutInTurn
<1>5. /\ TSM_List' = SetTransaction(reserved, id, id)
      /\ Current_Invoke_ID' = Successor(id)
      /\ requests' = Append(requests, record)
      /\ answered' = answered
      /\ TransactionAvailable(TSM_List)
  BY <1>4 DEF SendRequest
<1>6. id \in InvokeIDs /\ id \in Nat /\ id # 0 /\ Holding(TSM_List, id) = {}
  BY <1>2, <1>3, <1>4, <1>5, NextUnusedProperty, TableAssumption DEF InvokeIDs
<1> HIDE DEF record
<1>7. /\ DOMAIN requests = 1 .. n /\ DOMAIN requests' = 1 .. n + 1
      /\ requests'[id] = record
      /\ \A r \in DOMAIN requests : requests'[r] = requests[r]
  BY <1>5, Appended
<1>8. record.id = id /\ record.attempts = 1 /\ record.outcome = "waiting"
  BY DEF record
<1>9. WellFormed(reserved, Nat) /\ Holding(reserved, id) # {}
  BY <1>5, <1>6, ReserveWellFormed DEF IInv
<1>10. \A i \in Index :
         /\ reserved[i].InvokeID = id \/ reserved[i] = TSM_List[i]
         /\ TSM_List[i].InvokeID # 0 => reserved[i] = TSM_List[i]
  BY <1>5, <1>6, ReserveAdds DEF IInv
<1> HIDE DEF reserved
<1>11. \A i \in Index : reserved[i].InvokeID = id => TSM_List'[i] = Started(reserved[i], id)
  BY <1>5, <1>6, <1>9, FoundWhereHeld DEF WellFormed, SetTransaction
<1>12. \A i \in Index : reserved[i].InvokeID # id => TSM_List'[i] = TSM_List[i]
  BY <1>5, <1>6, <1>9, <1>10, FoundWhereHeld DEF WellFormed, SetTransaction
<1>13. \A i \in Index : reserved[i].InvokeID = id =>
         TSM_List'[i].InvokeID = id /\ Kept(TSM_List'[i], requests')
  <2> SUFFICES ASSUME NEW i \in Index, reserved[i].InvokeID = id
               PROVE  TSM_List'[i].InvokeID = id /\ Kept(TSM_List'[i], requests')
    OBVIOUS
  <2>1. reserved[i] \in Entry(Nat)
    BY <1>9 DEF WellFormed
  <2>2. /\ TSM_List'[i].InvokeID = id
        /\ TSM_List'[i].state = "AWAIT_CONFIRMATION"
        /\ TSM_List'[i].RetryCount = 0
        /\ TSM_List'[i].apdu = id
    BY <1>6, <1>11, <2>1, StartedType, StartedFields
  <2>3. QED
    BY <1>2, <1>7, <1>8, <2>2 DEF Kept
<1>14. EntriesKept'
  <2> SUFFICES ASSUME NEW i \in Index, TSM_List'[i].InvokeID # 0
               PROVE  Kept(TSM_List'[i], requests')
    BY DEF EntriesKept
  <2>1. CASE reserved[i].InvokeID = id
    BY <1>13, <2>1
  <2>2. CASE reserved[i].InvokeID # id
    <3>1. TSM_List'[i] = TSM_List[i]
      BY <1>12, <2>2
    <3>2. Kept(TSM_List[i], requests)
      BY <1>3, <3>1 DEF Lap, EntriesKept
    <3>3. QED
      BY <1>2, <1>7, <3>1, <3>2 DEF Kept
  <2>3. QED
    BY <2>1, <2>2
<1>15. FreedByAnswer'
  <2> SUFFICES ASSUME NEW r \in DOMAIN requests',
                      requests'[r].outcome = "waiting", Holding(TSM_List', r) = {}
               PROVE  r \in answered
    BY <1>5 DEF FreedByAnswer
  <2>1. \A i \in Index : TSM_List'[i].InvokeID # r
    BY DEF Holding
  <2>2. r # id
    BY <1>9, <1>13, <2>1 DEF Holding
  <2>3. r \in DOMAIN requests /\ requests'[r] = requests[r] /\ r # 0
    BY <1>2, <1>7, <2>2
  <2>4. \A i \in Index : TSM_List[i].InvokeID # r
    BY <1>10, <1>12, <2>1, <2>2, <2>3
  <2>5. Holding(TSM_List, r) = {}
    BY <2>4 DEF Holding
  <2>6. QED
    BY <1>3, <2>3, <2>5 DEF Lap, FreedByAnswer
<1>16. OwnNumber' /\ DoneAnswered'
  BY <1>2, <1>3, <1>5, <1>7, <1>8 DEF Lap, OwnNumber, DoneAnswered
<1>17. AttemptsBounded'
  BY <1>2, <1>3, <1>7, <1>8, TableAssumption DEF Lap, AttemptsBounded
<1>18. InTurn'
  BY <1>2, <1>5 DEF InTurn
<1>19. QED
  BY <1>14, <1>15, <1>16, <1>17, <1>18 DEF Lap

LEMMA SendTooLongLap == IInv /\ LapInv /\ SendTooLong => LapInv'
<1> SUFFICES ASSUME IInv, LapInv, SendTooLong, Len(requests') <= MaxInvokeID PROVE Lap'
  BY DEF LapInv
<1> DEFINE n == Len(requests)
           id == n + 1
           record == [id |-> id, attempts |-> 0, outcome |-> "refused"]
           reserved == Reserve(TSM_List, id)
<1>1. requests' = Append(requests,
        [id |-> NextUnused(TSM_List, Current_Invoke_ID), attempts |-> 0, outcome |-> "refused"])
  BY DEF SendTooLong
<1>2. Len(requests') = n + 1 /\ n \in Nat
  BY <1>1, Appended
<1>3. Lap /\ n < MaxInvokeID
  BY <1>2, TableAssumption DEF LapInv
<1>4. NextUnused(TSM_List, Current_Invoke_ID) = id
  BY <1>3, HandedOutInTurn
<1>5. /\ TSM_List' = Free(reserved, id)
      /\ Current_Invoke_ID' = Successor(id)
      /\ requests' = Append(requests, record)
      /\ answered' = answered
      /\ TransactionAvailable(TSM_List)
  BY <1>4 DEF SendTooLong
<1>6. id \in InvokeIDs /\ id \in Nat /\ id # 0 /\ Holding(TSM_List, id) = {}
  BY <1>2, <1>3, <1>4, <1>5, NextUnusedProperty, TableAssumption DEF InvokeIDs
<1> HIDE DEF record
<1>7. /\ DOMAIN requests = 1 .. n /\ DOMAIN requests' = 1 .. n + 1
      /\ requests'[id] = record
      /\ \A r \in DOMAIN requests : requests'[r] = requests[r]
  BY <1>5, Appended
<1>8. record.id = id /\ record.attempts = 0 /\ record.outcome = "refused"
  BY DEF record
<1>9. WellFormed(reserved, Nat)
  BY <1>5, <1>6, ReserveWellFormed DEF IInv
<1>10. \A i \in Index :
         /\ reserved[i].InvokeID = id \/ reserved[i] = TSM_List[i]
         /\ TSM_List[i].InvokeID # 0 => reserved[i] = TSM_List[i]
  BY <1>5, <1>6, ReserveAdds DEF IInv
<1> HIDE DEF reserved
<1>11. \A i \in Index : TSM_List'[i].InvokeID # 0 => TSM_List'[i] = TSM_List[i]
  BY <1>5, <1>9, <1>10, FreeClears
<1>12. \A i \in Index : TSM_List[i].InvokeID \notin {0, id} => TSM_List'[i] = TSM_List[i]
  BY <1>5, <1>9, <1>10, FreeClears
<1>13. EntriesKept'
  <2> SUFFICES ASSUME NEW i \in Index, TSM_List'[i].InvokeID # 0
               PROVE  Kept(TSM_List'[i], requests')
    BY DEF EntriesKept
  <2>1. TSM_List'[i] = TSM_List[i]
    BY <1>11
  <2>2. Kept(TSM_List[i], requests)
    BY <1>3, <2>1 DEF Lap, EntriesKept
  <2>3. QED
    BY <1>2, <1>7, <2>1, <2>2 DEF Kept
<1>14. FreedByAnswer'
  <2> SUFFICES ASSUME NEW r \in DOMAIN requests',
                      requests'[r].outcome = "waiting", Holding(TSM_List', r) = {}
               PROVE  r \in answered
    BY <1>5 DEF FreedByAnswer
  <2>1. r # id
    BY <1>7, <1>8
  <2>2. r \in DOMAIN requests /\ requests'[r] = requests[r] /\ r # 0
    BY <1>2, <1>7, <2>1
  <2>3. \A i \in Index : TSM_List[i].InvokeID # r
    BY <1>12, <2>1, <2>2 DEF Holding
  <2>4. Holding(TSM_List, r) = {}
    BY <2>3 DEF Holding
  <2>5. QED
    BY <1>3, <2>2, <2>4 DEF Lap, FreedByAnswer
<1>15. OwnNumber' /\ DoneAnswered'
  BY <1>2, <1>3, <1>5, <1>7, <1>8 DEF Lap, OwnNumber, DoneAnswered
<1>16. AttemptsBounded'
  BY <1>2, <1>3, <1>7, <1>8, TableAssumption DEF Lap, AttemptsBounded
<1>17. InTurn'
  BY <1>2, <1>5 DEF InTurn
<1>18. QED
  BY <1>13, <1>14, <1>15, <1>16, <1>17 DEF Lap

\* What polling changes of the history.
LEMMA PolledHistory ==
  ASSUME IInv, NEW r \in DOMAIN requests, NEW outcome,
         requests' = [requests EXCEPT ![r].outcome = outcome]
  PROVE  /\ DOMAIN requests' = DOMAIN requests
         /\ requests'[r].outcome = outcome
         /\ requests'[r].id = requests[r].id
         /\ requests'[r].attempts = requests[r].attempts
         /\ \A k \in DOMAIN requests : k # r => requests'[k] = requests[k]
         /\ Len(requests') = Len(requests)
<1> DEFINE settled == [requests[r] EXCEPT !.outcome = outcome]
<1>1. requests[r] \in Request
  BY ElementOfSeq, LenProperties DEF IInv
<1>2. /\ settled.outcome = outcome
      /\ settled.id = requests[r].id
      /\ settled.attempts = requests[r].attempts
  BY <1>1 DEF Request
<1>3. requests' = [requests EXCEPT ![r] = settled]
  OBVIOUS
<1> HIDE DEF settled
<1>4. requests \in [1 .. Len(requests) -> Request] /\ Len(requests) \in Nat
  BY LenProperties DEF IInv
<1>5. DOMAIN requests' = 1 .. Len(requests)
  BY <1>3, <1>4
<1>6. requests' \in Seq(Request \cup {settled})
  BY <1>3, <1>4
<1>7. Len(requests') = Len(requests)
  BY <1>4, <1>5, <1>6, LenProperties
<1>8. QED
  BY <1>2, <1>3, <1>4, <1>5, <1>7

LEMMA PollLap ==
  ASSUME IInv, LapInv, NEW r \in DOMAIN requests, Poll(r)
  PROVE  LapInv'
<1> DEFINE id == requests[r].id
<1>1. PICK outcome \in {"done", "failed"} :
        requests' = [requests EXCEPT ![r].outcome = outcome]
  BY DEF Poll
<1>2. /\ DOMAIN requests' = DOMAIN requests
      /\ requests'[r].outcome = outcome
      /\ requests'[r].id = requests[r].id
      /\ requests'[r].attempts = requests[r].attempts
      /\ \A k \in DOMAIN requests : k # r => requests'[k] = requests[k]
      /\ Len(requests') = Len(requests)
  BY <1>1, PolledHistory
<1> SUFFICES ASSUME Lap PROVE Lap'
  BY <1>2 DEF LapInv
<1>3. id = r /\ requests[r].outcome = "waiting" /\ answered' = answered
      /\ Current_Invoke_ID' = Current_Invoke_ID
  BY DEF Poll, Lap, OwnNumber
<1>4. r # 0 /\ r \in Nat
  BY LenProperties DEF IInv
<1>5. InTurn' /\ OwnNumber'
  BY <1>2, <1>3 DEF Lap, InTurn, OwnNumber
<1>6. \A i \in Index : TSM_List'[i].InvokeID # 0 =>
        TSM_List'[i] = TSM_List[i] /\ TSM_List[i].InvokeID # r
  <2>1. CASE IsFree(TSM_List, id) /\ TSM_List' = TSM_List
    BY <1>3, <2>1, FindIndexProperty DEF Holding
  <2>2. CASE TSM_List' = Free(TSM_List, id)
    BY <1>3, <2>2, FreeClears DEF IInv
  <2>3. QED
    BY <2>1, <2>2 DEF Poll
<1>7. EntriesKept'
  <2> SUFFICES ASSUME NEW i \in Index, TSM_List'[i].InvokeID # 0
               PROVE  Kept(TSM_List'[i], requests')
    BY DEF EntriesKept
  <2>1. TSM_List'[i] = TSM_List[i] /\ TSM_List[i].InvokeID # r /\ TSM_List[i].InvokeID # 0
    BY <1>6
  <2>2. Kept(TSM_List[i], requests)
    BY <2>1 DEF Lap, EntriesKept
  <2>3. QED
    BY <1>2, <2>1, <2>2 DEF Kept
<1>8. FreedByAnswer'
  <2> SUFFICES ASSUME NEW k \in DOMAIN requests,
                      requests'[k].outcome = "waiting", Holding(TSM_List', k) = {}
               PROVE  k \in answered
    BY <1>2, <1>3 DEF FreedByAnswer
  <2>1. k # r /\ requests'[k] = requests[k] /\ k # 0
    BY <1>1, <1>2, LenProperties DEF IInv
  <2>2. \A i \in Index : TSM_List[i].InvokeID = k => TSM_List'[i] = TSM_List[i]
    BY <1>3, <2>1, FreeClears DEF IInv, Poll
  <2>3. \A i \in Index : TSM_List[i].InvokeID # k
    BY <2>2 DEF Holding
  <2>4. Holding(TSM_List, k) = {}
    BY <2>3 DEF Holding
  <2>5. QED
    BY <2>1, <2>4 DEF Lap, FreedByAnswer
<1>9. outcome = "done" => r \in answered
  <2> SUFFICES ASSUME outcome = "done" PROVE r \in answered
    OBVIOUS
  <2>1. IsFree(TSM_List, r)
    <3>1. requests'[r].outcome # "failed"
      BY <1>2
    <3>2. requests' # [requests EXCEPT ![r].outcome = "failed"]
      BY <3>1, PolledHistory
    <3>3. QED
      BY <1>3, <3>2 DEF Poll
  <2>2. Holding(TSM_List, r) = {}
    BY <2>1, FindIndexProperty
  <2>3. QED
    BY <1>3, <2>2 DEF Lap, FreedByAnswer
<1>10. outcome = "failed" => requests[r].attempts = 1 + Retries
  <2> SUFFICES ASSUME outcome = "failed" PROVE requests[r].attempts = 1 + Retries
    OBVIOUS
  <2>1. IsFailed(TSM_List, r)
    <3>1. requests'[r].outcome # "done"
      BY <1>2
    <3>2. requests' # [requests EXCEPT ![r].outcome = "done"]
      BY <3>1, PolledHistory
    <3>3. QED
      BY <1>3, <3>2 DEF Poll
  <2> DEFINE f == FindIndex(TSM_List, r)
  <2>2. f \in Index /\ TSM_List[f].InvokeID = r /\ TSM_List[f].state = "IDLE"
    BY <2>1, FindIndexProperty DEF IsFailed
  <2>3. Kept(TSM_List[f], requests)
    BY <1>4, <2>2 DEF Lap, EntriesKept
  <2>4. QED
    BY <2>2, <2>3, TableAssumption DEF Kept
<1>11. DoneAnswered'
  BY <1>2, <1>3, <1>9 DEF Lap, DoneAnswered
<1>12. AttemptsBounded'
  BY <1>2, <1>10 DEF Lap, AttemptsBounded
<1>13. QED
  BY <1>5, <1>7, <1>8, <1>11, <1>12 DEF Lap

LEMMA TimerLap == IInv /\ LapInv /\ Timer => LapInv'
<1> SUFFICES ASSUME IInv, LapInv, Timer PROVE LapInv'
  OBVIOUS
<1> DEFINE sent(r) == \E i \in Resent(TSM_List) : TSM_List[i].apdu = r
<1>1. DOMAIN requests = 1 .. Len(requests) /\ Len(requests) \in Nat
  BY LenProperties DEF IInv
<1>2. \A r \in DOMAIN requests :
        requests'[r] = IF sent(r) THEN [requests[r] EXCEPT !.attempts = requests[r].attempts + 1]
                       ELSE requests[r]
  BY DEF Timer
<1>3. DOMAIN requests' = DOMAIN requests /\ Len(requests') = Len(requests)
  <2>1. DOMAIN requests' = DOMAIN requests
    BY DEF Timer
  <2>2. requests' \in Seq(Request)
    BY TimerStep DEF IInv
  <2>3. QED
    BY <1>1, <2>1, <2>2, LenProperties
<1>4. \A r \in DOMAIN requests :
        /\ requests'[r].id = requests[r].id
        /\ requests'[r].outcome = requests[r].outcome
        /\ sent(r) => requests'[r].attempts = requests[r].attempts + 1
        /\ ~sent(r) => requests'[r].attempts = requests[r].attempts
  <2> SUFFICES ASSUME NEW r \in DOMAIN requests
               PROVE  /\ requests'[r].id = requests[r].id
                      /\ requests'[r].outcome = requests[r].outcome
                      /\ sent(r) => requests'[r].attempts = requests[r].attempts + 1
                      /\ ~sent(r) => requests'[r].attempts = requests[r].attempts
    OBVIOUS
  <2>1. requests[r] \in Request
    BY ElementOfSeq, <1>1 DEF IInv
  <2> HIDE DEF sent
  <2>2. QED
    BY <1>2, <2>1 DEF Request
<1> SUFFICES ASSUME Lap PROVE Lap'
  BY <1>3 DEF LapInv
<1>5. \A i \in Index : TSM_List[i] \in Entry(Nat) /\ TSM_List'[i] = Timed(TSM_List[i])
  BY DEF Timer, TimerCall, IInv, WellFormed
<1>6. \A i \in Index : TSM_List'[i].InvokeID = TSM_List[i].InvokeID
  BY <1>5, TimedProperty DEF IInv, WellFormed, PendingHeld
<1>7. \A j \in Resent(TSM_List) :
        /\ j \in Index
        /\ TSM_List[j].InvokeID # 0
        /\ Kept(TSM_List[j], requests)
        /\ TSM_List[j].RetryCount < Retries
  BY DEF Resent, Expires, RetriesLeft, IInv, WellFormed, PendingHeld, Lap, EntriesKept
\* Of an entry in use the timer sends the request the entry is for, and no other entry does.
<1>8. \A i \in Index : TSM_List[i].InvokeID # 0 =>
        (sent(TSM_List[i].InvokeID) <=> i \in Resent(TSM_List))
  <2> SUFFICES ASSUME NEW i \in Index, TSM_List[i].InvokeID # 0
               PROVE  sent(TSM_List[i].InvokeID) <=> i \in Resent(TSM_List)
    OBVIOUS
  <2>1. Kept(TSM_List[i], requests)
    BY DEF Lap, EntriesKept
  <2>2. ASSUME NEW j \in Resent(TSM_List), TSM_List[j].apdu = TSM_List[i].InvokeID
        PROVE  j = i
    BY <1>7, <2>2 DEF Kept, IInv, WellFormed, UniqueIDs
  <2>3. QED
    BY <2>1, <2>2 DEF Kept
<1> HIDE DEF sent
<1>9. EntriesKept'
  <2> SUFFICES ASSUME NEW i \in Index, TSM_List'[i].InvokeID # 0
               PROVE  Kept(TSM_List'[i], requests')
    BY DEF EntriesKept
  <2> DEFINE old == TSM_List[i]
             k   == old.InvokeID
  <2>1. k # 0 /\ TSM_List'[i].InvokeID = k /\ TSM_List'[i] = Timed(old) /\ old \in Entry(Nat)
    BY <1>5, <1>6
  <2>2. Kept(old, requests)
    BY <2>1 DEF Lap, EntriesKept
  <2>3. sent(k) <=> Expires(old) /\ RetriesLeft(old)
    BY <1>8, <2>1 DEF Resent
  <2>4. /\ Timed(old).apdu = old.apdu
        /\ sent(k) => Timed(old).RetryCount = old.RetryCount + 1
        /\ ~sent(k) => Timed(old).RetryCount = old.RetryCount
        /\ Timed(old).state = "IDLE" => old.state = "IDLE" \/ Timed(old).RetryCount = Retries
    BY <2>1, <2>3, TimedFields
  <2>5. old.RetryCount \in Nat /\ (old.state = "IDLE" => ~sent(k))
    BY <2>1, <2>3, TableAssumption DEF Entry, Expires
  <2> HIDE DEF old, k
  <2>6. Timed(old).state = "IDLE" => Timed(old).RetryCount = Retries
    BY <2>2, <2>4, <2>5 DEF Kept
  <2>7. k \in DOMAIN requests /\ requests'[k].outcome = "waiting"
        /\ requests[k].attempts = old.RetryCount + 1
    BY <1>4, <2>2 DEF Kept, k
  <2>8. requests'[k].attempts = Timed(old).RetryCount + 1
    BY <1>4, <2>4, <2>5, <2>7
  <2>9. Timed(old).apdu = k
    BY <2>2, <2>4 DEF Kept, k
  <2>10. QED
    BY <1>3, <2>1, <2>6, <2>7, <2>8, <2>9 DEF Kept
<1>10. FreedByAnswer'
  <2>1. \A r : Holding(TSM_List', r) = Holding(TSM_List, r)
    BY <1>6 DEF Holding
  <2>2. answered' = answered
    BY DEF Timer
  <2>3. QED
    BY <1>3, <1>4, <2>1, <2>2 DEF Lap, FreedByAnswer
<1>11. AttemptsBounded'
  <2> SUFFICES ASSUME NEW r \in DOMAIN requests
               PROVE  /\ requests'[r].attempts <= 1 + Retries
                      /\ requests'[r].outcome = "failed" => requests'[r].attempts = 1 + Retries
    BY <1>3 DEF AttemptsBounded
  <2>1. CASE ~sent(r)
    BY <1>4, <2>1 DEF Lap, AttemptsBounded
  <2>2. CASE sent(r)
    <3>1. PICK j \in Resent(TSM_List) : TSM_List[j].apdu = r
      BY <2>2 DEF sent
    <3>2. /\ requests[r].attempts = TSM_List[j].RetryCount + 1
          /\ requests[r].outcome = "waiting"
          /\ TSM_List[j].RetryCount < Retries
          /\ TSM_List[j].RetryCount \in Nat
      BY <1>5, <1>7, <3>1, TableAssumption DEF Kept, Entry
    <3>3. QED
      BY <1>4, <2>2, <3>2, TableAssumption
  <2>3. QED
    BY <2>1, <2>2
<1>12. InTurn' /\ OwnNumber' /\ DoneAnswered'
  BY <1>3, <1>4 DEF Timer, Lap, InTurn, OwnNumber, DoneAnswered
<1>13. QED
  BY <1>9, <1>10, <1>11, <1>12 DEF Lap

LEMMA AnswerLap ==
  ASSUME IInv, LapInv, NEW r \in DOMAIN requests, Answer(r)
  PROVE  LapInv'
<1> SUFFICES ASSUME Lap PROVE Lap'
  BY DEF LapInv, Answer
<1>1. /\ TSM_List' = Free(TSM_List, r) /\ requests' = requests
      /\ Current_Invoke_ID' = Current_Invoke_ID /\ answered' = answered \cup {r}
  BY DEF Answer, Lap, OwnNumber
<1>2. EntriesKept'
  BY <1>1, FreeClears DEF IInv, Lap, EntriesKept
<1>3. FreedByAnswer'
  <2> SUFFICES ASSUME NEW k \in DOMAIN requests, k # r,
                      requests[k].outcome = "waiting", Holding(TSM_List', k) = {}
               PROVE  k \in answered
    BY <1>1 DEF FreedByAnswer
  <2>1. k # 0
    BY LenProperties DEF IInv
  <2>2. \A i \in Index : TSM_List[i].InvokeID # k
    BY <1>1, <2>1, FreeClears DEF IInv, Holding
  <2>3. Holding(TSM_List, k) = {}
    BY <2>2 DEF Holding
  <2>4. QED
    BY <2>3 DEF Lap, FreedByAnswer
<1>4. QED
  BY <1>1, <1>2, <1>3 DEF Lap, InTurn, OwnNumber, DoneAnswered, AttemptsBounded

LEMMA SegmentAckLap == IInv /\ LapInv /\ SegmentAck => LapInv'
<1> SUFFICES ASSUME IInv, SegmentAck, Lap PROVE Lap'
  BY DEF LapInv, SegmentAck
<1>1. /\ TSM_List' = Free(TSM_List, 0) /\ requests' = requests
      /\ Current_Invoke_ID' = Current_Invoke_ID /\ answered' = answered
  BY DEF SegmentAck
<1>2. EntriesKept'
  BY <1>1, FreeClears DEF IInv, Lap, EntriesKept
<1>3. FreedByAnswer'
  <2> SUFFICES ASSUME NEW k \in DOMAIN requests,
                      requests[k].outcome = "waiting", Holding(TSM_List', k) = {}
               PROVE  k \in answered
    BY <1>1 DEF FreedByAnswer
  <2>1. k # 0
    BY LenProperties DEF IInv
  <2>2. \A i \in Index : TSM_List[i].InvokeID # k
    BY <1>1, <2>1, FreeClears DEF IInv, Holding
  <2>3. Holding(TSM_List, k) = {}
    BY <2>2 DEF Holding
  <2>4. QED
    BY <2>3 DEF Lap, FreedByAnswer
<1>4. QED
  BY <1>1, <1>2, <1>3 DEF Lap, InTurn, OwnNumber, DoneAnswered, AttemptsBounded

LEMMA LapInvStep == IInv /\ LapInv /\ [Next]_vars => LapInv'
<1> SUFFICES ASSUME IInv, LapInv, [Next]_vars PROVE LapInv'
  OBVIOUS
<1>1. CASE SendRequest
  BY <1>1, SendRequestLap
<1>2. CASE SendTooLong
  BY <1>2, SendTooLongLap
<1>3. CASE \E r \in DOMAIN requests : Poll(r)
  BY <1>3, PollLap
<1>4. CASE Timer
  BY <1>4, TimerLap
<1>5. CASE \E r \in DOMAIN requests : Answer(r)
  BY <1>5, AnswerLap
<1>6. CASE SegmentAck
  BY <1>6, SegmentAckLap
<1>7. CASE UNCHANGED vars
  BY <1>7 DEF vars, LapInv, Lap, InTurn, OwnNumber, EntriesKept, FreedByAnswer,
              DoneAnswered, AttemptsBounded, Kept, Holding
<1>8. QED
  BY <1>1, <1>2, <1>3, <1>4, <1>5, <1>6, <1>7 DEF Next

THEOREM LapInvariant == Spec => []LapInv
BY LapInvInit, LapInvStep, InductiveInvariant, PTL DEF Spec

\* A user that finds its invoke ID free (tsm_invoke_id_free) has been answered, whatever
\* answers come late or twice, until the IDs are handed out a second time.
THEOREM DoneIsAnswered == Spec => []DoneMeansAnswered
<1>1. LapInv => DoneMeansAnswered
  BY DEF LapInv, Lap, DoneAnswered, DoneMeansAnswered
<1>2. QED
  BY <1>1, LapInvariant, PTL

\* tsm_timer_milliseconds sends a request 1 + Number_Of_Retries times before it gives it up,
\* and never more often.
THEOREM FailedAfterAllRetries == Spec => []FailedMeansAllRetries
<1>1. LapInv => FailedMeansAllRetries
  BY DEF LapInv, Lap, AttemptsBounded, FailedMeansAllRetries
<1>2. QED
  BY <1>1, LapInvariant, PTL

-----------------------------------------------------------------------------
(***************************************************************************)
(* The table with its timers and its search implements the ledger of        *)
(* invoke IDs: the initial table is the empty ledger, and every step of the  *)
(* user, the timer or the network is a step of the ledger or changes        *)
(* nothing in it.                                                          *)
(***************************************************************************)

\* What the ledger shows of an ID, as a function of the table.
FreeRow == [status |-> "free", sent |-> 0]
Row(entry) == [status |-> IF entry.state = "IDLE" THEN "failed" ELSE "pending",
               sent   |-> entry.RetryCount + 1]
Shown(table, id) ==
  IF IsFree(table, id) THEN FreeRow ELSE Row(table[FindIndex(table, id)])

View == [id \in InvokeIDs |-> LedgerEntry(id)]

LEMMA ViewShows == View = [id \in InvokeIDs |-> Shown(TSM_List, id)]
BY DEF View, LedgerEntry, Shown, FreeRow, Row

LEMMA ShownHeld ==
  ASSUME NEW table, UniqueIDs(table), NEW id, id # 0,
         NEW i \in Index, table[i].InvokeID = id
  PROVE  Shown(table, id) = Row(table[i])
<1>1. i = FindIndex(table, id)
  BY FoundWhereHeld
<1>2. ~IsFree(table, id)
  BY <1>1, IndexFacts DEF IsFree
<1>3. QED
  BY <1>1, <1>2 DEF Shown

LEMMA ShownFree ==
  ASSUME NEW table, NEW id, Holding(table, id) = {}
  PROVE  Shown(table, id) = FreeRow
BY FindIndexProperty DEF Shown

\* The ledger shows the same of an ID whose entry stays as it is.
LEMMA SameShown ==
  ASSUME NEW old, NEW new, UniqueIDs(old), UniqueIDs(new), NEW id, id # 0,
         \A i \in Index : old[i].InvokeID = id \/ new[i].InvokeID = id => new[i] = old[i]
  PROVE  Shown(new, id) = Shown(old, id)
<1>1. CASE Holding(old, id) = {}
  <2>1. Holding(new, id) = {}
    BY <1>1 DEF Holding
  <2>2. QED
    BY <1>1, <2>1, ShownFree
<1>2. CASE Holding(old, id) # {}
  <2>1. PICK i \in Index : old[i].InvokeID = id
    BY <1>2 DEF Holding
  <2>2. new[i] = old[i]
    BY <2>1
  <2>3. QED
    BY <2>1, <2>2, ShownHeld
<1>3. QED
  BY <1>1, <1>2

\* An ID is busy in the ledger when an entry holds it.
LEMMA BusyIsHeld ==
  ASSUME UniqueIDs(TSM_List), NEW id \in InvokeIDs
  PROVE  id \in Ledger!Busy <=> Holding(TSM_List, id) # {}
<1>1. id \in Ledger!Busy <=> Shown(TSM_List, id).status # "free"
  BY ViewShows DEF Ledger!Busy, View
<1>2. CASE Holding(TSM_List, id) = {}
  BY <1>1, <1>2, ShownFree DEF FreeRow
<1>3. CASE Holding(TSM_List, id) # {}
  <2>1. PICK i \in Index : TSM_List[i].InvokeID = id
    BY <1>3 DEF Holding
  <2>2. Shown(TSM_List, id) = Row(TSM_List[i])
    BY <2>1, ShownHeld, IndexFacts
  <2>3. QED
    BY <1>1, <1>3, <2>2 DEF Row
<1>4. QED
  BY <1>2, <1>3

\* While an entry is free, fewer IDs are busy than there are entries.
LEMMA RoomInLedger ==
  ASSUME UniqueIDs(TSM_List), TransactionAvailable(TSM_List)
  PROVE  Ledger!Cardinality(Ledger!Busy) < MaxTransactions
<1>0. Ledger!Cardinality(Ledger!Busy) = Cardinality(Ledger!Busy)
  BY DEF Ledger!Cardinality, Cardinality
<1> SUFFICES Cardinality(Ledger!Busy) < MaxTransactions
  BY <1>0
<1>1. PICK free \in Index : TSM_List[free].InvokeID = 0
  BY DEF TransactionAvailable, Holding
<1> DEFINE busy   == Ledger!Busy
           others == Index \ {free}
           holder == [id \in busy |-> CHOOSE i \in Index : TSM_List[i].InvokeID = id]
<1>2. IsFiniteSet(others) /\ Cardinality(others) = MaxTransactions - 1
  <2>1. IsFiniteSet(Index) /\ Cardinality(Index) = MaxTransactions
    BY FS_Interval, TableAssumption DEF Index
  <2>2. QED
    BY <1>1, <2>1, FS_RemoveElement
<1>3. busy \subseteq InvokeIDs
  BY DEF Ledger!Busy
<1>4. \A id \in busy : holder[id] \in others /\ TSM_List[holder[id]].InvokeID = id
  <2> SUFFICES ASSUME NEW id \in busy
               PROVE  holder[id] \in others /\ TSM_List[holder[id]].InvokeID = id
    OBVIOUS
  <2>1. \E i \in Index : TSM_List[i].InvokeID = id
    BY <1>3, BusyIsHeld DEF Holding
  <2>2. holder[id] \in Index /\ TSM_List[holder[id]].InvokeID = id
    BY <2>1
  <2>3. QED
    BY <1>1, <1>3, <2>2, IndexFacts
<1>5. holder \in [busy -> others]
  BY <1>4
<1> HIDE DEF busy, others, holder
<1>6. holder \in Injection(busy, others)
  BY <1>4, <1>5 DEF Injection, IsInjective
<1>7. IsFiniteSet(busy) /\ Cardinality(busy) <= Cardinality(others)
  BY <1>2, <1>6, FS_Injection
<1>8. Cardinality(busy) \in Nat
  BY <1>7, FS_CardinalityType
<1>9. QED
  BY <1>2, <1>7, <1>8, TableAssumption DEF busy

-----------------------------------------------------------------------------
\* The steps that change nothing, and the three that do, in terms of what is shown.
LEMMA Unchanged ==
  ASSUME \A id \in InvokeIDs : Shown(TSM_List', id) = Shown(TSM_List, id)
  PROVE  View' = View
BY ViewShows DEF View, LedgerEntry, Shown, FreeRow, Row

LEMMA PrimedView == View' = [id \in InvokeIDs |-> Shown(TSM_List', id)]
BY DEF View, LedgerEntry, Shown, FreeRow, Row

\* Freeing an ID releases it, if it is busy; otherwise nothing changes.
LEMMA FreeReleases ==
  ASSUME WellFormed(TSM_List, Nat), NEW id \in InvokeIDs, TSM_List' = Free(TSM_List, id)
  PROVE  Ledger!Release(id) \/ View' = View
<1>1. UniqueIDs(TSM_List) /\ UniqueIDs(TSM_List')
  BY FreeWellFormed DEF WellFormed
<1>2. \A k \in InvokeIDs : k # id => Shown(TSM_List', k) = Shown(TSM_List, k)
  <2> SUFFICES ASSUME NEW k \in InvokeIDs, k # id
               PROVE  Shown(TSM_List', k) = Shown(TSM_List, k)
    OBVIOUS
  <2>1. k # 0
    BY IndexFacts
  <2>2. \A i \in Index : TSM_List[i].InvokeID = k \/ TSM_List'[i].InvokeID = k =>
          TSM_List'[i] = TSM_List[i]
    BY <2>1, FreeClears
  <2>3. QED
    BY <1>1, <2>1, <2>2, SameShown
<1>3. Holding(TSM_List', id) = {}
  <2>1. \A i \in Index : TSM_List'[i].InvokeID # id
    BY FreeClears, IndexFacts
  <2>2. QED
    BY <2>1 DEF Holding
<1>4. Shown(TSM_List', id) = FreeRow
  BY <1>3, ShownFree
<1>5. CASE Holding(TSM_List, id) = {}
  <2>1. Shown(TSM_List, id) = FreeRow
    BY <1>5, ShownFree
  <2>2. QED
    BY <1>2, <1>4, <2>1, Unchanged
<1>6. CASE Holding(TSM_List, id) # {}
  <2>1. id \in Ledger!Busy
    BY <1>1, <1>6, BusyIsHeld
  <2>2. View' = [View EXCEPT ![id] = FreeRow]
    BY <1>2, <1>4, ViewShows, PrimedView
  <2>3. QED
    BY <2>1, <2>2 DEF Ledger!Release, View, FreeRow
<1>7. QED
  BY <1>5, <1>6

LEMMA InitLedger == Init => Ledger!Init
<1> SUFFICES ASSUME Init PROVE Ledger!Init
  OBVIOUS
<1>1. \A id \in InvokeIDs : Holding(TSM_List, id) = {}
  BY IndexFacts DEF Init, EmptyTable, Holding
<1>2. View = [id \in InvokeIDs |-> FreeRow]
  BY <1>1, ShownFree, ViewShows
<1>3. QED
  BY <1>2 DEF Ledger!Init, View, FreeRow

LEMMA SendRequestLedger == IInv /\ SendRequest => \E id \in InvokeIDs : Ledger!Begin(id)
<1> SUFFICES ASSUME IInv, SendRequest PROVE \E id \in InvokeIDs : Ledger!Begin(id)
  OBVIOUS
<1> DEFINE id == NextUnused(TSM_List, Current_Invoke_ID)
           r  == Len(requests) + 1
           reserved == Reserve(TSM_List, id)
<1>1. TransactionAvailable(TSM_List) /\ TSM_List' = SetTransaction(reserved, id, r)
  BY DEF SendRequest
<1>2. id \in InvokeIDs /\ id # 0 /\ Holding(TSM_List, id) = {} /\ r \in Nat
  BY <1>1, NextUnusedProperty, LenProperties DEF IInv
<1> HIDE DEF id, r
<1>3. WellFormed(reserved, Nat) /\ Holding(reserved, id) # {}
  BY <1>1, <1>2, ReserveWellFormed DEF IInv
<1>4. \A i \in Index :
        /\ reserved[i].InvokeID = id \/ reserved[i] = TSM_List[i]
        /\ TSM_List[i].InvokeID # 0 => reserved[i] = TSM_List[i]
  BY <1>1, <1>2, ReserveAdds DEF IInv
<1> HIDE DEF reserved
<1>5. UniqueIDs(TSM_List) /\ UniqueIDs(TSM_List')
  BY <1>1, <1>2, <1>3, SetTransactionWellFormed DEF IInv, WellFormed
<1>6. \A i \in Index : reserved[i].InvokeID = id => TSM_List'[i] = Started(reserved[i], r)
  BY <1>1, <1>2, <1>3, FoundWhereHeld DEF WellFormed, SetTransaction
<1>7. \A i \in Index : reserved[i].InvokeID # id => TSM_List'[i] = TSM_List[i]
  BY <1>1, <1>2, <1>3, <1>4, FoundWhereHeld DEF WellFormed, SetTransaction
<1>8. \A i \in Index : reserved[i].InvokeID = id =>
        /\ TSM_List'[i].InvokeID = id
        /\ TSM_List'[i].state = "AWAIT_CONFIRMATION"
        /\ TSM_List'[i].RetryCount = 0
  BY <1>2, <1>3, <1>6, StartedType, StartedFields DEF WellFormed
<1>9. \A k \in InvokeIDs : k # id => Shown(TSM_List', k) = Shown(TSM_List, k)
  <2> SUFFICES ASSUME NEW k \in InvokeIDs, k # id
               PROVE  Shown(TSM_List', k) = Shown(TSM_List, k)
    OBVIOUS
  <2>1. k # 0
    BY IndexFacts
  <2>2. \A i \in Index : TSM_List[i].InvokeID = k \/ TSM_List'[i].InvokeID = k =>
          TSM_List'[i] = TSM_List[i]
    BY <1>4, <1>7, <1>8, <2>1
  <2>3. QED
    BY <1>5, <2>1, <2>2, SameShown
<1>10. Shown(TSM_List', id) = [status |-> "pending", sent |-> 1]
  <2>1. PICK i \in Index : reserved[i].InvokeID = id
    BY <1>3 DEF Holding
  <2>2. Shown(TSM_List', id) = Row(TSM_List'[i])
    BY <1>2, <1>5, <1>8, <2>1, ShownHeld
  <2>3. QED
    BY <1>8, <2>1, <2>2 DEF Row
<1>11. View' = [View EXCEPT ![id] = [status |-> "pending", sent |-> 1]]
  BY <1>2, <1>9, <1>10, ViewShows, PrimedView
<1>12. id \notin Ledger!Busy /\ Ledger!Cardinality(Ledger!Busy) < MaxTransactions
  BY <1>1, <1>2, <1>5, BusyIsHeld, RoomInLedger
<1>13. Ledger!Begin(id)
  BY <1>11, <1>12 DEF Ledger!Begin, View
<1>14. QED
  BY <1>2, <1>13

\* An ID given up before the request is sent was free before and is free again.
LEMMA SendTooLongLedger == IInv /\ SendTooLong => View' = View
<1> SUFFICES ASSUME IInv, SendTooLong PROVE View' = View
  OBVIOUS
<1> DEFINE id == NextUnused(TSM_List, Current_Invoke_ID)
           reserved == Reserve(TSM_List, id)
<1>1. TransactionAvailable(TSM_List) /\ TSM_List' = Free(reserved, id)
  BY DEF SendTooLong
<1>2. id \in InvokeIDs /\ id # 0 /\ Holding(TSM_List, id) = {}
  BY <1>1, NextUnusedProperty
<1> HIDE DEF id
<1>3. WellFormed(reserved, Nat)
  BY <1>1, <1>2, ReserveWellFormed DEF IInv
<1>4. \A i \in Index :
        /\ reserved[i].InvokeID = id \/ reserved[i] = TSM_List[i]
        /\ TSM_List[i].InvokeID # 0 => reserved[i] = TSM_List[i]
  BY <1>1, <1>2, ReserveAdds DEF IInv
<1> HIDE DEF reserved
<1>5. UniqueIDs(TSM_List) /\ UniqueIDs(TSM_List')
  BY <1>1, <1>3, FreeWellFormed DEF IInv, WellFormed
<1>6. \A i \in Index : TSM_List[i].InvokeID # id
  BY <1>2 DEF Holding
<1>7. \A i \in Index : TSM_List[i].InvokeID # 0 \/ TSM_List'[i].InvokeID # 0 =>
        TSM_List'[i] = TSM_List[i]
  BY <1>1, <1>3, <1>4, <1>6, FreeClears
<1>8. \A k \in InvokeIDs : Shown(TSM_List', k) = Shown(TSM_List, k)
  BY <1>5, <1>7, SameShown, IndexFacts
<1>9. QED
  BY <1>8, Unchanged

LEMMA PollLedger ==
  ASSUME IInv, NEW r \in DOMAIN requests, Poll(r)
  PROVE  (\E id \in InvokeIDs : Ledger!Release(id)) \/ View' = View
<1>1. requests[r].id \in InvokeIDs
  <2>1. requests[r] \in Request
    BY ElementOfSeq, LenProperties DEF IInv
  <2>2. QED
    BY <2>1 DEF Request
<1>2. CASE TSM_List' = TSM_List
  BY <1>2, ViewShows, PrimedView
<1>3. CASE TSM_List' = Free(TSM_List, requests[r].id)
  BY <1>1, <1>3, FreeReleases DEF IInv
<1>4. QED
  BY <1>2, <1>3 DEF Poll

LEMMA AnswerLedger ==
  ASSUME IInv, NEW r \in DOMAIN requests, Answer(r)
  PROVE  (\E id \in InvokeIDs : Ledger!Release(id)) \/ View' = View
<1>1. requests[r].id \in InvokeIDs
  <2>1. requests[r] \in Request
    BY ElementOfSeq, LenProperties DEF IInv
  <2>2. QED
    BY <2>1 DEF Request
<1>2. QED
  BY <1>1, FreeReleases DEF IInv, Answer

LEMMA SegmentAckLedger == IInv /\ SegmentAck => View' = View
<1> SUFFICES ASSUME IInv, SegmentAck PROVE View' = View
  OBVIOUS
<1>1. TSM_List' = Free(TSM_List, 0)
  BY DEF SegmentAck
<1>2. UniqueIDs(TSM_List) /\ UniqueIDs(TSM_List')
  BY <1>1, FreeWellFormed DEF IInv, WellFormed
<1>3. \A i \in Index : TSM_List[i].InvokeID # 0 \/ TSM_List'[i].InvokeID # 0 =>
        TSM_List'[i] = TSM_List[i]
  BY <1>1, FreeClears DEF IInv
<1>4. \A k \in InvokeIDs : Shown(TSM_List', k) = Shown(TSM_List, k)
  BY <1>2, <1>3, SameShown, IndexFacts
<1>5. QED
  BY <1>4, Unchanged
-----------------------------------------------------------------------------
\* What one call of the timer changes in what is shown of an entry.
LEMMA TimedRow ==
  ASSUME NEW entry \in Entry(Nat)
  PROVE  Row(Timed(entry)) =
           IF ~Expires(entry) THEN Row(entry)
           ELSE IF Row(entry).sent <= Retries THEN Ledger!Resend(Row(entry))
           ELSE Ledger!GiveUp(Row(entry))
<1>1. CASE entry.state # "AWAIT_CONFIRMATION"
  BY <1>1 DEF Timed, Expires
<1>2. CASE entry.state = "AWAIT_CONFIRMATION" /\ ~Expires(entry)
  <2>1. Timed(entry) = [entry EXCEPT !.RequestTimer = entry.RequestTimer - 1]
    BY <1>2 DEF Timed, Elapse
  <2>2. Timed(entry).state = entry.state /\ Timed(entry).RetryCount = entry.RetryCount
    BY <2>1 DEF Entry
  <2>3. QED
    BY <1>2, <2>2 DEF Row
<1>3. CASE entry.state = "AWAIT_CONFIRMATION" /\ Expires(entry) /\ RetriesLeft(entry)
  <2>1. Timed(entry) = Resend(entry)
    BY <1>3 DEF Timed
  <2>2. Timed(entry).state = entry.state /\ Timed(entry).RetryCount = entry.RetryCount + 1
    BY <2>1, ResendFields
  <2>3. Row(entry).sent <= Retries
    BY <1>3, TableAssumption DEF Row, RetriesLeft, Entry
  <2>4. Row(Timed(entry)) = Ledger!Resend(Row(entry))
    BY <1>3, <2>2 DEF Row, Ledger!Resend
  <2>5. QED
    BY <1>3, <2>3, <2>4
<1>4. CASE entry.state = "AWAIT_CONFIRMATION" /\ Expires(entry) /\ ~RetriesLeft(entry)
  <2>1. Timed(entry) = GiveUp(entry)
    BY <1>4 DEF Timed
  <2>2. Timed(entry).state = "IDLE" /\ Timed(entry).RetryCount = entry.RetryCount
    BY <2>1, GiveUpFields, GiveUpType
  <2>3. ~(Row(entry).sent <= Retries)
    BY <1>4, TableAssumption DEF Row, RetriesLeft, Entry
  <2>4. Row(Timed(entry)) = Ledger!GiveUp(Row(entry))
    BY <1>4, <2>2 DEF Row, Ledger!GiveUp
  <2>5. QED
    BY <1>4, <2>3, <2>4
<1>5. QED
  BY <1>1, <1>2, <1>3, <1>4

LEMMA TimerLedger == IInv /\ Timer => Ledger!Elapse
<1> SUFFICES ASSUME IInv, Timer PROVE Ledger!Elapse
  OBVIOUS
<1> DEFINE expired(id) == \E i \in Index : TSM_List[i].InvokeID = id /\ Expires(TSM_List[i])
           due == {id \in Ledger!Busy : View[id].status = "pending" /\ expired(id)}
<1>1. UniqueIDs(TSM_List) /\ UniqueIDs(TSM_List')
  BY TimerStep DEF IInv, WellFormed
<1>2. \A i \in Index :
        /\ TSM_List[i] \in Entry(Nat)
        /\ TSM_List'[i] = Timed(TSM_List[i])
        /\ TSM_List'[i].InvokeID = TSM_List[i].InvokeID
  BY TimedProperty DEF Timer, TimerCall, IInv, WellFormed, PendingHeld
<1>3. ASSUME NEW id \in InvokeIDs
      PROVE  Shown(TSM_List', id) =
               IF id \notin due THEN View[id]
               ELSE IF View[id].sent <= Retries THEN Ledger!Resend(View[id])
               ELSE Ledger!GiveUp(View[id])
  <2>0. View[id] = Shown(TSM_List, id) /\ id # 0
    BY ViewShows, IndexFacts
  <2>1. CASE Holding(TSM_List, id) = {}
    <3>1. Holding(TSM_List', id) = {}
      BY <1>2, <2>1 DEF Holding
    <3>2. id \notin due
      BY <1>1, <2>1, BusyIsHeld
    <3>3. QED
      BY <2>0, <2>1, <3>1, <3>2, ShownFree
  <2>2. CASE Holding(TSM_List, id) # {}
    <3>1. PICK i \in Index : TSM_List[i].InvokeID = id
      BY <2>2 DEF Holding
    <3>2. View[id] = Row(TSM_List[i])
      BY <1>1, <2>0, <3>1, ShownHeld
    <3>3. Shown(TSM_List', id) = Row(Timed(TSM_List[i]))
      BY <1>1, <1>2, <2>0, <3>1, ShownHeld
    <3>4. expired(id) <=> Expires(TSM_List[i])
      BY <1>1, <2>0, <3>1 DEF UniqueIDs
    <3>5. Expires(TSM_List[i]) => View[id].status = "pending"
      BY <3>2 DEF Expires, Row
    <3>6. id \in Ledger!Busy
      BY <1>1, <2>2, BusyIsHeld
    <3> HIDE DEF expired
    <3>7. id \in due <=> Expires(TSM_List[i])
      BY <3>4, <3>5, <3>6
    <3>8. TSM_List[i] \in Entry(Nat)
      BY <1>2
    <3> HIDE DEF due
    <3>9. QED
      BY <3>2, <3>3, <3>7, <3>8, TimedRow
  <2>3. QED
    BY <2>1, <2>2
<1>4. due \in SUBSET {id \in Ledger!Busy : View[id].status = "pending"}
  OBVIOUS
<1> HIDE DEF due
<1>5. View' = [id \in InvokeIDs |->
                IF id \notin due THEN View[id]
                ELSE IF View[id].sent <= Retries THEN Ledger!Resend(View[id])
                ELSE Ledger!GiveUp(View[id])]
  BY <1>3, PrimedView
<1>6. QED
  BY <1>4, <1>5 DEF Ledger!Elapse, View

LEMMA LedgerStep == IInv /\ [Next]_vars => [Ledger!Next]_View
<1> SUFFICES ASSUME IInv, [Next]_vars PROVE Ledger!Next \/ View' = View
  OBVIOUS
<1>1. CASE SendRequest
  BY <1>1, SendRequestLedger DEF Ledger!Next
<1>2. CASE SendTooLong
  BY <1>2, SendTooLongLedger
<1>3. CASE \E r \in DOMAIN requests : Poll(r)
  BY <1>3, PollLedger DEF Ledger!Next
<1>4. CASE Timer
  BY <1>4, TimerLedger DEF Ledger!Next
<1>5. CASE \E r \in DOMAIN requests : Answer(r)
  BY <1>5, AnswerLedger DEF Ledger!Next
<1>6. CASE SegmentAck
  BY <1>6, SegmentAckLedger
<1>7. CASE UNCHANGED vars
  BY <1>7, ViewShows, PrimedView DEF vars
<1>8. QED
  BY <1>1, <1>2, <1>3, <1>4, <1>5, <1>6, <1>7 DEF Next

\* The table of tsm.c, with its search, its counter and its timers, is a ledger of invoke
\* IDs: an ID is given out only while it is released, what is pending is sent at most
\* 1 + Number_Of_Retries times, and only after that may it fail.
THEOREM TableImplementsLedger == Spec => ImplementsLedger
<1>1. [Ledger!Next]_View => [Ledger!Next]_([id \in InvokeIDs |-> LedgerEntry(id)])
  BY DEF View
<1>2. QED
  BY <1>1, InitLedger, LedgerStep, InductiveInvariant, PTL
     DEF Spec, ImplementsLedger, Ledger!Spec
=============================================================================
