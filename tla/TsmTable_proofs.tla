--------------------------- MODULE TsmTable_proofs ---------------------------
(***************************************************************************)
(* Facts about the operators of TsmTable, for a table of any size, any     *)
(* number of invoke IDs and any timeout and retry count: each operation    *)
(* keeps the table well-formed, and the search for an ID always succeeds.  *)
(***************************************************************************)
EXTENDS TsmTable, SlotFacts, FiniteSetTheorems, TLAPS

WellFormed(table, PDUs) ==
  /\ table \in [Index -> Entry(PDUs)]
  /\ UniqueIDs(table)
  /\ PendingHeld(table)

\* A nonempty set of naturals has a first element, and First picks it.
LEMMA FirstProperty ==
  ASSUME NEW S \in SUBSET Nat, S # {}
  PROVE  First(S) \in S /\ \A j \in S : First(S) <= j
BY LeastOfNat DEF First

LEMMA IndexFacts ==
  /\ Index \in SUBSET Nat
  /\ InvokeIDs \in SUBSET Nat
  /\ MaxTransactions \notin Index
  /\ 0 \notin InvokeIDs
BY TableAssumption DEF Index, InvokeIDs

\* The searches return an entry that holds the ID, or report that none does.
LEMMA FindIndexProperty ==
  ASSUME NEW table, NEW id
  PROVE  /\ Holding(table, id) = {} => FindIndex(table, id) = MaxTransactions
         /\ Holding(table, id) # {} =>
              /\ FindIndex(table, id) \in Index
              /\ table[FindIndex(table, id)].InvokeID = id
         /\ IsFree(table, id) <=> Holding(table, id) = {}
<1>1. CASE Holding(table, id) = {}
  BY <1>1 DEF FindIndex, IsFree
<1>2. CASE Holding(table, id) # {}
  <2>1. Holding(table, id) \in SUBSET Nat
    BY IndexFacts DEF Holding
  <2>2. First(Holding(table, id)) \in Holding(table, id)
    BY <1>2, <2>1, FirstProperty
  <2>3. QED
    BY <1>2, <2>2, IndexFacts DEF FindIndex, Holding, IsFree
<1>3. QED
  BY <1>1, <1>2

\* While an entry is free, some ID is not in use: the loop of
\* tsm_next_free_invokeID cannot run forever.
THEOREM UnusedExists ==
  ASSUME NEW table, TransactionAvailable(table)
  PROVE  Unused(table) # {}
<1>1. PICK free \in Index : table[free].InvokeID = 0
  BY DEF TransactionAvailable, Holding
<1> DEFINE others == Index \ {free}
           holder == [id \in InvokeIDs |-> CHOOSE i \in Index : table[i].InvokeID = id]
<1>2. /\ IsFiniteSet(InvokeIDs) /\ Cardinality(InvokeIDs) = MaxInvokeID
      /\ IsFiniteSet(Index) /\ Cardinality(Index) = MaxTransactions
  BY SMTT(40), FS_Interval, TableAssumption DEF InvokeIDs, Index
<1>3. IsFiniteSet(others) /\ Cardinality(others) = MaxTransactions - 1
  BY <1>1, <1>2, FS_RemoveElement
<1>4. SUFFICES ASSUME Unused(table) = {} PROVE FALSE
  OBVIOUS
<1>5. \A id \in InvokeIDs : holder[id] \in others /\ table[holder[id]].InvokeID = id
  <2> SUFFICES ASSUME NEW id \in InvokeIDs
               PROVE  holder[id] \in others /\ table[holder[id]].InvokeID = id
    OBVIOUS
  <2>1. \E i \in Index : table[i].InvokeID = id
    BY <1>4 DEF Unused, Holding
  <2>2. holder[id] \in Index /\ table[holder[id]].InvokeID = id
    BY <2>1
  <2>3. QED
    BY <2>2, <1>1, IndexFacts
<1>6. holder \in [InvokeIDs -> others]
  BY <1>5
<1>7. Cardinality(others) < Cardinality(InvokeIDs)
  BY <1>2, <1>3, TableAssumption
<1> HIDE DEF others, holder
<1>8. \E x, y \in InvokeIDs : x # y /\ holder[x] = holder[y]
  BY <1>2, <1>3, <1>6, <1>7, FS_PigeonHole
<1>9. QED
  BY <1>5, <1>8

\* The ID handed out is a proper one and in use nowhere.
THEOREM NextUnusedProperty ==
  ASSUME NEW table, NEW current, TransactionAvailable(table)
  PROVE  /\ NextUnused(table, current) \in InvokeIDs
         /\ NextUnused(table, current) # 0
         /\ Holding(table, NextUnused(table, current)) = {}
<1> DEFINE ahead == {id \in Unused(table) : id >= current}
           S == IF ahead # {} THEN ahead ELSE Unused(table)
<1>1. S \in SUBSET Nat /\ S \in SUBSET Unused(table) /\ S # {}
  BY UnusedExists, IndexFacts DEF Unused
<1>2. First(S) \in S
  BY <1>1, FirstProperty
<1>3. NextUnused(table, current) \in Unused(table)
  BY <1>1, <1>2 DEF NextUnused
<1>4. QED
  BY <1>3, IndexFacts DEF Unused

LEMMA SuccessorType ==
  ASSUME NEW id \in InvokeIDs
  PROVE  Successor(id) \in InvokeIDs
BY TableAssumption DEF Successor, InvokeIDs

LEMMA EmptyWellFormed == ASSUME NEW PDUs PROVE WellFormed(EmptyTable, PDUs)
BY TableAssumption
   DEF WellFormed, EmptyTable, Entry, UniqueIDs, PendingHeld, Index

\* The entry-level steps, one field at a time.
LEMMA ReservedType ==
  ASSUME NEW PDUs, NEW entry \in Entry(PDUs), NEW id \in InvokeIDs
  PROVE  /\ Reserved(entry, id) \in Entry(PDUs)
         /\ Reserved(entry, id).InvokeID = id
         /\ Reserved(entry, id).state = "IDLE"
<1> DEFINE named == [entry EXCEPT !.InvokeID = id]
           idle  == [named EXCEPT !.state = "IDLE"]
<1>1. named \in Entry(PDUs) /\ named.InvokeID = id
  BY DEF Entry
<1> HIDE DEF named
<1>2. idle \in Entry(PDUs) /\ idle.InvokeID = id /\ idle.state = "IDLE"
  BY <1>1 DEF Entry
<1>3. Reserved(entry, id) = [idle EXCEPT !.RequestTimer = Timeout]
  BY DEF Reserved, named
<1> HIDE DEF idle
<1>4. QED
  BY <1>2, <1>3, TableAssumption DEF Entry

LEMMA StartedType ==
  ASSUME NEW PDUs, NEW entry \in Entry(PDUs), NEW pdu \in PDUs
  PROVE  /\ Started(entry, pdu) \in Entry(PDUs)
         /\ Started(entry, pdu).InvokeID = entry.InvokeID
         /\ Started(entry, pdu).RequestTimer = Timeout
<1> DEFINE waiting == [entry EXCEPT !.state = "AWAIT_CONFIRMATION"]
           fresh   == [waiting EXCEPT !.RetryCount = 0]
           armed   == [fresh EXCEPT !.RequestTimer = Timeout]
<1>1. waiting \in Entry(PDUs) /\ waiting.InvokeID = entry.InvokeID
  BY DEF Entry
<1>2. Started(entry, pdu) = [armed EXCEPT !.apdu = pdu]
  BY DEF Started
<1> HIDE DEF waiting
<1>3. fresh \in Entry(PDUs) /\ fresh.InvokeID = entry.InvokeID
  BY <1>1, TableAssumption DEF Entry
<1> HIDE DEF fresh
<1>4. /\ armed \in Entry(PDUs)
      /\ armed.InvokeID = entry.InvokeID
      /\ armed.RequestTimer = Timeout
  BY <1>3, TableAssumption DEF Entry
<1> HIDE DEF armed
<1>5. QED
  BY <1>2, <1>4 DEF Entry

LEMMA ResendType ==
  ASSUME NEW PDUs, NEW entry \in Entry(PDUs), RetriesLeft(entry)
  PROVE  /\ Resend(entry) \in Entry(PDUs)
         /\ Resend(entry).InvokeID = entry.InvokeID
         /\ Resend(entry).RequestTimer = Timeout
<1> DEFINE armed == [entry EXCEPT !.RequestTimer = Timeout]
<1>1. /\ armed \in Entry(PDUs)
      /\ armed.RetryCount = entry.RetryCount
      /\ armed.RequestTimer = Timeout
      /\ armed.InvokeID = entry.InvokeID
  BY TableAssumption DEF Entry
<1>2. Resend(entry) = [armed EXCEPT !.RetryCount = entry.RetryCount + 1]
  BY DEF Resend
<1>3. entry.RetryCount + 1 \in 0 .. Retries
  BY TableAssumption DEF Entry, RetriesLeft
<1> HIDE DEF armed
<1>4. QED
  BY <1>1, <1>2, <1>3 DEF Entry

LEMMA GiveUpType ==
  ASSUME NEW PDUs, NEW entry \in Entry(PDUs)
  PROVE  /\ GiveUp(entry) \in Entry(PDUs)
         /\ GiveUp(entry).InvokeID = entry.InvokeID
         /\ GiveUp(entry).state = "IDLE"
<1> DEFINE stopped == [entry EXCEPT !.RequestTimer = 0]
<1>1. stopped \in Entry(PDUs) /\ stopped.InvokeID = entry.InvokeID
  BY TableAssumption DEF Entry
<1>2. GiveUp(entry) = [stopped EXCEPT !.state = "IDLE"]
  BY DEF GiveUp
<1> HIDE DEF stopped
<1>3. QED
  BY <1>1, <1>2 DEF Entry

LEMMA TimedProperty ==
  ASSUME NEW PDUs, NEW entry \in Entry(PDUs),
         entry.state = "AWAIT_CONFIRMATION" => entry.RequestTimer > 0
  PROVE  /\ Timed(entry) \in Entry(PDUs)
         /\ Timed(entry).InvokeID = entry.InvokeID
         /\ Timed(entry).state = "AWAIT_CONFIRMATION" =>
              entry.state = "AWAIT_CONFIRMATION" /\ Timed(entry).RequestTimer > 0
<1>1. CASE entry.state # "AWAIT_CONFIRMATION"
  BY <1>1 DEF Timed
<1>2. CASE entry.state = "AWAIT_CONFIRMATION" /\ Expires(entry) /\ RetriesLeft(entry)
  BY <1>2, ResendType, TableAssumption DEF Timed
<1>3. CASE entry.state = "AWAIT_CONFIRMATION" /\ Expires(entry) /\ ~RetriesLeft(entry)
  BY <1>3, GiveUpType DEF Timed
<1>4. CASE entry.state = "AWAIT_CONFIRMATION" /\ ~Expires(entry)
  BY <1>4, TableAssumption DEF Timed, Elapse, Entry, Expires
<1>5. QED
  BY <1>1, <1>2, <1>3, <1>4

LEMMA ReserveWellFormed ==
  ASSUME NEW PDUs, NEW table, WellFormed(table, PDUs),
         TransactionAvailable(table),
         NEW id \in InvokeIDs, Holding(table, id) = {}
  PROVE  /\ WellFormed(Reserve(table, id), PDUs)
         /\ Holding(Reserve(table, id), id) # {}
<1> DEFINE slot == First(Holding(table, 0))
           new  == Reserve(table, id)
<1>1. slot \in Index /\ table[slot].InvokeID = 0
  BY FirstProperty, IndexFacts DEF TransactionAvailable, Holding
<1>2. \A i \in Index : table[i].InvokeID # id
  BY DEF Holding
<1>3. new = [table EXCEPT ![slot] = Reserved(table[slot], id)]
  BY DEF Reserve
<1> HIDE DEF slot, new
<1>4. /\ Reserved(table[slot], id) \in Entry(PDUs)
      /\ Reserved(table[slot], id).InvokeID = id
      /\ Reserved(table[slot], id).state = "IDLE"
  BY <1>1, ReservedType DEF WellFormed
<1>5. new \in [Index -> Entry(PDUs)]
  BY <1>3, <1>4 DEF WellFormed
<1>6. /\ new[slot].InvokeID = id /\ new[slot].state = "IDLE"
      /\ \A i \in Index : i # slot => new[i] = table[i]
  BY <1>1, <1>3, <1>4 DEF WellFormed
<1>7. UniqueIDs(new)
  BY <1>1, <1>2, <1>6 DEF WellFormed, UniqueIDs
<1>8. PendingHeld(new)
  BY <1>1, <1>6 DEF WellFormed, PendingHeld
<1>9. QED
  BY <1>1, <1>5, <1>6, <1>7, <1>8 DEF WellFormed, Holding, new

LEMMA SetTransactionWellFormed ==
  ASSUME NEW PDUs, NEW table, WellFormed(table, PDUs),
         NEW id \in InvokeIDs, NEW pdu \in PDUs
  PROVE  WellFormed(SetTransaction(table, id, pdu), PDUs)
<1> DEFINE new == SetTransaction(table, id, pdu)
<1>1. ASSUME NEW i \in Index
      PROVE  /\ new[i] \in Entry(PDUs)
             /\ new[i].InvokeID = table[i].InvokeID
             /\ new[i].state = "AWAIT_CONFIRMATION" =>
                  new[i].InvokeID # 0 /\ new[i].RequestTimer > 0
  <2>1. table[i] \in Entry(PDUs)
    BY DEF WellFormed
  <2>2. CASE i = FindIndex(table, id)
    <3>1. table[i].InvokeID = id
      BY <2>2, FindIndexProperty, IndexFacts
    <3>2. new[i] = Started(table[i], pdu)
      BY <2>2 DEF SetTransaction
    <3>3. QED
      BY <2>1, <3>1, <3>2, StartedType, IndexFacts, TableAssumption
  <2>3. CASE i # FindIndex(table, id)
    BY <2>1, <2>3 DEF SetTransaction, WellFormed, PendingHeld
  <2>4. QED
    BY <2>2, <2>3
<1>2. new \in [Index -> Entry(PDUs)]
  BY <1>1 DEF SetTransaction
<1>3. QED
  BY <1>1, <1>2 DEF WellFormed, UniqueIDs, PendingHeld

LEMMA TimerCallWellFormed ==
  ASSUME NEW PDUs, NEW table, WellFormed(table, PDUs)
  PROVE  WellFormed(TimerCall(table), PDUs)
<1>1. \A i \in Index :
        /\ TimerCall(table)[i] \in Entry(PDUs)
        /\ TimerCall(table)[i].InvokeID = table[i].InvokeID
        /\ TimerCall(table)[i].state = "AWAIT_CONFIRMATION" =>
             /\ table[i].state = "AWAIT_CONFIRMATION"
             /\ TimerCall(table)[i].RequestTimer > 0
  BY TimedProperty DEF WellFormed, TimerCall, PendingHeld
<1>2. TimerCall(table) \in [Index -> Entry(PDUs)]
  BY <1>1 DEF TimerCall
<1>3. QED
  BY <1>1, <1>2 DEF WellFormed, UniqueIDs, PendingHeld

LEMMA FreeWellFormed ==
  ASSUME NEW PDUs, NEW table, WellFormed(table, PDUs), NEW id
  PROVE  WellFormed(Free(table, id), PDUs)
<1> DEFINE new == Free(table, id)
<1>1. new \in [Index -> Entry(PDUs)]
  BY DEF WellFormed, Entry, Free
<1>2. \A i \in Index : new[i].InvokeID \in {table[i].InvokeID, 0}
  BY DEF WellFormed, Entry, Free
<1>3. UniqueIDs(new)
  BY <1>2 DEF WellFormed, UniqueIDs
<1>4. PendingHeld(new)
  BY DEF WellFormed, Entry, PendingHeld, Free
<1>5. QED
  BY <1>1, <1>3, <1>4 DEF WellFormed
=============================================================================
