-------------------------- MODULE CovServer_proofs ---------------------------
(***************************************************************************)
(* The tables of the COV server agree, for any number of subscriptions,    *)
(* addresses, transactions, peers and objects, whatever is subscribed,     *)
(* cancelled, written or answered between two steps of the COV task.       *)
(*                                                                         *)
(* The address table is exact because both places that end subscriptions   *)
(* drop the addresses no subscription uses, and because a subscription     *)
(* that is taken over has the address of the peer that takes it.           *)
(*                                                                         *)
(* With an address entry for every peer each subscription stays its        *)
(* subscriber's own; and where no object has a second subscriber, a change *)
(* is never forgotten between the passes of the task.  Where requests end  *)
(* within a cycle of the task, each transaction is that of a subscription. *)
(***************************************************************************)
EXTENDS CovServer, TsmTable_proofs

TypeInv == TypeOK /\ WellFormed(TSM_List, Notification)

-----------------------------------------------------------------------------
\* One field of a subscription or of a Binary Input at a time.
LEMMA SubscriptionFields ==
  ASSUME NEW sub \in Subscription
  PROVE  /\ \A id \in InvokeIDs \cup {0} : [sub EXCEPT !.invokeID = id] \in Subscription
         /\ \A s \in BOOLEAN : [sub EXCEPT !.send_requested = s] \in Subscription
         /\ \A n \in Nat : [sub EXCEPT !.lifetime = n] \in Subscription
BY DEF Subscription

LEMMA InputFields ==
  ASSUME NEW bi \in BinaryInput
  PROVE  /\ \A v \in BOOLEAN : [bi EXCEPT !.Present_Value = v] \in BinaryInput
         /\ \A v \in BOOLEAN : [bi EXCEPT !.Out_Of_Service = v] \in BinaryInput
         /\ \A v \in BOOLEAN : [bi EXCEPT !.Polarity = v] \in BinaryInput
         /\ \A v \in BOOLEAN : [bi EXCEPT !.Change_Of_Value = v] \in BinaryInput
BY DEF BinaryInput

LEMMA WrittenType ==
  ASSUME NEW bi \in BinaryInput, NEW property, NEW value \in BOOLEAN
  PROVE  Written(bi, property, value) \in BinaryInput
<1>1. /\ bi.Present_Value \in BOOLEAN /\ bi.Polarity \in BOOLEAN
      /\ bi.Out_Of_Service \in BOOLEAN /\ bi.Change_Of_Value \in BOOLEAN
  BY DEF BinaryInput
<1>2. PresentValueSet(bi, value) \in BinaryInput
  <2> DEFINE raw == value # bi.Polarity
             changed == bi.Change_Of_Value \/ bi.Present_Value # raw
             stored == [bi EXCEPT !.Present_Value = raw]
  <2>1. raw \in BOOLEAN /\ changed \in BOOLEAN
    OBVIOUS
  <2>2. PresentValueSet(bi, value) = [stored EXCEPT !.Change_Of_Value = changed]
    BY DEF PresentValueSet, BinaryInput
  <2> HIDE DEF raw, changed
  <2>3. stored \in BinaryInput
    BY <2>1, InputFields
  <2>4. QED
    BY <2>1, <2>2, <2>3, InputFields
<1>3. OutOfServiceSet(bi, value) \in BinaryInput
  <2> DEFINE changed == bi.Change_Of_Value \/ bi.Out_Of_Service # value
             stored == [bi EXCEPT !.Out_Of_Service = value]
  <2>1. changed \in BOOLEAN
    OBVIOUS
  <2>2. OutOfServiceSet(bi, value) = [stored EXCEPT !.Change_Of_Value = changed]
    BY DEF OutOfServiceSet, BinaryInput
  <2> HIDE DEF changed
  <2>3. stored \in BinaryInput
    BY InputFields
  <2>4. QED
    BY <2>1, <2>2, <2>3, InputFields
<1>4. PolaritySet(bi, value) \in BinaryInput
  BY InputFields DEF PolaritySet
<1>5. QED
  BY <1>2, <1>3, <1>4 DEF Written

LEMMA SlotFacts ==
  /\ Slots \in SUBSET Nat
  /\ AddressIndex \in SUBSET Nat
  /\ NoAddress \notin AddressIndex
BY CovAssumption DEF Slots, AddressIndex, NoAddress

\* cov_address_add finds the address, or puts it into a free place, or has no room.
LEMMA AddressAddedProperty ==
  ASSUME NEW addresses \in [AddressIndex -> Peers \cup {NoPeer}], NEW src \in Peers
  PROVE  LET added == AddressAdded(addresses, src)
         IN  \/ /\ added.index \in AddressIndex
                /\ addresses[added.index] = src
                /\ added.table = addresses
             \/ /\ \A a \in AddressIndex : addresses[a] # src
                /\ added.index \in AddressIndex
                /\ addresses[added.index] = NoPeer
                /\ added.table = [addresses EXCEPT ![added.index] = src]
             \/ /\ \A a \in AddressIndex : addresses[a] \notin {src, NoPeer}
                /\ added.index = NoAddress
                /\ added.table = addresses
<1> DEFINE same == {a \in AddressIndex : addresses[a] = src}
           free == {a \in AddressIndex : addresses[a] = NoPeer}
           added == AddressAdded(addresses, src)
<1>1. CASE same # {}
  <2>1. First(same) \in same
    BY <1>1, SlotFacts, FirstProperty
  <2>2. added.index = First(same) /\ added.table = addresses
    BY <1>1 DEF AddressAdded
  <2>3. QED
    BY <2>1, <2>2
<1>2. CASE same = {} /\ free # {}
  <2>1. First(free) \in free
    BY <1>2, SlotFacts, FirstProperty
  <2>2. added.index = First(free) /\ added.table = [addresses EXCEPT ![First(free)] = src]
    BY <1>2 DEF AddressAdded
  <2>3. QED
    BY <1>2, <2>1, <2>2
<1>3. CASE same = {} /\ free = {}
  <2>1. added.index = NoAddress /\ added.table = addresses
    BY <1>3 DEF AddressAdded
  <2>2. QED
    BY <1>3, <2>1
<1>4. QED
  BY <1>1, <1>2, <1>3

LEMMA AddressAddedType ==
  ASSUME NEW addresses \in [AddressIndex -> Peers \cup {NoPeer}], NEW src \in Peers
  PROVE  /\ AddressAdded(addresses, src).index \in AddressIndex \cup {NoAddress}
         /\ AddressAdded(addresses, src).table \in [AddressIndex -> Peers \cup {NoPeer}]
<1> DEFINE added == AddressAdded(addresses, src)
<1>1. \/ added.index \in AddressIndex /\ added.table = addresses
      \/ /\ added.index \in AddressIndex
         /\ added.table = [addresses EXCEPT ![added.index] = src]
      \/ added.index = NoAddress /\ added.table = addresses
  BY AddressAddedProperty
<1> HIDE DEF added
<1>2. added.index \in AddressIndex \cup {NoAddress} /\
      added.table \in [AddressIndex -> Peers \cup {NoPeer}]
  BY <1>1
<1>3. QED
  BY <1>2 DEF added

LEMMA UnusedRemovedType ==
  ASSUME NEW addresses \in [AddressIndex -> Peers \cup {NoPeer}], NEW subs
  PROVE  UnusedRemoved(addresses, subs) \in [AddressIndex -> Peers \cup {NoPeer}]
BY DEF UnusedRemoved

\* Releasing the transactions of subscriptions that end keeps the table well-formed.
LEMMA ReleasedWellFormed ==
  ASSUME NEW PDUs, NEW table, WellFormed(table, PDUs), NEW subs
  PROVE  WellFormed(Released(table, subs), PDUs)
<1> DEFINE ids == {sub.invokeID : sub \in subs} \ {0}
           new == Released(table, subs)
<1>1. \A k \in Index :
        new[k] = IF table[k].InvokeID \in ids
                 THEN [table[k] EXCEPT !.state = "IDLE", !.InvokeID = 0] ELSE table[k]
  BY DEF Released
<1> HIDE DEF ids
<1>2. ASSUME NEW k \in Index
      PROVE  /\ new[k] \in Entry(PDUs)
             /\ new[k] = table[k] \/ (new[k].InvokeID = 0 /\ new[k].state = "IDLE")
  <2> DEFINE idle == [table[k] EXCEPT !.state = "IDLE"]
  <2>1. table[k] \in Entry(PDUs)
    BY DEF WellFormed
  <2>2. idle \in Entry(PDUs) /\ idle.state = "IDLE"
    BY <2>1 DEF Entry
  <2>3. [table[k] EXCEPT !.state = "IDLE", !.InvokeID = 0] = [idle EXCEPT !.InvokeID = 0]
    OBVIOUS
  <2> HIDE DEF idle
  <2>4. /\ [idle EXCEPT !.InvokeID = 0] \in Entry(PDUs)
        /\ [idle EXCEPT !.InvokeID = 0].InvokeID = 0
        /\ [idle EXCEPT !.InvokeID = 0].state = "IDLE"
    BY <2>2 DEF Entry
  <2>5. QED
    BY <1>1, <2>1, <2>3, <2>4
<1>3. new \in [Index -> Entry(PDUs)]
  BY <1>2 DEF Released
<1> HIDE DEF new
<1>4. UniqueIDs(new)
  BY <1>2 DEF WellFormed, UniqueIDs
<1>5. PendingHeld(new)
  BY <1>2 DEF WellFormed, PendingHeld
<1>6. QED
  BY <1>3, <1>4, <1>5 DEF WellFormed, new
-----------------------------------------------------------------------------
(***************************************************************************)
(* Type correctness, one lemma per action.                                 *)
(***************************************************************************)
LEMMA ThisType ==
  ASSUME TypeOK, This # NoSubscription
  PROVE  /\ fsm.index \in Slots /\ This \in Subscription
         /\ This.object \in Objects /\ This.invokeID \in InvokeIDs \cup {0}
         /\ This.pid \in {c.pid : c \in Contexts} /\ This.confirmed \in BOOLEAN
<1>1. fsm.index \in Slots
  BY DEF TypeOK
<1>2. This \in Subscription
  BY <1>1 DEF TypeOK, This
<1>3. QED
  BY <1>1, <1>2 DEF Subscription

LEMMA VisibleType ==
  ASSUME TypeOK, NEW o \in Objects
  PROVE  Visible(o) \in BOOLEAN \X BOOLEAN
<1>1. objects[o] \in BinaryInput
  BY DEF TypeOK
<1>2. objects[o].Out_Of_Service \in BOOLEAN
  BY <1>1 DEF BinaryInput
<1>3. QED
  BY <1>2 DEF Visible

\* What a step of the task does to one subscription keeps the table's type.
LEMMA ThisUpdated ==
  ASSUME TypeOK, NEW sub \in Subscription \cup {NoSubscription}
  PROVE  [COV_Subscriptions EXCEPT ![fsm.index] = sub] \in
           [Slots -> Subscription \cup {NoSubscription}]
BY DEF TypeOK

LEMMA AdvanceType ==
  ASSUME TypeOK, NEW next \in {"IDLE", "MARK", "CLEAR", "FREE", "SEND"}, Advance(next)
  PROVE  fsm' \in [state : {"IDLE", "MARK", "CLEAR", "FREE", "SEND"}, index : Slots]
<1>1. fsm.index \in Slots
  BY DEF TypeOK
<1>2. CASE fsm.index + 1 < MaxSubscriptions
  <2>1. fsm.index + 1 \in Slots
    BY <1>1, <1>2, CovAssumption DEF Slots
  <2>2. fsm' = [fsm EXCEPT !.index = fsm.index + 1]
    BY <1>2 DEF Advance
  <2>3. QED
    BY <2>1, <2>2 DEF TypeOK
<1>3. CASE ~ (fsm.index + 1 < MaxSubscriptions)
  <2>1. 0 \in Slots
    BY CovAssumption DEF Slots
  <2>2. fsm' = [state |-> next, index |-> 0]
    BY <1>3 DEF Advance
  <2>3. QED
    BY <2>1, <2>2
<1>4. QED
  BY <1>2, <1>3

LEMMA ReceiveType == TypeInv /\ Receive => TypeInv'
<1> SUFFICES ASSUME TypeInv, Receive PROVE TypeInv'
  OBVIOUS
<1>0. TypeOK /\ WellFormed(TSM_List, Notification)
  BY DEF TypeInv
<1>1. Received => turn' = "tsm" /\ fsm' = fsm /\ seconds_elapsed' = seconds_elapsed
  BY DEF Received
<1>2. CASE UNCHANGED <<cov, objects, tsm>> /\ Received
  BY <1>0, <1>1, <1>2 DEF TypeInv, TypeOK, cov, tsm, WellFormed, UniqueIDs, PendingHeld
<1>3. ASSUME NEW o \in Objects, NEW v \in BOOLEAN, NEW p \in Writable[o], WriteProperty(o, p, v)
      PROVE  TypeInv'
  <2>1. objects[o] \in BinaryInput
    BY <1>0 DEF TypeOK
  <2>2. Written(objects[o], p, v) \in BinaryInput
    BY <2>1, WrittenType
  <2>3. objects' = [objects EXCEPT ![o] = Written(objects[o], p, v)]
    BY <1>3 DEF WriteProperty
  <2>4. objects' \in [Objects -> BinaryInput]
    BY <1>0, <2>2, <2>3 DEF TypeOK
  <2>5. QED
    BY <1>0, <1>1, <1>3, <2>4
       DEF WriteProperty, TypeInv, TypeOK, cov, tsm, WellFormed, UniqueIDs, PendingHeld
<1>4. ASSUME NEW id \in InvokeIDs, ReceiveAnswer(id) PROVE TypeInv'
  <2>1. WellFormed(TSM_List', Notification)
    BY <1>0, <1>4, FreeWellFormed DEF ReceiveAnswer
  <2>2. QED
    BY <1>0, <1>1, <1>4, <2>1 DEF ReceiveAnswer, TypeInv, TypeOK, cov, WellFormed
<1>5. ASSUME NEW c \in Contexts, NEW confirmed \in Confirmed, NEW lifetime \in Lifetimes,
             SubscribeCOV(c, confirmed, lifetime)
      PROVE  TypeInv'
  <2> DEFINE i == First(IF Existing(c) # {} THEN Existing(c) ELSE FreeSlots)
             added == AddressAdded(COV_Addresses, c.src)
             sub == [dest_index |-> added.index, object |-> c.object, pid |-> c.pid,
                     confirmed |-> confirmed, invokeID |-> 0, lifetime |-> lifetime,
                     send_requested |-> TRUE]
  <2>1. i \in Slots
    <3>1. Existing(c) \in SUBSET Nat /\ FreeSlots \in SUBSET Nat
      BY SlotFacts DEF Existing, FreeSlots
    <3>2. i \in Existing(c) \cup FreeSlots
      BY <1>5, <3>1, FirstProperty DEF SubscribeCOV
    <3>3. QED
      BY <3>2 DEF Existing, FreeSlots
  <2>2. /\ COV_Addresses' = added.table
        /\ COV_Subscriptions' = [COV_Subscriptions EXCEPT ![i] = sub]
        /\ TSM_List' = TSM_List \/ TSM_List' = Released(TSM_List, {COV_Subscriptions[i]})
        /\ owner' = [owner EXCEPT ![i] = c.src]
        /\ heard' = [heard EXCEPT ![i] = NotNotified]
        /\ UNCHANGED <<objects, Current_Invoke_ID>>
        /\ c.object \in Objects /\ Received
    BY <1>5 DEF SubscribeCOV
  <2>3. c.src \in Peers /\ c.pid \in {d.pid : d \in Contexts} /\ confirmed \in BOOLEAN /\ lifetime \in Nat
    BY CovAssumption DEF Peers
  <2>4. /\ added.index \in AddressIndex \cup {NoAddress}
        /\ added.table \in [AddressIndex -> Peers \cup {NoPeer}]
    BY <1>0, <2>3, AddressAddedType DEF TypeOK
  <2> HIDE DEF i, added
  <2>5. sub \in Subscription
    BY <2>2, <2>3, <2>4 DEF Subscription
  <2> HIDE DEF sub
  <2>6. WellFormed(TSM_List', Notification)
    BY <1>0, <2>2, ReleasedWellFormed
  <2>7. /\ COV_Subscriptions' \in [Slots -> Subscription \cup {NoSubscription}]
        /\ COV_Addresses' \in [AddressIndex -> Peers \cup {NoPeer}]
        /\ owner' \in [Slots -> Peers \cup {NoPeer}]
        /\ heard' \in [Slots -> (BOOLEAN \X BOOLEAN) \cup {NotNotified}]
    BY <1>0, <2>1, <2>2, <2>3, <2>4, <2>5 DEF TypeOK
  <2>8. QED
    BY <1>0, <1>1, <2>2, <2>6, <2>7 DEF TypeInv, TypeOK, WellFormed
<1>6. ASSUME NEW c \in Contexts, CancelCOV(c) PROVE TypeInv'
  <2> DEFINE i == First(Existing(c))
  <2>1. /\ COV_Subscriptions' = [COV_Subscriptions EXCEPT ![i] = NoSubscription]
        /\ COV_Addresses' = UnusedRemoved(COV_Addresses, COV_Subscriptions')
        /\ TSM_List' = Released(TSM_List, {COV_Subscriptions[i]})
        /\ owner' = [owner EXCEPT ![i] = NoPeer]
        /\ heard' = [heard EXCEPT ![i] = NotNotified]
        /\ UNCHANGED <<objects, Current_Invoke_ID>>
        /\ Received
    BY <1>6 DEF CancelCOV
  <2> HIDE DEF i
  <2>2. WellFormed(TSM_List', Notification)
    BY <1>0, <2>1, ReleasedWellFormed
  <2>3. COV_Addresses' \in [AddressIndex -> Peers \cup {NoPeer}]
    BY <1>0, <2>1, UnusedRemovedType DEF TypeOK
  <2>4. /\ COV_Subscriptions' \in [Slots -> Subscription \cup {NoSubscription}]
        /\ owner' \in [Slots -> Peers \cup {NoPeer}]
        /\ heard' \in [Slots -> (BOOLEAN \X BOOLEAN) \cup {NotNotified}]
    BY <1>0, <2>1 DEF TypeOK
  <2>5. QED
    BY <1>0, <1>1, <2>1, <2>2, <2>3, <2>4 DEF TypeInv, TypeOK, WellFormed
<1>7. QED
  BY <1>2, <1>3, <1>4, <1>5, <1>6
     DEF Receive, ReceiveOther, SubscribeRefused, CancelUnknown

LEMMA TsmTimerType == TypeInv /\ TsmTimer => TypeInv'
<1> SUFFICES ASSUME TypeInv, TsmTimer PROVE TypeInv'
  OBVIOUS
<1>1. WellFormed(TSM_List', Notification)
  BY TimerCallWellFormed DEF TypeInv, TsmTimer
<1>2. QED
  BY <1>1 DEF TypeInv, TsmTimer, TypeOK, cov, WellFormed
LEMMA CovTaskType == TypeInv /\ CovTask => TypeInv'
<1> SUFFICES ASSUME TypeInv, CovTask PROVE TypeInv'
  OBVIOUS
<1>0. TypeOK /\ WellFormed(TSM_List, Notification)
  BY DEF TypeInv
<1> DEFINE FSM == [state : {"IDLE", "MARK", "CLEAR", "FREE", "SEND"}, index : Slots]
<1>1. \A state : Step(state) => turn' = "second" /\ seconds_elapsed' = seconds_elapsed
  BY DEF Step
<1>2. CASE CovIdle
  <2>1. fsm' \in FSM
    BY <1>2, CovAssumption DEF CovIdle, Slots
  <2>2. QED
    BY <1>0, <1>1, <1>2, <2>1
       DEF CovIdle, TypeInv, TypeOK, cov, tsm, WellFormed, UniqueIDs, PendingHeld
<1>3. CASE CovMark
  <2>1. fsm' \in FSM
    BY <1>0, <1>3, AdvanceType DEF CovMark
  <2>2. COV_Subscriptions' \in [Slots -> Subscription \cup {NoSubscription}]
    <3>1. CASE This # NoSubscription /\ objects[This.object].Change_Of_Value
      <4>1. [This EXCEPT !.send_requested = TRUE] \in Subscription
        BY <1>0, <3>1, ThisType, SubscriptionFields
      <4>2. COV_Subscriptions' =
              [COV_Subscriptions EXCEPT ![fsm.index] = [This EXCEPT !.send_requested = TRUE]]
        BY <1>3, <3>1 DEF CovMark, This
      <4>3. QED
        BY <1>0, <4>1, <4>2, ThisUpdated
    <3>2. CASE ~ (This # NoSubscription /\ objects[This.object].Change_Of_Value)
      BY <1>0, <1>3, <3>2 DEF CovMark, TypeOK
    <3>3. QED
      BY <3>1, <3>2
  <2>3. QED
    BY <1>0, <1>1, <1>3, <2>1, <2>2
       DEF CovMark, TypeInv, TypeOK, tsm, WellFormed, UniqueIDs, PendingHeld
<1>4. CASE CovClear
  <2>1. fsm' \in FSM
    BY <1>0, <1>4, AdvanceType DEF CovClear
  <2>2. objects' \in [Objects -> BinaryInput]
    <3>1. CASE ToClear
      <4>1. This.object \in Objects
        BY <1>0, <3>1, ThisType DEF ToClear, Requested
      <4>2. [objects[This.object] EXCEPT !.Change_Of_Value = FALSE] \in BinaryInput
        BY <1>0, <4>1, InputFields DEF TypeOK
      <4>3. objects' = [objects EXCEPT ![This.object] =
                          [objects[This.object] EXCEPT !.Change_Of_Value = FALSE]]
        BY <1>4, <3>1 DEF CovClear
      <4>4. QED
        BY <1>0, <4>1, <4>2, <4>3 DEF TypeOK
    <3>2. CASE ~ ToClear
      BY <1>0, <1>4, <3>2 DEF CovClear, TypeOK
    <3>3. QED
      BY <3>1, <3>2
  <2>3. QED
    BY <1>0, <1>1, <1>4, <2>1, <2>2
       DEF CovClear, TypeInv, TypeOK, cov, tsm, WellFormed, UniqueIDs, PendingHeld
<1>5. CASE CovFree
  <2>1. fsm' \in FSM
    BY <1>0, <1>5, AdvanceType DEF CovFree
  <2>2. /\ COV_Subscriptions' \in [Slots -> Subscription \cup {NoSubscription}]
        /\ WellFormed(TSM_List', Notification)
    <3>1. CASE This # NoSubscription /\ This.confirmed /\ This.invokeID # 0 /\ Concluded
      <4>1. [This EXCEPT !.invokeID = 0] \in Subscription
        BY <1>0, <3>1, ThisType, SubscriptionFields
      <4>2. COV_Subscriptions' = [COV_Subscriptions EXCEPT ![fsm.index] = [This EXCEPT !.invokeID = 0]]
        BY <1>5, <3>1 DEF CovFree, This
      <4>3. TSM_List' = Free(TSM_List, This.invokeID)
        BY <1>5, <3>1 DEF CovFree
      <4>4. QED
        BY <1>0, <4>1, <4>2, <4>3, ThisUpdated, FreeWellFormed
    <3>2. CASE ~ (This # NoSubscription /\ This.confirmed /\ This.invokeID # 0 /\ Concluded)
      <4>1. UNCHANGED <<COV_Subscriptions, TSM_List>>
        BY <1>5, <3>2 DEF CovFree
      <4>2. QED
        BY <1>0, <4>1 DEF TypeOK
    <3>3. QED
      BY <3>1, <3>2
  <2>3. QED
    BY <1>0, <1>1, <1>5, <2>1, <2>2 DEF CovFree, TypeInv, TypeOK, WellFormed
<1>6. CASE CovSendNothing
  <2>1. fsm' \in FSM
    BY <1>0, <1>6, AdvanceType DEF CovSendNothing
  <2>2. QED
    BY <1>0, <1>1, <1>6, <2>1
       DEF CovSendNothing, TypeInv, TypeOK, cov, tsm, WellFormed, UniqueIDs, PendingHeld
<1>7. ASSUME NEW sent \in BOOLEAN, CovSendUnconfirmed(sent) PROVE TypeInv'
  <2>1. fsm' \in FSM
    BY <1>0, <1>7, AdvanceType DEF CovSendUnconfirmed
  <2>2. This # NoSubscription
    BY <1>7 DEF CovSendUnconfirmed, MaySend, Requested
  <2>3. COV_Subscriptions' =
          [COV_Subscriptions EXCEPT ![fsm.index] = [This EXCEPT !.send_requested = ~sent]]
    BY <1>7 DEF CovSendUnconfirmed, This
  <2>4. [This EXCEPT !.send_requested = ~sent] \in Subscription
    BY <1>0, <2>2, ThisType, SubscriptionFields
  <2>5. COV_Subscriptions' \in [Slots -> Subscription \cup {NoSubscription}]
    BY <1>0, <2>3, <2>4, ThisUpdated
  <2>6. Visible(This.object) \in BOOLEAN \X BOOLEAN
    BY <1>0, <2>2, ThisType, VisibleType
  <2>7. heard' = heard \/ heard' = [heard EXCEPT ![fsm.index] = Visible(This.object)]
    BY <1>7 DEF CovSendUnconfirmed
  <2>8. heard' \in [Slots -> (BOOLEAN \X BOOLEAN) \cup {NotNotified}]
    BY <1>0, <2>6, <2>7 DEF TypeOK
  <2>9. QED
    BY <1>0, <1>1, <1>7, <2>1, <2>5, <2>8
       DEF CovSendUnconfirmed, TypeInv, TypeOK, tsm, WellFormed, UniqueIDs, PendingHeld
<1>8. ASSUME NEW sent \in BOOLEAN, CovSendConfirmed(sent) PROVE TypeInv'
  <2> DEFINE id     == NextUnused(TSM_List, Current_Invoke_ID)
             notice == [dest |-> Dest(This), object |-> This.object, pid |-> This.pid]
             told   == [This EXCEPT !.invokeID = id]
  <2>1. fsm' \in FSM
    BY <1>0, <1>8, AdvanceType DEF CovSendConfirmed
  <2>2. This # NoSubscription /\ This.confirmed /\ TransactionAvailable(TSM_List) /\ Dest(This) # NoPeer
    BY <1>8 DEF CovSendConfirmed, MaySend, Requested
  <2>3. id \in InvokeIDs /\ Holding(TSM_List, id) = {}
    BY <2>2, NextUnusedProperty
  <2>4. notice \in Notification
    <3>1. Dest(This) \in Peers
      BY <1>0, <2>2 DEF Dest, TypeOK
    <3>2. QED
      BY <1>0, <2>2, <3>1, ThisType DEF Notification
  <2>5. /\ TSM_List' = SetTransaction(Reserve(TSM_List, id), id, notice)
        /\ Current_Invoke_ID' = Successor(id)
        /\ COV_Subscriptions' = [COV_Subscriptions EXCEPT
             ![fsm.index].invokeID = id, ![fsm.index].send_requested = ~sent]
        /\ heard' = heard \/ heard' = [heard EXCEPT ![fsm.index] = Visible(This.object)]
        /\ UNCHANGED <<COV_Addresses, owner, objects>>
        /\ Step("SEND")
    BY <1>8 DEF CovSendConfirmed
  <2> HIDE DEF id, notice
  <2>6. WellFormed(TSM_List', Notification)
    BY <1>0, <2>2, <2>3, <2>4, <2>5, ReserveWellFormed, SetTransactionWellFormed
  <2>7. told \in Subscription
    BY <1>0, <2>2, <2>3, ThisType, SubscriptionFields
  <2>8. COV_Subscriptions' =
          [COV_Subscriptions EXCEPT ![fsm.index] = [told EXCEPT !.send_requested = ~sent]]
    <3>1. fsm.index \in Slots /\ DOMAIN COV_Subscriptions = Slots
      BY <1>0, <2>2, ThisType DEF TypeOK
    <3>2. QED
      BY <2>5, <3>1 DEF This
  <2> HIDE DEF told
  <2>9. COV_Subscriptions' \in [Slots -> Subscription \cup {NoSubscription}]
    <3>1. [told EXCEPT !.send_requested = ~sent] \in Subscription
      BY <2>7, SubscriptionFields
    <3>2. QED
      BY <1>0, <2>8, <3>1, ThisUpdated
  <2>10. heard' \in [Slots -> (BOOLEAN \X BOOLEAN) \cup {NotNotified}]
    <3>1. Visible(This.object) \in BOOLEAN \X BOOLEAN
      BY <1>0, <2>2, ThisType, VisibleType
    <3>2. QED
      BY <1>0, <2>5, <3>1 DEF TypeOK
  <2>11. Current_Invoke_ID' \in InvokeIDs
    BY <2>3, <2>5, SuccessorType
  <2>12. QED
    BY <1>0, <1>1, <2>1, <2>5, <2>6, <2>9, <2>10, <2>11 DEF TypeInv, TypeOK, WellFormed
<1>9. QED
  BY <1>2, <1>3, <1>4, <1>5, <1>6, <1>7, <1>8 DEF CovTask

LEMMA AgedType ==
  ASSUME NEW sub \in Subscription
  PROVE  Aged(sub) \in Subscription
<1>1. sub.lifetime \in Nat
  BY DEF Subscription
<1>2. CASE sub.lifetime = 0
  BY <1>2 DEF Aged
<1>3. CASE sub.lifetime # 0
  <2>1. sub.lifetime - 1 \in Nat
    BY <1>1, <1>3
  <2>2. Aged(sub) = [sub EXCEPT !.lifetime = sub.lifetime - 1]
    BY <1>3 DEF Aged
  <2>3. QED
    BY <2>1, <2>2, SubscriptionFields
<1>4. QED
  BY <1>2, <1>3

LEMMA LoopEndType == TypeInv /\ (NotYetASecond \/ SecondPassed) => TypeInv'
<1> SUFFICES ASSUME TypeInv, NotYetASecond \/ SecondPassed PROVE TypeInv'
  OBVIOUS
<1>0. TypeOK /\ WellFormed(TSM_List, Notification)
  BY DEF TypeInv
<1>1. LoopEnd => turn' = "receive" /\ fsm' = fsm
  BY DEF LoopEnd
<1>2. CASE NotYetASecond
  <2>1. seconds_elapsed' \in 0 .. LoopsPerSecond - 1
    BY <1>0, <1>2, CovAssumption DEF NotYetASecond, TypeOK
  <2>2. QED
    BY <1>0, <1>1, <1>2, <2>1
       DEF NotYetASecond, TypeInv, TypeOK, cov, tsm, WellFormed, UniqueIDs, PendingHeld
<1>3. CASE SecondPassed
  <2>1. seconds_elapsed' \in 0 .. LoopsPerSecond - 1
    BY <1>3, CovAssumption DEF SecondPassed
  <2>2. COV_Subscriptions' \in [Slots -> Subscription \cup {NoSubscription}]
    <3>1. \A i \in Slots : Valid(i) => Aged(COV_Subscriptions[i]) \in Subscription
      BY <1>0, AgedType DEF Valid, TypeOK
    <3>2. QED
      BY <1>3, <3>1 DEF SecondPassed
  <2>3. COV_Addresses' \in [AddressIndex -> Peers \cup {NoPeer}]
    BY <1>0, <1>3, UnusedRemovedType DEF SecondPassed, TypeOK
  <2>4. WellFormed(TSM_List', Notification)
    BY <1>0, <1>3, ReleasedWellFormed DEF SecondPassed
  <2>5. /\ owner' \in [Slots -> Peers \cup {NoPeer}]
        /\ heard' \in [Slots -> (BOOLEAN \X BOOLEAN) \cup {NotNotified}]
    BY <1>0, <1>3 DEF SecondPassed, TypeOK
  <2>6. QED
    BY <1>0, <1>1, <1>3, <2>1, <2>2, <2>3, <2>4, <2>5 DEF SecondPassed, TypeInv, TypeOK, WellFormed
<1>4. QED
  BY <1>2, <1>3

LEMMA InitType == Init => TypeInv
<1> SUFFICES ASSUME Init PROVE TypeInv
  OBVIOUS
<1>1. WellFormed(TSM_List, Notification)
  BY EmptyWellFormed DEF Init
<1>2. /\ Current_Invoke_ID \in InvokeIDs /\ seconds_elapsed \in 0 .. LoopsPerSecond - 1
      /\ fsm \in [state : {"IDLE", "MARK", "CLEAR", "FREE", "SEND"}, index : Slots]
  BY TableAssumption, CovAssumption DEF Init, InvokeIDs, Slots
<1>3. objects \in [Objects -> BinaryInput]
  BY DEF Init, BinaryInput
<1>4. QED
  BY <1>1, <1>2, <1>3 DEF Init, TypeInv, TypeOK, WellFormed

LEMMA NextType == TypeInv /\ [Next]_vars => TypeInv'
<1>1. TypeInv /\ UNCHANGED vars => TypeInv'
  BY DEF vars, cov, tsm, TypeInv, TypeOK, WellFormed, UniqueIDs, PendingHeld
<1>2. QED
  BY <1>1, ReceiveType, TsmTimerType, CovTaskType, LoopEndType DEF Next

\* The tables of h_cov.c, the inputs of bi.c, the transactions of tsm.c and the state of
\* the task keep their types, whatever arrives between two steps.
THEOREM TypeCorrect == Spec => []TypeOK
<1>1. TypeInv => TypeOK
  BY DEF TypeInv
<1>2. QED
  BY <1>1, InitType, NextType, PTL DEF Spec
-----------------------------------------------------------------------------
(***************************************************************************)
(* Who is subscribed to what, and where the notifications go.              *)
(***************************************************************************)
Key(sub) == <<sub.dest_index, sub.object, sub.pid>>

\* A step that ends subscriptions at most, and takes none over.
Shrinks ==
  \A i \in Slots : Valid(i)' =>
    /\ Valid(i)
    /\ Key(COV_Subscriptions'[i]) = Key(COV_Subscriptions[i])
    /\ owner'[i] = owner[i]

Keeps ==
  /\ Shrinks
  /\ \A i \in Slots : Valid(i) => Valid(i)'
  /\ UNCHANGED COV_Addresses

LEMMA KeyFields ==
  ASSUME NEW sub1, NEW sub2, Key(sub1) = Key(sub2)
  PROVE  sub1.dest_index = sub2.dest_index /\ sub1.object = sub2.object /\ sub1.pid = sub2.pid
BY DEF Key

\* The fields the task and the timers change are not part of the key.
LEMMA KeyUntouched ==
  ASSUME NEW sub \in Subscription
  PROVE  /\ \A id : Key([sub EXCEPT !.invokeID = id]) = Key(sub)
         /\ \A s : Key([sub EXCEPT !.send_requested = s]) = Key(sub)
         /\ \A n : Key([sub EXCEPT !.lifetime = n]) = Key(sub)
BY DEF Key, Subscription

\* A subscription that is changed in place remains one.
LEMMA ThisChanged ==
  ASSUME TypeOK, This # NoSubscription, NEW sub \in Subscription, Key(sub) = Key(This),
         COV_Subscriptions' = [COV_Subscriptions EXCEPT ![fsm.index] = sub],
         UNCHANGED <<COV_Addresses, owner>>
  PROVE  Keeps
<1>1. fsm.index \in Slots
  BY ThisType
<1>2. \A i \in Slots :
        COV_Subscriptions'[i] = IF i = fsm.index THEN sub ELSE COV_Subscriptions[i]
  BY <1>1 DEF TypeOK
<1>3. sub # NoSubscription
  BY SubscriptionAssumption
<1>4. \A i \in Slots : Valid(i)' <=> Valid(i)
  BY <1>1, <1>2, <1>3 DEF Valid, This
<1>5. \A i \in Slots : Key(COV_Subscriptions'[i]) = Key(COV_Subscriptions[i])
  BY <1>1, <1>2 DEF This
<1>6. QED
  BY <1>4, <1>5 DEF Keeps, Shrinks

LEMMA SameKept ==
  ASSUME UNCHANGED <<COV_Subscriptions, COV_Addresses, owner>>
  PROVE  Keeps
BY DEF Keeps, Shrinks, Valid

LEMMA TaskKeeps == TypeInv /\ CovTask => Keeps
<1> SUFFICES ASSUME TypeInv, CovTask PROVE Keeps
  OBVIOUS
<1>0. TypeOK
  BY DEF TypeInv
<1>1. CASE CovIdle \/ CovClear \/ CovSendNothing
  BY <1>1, SameKept DEF CovIdle, CovClear, CovSendNothing, cov
<1>2. CASE CovMark
  <2>1. UNCHANGED <<COV_Addresses, owner>>
    BY <1>2 DEF CovMark
  <2>2. CASE This # NoSubscription /\ objects[This.object].Change_Of_Value
    <3>1. COV_Subscriptions' =
            [COV_Subscriptions EXCEPT ![fsm.index] = [This EXCEPT !.send_requested = TRUE]]
      BY <1>2, <2>2 DEF CovMark, This
    <3>2. [This EXCEPT !.send_requested = TRUE] \in Subscription
      BY <1>0, <2>2, ThisType, SubscriptionFields
    <3>3. Key([This EXCEPT !.send_requested = TRUE]) = Key(This)
      BY <1>0, <2>2, ThisType, KeyUntouched
    <3>4. QED
      BY <1>0, <2>1, <2>2, <3>1, <3>2, <3>3, ThisChanged
  <2>3. CASE ~ (This # NoSubscription /\ objects[This.object].Change_Of_Value)
    BY <1>2, <2>1, <2>3, SameKept DEF CovMark
  <2>4. QED
    BY <2>2, <2>3
<1>3. CASE CovFree
  <2>1. UNCHANGED <<COV_Addresses, owner>>
    BY <1>3 DEF CovFree
  <2> DEFINE concluded == This # NoSubscription /\ This.confirmed /\ This.invokeID # 0 /\ Concluded
  <2>2. CASE concluded
    <3>1. COV_Subscriptions' = [COV_Subscriptions EXCEPT ![fsm.index] = [This EXCEPT !.invokeID = 0]]
      BY <1>3, <2>2 DEF CovFree, This
    <3>2. [This EXCEPT !.invokeID = 0] \in Subscription
      BY <1>0, <2>2, ThisType, SubscriptionFields
    <3>3. Key([This EXCEPT !.invokeID = 0]) = Key(This)
      BY <1>0, <2>2, ThisType, KeyUntouched
    <3>4. QED
      BY <1>0, <2>1, <2>2, <3>1, <3>2, <3>3, ThisChanged
  <2>3. CASE ~ concluded
    BY <1>3, <2>1, <2>3, SameKept DEF CovFree
  <2>4. QED
    BY <2>2, <2>3
<1>4. ASSUME NEW sent \in BOOLEAN, CovSendUnconfirmed(sent) PROVE Keeps
  <2>1. UNCHANGED <<COV_Addresses, owner>> /\ This # NoSubscription
    BY <1>4 DEF CovSendUnconfirmed, MaySend, Requested
  <2>2. COV_Subscriptions' =
          [COV_Subscriptions EXCEPT ![fsm.index] = [This EXCEPT !.send_requested = ~sent]]
    BY <1>4 DEF CovSendUnconfirmed, This
  <2>3. [This EXCEPT !.send_requested = ~sent] \in Subscription
    BY <1>0, <2>1, ThisType, SubscriptionFields
  <2>4. Key([This EXCEPT !.send_requested = ~sent]) = Key(This)
    BY <1>0, <2>1, ThisType, KeyUntouched
  <2>5. QED
    BY <1>0, <2>1, <2>2, <2>3, <2>4, ThisChanged
<1>5. ASSUME NEW sent \in BOOLEAN, CovSendConfirmed(sent) PROVE Keeps
  <2> DEFINE id   == NextUnused(TSM_List, Current_Invoke_ID)
             told == [This EXCEPT !.invokeID = id]
  <2>1. /\ UNCHANGED <<COV_Addresses, owner>>
        /\ This # NoSubscription /\ TransactionAvailable(TSM_List)
        /\ COV_Subscriptions' = [COV_Subscriptions EXCEPT
             ![fsm.index].invokeID = id, ![fsm.index].send_requested = ~sent]
    BY <1>5 DEF CovSendConfirmed, MaySend, Requested
  <2>2. id \in InvokeIDs
    BY <2>1, NextUnusedProperty
  <2> HIDE DEF id
  <2>3. told \in Subscription /\ Key(told) = Key(This)
    BY <1>0, <2>1, <2>2, ThisType, SubscriptionFields, KeyUntouched
  <2>4. COV_Subscriptions' =
          [COV_Subscriptions EXCEPT ![fsm.index] = [told EXCEPT !.send_requested = ~sent]]
    <3>1. fsm.index \in Slots /\ DOMAIN COV_Subscriptions = Slots
      BY <1>0, <2>1, ThisType DEF TypeOK
    <3>2. QED
      BY <2>1, <3>1 DEF This
  <2> HIDE DEF told
  <2>5. /\ [told EXCEPT !.send_requested = ~sent] \in Subscription
        /\ Key([told EXCEPT !.send_requested = ~sent]) = Key(This)
    BY <2>3, SubscriptionFields, KeyUntouched
  <2>6. QED
    BY <1>0, <2>1, <2>4, <2>5, ThisChanged
<1>6. QED
  BY <1>1, <1>2, <1>3, <1>4, <1>5 DEF CovTask

LEMMA SecondShrinks == TypeInv /\ SecondPassed => Shrinks /\ (Expired = {} => Keeps)
<1> SUFFICES ASSUME TypeInv, SecondPassed PROVE Shrinks /\ (Expired = {} => Keeps)
  OBVIOUS
<1>1. \A i \in Slots : COV_Subscriptions'[i] =
        IF Valid(i) /\ i \notin Expired THEN Aged(COV_Subscriptions[i]) ELSE NoSubscription
  BY DEF SecondPassed
<1>2. \A i \in Slots : owner'[i] = IF i \in Expired THEN NoPeer ELSE owner[i]
  BY DEF SecondPassed
<1>3. ASSUME NEW i \in Slots, Valid(i)
      PROVE  /\ Aged(COV_Subscriptions[i]) # NoSubscription
             /\ Key(Aged(COV_Subscriptions[i])) = Key(COV_Subscriptions[i])
  <2>1. COV_Subscriptions[i] \in Subscription
    BY <1>3 DEF TypeInv, TypeOK, Valid
  <2>2. QED
    BY <2>1, AgedType, KeyUntouched, SubscriptionAssumption DEF Aged
<1>4. \A i \in Slots : Valid(i)' <=> Valid(i) /\ i \notin Expired
  BY <1>1, <1>3 DEF Valid
<1>5. Shrinks
  BY <1>1, <1>2, <1>3, <1>4 DEF Shrinks
<1>6. Expired = {} => Keeps
  BY <1>4, <1>5 DEF SecondPassed, Keeps
<1>7. QED
  BY <1>5, <1>6

LEMMA CancelShrinks ==
  ASSUME TypeInv, NEW c \in Contexts, CancelCOV(c)
  PROVE  Shrinks
<1> DEFINE slot == First(Existing(c))
<1>1. /\ COV_Subscriptions' = [COV_Subscriptions EXCEPT ![slot] = NoSubscription]
      /\ owner' = [owner EXCEPT ![slot] = NoPeer]
  BY DEF CancelCOV
<1> HIDE DEF slot
<1>2. \A i \in Slots :
        /\ COV_Subscriptions'[i] = IF i = slot THEN NoSubscription ELSE COV_Subscriptions[i]
        /\ owner'[i] = IF i = slot THEN NoPeer ELSE owner[i]
  BY <1>1 DEF TypeInv, TypeOK
<1>3. QED
  BY <1>2 DEF Shrinks, Valid

\* Every step is a subscription, drops addresses with what it ends, or keeps it all.
LEMMA StepKinds ==
  ASSUME TypeInv, [Next]_vars
  PROVE  \/ \E c \in Contexts, confirmed \in Confirmed, lifetime \in Lifetimes :
              SubscribeCOV(c, confirmed, lifetime)
         \/ Shrinks /\ COV_Addresses' = UnusedRemoved(COV_Addresses, COV_Subscriptions')
         \/ Keeps
<1>1. CASE Receive
  <2>1. CASE \E c \in Contexts : CancelCOV(c)
    BY <2>1, CancelShrinks DEF CancelCOV
  <2>2. CASE \/ ReceiveOther
             \/ \E o \in Objects, v \in BOOLEAN : \E p \in Writable[o] : WriteProperty(o, p, v)
             \/ \E id \in InvokeIDs : ReceiveAnswer(id)
             \/ \E c \in Contexts : SubscribeRefused(c) \/ CancelUnknown(c)
    <3>1. UNCHANGED <<COV_Subscriptions, COV_Addresses, owner>>
      BY <2>2 DEF ReceiveOther, WriteProperty, ReceiveAnswer, SubscribeRefused, CancelUnknown, cov
    <3>2. QED
      BY <3>1, SameKept
  <2>3. QED
    BY <1>1, <2>1, <2>2 DEF Receive
<1>2. CASE TsmTimer \/ NotYetASecond \/ UNCHANGED vars
  BY <1>2, SameKept DEF TsmTimer, NotYetASecond, vars, cov
<1>3. CASE CovTask
  BY <1>3, TaskKeeps
<1>4. CASE SecondPassed
  BY <1>4, SecondShrinks DEF SecondPassed
<1>5. QED
  BY <1>1, <1>2, <1>3, <1>4 DEF Next
-----------------------------------------------------------------------------
(***************************************************************************)
(* The address table is exact.                                             *)
(***************************************************************************)
LEMMA KeepsExact ==
  ASSUME AddressTableExact, Keeps
  PROVE  AddressTableExact'
<1>1. \A a \in AddressIndex : Uses(COV_Subscriptions', a) <=> Uses(COV_Subscriptions, a)
  <2>1. \A i \in Slots : Valid(i)' <=> Valid(i)
    BY DEF Keeps, Shrinks
  <2>2. \A i \in Slots : Valid(i) => COV_Subscriptions'[i].dest_index = COV_Subscriptions[i].dest_index
    BY <2>1, KeyFields DEF Keeps, Shrinks
  <2>3. QED
    BY <2>1, <2>2 DEF Uses, Valid
<1>2. COV_Addresses' = COV_Addresses
  BY DEF Keeps
<1>3. QED
  BY <1>1, <1>2 DEF AddressTableExact

LEMMA ShrinksExact ==
  ASSUME AddressTableExact, Shrinks,
         COV_Addresses' = UnusedRemoved(COV_Addresses, COV_Subscriptions')
  PROVE  AddressTableExact'
<1>1. \A a \in AddressIndex : Uses(COV_Subscriptions', a) => Uses(COV_Subscriptions, a)
  <2>1. \A i \in Slots : Valid(i)' =>
          Valid(i) /\ COV_Subscriptions'[i].dest_index = COV_Subscriptions[i].dest_index
    BY KeyFields DEF Shrinks
  <2>2. QED
    BY <2>1 DEF Uses, Valid
<1>2. \A a \in AddressIndex :
        COV_Addresses'[a] = IF Uses(COV_Subscriptions', a) THEN COV_Addresses[a] ELSE NoPeer
  BY DEF UnusedRemoved
<1>3. QED
  BY <1>1, <1>2 DEF AddressTableExact

\* The slot a subscription gets: that of one it is taken for, or a free one.
LEMMA SubscriptionStored ==
  ASSUME TypeInv, NEW c \in Contexts, NEW confirmed \in Confirmed, NEW lifetime \in Lifetimes,
         SubscribeCOV(c, confirmed, lifetime)
  PROVE  \E i \in Slots, sub \in Subscription :
           /\ \/ i \in Existing(c)
              \/ Existing(c) = {} /\ ~ Valid(i)
           /\ COV_Subscriptions' = [COV_Subscriptions EXCEPT ![i] = sub]
           /\ owner' = [owner EXCEPT ![i] = c.src]
           /\ sub.dest_index = AddressAdded(COV_Addresses, c.src).index
           /\ sub.object = c.object /\ sub.pid = c.pid /\ sub.send_requested
           /\ heard' = [heard EXCEPT ![i] = NotNotified] /\ UNCHANGED objects
           /\ COV_Addresses' = AddressAdded(COV_Addresses, c.src).table
           /\ c.src \in Peers
<1> DEFINE i == First(IF Existing(c) # {} THEN Existing(c) ELSE FreeSlots)
           added == AddressAdded(COV_Addresses, c.src)
           sub == [dest_index |-> added.index, object |-> c.object, pid |-> c.pid,
                   confirmed |-> confirmed, invokeID |-> 0, lifetime |-> lifetime,
                   send_requested |-> TRUE]
<1>1. Existing(c) \in SUBSET Nat /\ FreeSlots \in SUBSET Nat
  BY SlotFacts DEF Existing, FreeSlots
<1>2. i \in Existing(c) \/ (Existing(c) = {} /\ i \in FreeSlots)
  BY <1>1, FirstProperty DEF SubscribeCOV
<1>3. i \in Slots /\ (i \in Existing(c) \/ (Existing(c) = {} /\ ~ Valid(i)))
  BY <1>2 DEF Existing, FreeSlots
<1>4. /\ COV_Subscriptions' = [COV_Subscriptions EXCEPT ![i] = sub]
      /\ owner' = [owner EXCEPT ![i] = c.src]
      /\ heard' = [heard EXCEPT ![i] = NotNotified] /\ UNCHANGED objects
      /\ COV_Addresses' = added.table
      /\ c.object \in Objects
  BY DEF SubscribeCOV
<1>5. c.src \in Peers /\ c.pid \in {d.pid : d \in Contexts} /\ confirmed \in BOOLEAN /\ lifetime \in Nat
  BY CovAssumption DEF Peers
<1>6. added.index \in AddressIndex \cup {NoAddress}
  BY <1>5, AddressAddedType DEF TypeInv, TypeOK
<1> HIDE DEF i, added
<1>7. sub \in Subscription
  BY <1>4, <1>5, <1>6 DEF Subscription
<1>8. sub.dest_index = added.index /\ sub.object = c.object /\ sub.pid = c.pid
      /\ sub.send_requested
  OBVIOUS
<1> HIDE DEF sub
<1>9. QED
  BY <1>3, <1>4, <1>5, <1>7, <1>8 DEF added

LEMMA SubscribeExact ==
  ASSUME TypeInv, AddressTableExact,
         NEW c \in Contexts, NEW confirmed \in Confirmed, NEW lifetime \in Lifetimes,
         SubscribeCOV(c, confirmed, lifetime)
  PROVE  AddressTableExact'
<1> DEFINE added == AddressAdded(COV_Addresses, c.src)
<1>1. PICK i \in Slots, sub \in Subscription :
        /\ i \in Existing(c) \/ (Existing(c) = {} /\ ~ Valid(i))
        /\ COV_Subscriptions' = [COV_Subscriptions EXCEPT ![i] = sub]
        /\ sub.dest_index = added.index
        /\ COV_Addresses' = added.table
        /\ c.src \in Peers
  BY SubscriptionStored
<1>2. c.src # NoPeer /\ sub # NoSubscription
  BY <1>1, CovAssumption, SubscriptionAssumption
<1>3. COV_Addresses \in [AddressIndex -> Peers \cup {NoPeer}]
  BY DEF TypeInv, TypeOK
<1>4. \/ /\ added.index \in AddressIndex
         /\ COV_Addresses[added.index] = c.src
         /\ added.table = COV_Addresses
      \/ /\ \A a \in AddressIndex : COV_Addresses[a] # c.src
         /\ added.index \in AddressIndex
         /\ COV_Addresses[added.index] = NoPeer
         /\ added.table = [COV_Addresses EXCEPT ![added.index] = c.src]
      \/ /\ \A a \in AddressIndex : COV_Addresses[a] \notin {c.src, NoPeer}
         /\ added.index = NoAddress
         /\ added.table = COV_Addresses
  BY <1>1, <1>3, AddressAddedProperty
<1> HIDE DEF added
\* What a subscription that is taken over used is its new subscriber's, or nothing.
<1>5. ASSUME NEW a \in AddressIndex, Valid(i), COV_Subscriptions[i].dest_index = a
      PROVE  COV_Addresses[a] = c.src
  <2>1. Dest(COV_Subscriptions[i]) \in {c.src, NoPeer}
    BY <1>1, <1>5 DEF Existing, Matches
  <2>2. COV_Addresses[a] \in {c.src, NoPeer}
    BY <1>5, <2>1 DEF Dest
  <2>3. Uses(COV_Subscriptions, a)
    BY <1>5 DEF Uses, Valid
  <2>4. QED
    BY <2>2, <2>3 DEF AddressTableExact
<1>6. \A a \in AddressIndex :
        Uses(COV_Subscriptions', a) <=>
          a = added.index \/ \E j \in Slots \ {i} : Valid(j) /\ COV_Subscriptions[j].dest_index = a
  <2>1. \A j \in Slots : COV_Subscriptions'[j] = IF j = i THEN sub ELSE COV_Subscriptions[j]
    BY <1>1 DEF TypeInv, TypeOK
  <2>2. QED
    BY <1>1, <1>2, <2>1 DEF Uses, Valid
<1>7. \A a \in AddressIndex : COV_Addresses[a] \notin {c.src, NoPeer} =>
        \E j \in Slots \ {i} : Valid(j) /\ COV_Subscriptions[j].dest_index = a
  BY <1>5 DEF AddressTableExact, Uses, Valid
<1>8. \A a \in AddressIndex, j \in Slots :
        Valid(j) /\ COV_Subscriptions[j].dest_index = a => COV_Addresses[a] # NoPeer
  BY DEF AddressTableExact, Uses, Valid
<1>9. \A a, b \in AddressIndex :
        COV_Addresses[a] = COV_Addresses[b] /\ COV_Addresses[a] # NoPeer => a = b
  BY DEF AddressTableExact
<1>10. ASSUME NEW a \in AddressIndex
       PROVE  added.table[a] # NoPeer <=> Uses(COV_Subscriptions', a)
  BY ZenonT(60), <1>2, <1>3, <1>4, <1>6, <1>7, <1>8, <1>9, SlotFacts
<1>11. \A a, b \in AddressIndex :
         added.table[a] = added.table[b] /\ added.table[a] # NoPeer => a = b
  BY ZenonT(60), <1>2, <1>3, <1>4, <1>9
<1>12. QED
  BY <1>1, <1>10, <1>11 DEF AddressTableExact

LEMMA InitExact == Init => AddressTableExact
BY DEF Init, AddressTableExact, Uses

LEMMA NextExact == TypeInv /\ AddressTableExact /\ [Next]_vars => AddressTableExact'
BY StepKinds, KeepsExact, ShrinksExact, SubscribeExact

\* After any history of subscriptions, renewals, cancellations and expiries the address
\* table of h_cov.c holds exactly the addresses that are used, each once.
THEOREM AddressesExact == Spec => []AddressTableExact
<1>1. Spec => []TypeInv
  BY InitType, NextType, PTL DEF Spec
<1>2. QED
  BY <1>1, InitExact, NextExact, PTL DEF Spec

-----------------------------------------------------------------------------
(***************************************************************************)
(* With an address entry for every peer, subscriptions are their           *)
(* subscribers' own.                                                       *)
(***************************************************************************)
EnoughAddresses == IsFiniteSet(Peers) /\ Cardinality(Peers) <= MaxAddresses

OwnerKnown == \A i \in Slots : Valid(i) => owner[i] \in Peers

OwnInv == AddressTableExact /\ NotifiesItsSubscriber /\ OwnerKnown /\ NoDuplicateSubscription

\* A counting argument: a table in which another peer finds no room holds every address once.
LEMMA RoomForAddress ==
  ASSUME EnoughAddresses, TypeInv, AddressTableExact, NEW src \in Peers
  PROVE  \E a \in AddressIndex : COV_Addresses[a] \in {src, NoPeer}
<1> SUFFICES ASSUME \A a \in AddressIndex : COV_Addresses[a] \notin {src, NoPeer} PROVE FALSE
  OBVIOUS
<1> DEFINE others == Peers \ {src}
<1>1. COV_Addresses \in [AddressIndex -> others]
  BY DEF TypeInv, TypeOK
<1>2. COV_Addresses \in Injection(AddressIndex, others)
  BY <1>1 DEF AddressTableExact, Injection, IsInjective
<1>3. IsFiniteSet(others) /\ Cardinality(others) = Cardinality(Peers) - 1
  BY FS_RemoveElement DEF EnoughAddresses
<1>4. IsFiniteSet(AddressIndex) /\ Cardinality(AddressIndex) = MaxAddresses
  BY FS_Interval, CovAssumption DEF AddressIndex, NoAddress
<1>5. Cardinality(AddressIndex) <= Cardinality(others)
  BY <1>2, <1>3, FS_Injection
<1>6. Cardinality(Peers) \in Nat
  BY FS_CardinalityType DEF EnoughAddresses
<1>7. MaxAddresses \in Nat /\ Cardinality(Peers) <= MaxAddresses
  BY CovAssumption DEF EnoughAddresses, NoAddress
<1> HIDE DEF others
<1>8. QED
  BY <1>3, <1>4, <1>5, <1>6, <1>7

LEMMA InitOwn == Init => OwnInv
BY InitExact DEF Init, OwnInv, NotifiesItsSubscriber, OwnerKnown, NoDuplicateSubscription, Valid

\* Ending subscriptions, and dropping the addresses none uses any more, does no harm to the
\* others.
LEMMA ShrinksOwn ==
  ASSUME OwnInv, Shrinks, AddressTableExact',
         \/ UNCHANGED COV_Addresses
         \/ COV_Addresses' = UnusedRemoved(COV_Addresses, COV_Subscriptions')
  PROVE  OwnInv'
<1>1. ASSUME NEW i \in Slots, Valid(i)'
      PROVE  /\ Valid(i) /\ owner'[i] = owner[i]
             /\ COV_Subscriptions'[i].dest_index = COV_Subscriptions[i].dest_index
             /\ COV_Subscriptions'[i].object = COV_Subscriptions[i].object
             /\ COV_Subscriptions'[i].pid = COV_Subscriptions[i].pid
  BY <1>1, KeyFields DEF Shrinks
<1>2. ASSUME NEW i \in Slots, Valid(i)'
      PROVE  Dest(COV_Subscriptions[i])' = Dest(COV_Subscriptions[i])
  <2> DEFINE a == COV_Subscriptions[i].dest_index
  <2>1. COV_Subscriptions'[i].dest_index = a
    BY <1>1, <1>2
  <2>2. a \in AddressIndex => COV_Addresses'[a] = COV_Addresses[a]
    <3>1. a \in AddressIndex => Uses(COV_Subscriptions', a)
      BY <1>2, <2>1 DEF Uses, Valid
    <3>2. QED
      BY <3>1 DEF UnusedRemoved
  <2>3. QED
    BY <2>1, <2>2 DEF Dest
<1>3. NotifiesItsSubscriber' /\ OwnerKnown'
  BY <1>1, <1>2 DEF OwnInv, NotifiesItsSubscriber, OwnerKnown
<1>4. NoDuplicateSubscription'
  BY <1>1 DEF OwnInv, NoDuplicateSubscription
<1>5. QED
  BY <1>3, <1>4 DEF OwnInv

\* A request has room for its address, and takes over the subscriber's own subscription.
LEMMA SubscribeOwn ==
  ASSUME EnoughAddresses, TypeInv, OwnInv, AddressTableExact',
         NEW c \in Contexts, NEW confirmed \in Confirmed, NEW lifetime \in Lifetimes,
         SubscribeCOV(c, confirmed, lifetime)
  PROVE  OwnInv'
<1> DEFINE added == AddressAdded(COV_Addresses, c.src)
<1>1. PICK i \in Slots, sub \in Subscription :
        /\ i \in Existing(c) \/ (Existing(c) = {} /\ ~ Valid(i))
        /\ COV_Subscriptions' = [COV_Subscriptions EXCEPT ![i] = sub]
        /\ owner' = [owner EXCEPT ![i] = c.src]
        /\ sub.dest_index = added.index
        /\ sub.object = c.object /\ sub.pid = c.pid
        /\ COV_Addresses' = added.table
        /\ c.src \in Peers
  BY SubscriptionStored
<1>2. c.src # NoPeer /\ sub # NoSubscription
  BY <1>1, CovAssumption, SubscriptionAssumption
<1>3. COV_Addresses \in [AddressIndex -> Peers \cup {NoPeer}]
  BY DEF TypeInv, TypeOK
<1>4. /\ added.index \in AddressIndex
      /\ COV_Addresses[added.index] \in {c.src, NoPeer}
      /\ added.table = [COV_Addresses EXCEPT ![added.index] = c.src]
  <2>1. \E a \in AddressIndex : COV_Addresses[a] \in {c.src, NoPeer}
    BY <1>1, RoomForAddress DEF OwnInv
  <2>2. \/ /\ added.index \in AddressIndex
           /\ COV_Addresses[added.index] = c.src
           /\ added.table = COV_Addresses
        \/ /\ added.index \in AddressIndex
           /\ COV_Addresses[added.index] = NoPeer
           /\ added.table = [COV_Addresses EXCEPT ![added.index] = c.src]
    BY <1>1, <1>3, <2>1, AddressAddedProperty
  <2> HIDE DEF added
  <2>3. QED
    BY <1>3, <2>2
<1> HIDE DEF added
<1>5. \A j \in Slots :
        /\ COV_Subscriptions'[j] = IF j = i THEN sub ELSE COV_Subscriptions[j]
        /\ owner'[j] = IF j = i THEN c.src ELSE owner[j]
  BY <1>1 DEF TypeInv, TypeOK
<1>6. \A a \in AddressIndex : COV_Addresses'[a] = IF a = added.index THEN c.src ELSE COV_Addresses[a]
  BY <1>1, <1>3, <1>4
<1>7. ASSUME NEW j \in Slots, j # i, Valid(j)
      PROVE  /\ COV_Subscriptions[j].dest_index \in AddressIndex
             /\ COV_Addresses[COV_Subscriptions[j].dest_index] = owner[j]
             /\ owner[j] \in Peers
  <2>1. Dest(COV_Subscriptions[j]) = owner[j] /\ owner[j] \in Peers
    BY <1>7 DEF OwnInv, NotifiesItsSubscriber, OwnerKnown
  <2>2. owner[j] # NoPeer
    BY <2>1, CovAssumption
  <2>3. QED
    BY <2>1, <2>2 DEF Dest
<1>8. \A j \in Slots : Valid(j)' <=> (j = i \/ Valid(j))
  BY <1>2, <1>5 DEF Valid
<1>9. ASSUME NEW j \in Slots, j # i, Valid(j)
      PROVE  Dest(COV_Subscriptions[j])' = owner'[j]
  <2> DEFINE a == COV_Subscriptions[j].dest_index
  <2>1. COV_Subscriptions'[j] = COV_Subscriptions[j] /\ owner'[j] = owner[j]
    BY <1>5, <1>9
  <2>2. a \in AddressIndex /\ COV_Addresses[a] = owner[j] /\ owner[j] # NoPeer
    BY <1>7, <1>9, CovAssumption
  <2>3. COV_Addresses'[a] = COV_Addresses[a]
    BY <1>4, <1>6, <2>2
  <2>4. QED
    BY <2>1, <2>2, <2>3 DEF Dest
<1>10. Dest(COV_Subscriptions[i])' = owner'[i]
  <2>1. COV_Subscriptions'[i].dest_index = added.index /\ owner'[i] = c.src
    BY <1>1, <1>5
  <2>2. QED
    BY <1>4, <1>6, <2>1 DEF Dest
<1>11. NotifiesItsSubscriber'
  BY <1>8, <1>9, <1>10 DEF NotifiesItsSubscriber
<1>12. OwnerKnown'
  BY <1>1, <1>5, <1>8 DEF OwnInv, OwnerKnown
\* A second subscription of c.src to this would have been found.
<1>13. ASSUME NEW j \in Slots, j # i, Valid(j), owner[j] = c.src,
              COV_Subscriptions[j].object = c.object, COV_Subscriptions[j].pid = c.pid
       PROVE  FALSE
  <2>1. Dest(COV_Subscriptions[j]) = c.src
    BY <1>13 DEF OwnInv, NotifiesItsSubscriber
  <2>2. j \in Existing(c)
    BY <1>13, <2>1 DEF Existing, Matches
  <2>3. Valid(i) /\ COV_Subscriptions[i].object = c.object /\ COV_Subscriptions[i].pid = c.pid
        /\ Dest(COV_Subscriptions[i]) \in {c.src, NoPeer}
    BY <1>1, <2>2 DEF Existing, Matches
  <2>4. owner[i] = c.src
    BY <2>3, CovAssumption DEF OwnInv, NotifiesItsSubscriber, OwnerKnown
  <2>5. QED
    BY <1>13, <2>3, <2>4 DEF OwnInv, NoDuplicateSubscription
<1>14. NoDuplicateSubscription'
  BY <1>1, <1>5, <1>8, <1>13 DEF OwnInv, NoDuplicateSubscription
<1>15. QED
  BY <1>11, <1>12, <1>14 DEF OwnInv

LEMMA NextOwn == EnoughAddresses /\ TypeInv /\ OwnInv /\ [Next]_vars => OwnInv'
<1> SUFFICES ASSUME EnoughAddresses, TypeInv, OwnInv, [Next]_vars PROVE OwnInv'
  OBVIOUS
<1>1. AddressTableExact'
  BY NextExact DEF OwnInv
<1>2. QED
  BY <1>1, StepKinds, ShrinksOwn, SubscribeOwn DEF Keeps

LEMMA OwnAlways == EnoughAddresses /\ Spec => []OwnInv
<1>1. Spec => []TypeInv
  BY InitType, NextType, PTL DEF Spec
<1>2. CASE EnoughAddresses
  <2>1. TypeInv /\ OwnInv /\ [Next]_vars => OwnInv'
    BY <1>2, NextOwn
  <2>2. QED
    BY <1>1, <2>1, InitOwn, PTL DEF Spec
<1>3. CASE ~ EnoughAddresses
  BY <1>3
<1>4. QED
  BY <1>2, <1>3

\* With an address entry for every peer, notifications of h_cov.c go to the peer that
\* subscribed, also after slots and addresses have been used again.
THEOREM NotifiesSubscribers == EnoughAddresses /\ Spec => []NotifiesItsSubscriber
<1>1. OwnInv => NotifiesItsSubscriber
  BY DEF OwnInv
<1>2. QED
  BY <1>1, OwnAlways, PTL

\* With an address entry for every peer, a peer that subscribes again is given its own
\* subscription, wherever in the table it is: nobody is notified twice of one thing.
THEOREM SubscriptionsUnique == EnoughAddresses /\ Spec => []NoDuplicateSubscription
<1>1. OwnInv => NoDuplicateSubscription
  BY DEF OwnInv
<1>2. QED
  BY <1>1, OwnAlways, PTL

-----------------------------------------------------------------------------
\* Of the steps that do not subscribe, only the second and a cancellation end anything.
LEMMA EndedBy ==
  ASSUME TypeInv, OwnInv, [Next]_vars, NEW i \in Slots, Valid(i), owner'[i] # owner[i]
  PROVE  \/ COV_Subscriptions[i].lifetime = 1 /\ turn = "second"
         \/ \E c \in Contexts : c.src = owner[i] /\ CancelCOV(c)
<1>0. ~ Keeps
  BY DEF Keeps, Shrinks
<1>1. owner[i] \in Peers /\ owner[i] # NoPeer /\ Dest(COV_Subscriptions[i]) = owner[i]
  BY CovAssumption DEF OwnInv, OwnerKnown, NotifiesItsSubscriber
<1>2. ASSUME NEW c \in Contexts, i \in Existing(c)
      PROVE  c.src = owner[i]
  BY <1>1, <1>2 DEF Existing, Matches
<1>3. ASSUME NEW c \in Contexts, NEW confirmed \in Confirmed, NEW lifetime \in Lifetimes,
             SubscribeCOV(c, confirmed, lifetime)
      PROVE  FALSE
  <2>1. PICK k \in Slots :
          /\ k \in Existing(c) \/ (Existing(c) = {} /\ ~ Valid(k))
          /\ owner' = [owner EXCEPT ![k] = c.src]
    BY <1>3, SubscriptionStored
  <2>2. i = k /\ owner'[i] = c.src
    BY <2>1 DEF TypeInv, TypeOK
  <2>3. QED
    BY <1>2, <2>1, <2>2
<1>4. ASSUME NEW c \in Contexts, CancelCOV(c) PROVE c.src = owner[i]
  <2>1. First(Existing(c)) \in Existing(c)
    BY <1>4, SlotFacts, FirstProperty DEF CancelCOV, Existing
  <2>2. owner' = [owner EXCEPT ![First(Existing(c))] = NoPeer]
    BY <1>4 DEF CancelCOV
  <2>3. i = First(Existing(c))
    BY <2>2 DEF TypeInv, TypeOK
  <2>4. QED
    BY <1>2, <2>1, <2>3
<1>5. ASSUME SecondPassed PROVE COV_Subscriptions[i].lifetime = 1 /\ turn = "second"
  <2>1. owner'[i] = IF i \in Expired THEN NoPeer ELSE owner[i]
    BY <1>5 DEF SecondPassed
  <2>2. i \in Expired
    BY <2>1
  <2>3. QED
    BY <1>5, <2>2 DEF Expired, SecondPassed, LoopEnd
<1>6. CASE Receive
  <2>1. CASE \/ ReceiveOther
             \/ \E o \in Objects, v \in BOOLEAN : \E p \in Writable[o] : WriteProperty(o, p, v)
             \/ \E id \in InvokeIDs : ReceiveAnswer(id)
             \/ \E c \in Contexts : SubscribeRefused(c) \/ CancelUnknown(c)
    BY <2>1 DEF ReceiveOther, WriteProperty, ReceiveAnswer, SubscribeRefused, CancelUnknown, cov
  <2>2. QED
    BY <1>3, <1>4, <1>6, <2>1 DEF Receive
<1>7. CASE TsmTimer \/ NotYetASecond \/ UNCHANGED vars
  BY <1>7 DEF TsmTimer, NotYetASecond, vars, cov
<1>8. QED
  BY <1>0, <1>5, <1>6, <1>7, TaskKeeps DEF Next

\* With an address entry for every peer, no other peer's request to h_cov.c ever ends a
\* subscription or takes it over.
THEOREM SubscriberEndsIt == EnoughAddresses /\ Spec => OnlySubscriberOrTimeEnds
<1> DEFINE Ends == \A i \in Slots :
             Valid(i) /\ owner'[i] # owner[i] =>
               \/ COV_Subscriptions[i].lifetime = 1 /\ turn = "second"
               \/ \E c \in Contexts : c.src = owner[i] /\ CancelCOV(c)
<1>1. Spec => []TypeInv
  BY InitType, NextType, PTL DEF Spec
<1>2. TypeInv /\ OwnInv /\ [Next]_vars => [Ends]_vars
  BY EndedBy
<1>3. OnlySubscriberOrTimeEnds <=> [][Ends]_vars
  BY DEF OnlySubscriberOrTimeEnds
<1> HIDE DEF Ends
<1>4. QED
  BY <1>1, <1>2, <1>3, OwnAlways, PTL DEF Spec

-----------------------------------------------------------------------------
(***************************************************************************)
(* No change is forgotten where no object has two subscribers and nobody   *)
(* writes a polarity.  With two subscribers of one object the code can     *)
(* forget a change: CLEAR for the one drops the flag the other still needs. *)
(***************************************************************************)
OneSubscriberEach == \A c, d \in Contexts : c.object = d.object => c = d
PolarityKept == \A o \in Objects : "POLARITY" \notin Writable[o]

AskedFor ==
  \A i \in Slots : Valid(i) =>
    \E c \in Contexts :
      /\ c.src = owner[i]
      /\ c.object = COV_Subscriptions[i].object
      /\ c.pid = COV_Subscriptions[i].pid

LEMMA InitPending == Init => AskedFor /\ ChangeIsPending
BY DEF Init, AskedFor, ChangeIsPending, Valid

LEMMA NextAskedFor == TypeInv /\ AskedFor /\ [Next]_vars => AskedFor'
<1> SUFFICES ASSUME TypeInv, AskedFor, [Next]_vars PROVE AskedFor'
  OBVIOUS
<1>1. ASSUME Shrinks PROVE AskedFor'
  <2>1. \A i \in Slots : Valid(i)' =>
          /\ Valid(i) /\ owner'[i] = owner[i]
          /\ COV_Subscriptions'[i].object = COV_Subscriptions[i].object
          /\ COV_Subscriptions'[i].pid = COV_Subscriptions[i].pid
    BY <1>1, KeyFields DEF Shrinks
  <2>2. QED
    BY <2>1 DEF AskedFor
<1>2. ASSUME NEW c \in Contexts, NEW confirmed \in Confirmed, NEW lifetime \in Lifetimes,
             SubscribeCOV(c, confirmed, lifetime)
      PROVE  AskedFor'
  <2>1. PICK i \in Slots, sub \in Subscription :
          /\ COV_Subscriptions' = [COV_Subscriptions EXCEPT ![i] = sub]
          /\ owner' = [owner EXCEPT ![i] = c.src]
          /\ sub.object = c.object /\ sub.pid = c.pid
    BY <1>2, SubscriptionStored
  <2>2. \A j \in Slots :
          /\ COV_Subscriptions'[j] = IF j = i THEN sub ELSE COV_Subscriptions[j]
          /\ owner'[j] = IF j = i THEN c.src ELSE owner[j]
    BY <2>1 DEF TypeInv, TypeOK
  <2>3. QED
    BY <2>1, <2>2 DEF AskedFor, Valid
<1>3. QED
  BY <1>1, <1>2, StepKinds DEF Keeps

\* No second subscription looks at an object.
LEMMA OnlyOne ==
  ASSUME OneSubscriberEach, OwnInv, AskedFor, NEW i \in Slots, NEW j \in Slots,
         Valid(i), Valid(j), COV_Subscriptions[i].object = COV_Subscriptions[j].object
  PROVE  i = j
<1>1. owner[i] = owner[j] /\ COV_Subscriptions[i].pid = COV_Subscriptions[j].pid
  BY DEF AskedFor, OneSubscriberEach
<1>2. QED
  BY <1>1 DEF OwnInv, NoDuplicateSubscription

\* While no object changes, a subscription may be told or asked to be, or stays as it is.
LEMMA PendingStays ==
  ASSUME ChangeIsPending, UNCHANGED objects,
         \A i \in Slots : Valid(i)' =>
           \/ COV_Subscriptions'[i].send_requested
           \/ heard'[i] = Visible(COV_Subscriptions'[i].object)
           \/ /\ Valid(i)
              /\ COV_Subscriptions'[i].object = COV_Subscriptions[i].object
              /\ COV_Subscriptions[i].send_requested => COV_Subscriptions'[i].send_requested
              /\ heard'[i] = heard[i]
  PROVE  ChangeIsPending'
<1> SUFFICES ASSUME NEW i \in Slots, Valid(i)'
             PROVE  \/ heard'[i] = Visible(COV_Subscriptions[i].object)'
                    \/ COV_Subscriptions'[i].send_requested
                    \/ objects'[COV_Subscriptions'[i].object].Change_Of_Value
  BY DEF ChangeIsPending
<1>1. Visible(COV_Subscriptions[i].object)' = Visible(COV_Subscriptions'[i].object)
  BY DEF Visible
<1>2. QED
  BY <1>1 DEF ChangeIsPending

\* A write flags what it changes, if it does not change the polarity.
LEMMA WriteFlags ==
  ASSUME NEW bi \in BinaryInput, NEW property \in {"PRESENT_VALUE", "OUT_OF_SERVICE"},
         NEW value \in BOOLEAN
  PROVE  LET new == Written(bi, property, value)
         IN  \/ new.Change_Of_Value
             \/ /\ new.Present_Value = bi.Present_Value
                /\ new.Polarity = bi.Polarity
                /\ new.Out_Of_Service = bi.Out_Of_Service
                /\ ~ bi.Change_Of_Value
<1>1. CASE property = "PRESENT_VALUE"
  <2> DEFINE raw == value # bi.Polarity
             changed == bi.Change_Of_Value \/ bi.Present_Value # raw
  <2>1. Written(bi, property, value) =
          [bi EXCEPT !.Present_Value = raw, !.Change_Of_Value = changed]
    BY <1>1 DEF Written, PresentValueSet, BinaryInput
  <2> HIDE DEF raw, changed
  <2>2. /\ Written(bi, property, value).Present_Value = raw
        /\ Written(bi, property, value).Change_Of_Value = changed
        /\ Written(bi, property, value).Polarity = bi.Polarity
        /\ Written(bi, property, value).Out_Of_Service = bi.Out_Of_Service
    BY <2>1 DEF BinaryInput
  <2>3. changed \/ (raw = bi.Present_Value /\ ~ bi.Change_Of_Value)
    BY DEF changed
  <2>4. QED
    BY <2>2, <2>3
<1>2. CASE property = "OUT_OF_SERVICE"
  <2> DEFINE changed == bi.Change_Of_Value \/ bi.Out_Of_Service # value
  <2>1. Written(bi, property, value) =
          [bi EXCEPT !.Out_Of_Service = value, !.Change_Of_Value = changed]
    BY <1>2 DEF Written, OutOfServiceSet, BinaryInput
  <2> HIDE DEF changed
  <2>2. /\ Written(bi, property, value).Out_Of_Service = value
        /\ Written(bi, property, value).Change_Of_Value = changed
        /\ Written(bi, property, value).Polarity = bi.Polarity
        /\ Written(bi, property, value).Present_Value = bi.Present_Value
    BY <2>1 DEF BinaryInput
  <2>3. changed \/ (value = bi.Out_Of_Service /\ ~ bi.Change_Of_Value)
    BY DEF changed
  <2>4. QED
    BY <2>2, <2>3
<1>3. QED
  BY <1>1, <1>2

LEMMA WritePending ==
  ASSUME PolarityKept, TypeInv, ChangeIsPending,
         NEW o \in Objects, NEW value \in BOOLEAN, NEW p \in Writable[o],
         WriteProperty(o, p, value)
  PROVE  ChangeIsPending'
<1> DEFINE new == Written(objects[o], p, value)
<1>1. p \in {"PRESENT_VALUE", "OUT_OF_SERVICE"} /\ objects[o] \in BinaryInput
  BY CovAssumption DEF PolarityKept, TypeInv, TypeOK
<1>2. \/ new.Change_Of_Value
      \/ /\ new.Present_Value = objects[o].Present_Value
         /\ new.Polarity = objects[o].Polarity
         /\ new.Out_Of_Service = objects[o].Out_Of_Service
         /\ ~ objects[o].Change_Of_Value
  BY <1>1, WriteFlags
<1>3. UNCHANGED <<COV_Subscriptions, heard>> /\ objects' = [objects EXCEPT ![o] = new]
  BY DEF WriteProperty, cov
<1> HIDE DEF new
<1>4. \A q \in Objects : objects'[q] = IF q = o THEN new ELSE objects[q]
  BY <1>3 DEF TypeInv, TypeOK
<1> SUFFICES ASSUME NEW i \in Slots, Valid(i)'
             PROVE  \/ heard'[i] = Visible(COV_Subscriptions[i].object)'
                    \/ COV_Subscriptions'[i].send_requested
                    \/ objects'[COV_Subscriptions'[i].object].Change_Of_Value
  BY DEF ChangeIsPending
<1> DEFINE q == COV_Subscriptions[i].object
<1>5. Valid(i) /\ q \in Objects
  <2>1. Valid(i)
    BY <1>3 DEF Valid
  <2>2. COV_Subscriptions[i] \in Subscription
    BY <2>1 DEF TypeInv, TypeOK, Valid
  <2>3. QED
    BY <2>1, <2>2 DEF Subscription
<1>6. \/ heard[i] = Visible(q)
      \/ COV_Subscriptions[i].send_requested
      \/ objects[q].Change_Of_Value
  BY <1>5 DEF ChangeIsPending
<1>7. \/ objects'[q].Change_Of_Value
      \/ /\ objects'[q].Present_Value = objects[q].Present_Value
         /\ objects'[q].Polarity = objects[q].Polarity
         /\ objects'[q].Out_Of_Service = objects[q].Out_Of_Service
         /\ ~ objects[q].Change_Of_Value
      \/ objects'[q] = objects[q]
  BY <1>2, <1>4, <1>5
<1>8. objects'[q].Change_Of_Value \/ (Visible(q)' = Visible(q) /\ ~ objects[q].Change_Of_Value)
  <2>1. CASE objects'[q].Change_Of_Value
    BY <2>1
  <2>2. CASE /\ objects'[q].Present_Value = objects[q].Present_Value
             /\ objects'[q].Polarity = objects[q].Polarity
             /\ objects'[q].Out_Of_Service = objects[q].Out_Of_Service
             /\ ~ objects[q].Change_Of_Value
    BY <1>3, <2>2 DEF Visible
  <2>3. CASE objects'[q] = objects[q]
    BY <1>3, <2>3 DEF Visible
  <2>4. QED
    BY <1>7, <2>1, <2>2, <2>3
<1>9. QED
  BY <1>3, <1>6, <1>8

LEMMA ReceivePending ==
  ASSUME PolarityKept, TypeInv, ChangeIsPending, Receive
  PROVE  ChangeIsPending'
<1>1. CASE \/ ReceiveOther
           \/ \E id \in InvokeIDs : ReceiveAnswer(id)
           \/ \E c \in Contexts : SubscribeRefused(c) \/ CancelUnknown(c)
  <2>1. UNCHANGED <<COV_Subscriptions, heard, objects>>
    BY <1>1 DEF ReceiveOther, ReceiveAnswer, SubscribeRefused, CancelUnknown, cov
  <2>2. QED
    BY <2>1, PendingStays DEF Valid
<1>2. ASSUME NEW c \in Contexts, NEW confirmed \in Confirmed, NEW lifetime \in Lifetimes,
             SubscribeCOV(c, confirmed, lifetime)
      PROVE  ChangeIsPending'
  <2>1. PICK i \in Slots, sub \in Subscription :
          /\ COV_Subscriptions' = [COV_Subscriptions EXCEPT ![i] = sub]
          /\ sub.send_requested
          /\ heard' = [heard EXCEPT ![i] = NotNotified] /\ UNCHANGED objects
    BY <1>2, SubscriptionStored
  <2>2. \A j \in Slots :
          /\ COV_Subscriptions'[j] = IF j = i THEN sub ELSE COV_Subscriptions[j]
          /\ j # i => heard'[j] = heard[j]
    BY <2>1 DEF TypeInv, TypeOK
  <2>3. QED
    BY <2>1, <2>2, PendingStays DEF Valid
<1>3. ASSUME NEW c \in Contexts, CancelCOV(c) PROVE ChangeIsPending'
  <2> DEFINE slot == First(Existing(c))
  <2>1. /\ COV_Subscriptions' = [COV_Subscriptions EXCEPT ![slot] = NoSubscription]
        /\ heard' = [heard EXCEPT ![slot] = NotNotified] /\ UNCHANGED objects
    BY <1>3 DEF CancelCOV
  <2> HIDE DEF slot
  <2>2. \A j \in Slots :
          /\ COV_Subscriptions'[j] = IF j = slot THEN NoSubscription ELSE COV_Subscriptions[j]
          /\ j # slot => heard'[j] = heard[j]
    BY <2>1 DEF TypeInv, TypeOK
  <2>3. QED
    BY <2>1, <2>2, PendingStays DEF Valid
<1>4. QED
  BY <1>1, <1>2, <1>3, WritePending DEF Receive

\* The same, for a step of the task that changes nothing but one subscription.
LEMMA ThisPending ==
  ASSUME TypeInv, ChangeIsPending, This # NoSubscription, NEW sub \in Subscription,
         sub.object = This.object, UNCHANGED objects,
         COV_Subscriptions' = [COV_Subscriptions EXCEPT ![fsm.index] = sub],
         \/ sub.send_requested
         \/ heard' = [heard EXCEPT ![fsm.index] = Visible(This.object)]
         \/ This.send_requested => sub.send_requested,
         \/ heard' = heard
         \/ heard' = [heard EXCEPT ![fsm.index] = Visible(This.object)]
  PROVE  ChangeIsPending'
<1>1. fsm.index \in Slots /\ Valid(fsm.index)
  BY ThisType DEF TypeInv, Valid, This
<1>2. \A j \in Slots :
        /\ COV_Subscriptions'[j] = IF j = fsm.index THEN sub ELSE COV_Subscriptions[j]
        /\ j # fsm.index => heard'[j] = heard[j]
  BY <1>1 DEF TypeInv, TypeOK
<1>3. \/ heard'[fsm.index] = heard[fsm.index] /\ (This.send_requested => sub.send_requested)
      \/ heard'[fsm.index] = Visible(This.object)
      \/ sub.send_requested
  BY <1>1 DEF TypeInv, TypeOK
<1>4. \A j \in Slots : Valid(j)' => Valid(j)
  BY <1>1, <1>2 DEF Valid
<1>5. QED
  BY <1>1, <1>2, <1>3, <1>4, PendingStays DEF This

\* CLEAR drops the flag only for the one who is asked to be sent the change.
LEMMA ClearPending ==
  ASSUME OneSubscriberEach, TypeInv, OwnInv, AskedFor, ChangeIsPending, CovClear
  PROVE  ChangeIsPending'
<1>1. CASE ~ ToClear
  <2>1. UNCHANGED <<COV_Subscriptions, heard, objects>>
    BY <1>1 DEF CovClear, cov
  <2>2. QED
    BY <2>1, PendingStays DEF Valid
<1>2. CASE ToClear
  <2> DEFINE o     == This.object
             clear == [objects[o] EXCEPT !.Change_Of_Value = FALSE]
  <2>1. UNCHANGED <<COV_Subscriptions, heard>> /\ objects' = [objects EXCEPT ![o] = clear]
    BY <1>2 DEF CovClear, cov
  <2>2. /\ This # NoSubscription /\ This.send_requested
        /\ fsm.index \in Slots /\ o \in Objects /\ Valid(fsm.index)
    BY <1>2, ThisType DEF ToClear, Requested, TypeInv, Valid, This
  <2> SUFFICES ASSUME NEW i \in Slots, Valid(i)'
               PROVE  \/ heard'[i] = Visible(COV_Subscriptions[i].object)'
                      \/ COV_Subscriptions'[i].send_requested
                      \/ objects'[COV_Subscriptions'[i].object].Change_Of_Value
    BY DEF ChangeIsPending
  <2>3. Valid(i)
    BY <2>1 DEF Valid
  <2>4. CASE i = fsm.index
    BY <2>1, <2>2, <2>4 DEF This
  <2>5. CASE i # fsm.index
    <3> DEFINE q == COV_Subscriptions[i].object
    <3>1. q # o
      BY <2>2, <2>3, <2>5, OnlyOne DEF This
    <3> HIDE DEF clear
    <3>2. objects'[q] = objects[q]
      BY <2>1, <3>1
    <3>3. Visible(q)' = Visible(q)
      BY <2>1, <3>2 DEF Visible
    <3>4. QED
      BY <2>1, <2>3, <3>2, <3>3 DEF ChangeIsPending
  <2>6. QED
    BY <2>4, <2>5
<1>3. QED
  BY <1>1, <1>2

LEMMA TaskPending ==
  ASSUME OneSubscriberEach, TypeInv, OwnInv, AskedFor, ChangeIsPending, CovTask
  PROVE  ChangeIsPending'
<1>0. TypeOK
  BY DEF TypeInv
<1>1. CASE UNCHANGED <<COV_Subscriptions, heard, objects>>
  BY <1>1, PendingStays DEF Valid
<1>2. CASE CovMark
  <2>1. CASE This # NoSubscription /\ objects[This.object].Change_Of_Value
    <3> DEFINE sub == [This EXCEPT !.send_requested = TRUE]
    <3>1. COV_Subscriptions' = [COV_Subscriptions EXCEPT ![fsm.index] = sub]
      BY <1>2, <2>1 DEF CovMark, This
    <3>2. sub \in Subscription /\ sub.object = This.object /\ sub.send_requested
      BY <1>0, <2>1, ThisType, SubscriptionFields DEF Subscription
    <3> HIDE DEF sub
    <3>3. QED
      BY <1>2, <2>1, <3>1, <3>2, ThisPending DEF CovMark
  <2>2. CASE ~ (This # NoSubscription /\ objects[This.object].Change_Of_Value)
    BY <1>1, <1>2, <2>2 DEF CovMark
  <2>3. QED
    BY <2>1, <2>2
<1>3. CASE CovFree
  <2> DEFINE concluded == This # NoSubscription /\ This.confirmed /\ This.invokeID # 0 /\ Concluded
             sub       == [This EXCEPT !.invokeID = 0]
  <2>1. CASE concluded
    <3>1. COV_Subscriptions' = [COV_Subscriptions EXCEPT ![fsm.index] = sub]
      BY <1>3, <2>1 DEF CovFree, This
    <3>2. /\ sub \in Subscription /\ sub.object = This.object
          /\ sub.send_requested = This.send_requested
      BY <1>0, <2>1, ThisType, SubscriptionFields DEF Subscription
    <3> HIDE DEF sub
    <3>3. QED
      BY <1>3, <2>1, <3>1, <3>2, ThisPending DEF CovFree
  <2>2. CASE ~ concluded
    BY <1>1, <1>3, <2>2 DEF CovFree
  <2>3. QED
    BY <2>1, <2>2
<1>4. ASSUME NEW sent \in BOOLEAN, CovSendUnconfirmed(sent) PROVE ChangeIsPending'
  <2> DEFINE sub == [This EXCEPT !.send_requested = ~sent]
  <2>1. /\ COV_Subscriptions' = [COV_Subscriptions EXCEPT ![fsm.index] = sub]
        /\ heard' = IF sent THEN [heard EXCEPT ![fsm.index] = Visible(This.object)] ELSE heard
        /\ UNCHANGED objects /\ This # NoSubscription
    BY <1>4 DEF CovSendUnconfirmed, MaySend, Requested, This
  <2>2. sub \in Subscription /\ sub.object = This.object /\ (sub.send_requested <=> ~sent)
    BY <1>0, <2>1, ThisType, SubscriptionFields DEF Subscription
  <2> HIDE DEF sub
  <2>3. QED
    BY <2>1, <2>2, ThisPending
<1>5. ASSUME NEW sent \in BOOLEAN, CovSendConfirmed(sent) PROVE ChangeIsPending'
  <2> DEFINE id   == NextUnused(TSM_List, Current_Invoke_ID)
             told == [This EXCEPT !.invokeID = id]
             sub  == [told EXCEPT !.send_requested = ~sent]
  <2>1. /\ COV_Subscriptions' = [COV_Subscriptions EXCEPT
             ![fsm.index].invokeID = id, ![fsm.index].send_requested = ~sent]
        /\ heard' = IF sent THEN [heard EXCEPT ![fsm.index] = Visible(This.object)] ELSE heard
        /\ UNCHANGED objects /\ This # NoSubscription /\ TransactionAvailable(TSM_List)
    BY <1>5 DEF CovSendConfirmed, MaySend, Requested
  <2>2. id \in InvokeIDs
    BY <2>1, NextUnusedProperty DEF TypeInv, TypeOK
  <2> HIDE DEF id
  <2>3. told \in Subscription /\ told.object = This.object
    BY <1>0, <2>1, <2>2, ThisType, SubscriptionFields DEF Subscription
  <2>4. COV_Subscriptions' = [COV_Subscriptions EXCEPT ![fsm.index] = sub]
    <3>1. fsm.index \in Slots /\ DOMAIN COV_Subscriptions = Slots
      BY <1>0, <2>1, ThisType DEF TypeOK
    <3>2. QED
      BY <2>1, <3>1 DEF This
  <2> HIDE DEF told
  <2>5. sub \in Subscription /\ sub.object = This.object /\ (sub.send_requested <=> ~sent)
    BY <2>3, SubscriptionFields DEF Subscription
  <2> HIDE DEF sub
  <2>6. QED
    BY <2>1, <2>4, <2>5, ThisPending
<1>6. CASE CovIdle \/ CovSendNothing
  BY <1>1, <1>6 DEF CovIdle, CovSendNothing, cov
<1>7. QED
  BY <1>2, <1>3, <1>4, <1>5, <1>6, ClearPending DEF CovTask

LEMMA SecondPending ==
  ASSUME TypeInv, ChangeIsPending, SecondPassed
  PROVE  ChangeIsPending'
<1>1. /\ UNCHANGED objects
      /\ \A i \in Slots :
           /\ COV_Subscriptions'[i] = IF Valid(i) /\ i \notin Expired
                                      THEN Aged(COV_Subscriptions[i]) ELSE NoSubscription
           /\ i \notin Expired => heard'[i] = heard[i]
  BY DEF SecondPassed
<1>2. ASSUME NEW i \in Slots, Valid(i)
      PROVE  /\ Aged(COV_Subscriptions[i]).object = COV_Subscriptions[i].object
             /\ Aged(COV_Subscriptions[i]).send_requested = COV_Subscriptions[i].send_requested
  <2>1. COV_Subscriptions[i] \in Subscription
    BY <1>2 DEF TypeInv, TypeOK, Valid
  <2>2. QED
    BY <2>1 DEF Aged, Subscription
<1>3. QED
  BY <1>1, <1>2, PendingStays DEF Valid

LEMMA NextPending ==
  ASSUME OneSubscriberEach, PolarityKept,
         TypeInv, OwnInv, AskedFor, ChangeIsPending, [Next]_vars
  PROVE  ChangeIsPending'
<1>1. CASE TsmTimer \/ NotYetASecond \/ UNCHANGED vars
  <2>1. UNCHANGED <<COV_Subscriptions, heard, objects>>
    BY <1>1 DEF TsmTimer, NotYetASecond, vars, cov
  <2>2. QED
    BY <2>1, PendingStays DEF Valid
<1>2. QED
  BY <1>1, ReceivePending, TaskPending, SecondPending DEF Next

\* Where each object has one subscriber with an address entry and polarities are left alone,
\* no interleaving of writes, subscriptions and passes of h_cov.c forgets a change: the
\* subscriber has been sent the current value, or is going to be.
THEOREM ChangesPending ==
  EnoughAddresses /\ OneSubscriberEach /\ PolarityKept /\ Spec => []ChangeIsPending
<1>1. Spec => []TypeInv
  BY InitType, NextType, PTL DEF Spec
<1>2. CASE OneSubscriberEach /\ PolarityKept
  <2>1. TypeInv /\ OwnInv /\ AskedFor /\ ChangeIsPending /\ [Next]_vars => ChangeIsPending'
    BY <1>2, NextPending
  <2>2. QED
    BY <1>1, <2>1, InitPending, NextAskedFor, OwnAlways, PTL DEF Spec
<1>3. CASE ~ (OneSubscriberEach /\ PolarityKept)
  BY <1>3
<1>4. QED
  BY <1>2, <1>3

-----------------------------------------------------------------------------
(***************************************************************************)
(* Every transaction is its subscriber's.  An answer may release an invoke *)
(* ID while the subscription still waits for it, and the next one to send  *)
(* takes what is released.  That two never wait for the same ID is a       *)
(* matter of time: if no request outlives a cycle of the task, FREE finds  *)
(* each one answered or given up, SEND starts with none waiting, and hands *)
(* out fewer IDs than there are.                                           *)
(***************************************************************************)
\* The calls of the timer until a request is given up, and those from SEND of a
\* subscription to its FREE in the next cycle (3000 ms, 3 retries and 128 subscriptions
\* make 120 <= 385).
Calls(retries) == (Retries - retries + 1) * Timeout

RetriesEndInACycle == Calls(0) <= 3 * MaxSubscriptions + 1

Waiting(i) == Valid(i) /\ COV_Subscriptions[i].invokeID # 0
AwaitedID(i) == COV_Subscriptions[i].invokeID

\* How many searches ago an ID was handed out, at least.
Age(id) ==
  IF id < Current_Invoke_ID THEN Current_Invoke_ID - id
  ELSE Current_Invoke_ID + MaxInvokeID - id

\* The subscriptions SEND has looked at since FREE.
Looked == IF fsm.state = "SEND" THEN fsm.index ELSE MaxSubscriptions

\* The calls of the timer a request may still wait, and those until FREE looks at it.
Left(entry) == Calls(entry.RetryCount) - Timeout + entry.RequestTimer

StepsToFree(i) ==
  IF fsm.state = "IDLE" THEN 2 * MaxSubscriptions + 1 + i
  ELSE IF fsm.state = "MARK" THEN 2 * MaxSubscriptions - fsm.index + i
  ELSE IF fsm.state = "CLEAR" THEN MaxSubscriptions - fsm.index + i
  ELSE IF fsm.state = "FREE" THEN i - fsm.index
  ELSE 3 * MaxSubscriptions + 1 - fsm.index + i

CallsToFree(i) == IF turn = "cov" THEN StepsToFree(i) ELSE StepsToFree(i) + 1

\* What waits was sent after the last FREE, in the order of the slots.
Recent ==
  \A i \in Slots : Waiting(i) =>
    /\ COV_Subscriptions[i].confirmed
    /\ fsm.state = "FREE" => fsm.index <= i
    /\ Age(AwaitedID(i)) <= Looked - i

AwaitedOnce ==
  \A i, j \in Slots : Waiting(i) /\ Waiting(j) /\ AwaitedID(i) = AwaitedID(j) => i = j

\* Subscription i waits for transaction k, and FREE will find it over.
Owns(i, k) ==
  /\ Waiting(i) /\ AwaitedID(i) = TSM_List[k].InvokeID
  /\ TSM_List[k].apdu = [dest |-> owner[i], object |-> COV_Subscriptions[i].object,
                         pid |-> COV_Subscriptions[i].pid]
  /\ TSM_List[k].state = "AWAIT_CONFIRMATION" => Left(TSM_List[k]) <= CallsToFree(i)

AllOwned == \A k \in Index : TSM_List[k].InvokeID # 0 => \E i \in Slots : Owns(i, k)

WaitInv == Recent /\ AwaitedOnce /\ AllOwned

LEMMA WaitingType ==
  ASSUME TypeOK, NEW i \in Slots, Waiting(i)
  PROVE  COV_Subscriptions[i] \in Subscription /\ AwaitedID(i) \in InvokeIDs
BY DEF TypeOK, Waiting, Valid, AwaitedID, Subscription

\* An ID is as old as the whole supply if it comes next, else it ages with each search.
LEMMA AgeProperty ==
  ASSUME TypeOK
  PROVE  /\ \A id \in InvokeIDs : Age(id) \in 1 .. MaxInvokeID
         /\ \A id \in InvokeIDs : Age(id) = MaxInvokeID <=> id = Current_Invoke_ID
         /\ Current_Invoke_ID' = Successor(Current_Invoke_ID) =>
              \A id \in InvokeIDs :
                Age(id)' = IF id = Current_Invoke_ID THEN 1 ELSE Age(id) + 1
<1>1. Current_Invoke_ID \in 1 .. MaxInvokeID /\ MaxInvokeID \in Nat
  BY TableAssumption DEF TypeOK, InvokeIDs
<1>2. \A id \in InvokeIDs : Age(id) \in 1 .. MaxInvokeID
  BY <1>1 DEF Age, InvokeIDs
<1>3. \A id \in InvokeIDs : Age(id) = MaxInvokeID <=> id = Current_Invoke_ID
  BY <1>1 DEF Age, InvokeIDs
<1>4. ASSUME Current_Invoke_ID' = Successor(Current_Invoke_ID), NEW id \in InvokeIDs
      PROVE  Age(id)' = IF id = Current_Invoke_ID THEN 1 ELSE Age(id) + 1
  BY <1>1, <1>4 DEF Age, InvokeIDs, Successor
<1>. QED  BY <1>2, <1>3, <1>4

LEMMA CallsProperty ==
  /\ \A n \in 0 .. Retries : Calls(n) \in Nat /\ Calls(n) >= Timeout
  /\ \A n \in 0 .. Retries : n < Retries => Calls(n + 1) + Timeout = Calls(n)
<1>1. \A m \in Nat, t \in Nat : (m + 1) * t = m * t + t /\ m * t \in Nat
  OBVIOUS
<1>2. ASSUME NEW n \in 0 .. Retries
      PROVE  Calls(n) = (Retries - n) * Timeout + Timeout /\ (Retries - n) * Timeout \in Nat
  BY <1>1, TableAssumption DEF Calls
<1>3. ASSUME NEW n \in 0 .. Retries, n < Retries
      PROVE  Calls(n + 1) = (Retries - n) * Timeout
  BY TableAssumption, <1>3 DEF Calls
<1>. QED  BY <1>2, <1>3, TableAssumption

\* A call of the timer takes one from what is left.
LEMMA LeftTimed ==
  ASSUME NEW entry \in Entry(Notification), entry.state = "AWAIT_CONFIRMATION",
         entry.RequestTimer > 0
  PROVE  /\ Left(entry) > 0
         /\ Timed(entry).state = "AWAIT_CONFIRMATION" => Left(Timed(entry)) + 1 <= Left(entry)
<1>1. /\ entry.RetryCount \in 0 .. Retries /\ entry.RequestTimer \in 0 .. Timeout
      /\ Timeout \in Nat /\ Retries \in Nat
  BY TableAssumption DEF Entry
<1>2. Calls(entry.RetryCount) \in Nat /\ Calls(entry.RetryCount) >= Timeout
  BY <1>1, CallsProperty
<1>3. Left(entry) > 0
  BY <1>1, <1>2 DEF Left
<1>4. CASE Expires(entry) /\ RetriesLeft(entry)
  <2>1. Timed(entry) = Resend(entry) /\ entry.RequestTimer = 1 /\ entry.RetryCount < Retries
    BY <1>1, <1>4 DEF Timed, Expires, RetriesLeft
  <2>2. Resend(entry).RetryCount = entry.RetryCount + 1 /\ Resend(entry).RequestTimer = Timeout
    BY DEF Resend, Entry
  <2>3. Calls(entry.RetryCount + 1) + Timeout = Calls(entry.RetryCount)
    BY <1>1, <2>1, CallsProperty
  <2>4. entry.RetryCount + 1 \in 0 .. Retries
    BY <1>1, <2>1
  <2>5. Calls(entry.RetryCount + 1) \in Nat
    BY <2>4, CallsProperty
  <2>. QED  BY <1>1, <1>2, <1>3, <2>1, <2>2, <2>3, <2>5 DEF Left
<1>5. CASE Expires(entry) /\ ~ RetriesLeft(entry)
  BY <1>3, <1>5, GiveUpType DEF Timed
<1>6. CASE ~ Expires(entry)
  <2>1. Timed(entry) = Elapse(entry)
    BY <1>6 DEF Timed
  <2>2. Elapse(entry).RetryCount = entry.RetryCount
        /\ Elapse(entry).RequestTimer = entry.RequestTimer - 1
    BY DEF Elapse, Entry
  <2>. QED  BY <1>1, <1>2, <1>3, <2>1, <2>2 DEF Left
<1>. QED  BY <1>4, <1>5, <1>6

\* A step that at most ends waiting, or brings FREE nearer by as many calls of the timer as
\* it takes from what is left.
SameWait(i) ==
  /\ Waiting(i)
  /\ AwaitedID(i)' = AwaitedID(i)
  /\ COV_Subscriptions'[i].confirmed = COV_Subscriptions[i].confirmed
  /\ COV_Subscriptions'[i].object = COV_Subscriptions[i].object
  /\ COV_Subscriptions'[i].pid = COV_Subscriptions[i].pid
  /\ owner'[i] = owner[i]

SameTransaction(k, calls) ==
  /\ TSM_List'[k].InvokeID = TSM_List[k].InvokeID
  /\ TSM_List'[k].apdu = TSM_List[k].apdu
  /\ TSM_List'[k].state = "AWAIT_CONFIRMATION" =>
       /\ TSM_List[k].state = "AWAIT_CONFIRMATION"
       /\ Left(TSM_List'[k]) + calls <= Left(TSM_List[k])
  /\ \A i \in Slots : Waiting(i) /\ AwaitedID(i) = TSM_List[k].InvokeID => Waiting(i)'

Nearer(i, calls) ==
  /\ CallsToFree(i) <= CallsToFree(i)' + calls
  /\ Looked <= Looked'
  /\ fsm'.state = "FREE" => fsm'.index <= i

LEMMA LeftType ==
  ASSUME NEW entry \in Entry(Notification)
  PROVE  Left(entry) \in Int
<1>1. entry.RetryCount \in 0 .. Retries /\ entry.RequestTimer \in Int
  BY TableAssumption DEF Entry
<1>2. Calls(entry.RetryCount) \in Nat
  BY <1>1, CallsProperty
<1>. QED  BY <1>1, <1>2, TableAssumption DEF Left

LoopTyped ==
  /\ fsm.index \in Int /\ fsm.index < MaxSubscriptions /\ fsm.index >= 0
  /\ Looked \in Int /\ Looked <= MaxSubscriptions /\ MaxSubscriptions \in Nat
  /\ \A i \in Slots : CallsToFree(i) \in Int /\ StepsToFree(i) \in Int /\ i \in Nat

LEMMA LoopType == (TypeOK => LoopTyped) /\ (TypeOK' => LoopTyped')
<1>1. ASSUME TypeOK PROVE LoopTyped
  <2>1. fsm.index \in 0 .. MaxSubscriptions - 1 /\ MaxSubscriptions \in Nat
    BY <1>1, CovAssumption DEF TypeOK, Slots
  <2>. QED  BY <2>1 DEF LoopTyped, Looked, CallsToFree, StepsToFree, Slots
<1>2. ASSUME TypeOK' PROVE LoopTyped'
  <2>1. fsm'.index \in 0 .. MaxSubscriptions - 1 /\ MaxSubscriptions \in Nat
    BY <1>2, CovAssumption DEF TypeOK, Slots
  <2>. QED  BY <2>1 DEF LoopTyped, Looked, CallsToFree, StepsToFree, Slots
<1>. QED  BY <1>1, <1>2

LEMMA PassedOn ==
  ASSUME TypeOK, TypeOK', WaitInv, NEW calls \in {0, 1}, UNCHANGED Current_Invoke_ID,
         \A i \in Slots : Waiting(i)' => SameWait(i) /\ Nearer(i, calls),
         \A k \in Index : TSM_List'[k].InvokeID # 0 => SameTransaction(k, calls)
  PROVE  WaitInv'
<1>1. ASSUME NEW i \in Slots, Waiting(i)'
      PROVE  Waiting(i) /\ AwaitedID(i)' = AwaitedID(i) /\ Nearer(i, calls)
             /\ AwaitedID(i) \in InvokeIDs
  BY <1>1, WaitingType DEF SameWait
<1>2. Recent'
  <2> SUFFICES ASSUME NEW i \in Slots, Waiting(i)'
               PROVE  /\ COV_Subscriptions'[i].confirmed
                      /\ fsm'.state = "FREE" => fsm'.index <= i
                      /\ Age(AwaitedID(i))' <= Looked' - i
    BY DEF Recent
  <2>1. Age(AwaitedID(i))' = Age(AwaitedID(i))
    BY <1>1 DEF Age
  <2>2. /\ COV_Subscriptions[i].confirmed /\ Age(AwaitedID(i)) <= Looked - i
        /\ Age(AwaitedID(i)) \in Int
    BY <1>1, AgeProperty DEF WaitInv, Recent
  <2>3. Looked \in Int /\ Looked' \in Int /\ i \in Int /\ Looked <= Looked'
    BY <1>1, LoopType DEF Nearer, LoopTyped
  <2>. QED  BY <1>1, <2>1, <2>2, <2>3 DEF SameWait, Nearer
<1>3. AwaitedOnce'
  BY <1>1 DEF WaitInv, AwaitedOnce
<1>4. AllOwned'
  <2> SUFFICES ASSUME NEW k \in Index, TSM_List'[k].InvokeID # 0
               PROVE  \E i \in Slots : Owns(i, k)'
    BY DEF AllOwned
  <2>1. SameTransaction(k, calls)
    OBVIOUS
  <2>2. PICK i \in Slots : Owns(i, k)
    BY <2>1 DEF WaitInv, AllOwned, SameTransaction
  <2>3. Waiting(i)' /\ SameWait(i) /\ Nearer(i, calls)
    BY <2>1, <2>2 DEF Owns, SameTransaction
  <2>4. TSM_List'[k].state = "AWAIT_CONFIRMATION" => Left(TSM_List'[k]) <= CallsToFree(i)'
    <3>1. /\ Left(TSM_List[k]) \in Int /\ Left(TSM_List'[k]) \in Int
          /\ CallsToFree(i) \in Int /\ CallsToFree(i)' \in Int
      BY LeftType, LoopType DEF LoopTyped, TypeOK
    <3>2. /\ TSM_List'[k].state = "AWAIT_CONFIRMATION" =>
               /\ Left(TSM_List'[k]) + calls <= Left(TSM_List[k])
               /\ Left(TSM_List[k]) <= CallsToFree(i)
          /\ CallsToFree(i) <= CallsToFree(i)' + calls
      BY <2>1, <2>2, <2>3 DEF SameTransaction, Owns, Nearer
    <3> QED  BY <3>1, <3>2
  <2>5. Owns(i, k)'
    BY <2>1, <2>2, <2>3, <2>4 DEF Owns, SameTransaction, SameWait, Left, AwaitedID
  <2>. QED  BY <2>5
<1>. QED  BY <1>2, <1>3, <1>4 DEF WaitInv

\* Away from the task's own step, the loop is where it was, but for a call of the timer.
LEMMA LoopNearer ==
  ASSUME TypeOK, TypeOK', WaitInv, UNCHANGED fsm, turn # "cov",
         NEW calls \in {0, 1}, turn' # "cov" \/ calls = 1, NEW i \in Slots, Waiting(i)
  PROVE  Nearer(i, calls)
<1>1. LoopTyped
  BY LoopType
<1>2. Looked' = Looked /\ StepsToFree(i)' = StepsToFree(i)
  BY DEF Looked, StepsToFree
<1>3. CallsToFree(i) <= CallsToFree(i)' + calls
  BY <1>1, <1>2 DEF CallsToFree, LoopTyped
<1>. QED  BY <1>1, <1>2, <1>3 DEF Nearer, LoopTyped, WaitInv, Recent

\* What is still held after a release was held before, under an ID that was not released.
LEMMA FreeHolds ==
  ASSUME NEW table, WellFormed(table, Notification), NEW id \in InvokeIDs, NEW k \in Index,
         Free(table, id)[k].InvokeID # 0
  PROVE  Free(table, id)[k] = table[k] /\ table[k].InvokeID # id
<1>1. k # FindIndex(table, id)
  <2> SUFFICES ASSUME k = FindIndex(table, id) PROVE Free(table, id)[k].InvokeID = 0
    OBVIOUS
  <2>1. table[k] \in Entry(Notification)
    BY DEF WellFormed
  <2>. QED  BY <2>1 DEF Free, Entry
<1>2. Free(table, id)[k] = table[k]
  BY <1>1 DEF Free
<1>3. ASSUME table[k].InvokeID = id PROVE FALSE
  <2>1. Holding(table, id) # {}
    BY <1>3 DEF Holding
  <2>2. FindIndex(table, id) \in Index /\ table[FindIndex(table, id)].InvokeID = id
    BY <2>1, FindIndexProperty
  <2>3. id # 0
    BY IndexFacts
  <2>. QED  BY <1>1, <1>3, <2>2, <2>3 DEF WellFormed, UniqueIDs
<1>. QED  BY <1>2, <1>3

LEMMA ReleasedHolds ==
  ASSUME NEW table, WellFormed(table, Notification), NEW subs, NEW k \in Index,
         Released(table, subs)[k].InvokeID # 0
  PROVE  /\ Released(table, subs)[k] = table[k]
         /\ \A sub \in subs : sub.invokeID # table[k].InvokeID
<1> DEFINE ids == {sub.invokeID : sub \in subs} \ {0}
<1>1. Released(table, subs)[k] = IF table[k].InvokeID \in ids
        THEN [table[k] EXCEPT !.state = "IDLE", !.InvokeID = 0] ELSE table[k]
  BY DEF Released
<1>2. table[k] \in Entry(Notification)
  BY DEF WellFormed
<1> HIDE DEF ids
<1>3. table[k].InvokeID \notin ids
  BY <1>1, <1>2 DEF Entry
<1>4. Released(table, subs)[k] = table[k]
  BY <1>1, <1>3
<1>. QED  BY <1>3, <1>4 DEF ids

\* An entry that stays is passed on if whoever waits for it still does.
LEMMA EntryStays ==
  ASSUME TypeOK, NEW k \in Index, TSM_List'[k] = TSM_List[k],
         \A i \in Slots : Waiting(i) /\ AwaitedID(i) = TSM_List[k].InvokeID => Waiting(i)'
  PROVE  SameTransaction(k, 0)
<1>1. Left(TSM_List[k]) \in Int
  BY LeftType DEF TypeOK
<1>. QED  BY <1>1 DEF SameTransaction

\* A subscription that is not touched waits as it did.
LEMMA SlotStays ==
  ASSUME NEW i \in Slots, COV_Subscriptions'[i] = COV_Subscriptions[i], owner'[i] = owner[i]
  PROVE  /\ Waiting(i)' <=> Waiting(i)
         /\ Waiting(i) => SameWait(i)
BY DEF Waiting, Valid, SameWait, AwaitedID

\* A subscription that begins or ends waits for nothing, and gives up its transaction.
LEMMA OneReplaced ==
  ASSUME TypeInv, TypeOK', WaitInv, Received, UNCHANGED Current_Invoke_ID,
         NEW i \in Slots, ~ Waiting(i)', Waiting(i) => TSM_List' = Released(TSM_List, {COV_Subscriptions[i]}),
         TSM_List' \in {TSM_List, Released(TSM_List, {COV_Subscriptions[i]})},
         \A j \in Slots \ {i} : /\ COV_Subscriptions'[j] = COV_Subscriptions[j]
                                /\ owner'[j] = owner[j]
  PROVE  WaitInv'
<1>0. TypeOK /\ WellFormed(TSM_List, Notification)
  BY DEF TypeInv
<1>1. ASSUME NEW j \in Slots, Waiting(j)'
      PROVE  SameWait(j) /\ Nearer(j, 0)
  <2>1. SameWait(j) /\ Waiting(j)
    BY <1>1, SlotStays
  <2>. QED  BY <1>0, <2>1, LoopNearer DEF Received
<1>2. ASSUME NEW k \in Index, TSM_List'[k].InvokeID # 0
      PROVE  SameTransaction(k, 0)
  <2>1. /\ TSM_List'[k] = TSM_List[k]
        /\ Waiting(i) => AwaitedID(i) # TSM_List[k].InvokeID
    BY <1>0, <1>2, ReleasedHolds DEF AwaitedID
  <2>2. \A j \in Slots : Waiting(j) /\ AwaitedID(j) = TSM_List[k].InvokeID => Waiting(j)'
    BY <2>1, SlotStays
  <2>. QED  BY <1>0, <2>1, <2>2, EntryStays
<1>. QED  BY <1>0, <1>1, <1>2, PassedOn

LEMMA ReceiveWait == TypeInv /\ WaitInv /\ Receive => WaitInv'
<1> SUFFICES ASSUME TypeInv, WaitInv, Receive PROVE WaitInv'
  OBVIOUS
<1>0. TypeOK /\ WellFormed(TSM_List, Notification) /\ TypeOK'
  BY ReceiveType DEF TypeInv
<1>1. ASSUME UNCHANGED <<COV_Subscriptions, owner, Current_Invoke_ID>>, Received,
             \A k \in Index : TSM_List'[k].InvokeID # 0 => TSM_List'[k] = TSM_List[k]
      PROVE  WaitInv'
  <2>1. \A i \in Slots : (Waiting(i)' <=> Waiting(i)) /\ (Waiting(i) => SameWait(i))
    BY <1>1, SlotStays
  <2>2. \A i \in Slots : Waiting(i) => Nearer(i, 0)
    BY <1>0, <1>1, LoopNearer DEF Received
  <2>3. \A k \in Index : TSM_List'[k].InvokeID # 0 => SameTransaction(k, 0)
    BY <1>0, <1>1, <2>1, EntryStays
  <2>. QED  BY <1>0, <1>1, <2>1, <2>2, <2>3, PassedOn
<1>2. CASE \/ ReceiveOther
           \/ \E o \in Objects, v \in BOOLEAN : \E p \in Writable[o] : WriteProperty(o, p, v)
           \/ \E c \in Contexts : SubscribeRefused(c) \/ CancelUnknown(c)
  BY <1>1, <1>2 DEF ReceiveOther, WriteProperty, SubscribeRefused, CancelUnknown, cov, tsm
<1>3. ASSUME NEW id \in InvokeIDs, ReceiveAnswer(id) PROVE WaitInv'
  <2>1. \A k \in Index : TSM_List'[k].InvokeID # 0 => TSM_List'[k] = TSM_List[k]
    BY <1>0, <1>3, FreeHolds DEF ReceiveAnswer
  <2>. QED  BY <1>1, <1>3, <2>1 DEF ReceiveAnswer, cov
<1>4. ASSUME NEW c \in Contexts, NEW confirmed \in Confirmed, NEW lifetime \in Lifetimes,
             SubscribeCOV(c, confirmed, lifetime)
      PROVE  WaitInv'
  <2> DEFINE slot == First(IF Existing(c) # {} THEN Existing(c) ELSE FreeSlots)
             sub == [dest_index |-> AddressAdded(COV_Addresses, c.src).index,
                     object |-> c.object, pid |-> c.pid, confirmed |-> confirmed,
                     invokeID |-> 0, lifetime |-> lifetime, send_requested |-> TRUE]
  <2>1. Existing(c) \in SUBSET Nat /\ FreeSlots \in SUBSET Nat
    BY SlotFacts DEF Existing, FreeSlots
  <2>2. slot \in Existing(c) \/ (Existing(c) = {} /\ slot \in FreeSlots)
    BY <1>4, <2>1, FirstProperty DEF SubscribeCOV
  <2>3. slot \in Slots /\ (Waiting(slot) => Existing(c) # {})
    BY <2>2 DEF Existing, FreeSlots, Waiting
  <2>4. PICK i \in Slots :
        /\ Waiting(i) => Existing(c) # {}
        /\ COV_Subscriptions' = [COV_Subscriptions EXCEPT ![i] = sub]
        /\ owner' = [owner EXCEPT ![i] = c.src]
        /\ TSM_List' = IF Existing(c) # {}
                       THEN Released(TSM_List, {COV_Subscriptions[i]}) ELSE TSM_List
        /\ Received /\ UNCHANGED Current_Invoke_ID
    BY <1>4, <2>3 DEF SubscribeCOV
  <2>5. COV_Subscriptions'[i].invokeID = 0
    BY <1>0, <2>4 DEF TypeOK
  <2>6. ~ Waiting(i)'
    BY <2>5 DEF Waiting
  <2>7. \A j \in Slots \ {i} : /\ COV_Subscriptions'[j] = COV_Subscriptions[j]
                               /\ owner'[j] = owner[j]
    BY <1>0, <2>4 DEF TypeOK
  <2> HIDE DEF sub
  <2>. QED  BY <1>0, <2>4, <2>6, <2>7, OneReplaced
<1>5. ASSUME NEW c \in Contexts, CancelCOV(c) PROVE WaitInv'
  <2> DEFINE slot == First(Existing(c))
  <2>1. Existing(c) \in SUBSET Nat /\ Existing(c) # {}
    BY <1>5, SlotFacts DEF Existing, CancelCOV
  <2>2. slot \in Slots
    BY <2>1, FirstProperty DEF Existing
  <2>3. PICK i \in Slots :
        /\ COV_Subscriptions' = [COV_Subscriptions EXCEPT ![i] = NoSubscription]
        /\ owner' = [owner EXCEPT ![i] = NoPeer]
        /\ TSM_List' = Released(TSM_List, {COV_Subscriptions[i]})
        /\ Received /\ UNCHANGED Current_Invoke_ID
    BY <1>5, <2>2 DEF CancelCOV
  <2>4. ~ Waiting(i)'
    BY <1>0, <2>3 DEF TypeOK, Waiting, Valid
  <2>5. \A j \in Slots \ {i} : /\ COV_Subscriptions'[j] = COV_Subscriptions[j]
                               /\ owner'[j] = owner[j]
    BY <1>0, <2>3 DEF TypeOK
  <2>. QED  BY <1>0, <2>3, <2>4, <2>5, OneReplaced
<1>. QED  BY <1>2, <1>3, <1>4, <1>5 DEF Receive

LEMMA TimedKeeps ==
  ASSUME NEW entry \in Entry(Notification)
  PROVE  Timed(entry).apdu = entry.apdu
<1>1. Resend(entry).apdu = entry.apdu
  <2> DEFINE armed == [entry EXCEPT !.RequestTimer = Timeout]
  <2>1. Resend(entry) = [armed EXCEPT !.RetryCount = entry.RetryCount + 1]
        /\ armed.apdu = entry.apdu /\ armed \in Entry(Notification)
    BY TableAssumption DEF Resend, Entry
  <2> HIDE DEF armed
  <2>. QED  BY <2>1 DEF Entry
<1>2. GiveUp(entry).apdu = entry.apdu
  <2> DEFINE stopped == [entry EXCEPT !.RequestTimer = 0]
  <2>1. GiveUp(entry) = [stopped EXCEPT !.state = "IDLE"]
        /\ stopped.apdu = entry.apdu /\ stopped \in Entry(Notification)
    BY TableAssumption DEF GiveUp, Entry
  <2> HIDE DEF stopped
  <2>. QED  BY <2>1 DEF Entry
<1>3. Elapse(entry).apdu = entry.apdu
  BY DEF Elapse, Entry
<1>. QED  BY <1>1, <1>2, <1>3 DEF Timed

LEMMA TimerWait == TypeInv /\ WaitInv /\ TsmTimer => WaitInv'
<1> SUFFICES ASSUME TypeInv, WaitInv, TsmTimer PROVE WaitInv'
  OBVIOUS
<1>0. TypeOK /\ WellFormed(TSM_List, Notification) /\ TypeOK'
  BY TsmTimerType DEF TypeInv
<1>1. UNCHANGED <<COV_Subscriptions, owner, Current_Invoke_ID, fsm>> /\ turn # "cov"
  BY DEF TsmTimer, cov
<1>2. \A i \in Slots : (Waiting(i)' <=> Waiting(i)) /\ (Waiting(i) => SameWait(i))
  BY <1>1, SlotStays
<1>3. \A i \in Slots : Waiting(i) => Nearer(i, 1)
  BY <1>0, <1>1, LoopNearer
<1>4. ASSUME NEW k \in Index PROVE SameTransaction(k, 1)
  <2>1. TSM_List[k] \in Entry(Notification) /\ TSM_List'[k] = Timed(TSM_List[k])
    BY <1>0 DEF TsmTimer, TimerCall, WellFormed
  <2>2. TSM_List[k].state = "AWAIT_CONFIRMATION" => TSM_List[k].RequestTimer > 0
    BY <1>0 DEF WellFormed, PendingHeld
  <2>3. /\ Timed(TSM_List[k]).InvokeID = TSM_List[k].InvokeID
        /\ Timed(TSM_List[k]).state = "AWAIT_CONFIRMATION" =>
             TSM_List[k].state = "AWAIT_CONFIRMATION"
    BY <2>1, <2>2, TimedProperty
  <2>. QED  BY <1>2, <2>1, <2>2, <2>3, TimedKeeps, LeftTimed DEF SameTransaction
<1>. QED  BY <1>0, <1>1, <1>2, <1>3, <1>4, PassedOn

\* What expires takes its transaction with it, what does not waits on.
LEMMA LoopEndWait == TypeInv /\ WaitInv /\ (NotYetASecond \/ SecondPassed) => WaitInv'
<1> SUFFICES ASSUME TypeInv, WaitInv, NotYetASecond \/ SecondPassed PROVE WaitInv'
  OBVIOUS
<1>0. TypeOK /\ WellFormed(TSM_List, Notification) /\ TypeOK'
  BY LoopEndType DEF TypeInv
<1>1. UNCHANGED <<Current_Invoke_ID, fsm>> /\ turn # "cov" /\ turn' # "cov"
  BY DEF NotYetASecond, SecondPassed, LoopEnd, tsm
<1>2. \A i \in Slots : Waiting(i) => Nearer(i, 0)
  BY <1>0, <1>1, LoopNearer
<1>3. CASE NotYetASecond
  <2>1. UNCHANGED <<COV_Subscriptions, owner, TSM_List>>
    BY <1>3 DEF NotYetASecond, cov, tsm
  <2>2. \A i \in Slots : (Waiting(i)' <=> Waiting(i)) /\ (Waiting(i) => SameWait(i))
    BY <2>1, SlotStays
  <2>3. \A k \in Index : SameTransaction(k, 0)
    BY <1>0, <2>1, <2>2, EntryStays
  <2>. QED  BY <1>0, <1>1, <1>2, <2>2, <2>3, PassedOn
<1>4. CASE SecondPassed
  <2> DEFINE ended == {COV_Subscriptions[i] : i \in {j \in Expired : COV_Subscriptions[j].confirmed}}
  <2>1. \A i \in Slots :
          /\ COV_Subscriptions'[i] = IF Valid(i) /\ i \notin Expired
                                     THEN Aged(COV_Subscriptions[i]) ELSE NoSubscription
          /\ owner'[i] = IF i \in Expired THEN NoPeer ELSE owner[i]
    BY <1>4 DEF SecondPassed
  <2>2. TSM_List' = Released(TSM_List, ended)
    BY <1>4 DEF SecondPassed
  <2>3. ASSUME NEW sub \in Subscription
        PROVE  /\ Aged(sub).invokeID = sub.invokeID /\ Aged(sub).confirmed = sub.confirmed
               /\ Aged(sub).object = sub.object /\ Aged(sub).pid = sub.pid
               /\ Aged(sub) # NoSubscription
    <3>1. Aged(sub) # NoSubscription
      BY AgedType, SubscriptionAssumption DEF Aged
    <3>. QED  BY <3>1 DEF Aged, Subscription
  <2>4. ASSUME NEW i \in Slots
        PROVE  /\ Waiting(i)' => SameWait(i)
               /\ Waiting(i) /\ i \notin Expired => Waiting(i)'
    <3>1. Waiting(i)' => Valid(i) /\ i \notin Expired
      BY <2>1 DEF Waiting, Valid
    <3>2. Valid(i) => COV_Subscriptions[i] \in Subscription
      BY <1>0 DEF TypeOK, Valid
    <3>. QED  BY <2>1, <2>3, <3>1, <3>2 DEF Waiting, Valid, SameWait, AwaitedID
  <2>5. ASSUME NEW k \in Index, TSM_List'[k].InvokeID # 0
        PROVE  SameTransaction(k, 0)
    <3>1. /\ TSM_List'[k] = TSM_List[k]
          /\ \A sub \in ended : sub.invokeID # TSM_List[k].InvokeID
      BY <1>0, <2>2, <2>5, ReleasedHolds
    <3>2. ASSUME NEW i \in Slots, Waiting(i), AwaitedID(i) = TSM_List[k].InvokeID
          PROVE  i \notin Expired
      BY <3>1, <3>2 DEF WaitInv, Recent, AwaitedID
    <3>. QED  BY <1>0, <2>4, <3>1, <3>2, EntryStays
  <2>. QED  BY <1>0, <1>1, <1>2, <2>4, <2>5, PassedOn DEF SameWait
<1>. QED  BY <1>3, <1>4

\* A step of the task is one step nearer to FREE of every slot that still waits, and takes a call of
\* the timer to the next.
NextState(state) ==
  IF state = "MARK" THEN "CLEAR" ELSE IF state = "CLEAR" THEN "FREE"
  ELSE IF state = "FREE" THEN "SEND" ELSE "IDLE"

TaskMoves ==
  /\ turn = "cov" /\ turn' = "second"
  /\ \/ fsm.state = "IDLE" /\ fsm' = [state |-> "MARK", index |-> 0]
     \/ fsm.state # "IDLE" /\ Advance(NextState(fsm.state))

LEMMA TaskNearer ==
  ASSUME TypeOK, WaitInv, TaskMoves
  PROVE  /\ \A i \in Slots : Waiting(i) /\ (fsm.state = "FREE" => i # fsm.index) => Nearer(i, 0)
         /\ \A i \in Slots : fsm.state = "SEND" =>
              CallsToFree(i)' = 3 * MaxSubscriptions + 1 + i - fsm.index
         /\ fsm.state = "SEND" => Looked' = fsm.index + 1 /\ fsm'.state # "FREE"
<1>1. /\ fsm.index \in 0 .. MaxSubscriptions - 1 /\ MaxSubscriptions \in Nat \ {0}
      /\ Slots = 0 .. MaxSubscriptions - 1
      /\ fsm.state \in {"IDLE", "MARK", "CLEAR", "FREE", "SEND"}
      /\ turn = "cov" /\ turn' = "second"
  BY CovAssumption DEF TypeOK, Slots, TaskMoves
<1>2. CASE fsm.state = "IDLE"
  <2>1. fsm'.state = "MARK" /\ fsm'.index = 0
    BY <1>2 DEF TaskMoves
  <2>. QED  BY <1>1, <1>2, <2>1 DEF Nearer, Looked, CallsToFree, StepsToFree
<1>3. CASE fsm.state # "IDLE" /\ fsm.index + 1 < MaxSubscriptions
  <2>1. fsm' = [fsm EXCEPT !.index = fsm.index + 1]
    BY <1>3 DEF TaskMoves, Advance
  <2>2. fsm'.state = fsm.state /\ fsm'.index = fsm.index + 1
    BY <2>1 DEF TypeOK
  <2>3. \A i \in Slots : Waiting(i) /\ fsm.state = "FREE" => fsm.index <= i
    BY DEF WaitInv, Recent
  <2>4. ASSUME NEW i \in Slots
        PROVE  /\ StepsToFree(i)' + 1 = StepsToFree(i)
               /\ fsm.state = "SEND" =>
                    StepsToFree(i)' = 3 * MaxSubscriptions + i - fsm.index
    <3>1. i \in Int /\ fsm.index \in Int /\ MaxSubscriptions \in Int
      BY <1>1
    <3>2. CASE fsm.state = "MARK"
      BY <2>2, <3>1, <3>2 DEF StepsToFree
    <3>3. CASE fsm.state = "CLEAR"
      BY <2>2, <3>1, <3>3 DEF StepsToFree
    <3>4. CASE fsm.state = "FREE"
      BY <2>2, <3>1, <3>4 DEF StepsToFree
    <3>5. CASE fsm.state = "SEND"
      BY <2>2, <3>1, <3>5 DEF StepsToFree
    <3>. QED  BY <1>1, <1>3, <3>2, <3>3, <3>4, <3>5
  <2>5. \A i \in Slots : /\ CallsToFree(i)' = CallsToFree(i) /\ CallsToFree(i) \in Int
                         /\ CallsToFree(i)' = StepsToFree(i)' + 1
    BY <1>1, <1>3, <2>4, LoopType DEF CallsToFree, LoopTyped
  <2>6. Looked \in Int /\ Looked <= Looked' /\ (fsm.state = "SEND" => Looked' = fsm.index + 1)
    BY <1>1, <1>3, <2>2 DEF Looked
  <2>7. \A i \in Slots : Waiting(i) /\ (fsm.state = "FREE" => i # fsm.index) => Nearer(i, 0)
    BY <1>1, <2>2, <2>3, <2>5, <2>6 DEF Nearer
  <2>. QED  BY <1>1, <2>2, <2>4, <2>5, <2>6, <2>7
<1>4. CASE fsm.state # "IDLE" /\ fsm.index = MaxSubscriptions - 1
  <2>1. fsm'.state = NextState(fsm.state) /\ fsm'.index = 0
    BY <1>1, <1>4 DEF TaskMoves, Advance
  <2>2. \A i \in Slots : Waiting(i) /\ fsm.state = "FREE" => fsm.index <= i
    BY DEF WaitInv, Recent
  <2>. QED  BY <1>1, <1>4, <2>1, <2>2 DEF Nearer, Looked, CallsToFree, StepsToFree, NextState
<1>. QED  BY <1>1, <1>2, <1>3, <1>4

\* By the time FREE looks at it, a request has been answered or given up.
LEMMA FreeFindsConcluded ==
  ASSUME TypeInv, WaitInv, fsm.state = "FREE", turn = "cov", Waiting(fsm.index)
  PROVE  Concluded
<1> DEFINE id == AwaitedID(fsm.index)
           k  == FindIndex(TSM_List, id)
<1>0. TypeOK /\ WellFormed(TSM_List, Notification) /\ fsm.index \in Slots
  BY DEF TypeInv, TypeOK
<1>1. id = This.invokeID /\ id # 0
  BY DEF AwaitedID, This, Waiting
<1>2. CASE IsFree(TSM_List, id)
  BY <1>1, <1>2 DEF Concluded
<1>3. CASE ~ IsFree(TSM_List, id)
  <2>1. k \in Index /\ TSM_List[k].InvokeID = id
    BY <1>3, FindIndexProperty
  <2>2. PICK i \in Slots : Owns(i, k)
    BY <1>1, <2>1 DEF WaitInv, AllOwned
  <2>3. i = fsm.index
    BY <1>0, <2>1, <2>2 DEF WaitInv, AwaitedOnce, Owns
  <2>4. CallsToFree(i) = 0
    BY <1>0, <2>3, SlotFacts DEF CallsToFree, StepsToFree
  <2>5. TSM_List[k].state # "AWAIT_CONFIRMATION"
    <3>1. TSM_List[k] \in Entry(Notification)
      BY <1>0, <2>1 DEF WellFormed
    <3>2. TSM_List[k].state = "AWAIT_CONFIRMATION" => Left(TSM_List[k]) > 0
      BY <1>0, <2>1, <3>1, LeftTimed DEF WellFormed, PendingHeld
    <3>3. Left(TSM_List[k]) \in Int
      BY <3>1, LeftType
    <3>. QED  BY <2>2, <2>4, <3>2, <3>3 DEF Owns
  <2>6. TSM_List[k].state = "IDLE"
    BY <1>0, <2>1, <2>5 DEF WellFormed, Entry
  <2>. QED  BY <1>1, <1>3, <2>6 DEF Concluded, IsFailed
<1>. QED  BY <1>2, <1>3

LEMMA FreeWait == TypeInv /\ WaitInv /\ CovFree => WaitInv'
<1> SUFFICES ASSUME TypeInv, WaitInv, CovFree PROVE WaitInv'
  OBVIOUS
<1>0. TypeOK /\ WellFormed(TSM_List, Notification) /\ TypeOK' /\ fsm.index \in Slots
  BY CovTaskType DEF TypeInv, CovTask, TypeOK
<1>1. TaskMoves /\ fsm.state = "FREE" /\ turn = "cov" /\ UNCHANGED <<owner, Current_Invoke_ID>>
  BY DEF CovFree, Step, TaskMoves, NextState
<1>2. \A i \in Slots : Waiting(i) /\ i # fsm.index => Nearer(i, 0)
  BY <1>0, <1>1, TaskNearer
<1>3. CASE Waiting(fsm.index)
  <2>1. This.confirmed /\ This # NoSubscription /\ This.invokeID # 0 /\ Concluded
    BY <1>0, <1>1, <1>3, FreeFindsConcluded DEF This, WaitInv, Recent, Waiting, Valid
  <2>2. /\ COV_Subscriptions' = [COV_Subscriptions EXCEPT ![fsm.index] = [This EXCEPT !.invokeID = 0]]
        /\ TSM_List' = Free(TSM_List, This.invokeID)
    BY <2>1 DEF CovFree, This
  <2>3. This.invokeID \in InvokeIDs /\ [This EXCEPT !.invokeID = 0].invokeID = 0
    BY <1>0, <2>1, ThisType DEF Subscription
  <2>4. \A i \in Slots :
          COV_Subscriptions'[i] = IF i = fsm.index THEN [This EXCEPT !.invokeID = 0]
                                  ELSE COV_Subscriptions[i]
    BY <1>0, <2>2 DEF TypeOK
  <2>5. ASSUME NEW i \in Slots
        PROVE  /\ Waiting(i)' => i # fsm.index /\ SameWait(i)
               /\ Waiting(i) /\ i # fsm.index => Waiting(i)'
    <3>1. CASE i = fsm.index
      BY <2>3, <2>4, <3>1 DEF Waiting
    <3>2. CASE i # fsm.index
      BY <1>1, <2>4, <3>2, SlotStays
    <3>. QED  BY <3>1, <3>2
  <2>6. ASSUME NEW k \in Index, TSM_List'[k].InvokeID # 0
        PROVE  SameTransaction(k, 0)
    <3>1. TSM_List'[k] = TSM_List[k] /\ TSM_List[k].InvokeID # This.invokeID
      BY <1>0, <2>2, <2>3, <2>6, FreeHolds
    <3>. QED  BY <1>0, <2>5, <3>1, EntryStays DEF AwaitedID, This
  <2>. QED  BY <1>0, <1>1, <1>2, <2>5, <2>6, PassedOn DEF SameWait
<1>4. CASE ~ Waiting(fsm.index)
  <2>1. UNCHANGED <<COV_Subscriptions, TSM_List>>
    BY <1>4 DEF CovFree, Waiting, Valid, This
  <2>2. \A i \in Slots : (Waiting(i)' <=> Waiting(i)) /\ (Waiting(i) => SameWait(i))
    BY <1>1, <2>1, SlotStays
  <2>3. \A k \in Index : SameTransaction(k, 0)
    BY <1>0, <2>1, <2>2, EntryStays
  <2>. QED  BY <1>0, <1>1, <1>2, <1>4, <2>2, <2>3, PassedOn
<1>. QED  BY <1>3, <1>4

\* MARK, CLEAR and what SEND does without a transaction leave everybody waiting as before.
LEMMA TaskLooksOn ==
  ASSUME TypeOK, TypeOK', WaitInv, TaskMoves, fsm.state # "FREE",
         UNCHANGED <<TSM_List, Current_Invoke_ID, owner>>, NEW s \in BOOLEAN,
         \/ UNCHANGED COV_Subscriptions
         \/ /\ This # NoSubscription
            /\ COV_Subscriptions' =
                 [COV_Subscriptions EXCEPT ![fsm.index] = [This EXCEPT !.send_requested = s]]
  PROVE  WaitInv'
<1>1. ASSUME NEW i \in Slots
      PROVE  (Waiting(i)' <=> Waiting(i)) /\ (Waiting(i) => SameWait(i))
  <2>1. CASE COV_Subscriptions'[i] = COV_Subscriptions[i]
    BY <2>1, SlotStays
  <2>2. CASE COV_Subscriptions'[i] # COV_Subscriptions[i]
    <3>1. i = fsm.index /\ This # NoSubscription
          /\ COV_Subscriptions'[i] = [This EXCEPT !.send_requested = s]
      BY <2>2 DEF TypeOK
    <3>2. This \in Subscription /\ COV_Subscriptions[i] = This
      BY <3>1, ThisType DEF This
    <3>3. [This EXCEPT !.send_requested = s] # NoSubscription
      BY <3>2, SubscriptionFields, SubscriptionAssumption
    <3>. QED  BY <3>1, <3>2, <3>3 DEF Subscription, Waiting, Valid, SameWait, AwaitedID
  <2>. QED  BY <2>1, <2>2
<1>2. \A i \in Slots : Waiting(i) => Nearer(i, 0)
  BY TaskNearer
<1>3. \A k \in Index : SameTransaction(k, 0)
  BY <1>1, EntryStays
<1>. QED  BY <1>1, <1>2, <1>3, PassedOn

\* No ID in use is as old as the supply, so the next search finds the next ID at once.
LEMMA NextIsCurrent ==
  ASSUME TypeInv, WaitInv, fsm.state = "SEND"
  PROVE  /\ \A i \in Slots : Waiting(i) => AwaitedID(i) # Current_Invoke_ID
         /\ NextUnused(TSM_List, Current_Invoke_ID) = Current_Invoke_ID
<1>0. TypeOK /\ LoopTyped /\ Current_Invoke_ID \in InvokeIDs /\ Looked = fsm.index
  BY LoopType DEF TypeInv, TypeOK, Looked
<1>1. ASSUME NEW i \in Slots, Waiting(i) PROVE AwaitedID(i) # Current_Invoke_ID
  <2>1. Age(AwaitedID(i)) \in Int /\ Age(AwaitedID(i)) <= Looked - i
    BY <1>0, <1>1, WaitingType, AgeProperty DEF WaitInv, Recent
  <2>2. Age(AwaitedID(i)) < MaxInvokeID
    BY <1>0, <2>1, CovAssumption, TableAssumption DEF LoopTyped
  <2>. QED  BY <1>0, <2>2, AgeProperty, TableAssumption
<1>2. \A k \in Index : TSM_List[k].InvokeID # Current_Invoke_ID
  <2>1. Current_Invoke_ID # 0
    BY <1>0, IndexFacts
  <2>. QED  BY <1>1, <2>1 DEF WaitInv, AllOwned, Owns
<1> DEFINE ahead == {id \in Unused(TSM_List) : id >= Current_Invoke_ID}
<1>3. Current_Invoke_ID \in ahead
  BY <1>0, <1>2, IndexFacts DEF Unused, Holding
<1>4. ahead \in SUBSET Nat
  BY IndexFacts DEF Unused
<1>5. First(ahead) \in ahead /\ First(ahead) <= Current_Invoke_ID
  BY <1>3, <1>4, FirstProperty
<1>6. First(ahead) = Current_Invoke_ID
  BY <1>0, <1>4, <1>5, IndexFacts
<1>. QED  BY <1>1, <1>3, <1>6 DEF NextUnused

\* Reserving and storing a transaction touches one entry, which waits its full time.
LEMMA TransactionStored ==
  ASSUME NEW table, WellFormed(table, Notification), TransactionAvailable(table),
         NEW id \in InvokeIDs, Holding(table, id) = {}, NEW notice \in Notification
  PROVE  \E slot \in Index :
           LET new == SetTransaction(Reserve(table, id), id, notice)
           IN  /\ table[slot].InvokeID = 0
               /\ new[slot].InvokeID = id /\ new[slot].apdu = notice
               /\ Left(new[slot]) = Calls(0)
               /\ \A k \in Index \ {slot} : new[k] = table[k]
<1> DEFINE slot  == First(Holding(table, 0))
           held  == Reserve(table, id)
           entry == Reserved(table[slot], id)
           new   == SetTransaction(held, id, notice)
<1>1. slot \in Index /\ table[slot].InvokeID = 0 /\ table[slot] \in Entry(Notification)
  BY FirstProperty, IndexFacts DEF TransactionAvailable, Holding, WellFormed
<1>2. entry \in Entry(Notification) /\ entry.InvokeID = id
  BY <1>1, ReservedType
<1>3. \A k \in Index : held[k] = IF k = slot THEN entry ELSE table[k]
  BY <1>1 DEF WellFormed, Reserve
<1> HIDE DEF slot, entry, held
<1>4. Holding(held, id) = {slot}
  BY <1>1, <1>2, <1>3 DEF Holding
<1>5. FindIndex(held, id) = slot
  BY <1>4, FirstProperty, IndexFacts DEF FindIndex, Holding
<1>6. /\ new[slot] = Started(entry, notice)
      /\ \A k \in Index \ {slot} : new[k] = table[k]
  BY <1>1, <1>3, <1>5 DEF SetTransaction
<1>7. /\ Started(entry, notice).InvokeID = id /\ Started(entry, notice).RequestTimer = Timeout
      /\ Started(entry, notice).RetryCount = 0 /\ Started(entry, notice).apdu = notice
  <2> DEFINE waiting == [entry EXCEPT !.state = "AWAIT_CONFIRMATION"]
             fresh   == [waiting EXCEPT !.RetryCount = 0]
             armed   == [fresh EXCEPT !.RequestTimer = Timeout]
  <2>1. waiting \in Entry(Notification) /\ waiting.InvokeID = id
    BY <1>2 DEF Entry
  <2>2. Started(entry, notice) = [armed EXCEPT !.apdu = notice]
    BY DEF Started
  <2> HIDE DEF waiting
  <2>3. fresh \in Entry(Notification) /\ fresh.InvokeID = id /\ fresh.RetryCount = 0
    BY <2>1, TableAssumption DEF Entry
  <2> HIDE DEF fresh
  <2>4. /\ armed \in Entry(Notification) /\ armed.InvokeID = id
        /\ armed.RetryCount = 0 /\ armed.RequestTimer = Timeout
    BY <2>3, TableAssumption DEF Entry
  <2> HIDE DEF armed
  <2>. QED  BY <2>2, <2>4 DEF Entry
<1>8. Left(new[slot]) = Calls(0)
  <2>1. Calls(0) \in Nat /\ Timeout \in Nat
    BY CallsProperty, TableAssumption
  <2>. QED  BY <1>6, <1>7, <2>1 DEF Left
<1> HIDE DEF new
<1>. QED  BY <1>1, <1>6, <1>7, <1>8 DEF new, held

LEMMA SendWait ==
  ASSUME TypeInv, OwnInv, WaitInv, RetriesEndInACycle, NEW sent \in BOOLEAN, CovSendConfirmed(sent)
  PROVE  WaitInv'
<1>a. PICK id \in InvokeIDs : id = Current_Invoke_ID
  BY DEF TypeInv, TypeOK
<1>b. PICK n \in Slots : n = fsm.index
  BY DEF TypeInv, TypeOK
<1> DEFINE told   == [This EXCEPT !.invokeID = id]
           notice == [dest |-> owner[n], object |-> This.object, pid |-> This.pid]
<1>0. TypeOK /\ TypeOK' /\ WellFormed(TSM_List, Notification)
  BY CovTaskType DEF TypeInv, CovTask
<1>1. /\ TaskMoves /\ fsm.state = "SEND" /\ UNCHANGED owner
      /\ This # NoSubscription /\ This.confirmed /\ This.invokeID = 0
      /\ TransactionAvailable(TSM_List) /\ Dest(This) # NoPeer
  BY DEF CovSendConfirmed, Step, TaskMoves, NextState, MaySend, Requested
<1>2. /\ NextUnused(TSM_List, Current_Invoke_ID) = id
      /\ \A i \in Slots : Waiting(i) => AwaitedID(i) # id
  BY <1>a, <1>1, NextIsCurrent
<1>3. This \in Subscription /\ This = COV_Subscriptions[n]
  BY <1>b, <1>0, <1>1, ThisType DEF This
<1>4. Dest(This) = owner[n] /\ owner[n] \in Peers
  BY <1>0, <1>1, <1>3 DEF OwnInv, NotifiesItsSubscriber, OwnerKnown, Valid
<1>5. notice \in Notification
  BY <1>0, <1>1, <1>4, ThisType DEF Notification
<1>6. /\ TSM_List' = SetTransaction(Reserve(TSM_List, id), id, notice)
      /\ Current_Invoke_ID' = Successor(id)
      /\ COV_Subscriptions' = [COV_Subscriptions EXCEPT
           ![n].invokeID = id, ![n].send_requested = ~sent]
  BY <1>a, <1>b, <1>2, <1>4 DEF CovSendConfirmed
<1>7. PICK slot \in Index :
        /\ TSM_List[slot].InvokeID = 0
        /\ TSM_List'[slot].InvokeID = id /\ TSM_List'[slot].apdu = notice
        /\ Left(TSM_List'[slot]) = Calls(0)
        /\ \A k \in Index \ {slot} : TSM_List'[k] = TSM_List[k]
  <2>1. Holding(TSM_List, id) = {}
    BY <1>1, <1>2, NextUnusedProperty
  <2> HIDE DEF notice
  <2>. QED  BY <1>0, <1>1, <1>5, <1>6, <2>1, TransactionStored
<1>8. /\ COV_Subscriptions'[n] = [told EXCEPT !.send_requested = ~sent]
      /\ \A i \in Slots \ {n} : COV_Subscriptions'[i] = COV_Subscriptions[i]
  BY <1>0, <1>3, <1>6 DEF TypeOK
<1>9. told \in Subscription /\ told.invokeID = id /\ told.confirmed
      /\ told.object = This.object /\ told.pid = This.pid
  BY <1>0, <1>1, <1>3 DEF Subscription
<1> DEFINE now == [told EXCEPT !.send_requested = ~sent]
<1> HIDE DEF told
<1>10. now \in Subscription /\ now.invokeID = id /\ now.confirmed
       /\ now.object = This.object /\ now.pid = This.pid
  BY <1>9 DEF Subscription
<1> HIDE DEF now, notice
<1>11. id # 0 /\ ~ Waiting(n)
  BY <1>0, <1>1, <1>3, IndexFacts DEF Waiting
\* The slot that sends waits for the new ID, the others as they did.
<1>12. \A i \in Slots \ {n} :
         /\ Waiting(i)' <=> Waiting(i)
         /\ Waiting(i) => SameWait(i) /\ Nearer(i, 0) /\ AwaitedID(i) \in InvokeIDs
                          /\ AwaitedID(i) # id /\ AwaitedID(i)' = AwaitedID(i)
  BY <1>b, <1>0, <1>1, <1>2, <1>8, TaskNearer, SlotStays, WaitingType DEF SameWait
<1>13. /\ COV_Subscriptions'[n].invokeID = id
       /\ COV_Subscriptions'[n].confirmed
       /\ COV_Subscriptions'[n].object = This.object
       /\ COV_Subscriptions'[n].pid = This.pid
       /\ COV_Subscriptions'[n] # NoSubscription
  BY <1>8, <1>10, SubscriptionAssumption DEF now
<1>14. LoopTyped /\ Looked = n /\ Looked' = n + 1 /\ fsm'.state # "FREE"
       /\ CallsToFree(n)' = 3 * MaxSubscriptions + 1
  <2>1. LoopTyped
    BY <1>0, LoopType
  <2>. QED  BY <1>b, <1>0, <1>1, <2>1, TaskNearer DEF Looked, LoopTyped
<1>15. /\ Waiting(n)' /\ AwaitedID(n)' = id /\ Age(id)' = 1
       /\ \A i \in Slots \ {n} : Waiting(i) => Age(AwaitedID(i))' = Age(AwaitedID(i)) + 1
  <2>1. \A x \in InvokeIDs : Age(x)' = IF x = id THEN 1 ELSE Age(x) + 1
    BY <1>a, <1>0, <1>6, AgeProperty
  <2>2. \A i \in Slots \ {n} : Waiting(i) => Age(AwaitedID(i))' = Age(AwaitedID(i)) + 1
    <3>1. ASSUME NEW x \in InvokeIDs, NEW i \in Slots, AwaitedID(i)' = x
          PROVE  Age(AwaitedID(i))' = Age(x)'
      BY <3>1 DEF Age
    <3>. QED  BY <1>12, <2>1, <3>1
  <2>. QED  BY <1>11, <1>13, <2>1, <2>2 DEF Waiting, Valid, AwaitedID
<1>16. Recent'
  <2> SUFFICES ASSUME NEW i \in Slots, Waiting(i)'
               PROVE  COV_Subscriptions'[i].confirmed /\ Age(AwaitedID(i))' <= Looked' - i
    BY <1>14 DEF Recent
  <2>1. CASE i = n
    <3>1. Age(AwaitedID(n))' = 1
      BY <1>15 DEF Age
    <3>. QED  BY <1>13, <1>14, <2>1, <3>1 DEF LoopTyped
  <2>2. CASE i # n
    <3>1. /\ COV_Subscriptions[i].confirmed /\ Age(AwaitedID(i)) <= Looked - i
          /\ Age(AwaitedID(i)) \in Int
      BY <1>0, <1>12, <2>2, AgeProperty DEF WaitInv, Recent
    <3>. QED  BY <1>12, <1>14, <1>15, <2>2, <3>1 DEF SameWait, LoopTyped
  <2>. QED  BY <2>1, <2>2
<1>17. AwaitedOnce'
  BY <1>12, <1>15 DEF WaitInv, AwaitedOnce
<1>18. AllOwned'
  <2> SUFFICES ASSUME NEW k \in Index, TSM_List'[k].InvokeID # 0
               PROVE  \E i \in Slots : Owns(i, k)'
    BY DEF AllOwned
  <2>1. CASE k = slot
    <3>1. TSM_List'[k].apdu = [dest |-> owner'[n], object |-> COV_Subscriptions'[n].object,
                               pid |-> COV_Subscriptions'[n].pid]
      BY <1>1, <1>7, <1>13, <2>1 DEF notice
    <3>2. Left(TSM_List[k])' <= CallsToFree(n)'
      BY <1>7, <1>14, <2>1 DEF RetriesEndInACycle, Left
    <3>3. Owns(n, k)'
      BY <1>7, <1>15, <2>1, <3>1, <3>2 DEF Owns
    <3>. QED  BY <3>3
  <2>2. CASE k # slot
    <3>1. TSM_List'[k] = TSM_List[k]
      BY <1>7, <2>2
    <3>2. PICK i \in Slots : Owns(i, k)
      BY <3>1 DEF WaitInv, AllOwned
    <3>3. i # n /\ Waiting(i)' /\ SameWait(i) /\ Nearer(i, 0)
      BY <1>11, <1>12, <3>2 DEF Owns
    <3>4. Left(TSM_List[k]) \in Int /\ CallsToFree(i) \in Int /\ CallsToFree(i)' \in Int
      BY <1>0, LeftType, LoopType DEF TypeOK, LoopTyped
    <3>5. TSM_List'[k].state = "AWAIT_CONFIRMATION" => Left(TSM_List[k])' <= CallsToFree(i)'
      <4>1. Left(TSM_List[k])' = Left(TSM_List[k])
        BY <3>1 DEF Left
      <4>. QED  BY <3>1, <3>2, <3>3, <3>4, <4>1 DEF Owns, Nearer
    <3>6. Owns(i, k)'
      BY <3>1, <3>2, <3>3, <3>5 DEF Owns, SameWait
    <3>. QED  BY <3>6
  <2>. QED  BY <2>1, <2>2
<1>. QED  BY <1>16, <1>17, <1>18 DEF WaitInv

LEMMA TaskWait ==
  ASSUME TypeInv, OwnInv, WaitInv, RetriesEndInACycle, CovTask
  PROVE  WaitInv'
<1>0. TypeOK /\ TypeOK'
  BY CovTaskType DEF TypeInv
<1>1. CASE CovIdle \/ CovClear \/ CovSendNothing
  <2>1. /\ TaskMoves /\ fsm.state # "FREE"
        /\ UNCHANGED <<TSM_List, Current_Invoke_ID, owner, COV_Subscriptions>>
    BY <1>1 DEF CovIdle, CovClear, CovSendNothing, Step, TaskMoves, NextState, cov, tsm
  <2>. QED  BY <1>0, <2>1, TaskLooksOn
<1>2. CASE CovMark
  <2>1. TaskMoves /\ fsm.state # "FREE" /\ UNCHANGED <<TSM_List, Current_Invoke_ID, owner>>
    BY <1>2 DEF CovMark, Step, TaskMoves, NextState, tsm
  <2>2. \/ UNCHANGED COV_Subscriptions
        \/ /\ This # NoSubscription
           /\ COV_Subscriptions' =
                [COV_Subscriptions EXCEPT ![fsm.index] = [This EXCEPT !.send_requested = TRUE]]
    BY <1>2 DEF CovMark, This
  <2>. QED  BY <1>0, <2>1, <2>2, TaskLooksOn
<1>3. CASE CovFree
  BY <1>3, FreeWait
<1>4. ASSUME NEW sent \in BOOLEAN, CovSendUnconfirmed(sent) PROVE WaitInv'
  <2>1. /\ TaskMoves /\ fsm.state # "FREE" /\ This # NoSubscription
        /\ UNCHANGED <<TSM_List, Current_Invoke_ID, owner>>
    BY <1>4 DEF CovSendUnconfirmed, Step, TaskMoves, NextState, tsm, MaySend, Requested
  <2>2. COV_Subscriptions' =
          [COV_Subscriptions EXCEPT ![fsm.index] = [This EXCEPT !.send_requested = ~sent]]
    BY <1>4 DEF CovSendUnconfirmed, This
  <2>. QED  BY <1>0, <2>1, <2>2, TaskLooksOn
<1>5. ASSUME NEW sent \in BOOLEAN, CovSendConfirmed(sent) PROVE WaitInv'
  BY <1>5, SendWait
<1>. QED  BY <1>1, <1>2, <1>3, <1>4, <1>5 DEF CovTask

LEMMA InitWait == Init => WaitInv
BY DEF Init, WaitInv, Recent, AwaitedOnce, AllOwned, Waiting, Valid, EmptyTable

LEMMA NextWait ==
  ASSUME RetriesEndInACycle, TypeInv, OwnInv, WaitInv, [Next]_vars
  PROVE  WaitInv'
<1>1. CASE UNCHANGED vars
  <2>1. \A i \in Slots : (Waiting(i)' <=> Waiting(i)) /\ (Waiting(i) => SameWait(i))
    BY <1>1, SlotStays DEF vars, cov
  <2>2. TypeOK /\ TypeOK' /\ UNCHANGED <<TSM_List, Current_Invoke_ID, fsm, turn>>
    BY <1>1, NextType DEF TypeInv, vars, tsm
  <2>3. \A k \in Index : SameTransaction(k, 0)
    BY <2>1, <2>2, EntryStays
  <2>4. \A i \in Slots : Waiting(i) => Nearer(i, 0)
    <3>1. \A i \in Slots : CallsToFree(i)' = CallsToFree(i) /\ Looked' = Looked
      BY <2>2 DEF CallsToFree, StepsToFree, Looked
    <3>2. LoopTyped
      BY <2>2, LoopType
    <3>. QED  BY <2>2, <3>1, <3>2 DEF Nearer, LoopTyped, WaitInv, Recent
  <2>. QED  BY <2>1, <2>2, <2>3, <2>4, PassedOn
<1>2. CASE Next
  BY <1>2, ReceiveWait, TimerWait, TaskWait, LoopEndWait DEF Next
<1>. QED  BY <1>1, <1>2

\* Where requests end within a cycle of the task and every peer has an address entry, no
\* transaction of tsm.c outlives the subscription of h_cov.c it notifies, and no two
\* subscriptions wait for one invoke ID, whatever is answered, cancelled or replaced meanwhile.
THEOREM TransactionsOwned ==
  EnoughAddresses /\ RetriesEndInACycle /\ Spec => []TransactionsAreOwned
<1>1. Spec => []TypeInv
  BY InitType, NextType, PTL DEF Spec
<1>2. WaitInv => TransactionsAreOwned
  BY DEF WaitInv, Recent, AwaitedOnce, AllOwned, Owns, TransactionsAreOwned, Sending, Waiting, AwaitedID
<1>3. CASE RetriesEndInACycle
  <2>1. TypeInv /\ OwnInv /\ WaitInv /\ [Next]_vars => WaitInv'
    BY <1>3, NextWait
  <2>. QED  BY <1>1, <1>2, <2>1, InitWait, OwnAlways, PTL DEF Spec
<1>4. CASE ~ RetriesEndInACycle
  BY <1>4
<1>. QED  BY <1>3, <1>4
=============================================================================
