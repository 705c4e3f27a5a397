----------------------------- MODULE CovServer ------------------------------
(***************************************************************************)
(* The COV (change of value) server: components/bacnet/h_cov.c with the     *)
(* Binary Inputs it watches (bi.c, the only objects with COV support), the *)
(* transaction table its confirmed notifications go through (tsm.c), and   *)
(* the endless loop of main/server_task.c that gives each of them its turn.*)
(*                                                                         *)
(* One turn of the loop is four steps: one message is received or none is, *)
(* the TSM timer is called, the COV task makes one step of its state       *)
(* machine, and now and then a second has passed.  A full cycle of the COV *)
(* task takes 4 * MaxSubscriptions + 1 turns, and messages arrive between  *)
(* any two of them: that is where its difficulties come from.              *)
(*                                                                         *)
(* DeviceCommunicationControl is not registered by main.c, so              *)
(* dcc_communication_enabled() is always true here.  Dead data is left out:*)
(* an invalid subscription is NoSubscription and an invalid address NoPeer.*)
(***************************************************************************)
EXTENDS TsmTable

CONSTANTS
  MaxSubscriptions,  \* MAX_COV_SUBCRIPTIONS
  MaxAddresses,      \* MAX_COV_ADDRESSES
  LoopsPerSecond,    \* turns counted as a second
  Objects,           \* the Binary Inputs
  Writable,          \* the properties of each of them that peers write
  Contexts,          \* the subscriptions peers ask for: [src, object, pid]
  Confirmed,         \* whether they ask for confirmed notifications: {TRUE, FALSE}
  Lifetimes,         \* the lifetimes they ask for, in seconds; 0 is indefinite
  NoPeer, NoSubscription, NotNotified

Slots == 0 .. MaxSubscriptions - 1
AddressIndex == 0 .. MaxAddresses - 1
NoAddress == 255   \* -1 in the uint8_t dest_index

Peers == {c.src : c \in Contexts}

ASSUME CovAssumption ==
  /\ MaxSubscriptions \in Nat \ {0}
  /\ MaxAddresses \in 1 .. NoAddress
  /\ MaxSubscriptions + MaxTransactions <= MaxInvokeID
  /\ LoopsPerSecond \in Nat \ {0}
  /\ Confirmed \subseteq BOOLEAN
  /\ Lifetimes \subseteq Nat
  /\ Writable \in [Objects -> SUBSET {"PRESENT_VALUE", "OUT_OF_SERVICE", "POLARITY"}]
  /\ NoPeer \notin Peers

VARIABLES
  COV_Subscriptions, COV_Addresses,
  objects,                       \* the Binary Inputs
  TSM_List, Current_Invoke_ID,
  fsm,                           \* cov_task_state and index of handler_cov_fsm
  turn, seconds_elapsed,         \* where the loop of server_task is
  owner,                         \* history: the peer that asked for a subscription
  heard                          \* history: the value last sent for it

cov == <<COV_Subscriptions, COV_Addresses, owner, heard>>
tsm == <<TSM_List, Current_Invoke_ID>>
vars == <<cov, objects, tsm, fsm, turn, seconds_elapsed>>

Notification == [dest : Peers, object : Objects, pid : {c.pid : c \in Contexts}]

Subscription ==
  [dest_index : AddressIndex \cup {NoAddress}, object : Objects,
   pid : {c.pid : c \in Contexts}, confirmed : BOOLEAN,
   invokeID : InvokeIDs \cup {0}, lifetime : Nat, send_requested : BOOLEAN]

ASSUME SubscriptionAssumption == NoSubscription \notin Subscription

BinaryInput ==
  [Present_Value : BOOLEAN, Polarity : BOOLEAN, Out_Of_Service : BOOLEAN,
   Change_Of_Value : BOOLEAN]

TypeOK ==
  /\ COV_Subscriptions \in [Slots -> Subscription \cup {NoSubscription}]
  /\ COV_Addresses \in [AddressIndex -> Peers \cup {NoPeer}]
  /\ objects \in [Objects -> BinaryInput]
  /\ TSM_List \in [Index -> Entry(Notification)]
  /\ Current_Invoke_ID \in InvokeIDs
  /\ fsm \in [state : {"IDLE", "MARK", "CLEAR", "FREE", "SEND"}, index : Slots]
  /\ turn \in {"receive", "tsm", "cov", "second"}
  /\ seconds_elapsed \in 0 .. LoopsPerSecond - 1
  /\ owner \in [Slots -> Peers \cup {NoPeer}]
  /\ heard \in [Slots -> (BOOLEAN \X BOOLEAN) \cup {NotNotified}]

Init ==
  /\ COV_Subscriptions = [i \in Slots |-> NoSubscription]
  /\ COV_Addresses = [a \in AddressIndex |-> NoPeer]
  /\ objects = [o \in Objects |->
       [Present_Value |-> FALSE, Polarity |-> FALSE, Out_Of_Service |-> FALSE,
        Change_Of_Value |-> FALSE]]
  /\ TSM_List = EmptyTable
  /\ Current_Invoke_ID = 1
  /\ fsm = [state |-> "IDLE", index |-> 0]
  /\ turn = "receive"
  /\ seconds_elapsed = 0
  /\ owner = [i \in Slots |-> NoPeer]
  /\ heard = [i \in Slots |-> NotNotified]

-----------------------------------------------------------------------------
(***************************************************************************)
(* The Binary Inputs.  A notification carries the present value, seen      *)
(* through the polarity, and the status flags, of which only out-of-service*)
(* ever changes.                                                           *)
(***************************************************************************)
Visible(o) ==
  <<objects[o].Present_Value # objects[o].Polarity, objects[o].Out_Of_Service>>

PresentValueSet(bi, value) ==
  LET raw == value # bi.Polarity
  IN  [bi EXCEPT !.Present_Value = raw,
                 !.Change_Of_Value = @ \/ bi.Present_Value # raw]

OutOfServiceSet(bi, value) ==
  [bi EXCEPT !.Out_Of_Service = value,
             !.Change_Of_Value = @ \/ bi.Out_Of_Service # value]

PolaritySet(bi, polarity) == [bi EXCEPT !.Polarity = polarity]

Written(bi, property, value) ==
  IF property = "PRESENT_VALUE" THEN PresentValueSet(bi, value)
  ELSE IF property = "OUT_OF_SERVICE" THEN OutOfServiceSet(bi, value)
  ELSE PolaritySet(bi, value)

-----------------------------------------------------------------------------
(***************************************************************************)
(* The tables of subscriptions and of addresses.                           *)
(***************************************************************************)
Valid(i) == COV_Subscriptions[i] # NoSubscription
FreeSlots == {i \in Slots : ~Valid(i)}

\* cov_address_get
Dest(sub) ==
  IF sub.dest_index \in AddressIndex THEN COV_Addresses[sub.dest_index] ELSE NoPeer

\* cov_address_add: the table and the index, NoAddress when the table is full
AddressAdded(addresses, src) ==
  LET same == {a \in AddressIndex : addresses[a] = src}
      free == {a \in AddressIndex : addresses[a] = NoPeer}
  IN  IF same # {} THEN [table |-> addresses, index |-> First(same)]
      ELSE IF free # {}
      THEN [table |-> [addresses EXCEPT ![First(free)] = src], index |-> First(free)]
      ELSE [table |-> addresses, index |-> NoAddress]

UsesSkipsLast(subs, a) ==
  \E i \in Slots \ {MaxSubscriptions - 1} :
    subs[i] # NoSubscription /\ subs[i].dest_index = a

UsesAlways(subs, a) == TRUE

Uses(subs, a) == \E i \in Slots : subs[i] # NoSubscription /\ subs[i].dest_index = a

\* cov_address_remove_unused
UnusedRemoved(addresses, subs) ==
  [a \in AddressIndex |-> IF Uses(subs, a) THEN addresses[a] ELSE NoPeer]

\* The subscriptions a request is taken to be about.  One without an address
\* is matched by a request from anybody.
MatchesAnyone(i, c) ==
  /\ Valid(i)
  /\ COV_Subscriptions[i].object = c.object
  /\ COV_Subscriptions[i].pid = c.pid

Matches(i, c) ==
  /\ Valid(i)
  /\ COV_Subscriptions[i].object = c.object
  /\ COV_Subscriptions[i].pid = c.pid
  /\ Dest(COV_Subscriptions[i]) \in {c.src, NoPeer}

ExistingUpToFree(c) == {i \in Slots : Matches(i, c) /\ \A j \in FreeSlots : i < j}
Existing(c) == {i \in Slots : Matches(i, c)}

\* The invoke ID of a subscription is given up together with it.
ReleasedKept(table, subs) == table

Released(table, subs) ==
  LET ids == {sub.invokeID : sub \in subs} \ {0}
  IN  [k \in Index |-> IF table[k].InvokeID \in ids
                       THEN [table[k] EXCEPT !.state = "IDLE", !.InvokeID = 0]
                       ELSE table[k]]

-----------------------------------------------------------------------------
(***************************************************************************)
(* First step of the loop: datalink_receive and what the message causes.   *)
(***************************************************************************)
Received == turn = "receive" /\ turn' = "tsm" /\ UNCHANGED <<fsm, seconds_elapsed>>

\* Nothing, or a message that changes nothing here.
ReceiveOther ==
  /\ Received
  /\ UNCHANGED <<cov, objects, tsm>>

WriteProperty(o, property, value) ==
  /\ Received
  /\ objects' = [objects EXCEPT ![o] = Written(@, property, value)]
  /\ UNCHANGED <<cov, tsm>>

\* An answer, on time or late, frees the invoke ID it carries.
ReceiveAnswer(id) ==
  /\ Received
  /\ TSM_List' = Free(TSM_List, id)
  /\ UNCHANGED <<cov, objects, Current_Invoke_ID>>

\* A request that finds its subscription or a free slot.
SubscribeCOV(c, confirmed, lifetime) ==
  LET i     == First(IF Existing(c) # {} THEN Existing(c) ELSE FreeSlots)
      added == AddressAdded(COV_Addresses, c.src)
  IN  /\ Received
      /\ c.object \in Objects
      /\ Existing(c) # {} \/ FreeSlots # {}
      /\ COV_Addresses' = added.table
      /\ COV_Subscriptions' = [COV_Subscriptions EXCEPT ![i] =
           [dest_index |-> added.index, object |-> c.object, pid |-> c.pid,
            confirmed |-> confirmed, invokeID |-> 0, lifetime |-> lifetime,
            send_requested |-> TRUE]]
      /\ TSM_List' = IF Existing(c) # {}
                     THEN Released(TSM_List, {COV_Subscriptions[i]}) ELSE TSM_List
      /\ owner' = [owner EXCEPT ![i] = c.src]
      /\ heard' = [heard EXCEPT ![i] = NotNotified]
      /\ UNCHANGED <<objects, Current_Invoke_ID>>

\* A request about an unknown object (a cancellation of it is refused in the
\* same way), or one there is no room for.
SubscribeRefused(c) ==
  /\ Received
  /\ c.object \notin Objects \/ (Existing(c) = {} /\ FreeSlots = {})
  /\ UNCHANGED <<cov, objects, tsm>>

CancelCOV(c) ==
  LET i == First(Existing(c))
  IN  /\ Received
      /\ c.object \in Objects
      /\ Existing(c) # {}
      /\ COV_Subscriptions' = [COV_Subscriptions EXCEPT ![i] = NoSubscription]
      /\ COV_Addresses' = UnusedRemoved(COV_Addresses, COV_Subscriptions')
      /\ TSM_List' = Released(TSM_List, {COV_Subscriptions[i]})
      /\ owner' = [owner EXCEPT ![i] = NoPeer]
      /\ heard' = [heard EXCEPT ![i] = NotNotified]
      /\ UNCHANGED <<objects, Current_Invoke_ID>>

\* Acknowledged, or refused for want of room it does not need: in either case
\* nothing changes.
CancelUnknown(c) ==
  /\ Received
  /\ c.object \in Objects
  /\ Existing(c) = {}
  /\ UNCHANGED <<cov, objects, tsm>>

-----------------------------------------------------------------------------
\* Second step of the loop.
TsmTimer ==
  /\ turn = "tsm" /\ turn' = "cov"
  /\ TSM_List' = TimerCall(TSM_List)
  /\ UNCHANGED <<cov, objects, Current_Invoke_ID, fsm, seconds_elapsed>>

(***************************************************************************)
(* Third step of the loop: handler_cov_fsm looks at one subscription.      *)
(***************************************************************************)
Step(state) ==
  /\ turn = "cov" /\ turn' = "second"
  /\ fsm.state = state
  /\ UNCHANGED seconds_elapsed

\* On to the next subscription, or after the last one to the next state.
Advance(next) ==
  fsm' = IF fsm.index + 1 < MaxSubscriptions
         THEN [fsm EXCEPT !.index = @ + 1]
         ELSE [state |-> next, index |-> 0]

This == COV_Subscriptions[fsm.index]
Requested == This # NoSubscription /\ This.send_requested

CovIdle ==
  /\ Step("IDLE")
  /\ fsm' = [state |-> "MARK", index |-> 0]
  /\ UNCHANGED <<cov, objects, tsm>>

CovMark ==
  /\ Step("MARK") /\ Advance("CLEAR")
  /\ COV_Subscriptions' =
       IF This # NoSubscription /\ objects[This.object].Change_Of_Value
       THEN [COV_Subscriptions EXCEPT ![fsm.index].send_requested = TRUE]
       ELSE COV_Subscriptions
  /\ UNCHANGED <<COV_Addresses, owner, heard, objects, tsm>>

ToClearUnrequested == This # NoSubscription
ToClear == Requested

CovClear ==
  /\ Step("CLEAR") /\ Advance("FREE")
  /\ objects' = IF ToClear
                THEN [objects EXCEPT ![This.object].Change_Of_Value = FALSE]
                ELSE objects
  /\ UNCHANGED <<cov, tsm>>

ConcludedOnlyAnswered == IsFree(TSM_List, This.invokeID)
Concluded == IsFree(TSM_List, This.invokeID) \/ IsFailed(TSM_List, This.invokeID)

CovFree ==
  /\ Step("FREE") /\ Advance("SEND")
  /\ IF This # NoSubscription /\ This.confirmed /\ This.invokeID # 0 /\ Concluded
     THEN /\ COV_Subscriptions' = [COV_Subscriptions EXCEPT ![fsm.index].invokeID = 0]
          /\ TSM_List' = Free(TSM_List, This.invokeID)
     ELSE UNCHANGED <<COV_Subscriptions, TSM_List>>
  /\ UNCHANGED <<COV_Addresses, owner, heard, objects, Current_Invoke_ID>>

\* Nothing holds the requested notification back.
MaySend ==
  /\ Requested
  /\ Dest(This) # NoPeer
  /\ This.confirmed => This.invokeID = 0 /\ TransactionAvailable(TSM_List)

CovSendNothing ==
  /\ Step("SEND") /\ Advance("IDLE")
  /\ ~MaySend
  /\ UNCHANGED <<cov, objects, tsm>>

\* sent is what datalink_send_pdu returns.
CovSendUnconfirmed(sent) ==
  /\ Step("SEND") /\ Advance("IDLE")
  /\ MaySend /\ ~This.confirmed
  /\ COV_Subscriptions' = [COV_Subscriptions EXCEPT ![fsm.index].send_requested = ~sent]
  /\ heard' = IF sent THEN [heard EXCEPT ![fsm.index] = Visible(This.object)] ELSE heard
  /\ UNCHANGED <<COV_Addresses, owner, objects, tsm>>

CovSendConfirmed(sent) ==
  LET id     == NextUnused(TSM_List, Current_Invoke_ID)
      notice == [dest |-> Dest(This), object |-> This.object, pid |-> This.pid]
  IN  /\ Step("SEND") /\ Advance("IDLE")
      /\ MaySend /\ This.confirmed
      /\ TSM_List' = SetTransaction(Reserve(TSM_List, id), id, notice)
      /\ Current_Invoke_ID' = Successor(id)
      /\ COV_Subscriptions' = [COV_Subscriptions EXCEPT
           ![fsm.index].invokeID = id, ![fsm.index].send_requested = ~sent]
      /\ heard' = IF sent THEN [heard EXCEPT ![fsm.index] = Visible(This.object)]
                  ELSE heard
      /\ UNCHANGED <<COV_Addresses, owner, objects>>

-----------------------------------------------------------------------------
(***************************************************************************)
(* Fourth step of the loop: handler_cov_timer_seconds once a second.       *)
(***************************************************************************)
LoopEnd == turn = "second" /\ turn' = "receive" /\ UNCHANGED fsm

NotYetASecond ==
  /\ LoopEnd
  /\ seconds_elapsed + 1 < LoopsPerSecond
  /\ seconds_elapsed' = seconds_elapsed + 1
  /\ UNCHANGED <<cov, objects, tsm>>

AgedAll(sub) == [sub EXCEPT !.lifetime = @ - 1]
Aged(sub) == IF sub.lifetime = 0 THEN sub ELSE [sub EXCEPT !.lifetime = @ - 1]

Expired == {i \in Slots : Valid(i) /\ COV_Subscriptions[i].lifetime = 1}

SecondPassed ==
  /\ LoopEnd
  /\ seconds_elapsed + 1 >= LoopsPerSecond
  /\ seconds_elapsed' = 0
  /\ COV_Subscriptions' = [i \in Slots |->
       IF Valid(i) /\ i \notin Expired THEN Aged(COV_Subscriptions[i]) ELSE NoSubscription]
  /\ COV_Addresses' = IF Expired = {} THEN COV_Addresses
                      ELSE UnusedRemoved(COV_Addresses, COV_Subscriptions')
  /\ TSM_List' = Released(TSM_List,
       {COV_Subscriptions[i] : i \in {j \in Expired : COV_Subscriptions[j].confirmed}})
  /\ owner' = [i \in Slots |-> IF i \in Expired THEN NoPeer ELSE owner[i]]
  /\ heard' = [i \in Slots |-> IF i \in Expired THEN NotNotified ELSE heard[i]]
  /\ UNCHANGED <<objects, Current_Invoke_ID>>

-----------------------------------------------------------------------------
Receive ==
  \/ ReceiveOther
  \/ \E o \in Objects, v \in BOOLEAN : \E p \in Writable[o] : WriteProperty(o, p, v)
  \/ \E id \in InvokeIDs : ReceiveAnswer(id)
  \/ \E c \in Contexts, confirmed \in Confirmed, lifetime \in Lifetimes :
       SubscribeCOV(c, confirmed, lifetime)
  \/ \E c \in Contexts : SubscribeRefused(c) \/ CancelCOV(c) \/ CancelUnknown(c)

CovTask ==
  \/ CovIdle \/ CovMark \/ CovClear \/ CovFree \/ CovSendNothing
  \/ \E sent \in BOOLEAN : CovSendUnconfirmed(sent) \/ CovSendConfirmed(sent)

Next == Receive \/ TsmTimer \/ CovTask \/ NotYetASecond \/ SecondPassed

Spec == Init /\ [][Next]_vars

\* server_task is an endless loop that waits for nobody for more than 50 ms.
FairSpec == Spec /\ WF_vars(Next)

-----------------------------------------------------------------------------
\* The address table holds exactly the addresses the subscriptions use, each
\* once: none is left behind when the last subscription of a peer is cancelled
\* or expires, whoever else shared it.
AddressTableExact ==
  /\ \A a \in AddressIndex : COV_Addresses[a] # NoPeer <=> Uses(COV_Subscriptions, a)
  /\ \A a, b \in AddressIndex :
       COV_Addresses[a] = COV_Addresses[b] /\ COV_Addresses[a] # NoPeer => a = b

\* While there is an address entry for every peer, a notification goes to the
\* peer that subscribed, also after slots and addresses have been reused.
NotifiesItsSubscriber ==
  \A i \in Slots : Valid(i) => Dest(COV_Subscriptions[i]) = owner[i]

\* A peer that subscribes again finds its subscription wherever it is: no peer
\* is notified twice of one thing.
NoDuplicateSubscription ==
  \A i, j \in Slots :
    /\ Valid(i) /\ Valid(j)
    /\ owner[i] = owner[j]
    /\ COV_Subscriptions[i].object = COV_Subscriptions[j].object
    /\ COV_Subscriptions[i].pid = COV_Subscriptions[j].pid
    => i = j

Sending(i) ==
  Valid(i) /\ COV_Subscriptions[i].confirmed /\ COV_Subscriptions[i].invokeID # 0

\* Every transaction in use is the notification of exactly one subscription
\* that is still valid and still confirmed: a cancelled, expired or replaced
\* subscription leaves no transaction behind to be sent again, and two
\* subscriptions never wait for the same invoke ID.
TransactionsAreOwned ==
  /\ \A k \in Index : TSM_List[k].InvokeID # 0 =>
       \E i \in Slots :
         /\ Sending(i)
         /\ COV_Subscriptions[i].invokeID = TSM_List[k].InvokeID
         /\ TSM_List[k].apdu = [dest |-> owner[i], object |-> COV_Subscriptions[i].object,
                                pid |-> COV_Subscriptions[i].pid]
  /\ \A i, j \in Slots :
       Sending(i) /\ Sending(j)
       /\ COV_Subscriptions[i].invokeID = COV_Subscriptions[j].invokeID => i = j

\* A subscription ends, or is taken over, only by its own subscriber or when
\* its lifetime is over: the request must match the address as well.
OnlySubscriberOrTimeEnds ==
  [][\A i \in Slots :
       Valid(i) /\ owner'[i] # owner[i] =>
         \/ COV_Subscriptions[i].lifetime = 1 /\ turn = "second"
         \/ \E c \in Contexts :
              c.src = owner[i] /\ CancelCOV(c)]_vars

\* What the COV task still has to do for a change is never forgotten: unless
\* the subscriber has been sent the current value, its notification is
\* requested or the object is still flagged as changed.
ChangeIsPending ==
  \A i \in Slots : Valid(i) =>
    LET sub == COV_Subscriptions[i]
    IN  \/ heard[i] = Visible(sub.object)
        \/ sub.send_requested
        \/ objects[sub.object].Change_Of_Value

\* From now on nothing is written or subscribed, and what is sent leaves.
QuietStep ==
  /\ turn = "receive" => UNCHANGED <<objects, COV_Subscriptions>>
  /\ turn = "cov" /\ fsm.state = "SEND" /\ MaySend =>
       ~COV_Subscriptions'[fsm.index].send_requested

Quiet == <>[][QuietStep]_vars

\* Once things are quiet every subscriber is sent the current value, even if
\* no peer ever acknowledges anything and transactions are scarce.
EventuallyConsistent ==
  Quiet => \A i \in Slots :
    <>[](Valid(i) => heard[i] = Visible(COV_Subscriptions[i].object))
=============================================================================
